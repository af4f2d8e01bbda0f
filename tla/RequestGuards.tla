---------------------------- MODULE RequestGuards ----------------------------
(***************************************************************************)
(* The Echo middlewares VerifCsrf, VerifIdemKey and RevokeToken, chained in   *)
(* the order the service registers them, in front of its handler.  Each asks  *)
(* Redis by GetRedis; VerifIdemKey then stores the key by StoreRedis, in a    *)
(* command of its own.  Requests run concurrently, keys expire, and others    *)
(* change the token and the revocation (of one session, of one merchant).     *)
(*                                                                         *)
(* Redis and the network are external: a command is executed and answered,    *)
(* fails without effect, or is executed and the answer lost.                  *)
(***************************************************************************)
EXTENDS Naturals, Sequences

CONSTANTS
  Request,   \* the requests
  Key,       \* their idempotency keys, each the MD5 of a body
  KeyOf,     \* the key of each request; a retry has the key of the first
  Chains     \* the orders in which a service may chain the middlewares

ASSUME ConstAssumption ==
  /\ KeyOf \in [Request -> Key]
  /\ Chains \subseteq Seq({"csrf", "idem", "revoke"}) \ {<<>>}

VARIABLES
  chain,       \* the order of this service
  token,       \* "csrf-<token>" is in Redis
  revocation,  \* the value of "revoke_token_<merchant>"
  entries,     \* the idempotency keys in Redis
  pos,         \* how many middlewares each request has passed
  step,        \* where it is there, at last the status it is answered with
  barred,      \* the middlewares that have had reason to stop it ever since it came
  lost         \* the requests for whose StoreRedis the answer was lost

redisVars   == <<token, revocation, entries>>
requestVars == <<pos, step>>
vars == <<chain, redisVars, requestVars, barred, lost>>

(* What RevokeToken may find; only the status of a blacklisted, suspended or   *)
(* closed merchant (listStatusRevoke) revokes.                                 *)
Revocation == {"none", "harmless", "revoking", "malformed"}

(* Where a request is between two commands: about to ask Redis, about to store   *)
(* its key, or with the key in Redis and the answer on its way.                 *)
Busy == {"ask", "store", "stored"}

Statuses == {"handled", "badRequest", "unauthorized", "inProcess", "error"}

TypeOK ==
  /\ chain \in Chains
  /\ token \in BOOLEAN
  /\ revocation \in Revocation
  /\ entries \in SUBSET Key
  /\ pos \in [Request -> 0 .. Len(chain)]
  /\ step \in [Request -> {"new"} \cup Busy \cup Statuses]
  /\ \A r \in Request : step[r] \in Busy => pos[r] < Len(chain)
  /\ barred \in [Request -> SUBSET {"csrf", "idem", "revoke"}]
  /\ lost \in SUBSET Request

Init ==
  /\ chain \in Chains
  /\ token \in BOOLEAN
  /\ revocation \in Revocation
  /\ entries = {}
  /\ pos = [r \in Request |-> 0]
  /\ step = [r \in Request |-> "new"]
  /\ barred = [r \in Request |-> {}]
  /\ lost = {}

-----------------------------------------------------------------------------
(* The way of a request.                                                    *)

Arrive(r) ==
  /\ step[r] = "new"
  /\ step' = [step EXCEPT ![r] = "ask"]
  /\ barred' = [barred EXCEPT ![r] =
                  {g \in {"csrf", "idem", "revoke"} :
                     CASE g = "csrf"   -> ~token
                       [] g = "idem"   -> KeyOf[r] \in entries
                       [] g = "revoke" -> revocation \in {"revoking", "malformed"}}]
  /\ UNCHANGED <<chain, redisVars, pos, lost>>

Asks(r, guard) == step[r] = "ask" /\ chain[pos[r] + 1] = guard

Answer(r, status) ==
  /\ step' = [step EXCEPT ![r] = status]
  /\ UNCHANGED pos

(* Mutant: the handler is not recognised as the last of the chain. *)
CallNextOneMore(r) ==
  /\ pos' = [pos EXCEPT ![r] = @ + 1]
  /\ step' = [step EXCEPT ![r] = IF pos[r] = Len(chain) THEN "handled" ELSE "ask"]

(* next(c): the following middleware, or the handler. *)
CallNext(r) ==
  /\ pos' = [pos EXCEPT ![r] = @ + 1]
  /\ step' = [step EXCEPT ![r] = IF pos[r] + 1 = Len(chain) THEN "handled" ELSE "ask"]

(* A header that fails validation, or a Session that is no number. *)
ValidateHeader(r) ==
  /\ Asks(r, "csrf") \/ Asks(r, "idem")
  /\ Answer(r, "badRequest")
  /\ UNCHANGED <<chain, redisVars, barred, lost>>

(* A body whose MD5 is not the key, or that cannot be read. *)
ReadBody(r) ==
  /\ Asks(r, "idem")
  /\ \E status \in {"badRequest", "error"} : Answer(r, status)
  /\ UNCHANGED <<chain, redisVars, barred, lost>>

(* A token that is missing, not signed by the key, incomplete or expired. *)
ParseToken(r) ==
  /\ Asks(r, "revoke")
  /\ Answer(r, "unauthorized")
  /\ UNCHANGED <<chain, redisVars, barred, lost>>

(* GetRedis returns an error other than "redis: nil". *)
GetFails(r) ==
  /\ step[r] = "ask"
  /\ Answer(r, "error")
  /\ UNCHANGED <<chain, redisVars, barred, lost>>

VerifCsrf(r) ==
  /\ Asks(r, "csrf")
  /\ IF token THEN CallNext(r) ELSE Answer(r, "unauthorized")
  /\ UNCHANGED <<chain, redisVars, barred, lost>>

(* Mutant: a revocation that cannot be decoded lets the request pass. *)
RevokeTokenLenient(r) ==
  /\ Asks(r, "revoke")
  /\ IF revocation = "revoking" THEN Answer(r, "unauthorized") ELSE CallNext(r)
  /\ UNCHANGED <<chain, redisVars, barred, lost>>

RevokeToken(r) ==
  /\ Asks(r, "revoke")
  /\ CASE revocation \in {"none", "harmless"} -> CallNext(r)
       [] revocation = "revoking"             -> Answer(r, "unauthorized")
       [] revocation = "malformed"            -> Answer(r, "error")
  /\ UNCHANGED <<chain, redisVars, barred, lost>>

(* Mutant: the look-up leaves the key behind, as a SET NX would. *)
VerifIdemKeyReserves(r) ==
  /\ Asks(r, "idem")
  /\ IF KeyOf[r] \in entries
       THEN Answer(r, "inProcess")
       ELSE step' = [step EXCEPT ![r] = "store"] /\ UNCHANGED pos
  /\ entries' = entries \cup {KeyOf[r]}
  /\ UNCHANGED <<chain, token, revocation, barred, lost>>

(* A stored key is answered with "in process"; otherwise the key is stored next. *)
VerifIdemKey(r) ==
  /\ Asks(r, "idem")
  /\ IF KeyOf[r] \in entries
       THEN Answer(r, "inProcess")
       ELSE step' = [step EXCEPT ![r] = "store"] /\ UNCHANGED pos
  /\ UNCHANGED <<chain, redisVars, barred, lost>>

(* Redis executes the SET; the request does not know yet. *)
StoreKey(r) ==
  /\ step[r] = "store"
  /\ entries' = entries \cup {KeyOf[r]}
  /\ step' = [step EXCEPT ![r] = "stored"]
  /\ UNCHANGED <<chain, token, revocation, pos, barred, lost>>

(* The SET is answered, and VerifIdemKey calls next(c). *)
StoreAnswered(r) ==
  /\ step[r] = "stored"
  /\ CallNext(r)
  /\ UNCHANGED <<chain, redisVars, barred, lost>>

(* StoreRedis fails and Redis has not executed the SET. *)
StoreFails(r) ==
  /\ step[r] = "store"
  /\ Answer(r, "error")
  /\ UNCHANGED <<chain, redisVars, barred, lost>>

(* The key is stored, and StoreRedis returns a timeout. *)
StoreAnswerLost(r) ==
  /\ step[r] = "stored"
  /\ lost' = lost \cup {r}
  /\ Answer(r, "error")
  /\ UNCHANGED <<chain, redisVars, barred>>

-----------------------------------------------------------------------------
(* What happens meanwhile.  Whoever ends a reason clears it in "barred".      *)

NoLonger(guard, rs) ==
  barred' = [r \in Request |-> IF r \in rs THEN barred[r] \ {guard} ELSE barred[r]]

KeyExpires(k) ==
  /\ k \in entries
  /\ entries' = entries \ {k}
  /\ NoLonger("idem", {r \in Request : KeyOf[r] = k})
  /\ UNCHANGED <<chain, token, revocation, requestVars, lost>>

TokenChanges ==
  /\ token' = ~token
  /\ NoLonger("csrf", IF token' THEN Request ELSE {})
  /\ UNCHANGED <<chain, revocation, entries, requestVars, lost>>

RevocationChanges ==
  /\ revocation' \in Revocation \ {revocation}
  /\ NoLonger("revoke", IF revocation' \in {"none", "harmless"} THEN Request ELSE {})
  /\ UNCHANGED <<chain, token, entries, requestVars, lost>>

-----------------------------------------------------------------------------

Guard(r) ==
  \/ ValidateHeader(r) \/ ReadBody(r) \/ ParseToken(r) \/ GetFails(r)
  \/ VerifCsrf(r) \/ RevokeToken(r) \/ VerifIdemKey(r)
  \/ StoreKey(r) \/ StoreAnswered(r) \/ StoreFails(r) \/ StoreAnswerLost(r)

Next ==
  \/ \E r \in Request : Arrive(r) \/ Guard(r)
  \/ \E k \in Key : KeyExpires(k)
  \/ TokenChanges \/ RevocationChanges

Spec == Init /\ [][Next]_vars

-----------------------------------------------------------------------------
(* Properties.                                                              *)

(* Whatever commands fail and whatever runs beside it, a request for which    *)
(* one of the middlewares had a reason to stop it from its arrival on does not *)
(* reach the handler: no token, a revoked merchant, its key stored.            *)
BarredNeverHandled ==
  \A r \in Request : step[r] = "handled" =>
    \A i \in DOMAIN chain : chain[i] \notin barred[r]

(* The request has passed VerifIdemKey. *)
Passed(r) == \E i \in 1 .. pos[r] : chain[i] = "idem"

(* The service registers VerifIdemKey once at most. *)
KeyOnce ==
  \A i, j \in DOMAIN chain : chain[i] = "idem" /\ chain[j] = "idem" => i = j

(* The request has been handled, or may yet be: its key is stored and it goes on. *)
HandledOrComing(q) ==
  \/ step[q] \in {"handled", "stored"}
  \/ step[q] = "ask" /\ Passed(q)

(* Its key is stored and it will never be handled: VerifIdemKey did not hear of  *)
(* the SET, or a middleware behind VerifIdemKey refused it.                      *)
StoredInVain(q) ==
  \/ q \in lost
  \/ Passed(q) /\ step[q] \in {"badRequest", "unauthorized", "error"}

(* A request is told "your request in process" (response.go:41) only because of  *)
(* another one of its key, which was handled, or is on its way to the handler,    *)
(* or has stored the key in vain in one of the two ways above; never because of   *)
(* itself, or of a request that was refused or failed before its SET.             *)
InProcessHasCause ==
  KeyOnce =>
    \A r \in Request : step[r] = "inProcess" =>
      \E q \in Request \ {r} : KeyOf[q] = KeyOf[r] /\ (HandledOrComing(q) \/ StoredInVain(q))

-----------------------------------------------------------------------------
(* What the source says and the code does not do (see the README), and when    *)
(* it does.                                                                   *)

(* "no doouble request" (idempotency-key.go:2): of the requests of one key one *)
(* at most goes to the handler.                                               *)
HandledOnce ==
  \A r, q \in Request :
    KeyOf[r] = KeyOf[q] /\ step[r] = "handled" /\ step[q] = "handled" => r = q

(* "your request in process": what a client is told is true, in that another    *)
(* request of its key was handled or may yet be.                               *)
InProcessIsTrue ==
  \A r \in Request : step[r] = "inProcess" =>
    \E q \in Request \ {r} : KeyOf[q] = KeyOf[r] /\ HandledOrComing(q)

Overlaps(r) == \E q \in Request \ {r} : KeyOf[q] = KeyOf[r] /\ step[q] \in Busy

(* The service of whose clients each waits for the answer before it retries, and   *)
(* retries before the key expires.                                               *)
SerialNext ==
  \/ \E r \in Request : (Arrive(r) /\ ~Overlaps(r)) \/ Guard(r)
  \/ TokenChanges \/ RevocationChanges

SerialSpec == Init /\ [][SerialNext]_vars
=============================================================================
