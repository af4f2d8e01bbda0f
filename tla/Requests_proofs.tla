-------------------------- MODULE Requests_proofs --------------------------
(***************************************************************************)
(* Theorems about the requests that come into a service and those it sends to  *)
(* the object store.  RequestGuards: for any number of requests and any chain  *)
(* of the middlewares.  S3Client: for any calls and files of any length.       *)
(* The two share no state; each part below speaks of one of them.              *)
(***************************************************************************)
EXTENDS RequestGuards, S3Client, TLAPS

-----------------------------------------------------------------------------
(* RequestGuards: nobody passes whom a middleware has reason to stop.         *)

Guards == {"csrf", "idem", "revoke"}

(* What barred says is true now: each reason has lasted. *)
ReasonsLast ==
  \A r \in Request :
    /\ "csrf" \in barred[r]   => ~token
    /\ "idem" \in barred[r]   => KeyOf[r] \in entries
    /\ "revoke" \in barred[r] => revocation \in {"revoking", "malformed"}

(* No middleware that a request has passed is one that bars it, nor is the one *)
(* that is about to store its key.                                            *)
PassedUnbarred ==
  \A r \in Request :
    /\ step[r] = "new" => pos[r] = 0
    /\ step[r] \in {"store", "stored", "inProcess"} =>
         pos[r] < Len(chain) /\ chain[pos[r] + 1] = "idem"
    /\ step[r] \in {"store", "stored"} => "idem" \notin barred[r]
    /\ step[r] = "handled" => pos[r] = Len(chain)
    /\ \A i \in 1 .. pos[r] : chain[i] \notin barred[r]

IInv == TypeOK /\ ReasonsLast /\ PassedUnbarred

(* Whose key is in Redis because of it, now or before it expired. *)
Stored(q) == step[q] = "stored" \/ Passed(q) \/ q \in lost

(* A key that is in Redis, or that somebody was told is in process, was stored  *)
(* by a request; no answer to a SET is lost but with an error.                 *)
KeysStored ==
  /\ \A r \in Request : KeyOf[r] \in entries \/ step[r] = "inProcess" =>
       \E q \in Request : KeyOf[q] = KeyOf[r] /\ Stored(q)
  /\ \A q \in lost : step[q] = "error"

USE DEF Busy

-----------------------------------------------------------------------------

(* A chain is a nonempty sequence of the three middlewares. *)
LEMMA ChainIsSequence ==
  ASSUME TypeOK
  PROVE  /\ chain \in Seq(Guards)
         /\ Len(chain) \in Nat \ {0}
         /\ \A i \in 1 .. Len(chain) : chain[i] \in Guards
  <1>1. chain \in Seq(Guards) /\ chain # <<>>
    BY ConstAssumption DEF ConstAssumption, TypeOK, Guards
  <1> QED BY <1>1

(* The two ways a request goes on, as seen by the types. *)
LEMMA AnswerTypes ==
  ASSUME TypeOK, NEW r \in Request, NEW status \in Statuses, Answer(r, status)
  PROVE  /\ pos' = pos
         /\ step' \in [Request -> {"new"} \cup Busy \cup Statuses]
         /\ step'[r] = status
         /\ \A q \in Request \ {r} : step'[q] = step[q]
  BY DEF TypeOK, Answer

LEMMA CallNextTypes ==
  ASSUME TypeOK, NEW r \in Request, CallNext(r), step[r] \in Busy
  PROVE  /\ pos' \in [Request -> 0 .. Len(chain)]
         /\ pos'[r] = pos[r] + 1
         /\ step' \in [Request -> {"new"} \cup Busy \cup Statuses]
         /\ step'[r] \in {"ask", "handled"}
         /\ step'[r] = "ask" => pos'[r] < Len(chain)
         /\ step'[r] = "handled" => pos'[r] = Len(chain)
         /\ \A q \in Request \ {r} : pos'[q] = pos[q] /\ step'[q] = step[q]
  <1>1. Len(chain) \in Nat \ {0}
    BY ChainIsSequence
  <1>2. pos[r] \in 0 .. Len(chain) /\ pos[r] < Len(chain)
    BY DEF TypeOK
  <1> QED BY <1>1, <1>2 DEF TypeOK, CallNext, Statuses

-----------------------------------------------------------------------------
(* The invariant over a step in which one request moves.                    *)

(* A request that is answered leaves the invariant as it is, provided that no *)
(* reason ends.                                                             *)
LEMMA AnswerKeepsInv ==
  ASSUME IInv, NEW r \in Request, NEW status \in Statuses \ {"handled"}, Answer(r, status),
         step[r] \in Busy, status = "inProcess" => chain[pos[r] + 1] = "idem",
         UNCHANGED <<chain, token, revocation, barred>>,
         entries' \in SUBSET Key, entries \subseteq entries', lost' \in SUBSET Request
  PROVE  IInv'
  <1>1. /\ pos' = pos
        /\ step' \in [Request -> {"new"} \cup Busy \cup Statuses]
        /\ step'[r] = status
        /\ \A q \in Request \ {r} : step'[q] = step[q]
    BY AnswerTypes DEF IInv
  <1>2. TypeOK'
    BY <1>1 DEF IInv, TypeOK, Statuses
  <1>3. ReasonsLast'
    BY DEF IInv, ReasonsLast
  <1>4. pos[r] < Len(chain)
    BY DEF IInv, TypeOK
  <1>5. PassedUnbarred'
    BY <1>1, <1>4 DEF IInv, PassedUnbarred, Statuses
  <1> QED BY <1>2, <1>3, <1>5 DEF IInv

(* So does one that passes a middleware that does not bar it. *)
LEMMA CallNextKeepsInv ==
  ASSUME IInv, NEW r \in Request, CallNext(r), step[r] \in Busy,
         chain[pos[r] + 1] \notin barred[r],
         UNCHANGED <<chain, token, revocation, barred>>,
         entries' \in SUBSET Key, entries \subseteq entries', lost' \in SUBSET Request
  PROVE  IInv'
  <1>1. /\ pos' \in [Request -> 0 .. Len(chain)]
        /\ pos'[r] = pos[r] + 1
        /\ step' \in [Request -> {"new"} \cup Busy \cup Statuses]
        /\ step'[r] \in {"ask", "handled"}
        /\ step'[r] = "ask" => pos'[r] < Len(chain)
        /\ step'[r] = "handled" => pos'[r] = Len(chain)
        /\ \A q \in Request \ {r} : pos'[q] = pos[q] /\ step'[q] = step[q]
    BY CallNextTypes DEF IInv
  <1>2. TypeOK'
    BY <1>1 DEF IInv, TypeOK
  <1>3. ReasonsLast'
    BY DEF IInv, ReasonsLast
  <1>4. PassedUnbarred'
    <2>1. pos[r] \in Nat /\ Len(chain) \in Nat
      BY ChainIsSequence DEF IInv, TypeOK
    <2>2. \A i \in 1 .. pos'[r] : chain[i] \notin barred[r]
      BY <1>1, <2>1 DEF IInv, PassedUnbarred
    <2> QED BY <1>1, <2>2 DEF IInv, PassedUnbarred
  <1> QED BY <1>2, <1>3, <1>4 DEF IInv

-----------------------------------------------------------------------------

LEMMA InitInv == Init => IInv
  <1> SUFFICES ASSUME Init PROVE IInv
    OBVIOUS
  <1>1. chain \in Seq(Guards) /\ chain # <<>>
    BY ConstAssumption DEF ConstAssumption, Init, Guards
  <1>2. Len(chain) \in Nat
    BY <1>1
  <1>3. 0 \in 0 .. Len(chain) /\ "new" \notin Busy
    BY <1>2
  <1>4. TypeOK
    BY <1>3 DEF Init, TypeOK, Revocation
  <1>5. ReasonsLast /\ PassedUnbarred
    BY DEF Init, ReasonsLast, PassedUnbarred
  <1> QED BY <1>4, <1>5 DEF IInv

LEMMA ArriveInv ==
  ASSUME IInv, NEW r \in Request, Arrive(r)
  PROVE  IInv'
  <1>1. pos[r] = 0 /\ Len(chain) \in Nat \ {0}
    BY ChainIsSequence DEF IInv, PassedUnbarred, Arrive
  <1>2. /\ "csrf" \in barred'[r] => ~token
        /\ "idem" \in barred'[r] => KeyOf[r] \in entries
        /\ "revoke" \in barred'[r] => revocation \in {"revoking", "malformed"}
        /\ barred' \in [Request -> SUBSET Guards]
        /\ \A q \in Request \ {r} : barred'[q] = barred[q]
    BY DEF IInv, TypeOK, Arrive, Guards
  <1>3. /\ step' \in [Request -> {"new"} \cup Busy \cup Statuses]
        /\ step'[r] = "ask"
        /\ \A q \in Request \ {r} : step'[q] = step[q]
        /\ UNCHANGED <<chain, token, revocation, entries, pos, lost>>
    BY DEF IInv, TypeOK, Arrive, redisVars
  <1>4. TypeOK'
    BY <1>1, <1>2, <1>3 DEF IInv, TypeOK, Guards
  <1>5. ReasonsLast'
    BY <1>2, <1>3 DEF IInv, ReasonsLast
  <1>6. PassedUnbarred'
    BY <1>1, <1>2, <1>3 DEF IInv, PassedUnbarred
  <1> QED BY <1>4, <1>5, <1>6 DEF IInv

LEMMA GuardInv ==
  ASSUME IInv, NEW r \in Request, Guard(r)
  PROVE  IInv'
  <1> USE DEF redisVars, Asks
  <1>0. entries \in SUBSET Key /\ lost \in SUBSET Request /\ KeyOf[r] \in Key
    BY ConstAssumption DEF ConstAssumption, IInv, TypeOK
  <1>1. CASE ValidateHeader(r) \/ ReadBody(r) \/ ParseToken(r) \/ GetFails(r) \/ StoreFails(r)
    <2>1. PICK status \in {"badRequest", "unauthorized", "error"} : Answer(r, status)
      BY <1>1 DEF ValidateHeader, ReadBody, ParseToken, GetFails, StoreFails
    <2>2. UNCHANGED <<chain, token, revocation, entries, barred, lost>> /\ step[r] \in Busy
      BY <1>1 DEF ValidateHeader, ReadBody, ParseToken, GetFails, StoreFails
    <2>3. status \in Statuses \ {"handled"}
      BY DEF Statuses
    <2> QED BY <1>0, <2>1, <2>2, <2>3, AnswerKeepsInv
  <1>2. CASE VerifCsrf(r)
    <2>1. CASE token
      <3>1. chain[pos[r] + 1] \notin barred[r]
        BY <1>2, <2>1 DEF IInv, ReasonsLast, VerifCsrf
      <3> QED BY <1>0, <1>2, <2>1, <3>1, CallNextKeepsInv DEF VerifCsrf
    <2>2. CASE ~token
      <3>1. Answer(r, "unauthorized") /\ "unauthorized" \in Statuses \ {"handled"}
        BY <1>2, <2>2 DEF VerifCsrf, Statuses
      <3> QED BY <1>0, <1>2, <3>1, AnswerKeepsInv DEF VerifCsrf
    <2> QED BY <2>1, <2>2
  <1>3. CASE RevokeToken(r)
    <2>1. CASE revocation \in {"none", "harmless"}
      <3>1. chain[pos[r] + 1] \notin barred[r]
        BY <1>3, <2>1 DEF IInv, ReasonsLast, RevokeToken
      <3>2. CallNext(r)
        BY <1>3, <2>1 DEF RevokeToken
      <3> QED BY <1>0, <1>3, <3>1, <3>2, CallNextKeepsInv DEF RevokeToken
    <2>2. CASE revocation \in {"revoking", "malformed"}
      <3>1. PICK status \in {"unauthorized", "error"} : Answer(r, status)
        BY <1>3, <2>2 DEF RevokeToken
      <3>2. status \in Statuses \ {"handled"}
        BY DEF Statuses
      <3> QED BY <1>0, <1>3, <3>1, <3>2, AnswerKeepsInv DEF RevokeToken
    <2> QED BY <2>1, <2>2 DEF IInv, TypeOK, Revocation
  <1>4. CASE VerifIdemKey(r)
    <2>1. CASE KeyOf[r] \in entries
      <3>1. /\ Answer(r, "inProcess") /\ "inProcess" \in Statuses \ {"handled"}
            /\ chain[pos[r] + 1] = "idem"
        BY <1>4, <2>1 DEF VerifIdemKey, Statuses
      <3> QED BY <1>0, <1>4, <3>1, AnswerKeepsInv DEF VerifIdemKey
    <2>2. CASE KeyOf[r] \notin entries
      <3>1. /\ step' = [step EXCEPT ![r] = "store"]
            /\ step[r] = "ask" /\ chain[pos[r] + 1] = "idem"
            /\ UNCHANGED <<chain, token, revocation, entries, pos, barred, lost>>
        BY <1>4, <2>2 DEF VerifIdemKey
      <3>2. "idem" \notin barred[r]
        BY <2>2 DEF IInv, ReasonsLast
      <3>3. TypeOK'
        BY <3>1 DEF IInv, TypeOK
      <3>4. ReasonsLast'
        BY <3>1 DEF IInv, ReasonsLast
      <3>5. PassedUnbarred'
        BY <3>1, <3>2 DEF IInv, TypeOK, PassedUnbarred
      <3> QED BY <3>3, <3>4, <3>5 DEF IInv
    <2> QED BY <2>1, <2>2
  <1>5. CASE StoreKey(r)
    <2>1. /\ step' = [step EXCEPT ![r] = "stored"] /\ step[r] = "store"
          /\ entries' = entries \cup {KeyOf[r]}
          /\ UNCHANGED <<chain, token, revocation, pos, barred, lost>>
      BY <1>5 DEF StoreKey
    <2>2. TypeOK'
      BY <1>0, <2>1 DEF IInv, TypeOK
    <2>3. ReasonsLast'
      BY <2>1 DEF IInv, ReasonsLast
    <2>4. PassedUnbarred'
      BY <2>1 DEF IInv, TypeOK, PassedUnbarred
    <2> QED BY <2>2, <2>3, <2>4 DEF IInv
  <1>6. CASE StoreAnswered(r)
    <2>1. chain[pos[r] + 1] \notin barred[r]
      BY <1>6 DEF IInv, PassedUnbarred, StoreAnswered
    <2> QED BY <1>0, <1>6, <2>1, CallNextKeepsInv DEF StoreAnswered
  <1>7. CASE StoreAnswerLost(r)
    <2>1. "error" \in Statuses \ {"handled", "inProcess"}
      BY DEF Statuses
    <2> QED BY <1>0, <1>7, <2>1, AnswerKeepsInv DEF StoreAnswerLost
  <1> QED BY <1>1, <1>2, <1>3, <1>4, <1>5, <1>6, <1>7 DEF Guard

(* What others do ends a reason only together with what barred says of it. *)
LEMMA OthersInv ==
  ASSUME IInv,
         (\E k \in Key : KeyExpires(k)) \/ TokenChanges \/ RevocationChanges
  PROVE  IInv'
  <1> USE DEF NoLonger, requestVars
  <1>1. /\ barred' \in [Request -> SUBSET Guards]
        /\ \A r \in Request : barred'[r] \subseteq barred[r]
        /\ UNCHANGED <<chain, pos, step, lost>>
    BY DEF IInv, TypeOK, Guards, KeyExpires, TokenChanges, RevocationChanges
  <1>2. TypeOK'
    BY <1>1 DEF IInv, TypeOK, Guards, KeyExpires, TokenChanges, RevocationChanges
  <1>3. ReasonsLast'
    <2>1. CASE \E k \in Key : KeyExpires(k)
      BY <2>1 DEF IInv, TypeOK, ReasonsLast, KeyExpires
    <2>2. CASE TokenChanges
      BY <2>2 DEF IInv, TypeOK, ReasonsLast, TokenChanges
    <2>3. CASE RevocationChanges
      BY <2>3 DEF IInv, TypeOK, ReasonsLast, RevocationChanges, Revocation
    <2> QED BY <2>1, <2>2, <2>3
  <1>4. PassedUnbarred'
    BY <1>1 DEF IInv, PassedUnbarred
  <1> QED BY <1>2, <1>3, <1>4 DEF IInv

LEMMA StepInv == IInv /\ [Next]_vars => IInv'
  <1> SUFFICES ASSUME IInv, [Next]_vars PROVE IInv'
    OBVIOUS
  <1>1. CASE \E r \in Request : Arrive(r) \/ Guard(r)
    BY <1>1, ArriveInv, GuardInv
  <1>2. CASE (\E k \in Key : KeyExpires(k)) \/ TokenChanges \/ RevocationChanges
    BY <1>2, OthersInv
  <1>3. CASE UNCHANGED vars
    BY <1>3 DEF vars, redisVars, requestVars, IInv, TypeOK, ReasonsLast, PassedUnbarred
  <1> QED BY <1>1, <1>2, <1>3 DEF Next

(* The state of the requests and of Redis is always well-formed: no request   *)
(* runs past the end of the chain.                                            *)
THEOREM GuardTypes == Spec => []TypeOK
  <1>1. IInv => TypeOK
    BY DEF IInv
  <1> QED BY InitInv, StepInv, <1>1, PTL DEF Spec

(* However many requests run, in whatever order the middlewares are chained:  *)
(* a request that a middleware had reason to stop ever since it came is not    *)
(* handled (csrf.go:38, idempotency-key.go:93, revoke-token.go:144).           *)
THEOREM NothingBarredPasses == Spec => []BarredNeverHandled
  <1>1. IInv => BarredNeverHandled
    <2>1. IInv => DOMAIN chain = 1 .. Len(chain)
      BY ChainIsSequence DEF IInv
    <2> QED BY <2>1 DEF IInv, PassedUnbarred, BarredNeverHandled
  <1> QED BY InitInv, StepInv, <1>1, PTL DEF Spec

-----------------------------------------------------------------------------
(* What "in process" tells a client.                                        *)

(* Two ways of a request to go on, in terms of what it has passed. *)
LEMMA PassedUnchanged ==
  ASSUME UNCHANGED <<chain, pos>>
  PROVE  \A q \in Request : Passed(q)' <=> Passed(q)
  BY DEF Passed

(* Passing a middleware is passing VerifIdemKey only if it is VerifIdemKey. *)
LEMMA PassedNext ==
  ASSUME IInv, NEW r \in Request, step[r] \in Busy, CallNext(r), UNCHANGED chain
  PROVE  /\ Passed(r)' <=> Passed(r) \/ chain[pos[r] + 1] = "idem"
         /\ \A q \in Request \ {r} : (Passed(q)' <=> Passed(q)) /\ step'[q] = step[q]
         /\ step'[r] \in {"ask", "handled"}
  <1>1. /\ pos[r] \in Nat /\ pos'[r] = pos[r] + 1 /\ step'[r] \in {"ask", "handled"}
        /\ \A q \in Request \ {r} : pos'[q] = pos[q] /\ step'[q] = step[q]
    BY CallNextTypes, ChainIsSequence DEF IInv, TypeOK
  <1>2. \A i : i \in 1 .. pos'[r] <=> i \in 1 .. pos[r] \/ i = pos[r] + 1
    BY <1>1
  <1> QED BY <1>1, <1>2 DEF Passed

(* A request that has stored its key stays one, and a step that stores none and *)
(* answers nobody with "in process" keeps what is true of both.                *)
LEMMA StoredKeeps ==
  ASSUME KeysStored,
         \A q \in Request : Stored(q) => Stored(q)',
         \A q \in Request : KeyOf[q] \in entries' \/ step'[q] = "inProcess" =>
           \/ KeyOf[q] \in entries \/ step[q] = "inProcess"
           \/ \E p \in Request : KeyOf[p] = KeyOf[q] /\ Stored(p)',
         \A q \in lost' : step'[q] = "error"
  PROVE  KeysStored'
  BY DEF KeysStored

LEMMA StoredStep == IInv /\ KeysStored /\ [Next]_vars => KeysStored'
  <1> SUFFICES ASSUME IInv, KeysStored, [Next]_vars PROVE KeysStored'
    OBVIOUS
  <1> USE DEF redisVars, requestVars, Asks
  <1>1. ASSUME NEW r \in Request, Arrive(r) PROVE KeysStored'
    <2>1. /\ step' = [step EXCEPT ![r] = "ask"] /\ step[r] = "new"
          /\ UNCHANGED <<chain, pos, entries, lost>>
      BY <1>1 DEF Arrive
    <2>2. step'[r] = "ask" /\ \A q \in Request \ {r} : step'[q] = step[q]
      BY <2>1 DEF IInv, TypeOK
    <2>3. r \notin lost
      BY <2>1 DEF KeysStored
    <2>4. \A q \in Request : Stored(q) => Stored(q)'
      BY <2>1, <2>2, PassedUnchanged DEF Stored
    <2> QED BY <2>1, <2>2, <2>3, <2>4, StoredKeeps DEF KeysStored, IInv, TypeOK
  <1>2. ASSUME NEW r \in Request, NEW status \in Statuses, Answer(r, status),
               step[r] \in {"ask", "store"}, UNCHANGED <<chain, entries, lost>>,
               status = "inProcess" => KeyOf[r] \in entries
        PROVE  KeysStored'
    <2>1. /\ pos' = pos /\ step'[r] = status
          /\ \A q \in Request \ {r} : step'[q] = step[q]
      BY <1>2, AnswerTypes DEF IInv
    <2>2. r \notin lost
      BY <1>2 DEF KeysStored
    <2>3. \A q \in Request : Stored(q) => Stored(q)'
      BY <1>2, <2>1, PassedUnchanged DEF Stored
    <2> QED BY <1>2, <2>1, <2>2, <2>3, StoredKeeps DEF KeysStored, IInv, TypeOK
  <1>3. ASSUME NEW r \in Request, CallNext(r), step[r] \in {"ask", "stored"},
               step[r] = "stored" => chain[pos[r] + 1] = "idem",
               UNCHANGED <<chain, entries, lost>>
        PROVE  KeysStored'
    <2>1. /\ Passed(r)' <=> Passed(r) \/ chain[pos[r] + 1] = "idem"
          /\ \A q \in Request \ {r} : (Passed(q)' <=> Passed(q)) /\ step'[q] = step[q]
          /\ step'[r] \in {"ask", "handled"}
      BY <1>3, PassedNext
    <2>2. r \notin lost
      BY <1>3 DEF KeysStored
    <2>3. \A q \in Request : Stored(q) => Stored(q)'
      BY <1>3, <2>1 DEF Stored
    <2> QED BY <1>3, <2>1, <2>2, <2>3, StoredKeeps DEF KeysStored, IInv, TypeOK
  <1>4. ASSUME NEW r \in Request, Guard(r) PROVE KeysStored'
    <2>1. CASE ValidateHeader(r) \/ ReadBody(r) \/ ParseToken(r) \/ GetFails(r) \/ StoreFails(r)
      <3>1. PICK status \in {"badRequest", "unauthorized", "error"} : Answer(r, status)
        BY <2>1 DEF ValidateHeader, ReadBody, ParseToken, GetFails, StoreFails
      <3>2. step[r] \in {"ask", "store"} /\ UNCHANGED <<chain, entries, lost>>
        BY <2>1 DEF ValidateHeader, ReadBody, ParseToken, GetFails, StoreFails
      <3> QED BY <3>1, <3>2, <1>2 DEF Statuses
    <2>2. CASE VerifCsrf(r) \/ RevokeToken(r)
      <3>1. step[r] = "ask" /\ UNCHANGED <<chain, entries, lost>>
        BY <2>2 DEF VerifCsrf, RevokeToken
      <3>2. CallNext(r) \/ Answer(r, "unauthorized") \/ Answer(r, "error")
        BY <2>2 DEF VerifCsrf, RevokeToken, IInv, TypeOK, Revocation
      <3> QED BY <3>1, <3>2, <1>2, <1>3 DEF Statuses
    <2>3. CASE VerifIdemKey(r) /\ KeyOf[r] \in entries
      BY <2>3, <1>2 DEF VerifIdemKey, Statuses
    <2>4. CASE VerifIdemKey(r) /\ KeyOf[r] \notin entries
      <3>1. /\ step' = [step EXCEPT ![r] = "store"] /\ step[r] = "ask"
            /\ UNCHANGED <<chain, pos, entries, lost>>
        BY <2>4 DEF VerifIdemKey
      <3>2. step'[r] = "store" /\ \A q \in Request \ {r} : step'[q] = step[q]
        BY <3>1 DEF IInv, TypeOK
      <3>3. r \notin lost
        BY <3>1 DEF KeysStored
      <3>4. \A q \in Request : Stored(q) => Stored(q)'
        BY <3>1, <3>2, PassedUnchanged DEF Stored
      <3> QED BY <3>1, <3>2, <3>3, <3>4, StoredKeeps DEF KeysStored, IInv, TypeOK
    <2>5. CASE StoreKey(r)
      <3>1. /\ step' = [step EXCEPT ![r] = "stored"] /\ step[r] = "store"
            /\ UNCHANGED <<chain, pos, lost>> /\ entries' = entries \cup {KeyOf[r]}
        BY <2>5 DEF StoreKey
      <3>2. step'[r] = "stored" /\ \A q \in Request \ {r} : step'[q] = step[q]
        BY <3>1 DEF IInv, TypeOK
      <3>3. r \notin lost
        BY <3>1 DEF KeysStored
      <3>4. Stored(r)' /\ \A q \in Request : Stored(q) => Stored(q)'
        BY <3>1, <3>2, PassedUnchanged DEF Stored
      <3> QED BY <3>1, <3>2, <3>3, <3>4, StoredKeeps DEF KeysStored, IInv, TypeOK
    <2>6. CASE StoreAnswered(r)
      BY <2>6, <1>3 DEF StoreAnswered, IInv, PassedUnbarred
    <2>7. CASE StoreAnswerLost(r)
      <3>1. /\ Answer(r, "error") /\ UNCHANGED <<chain, entries>> /\ lost' = lost \cup {r}
            /\ "error" \in Statuses
        BY <2>7 DEF StoreAnswerLost, Statuses
      <3>2. /\ pos' = pos /\ step'[r] = "error"
            /\ \A q \in Request \ {r} : step'[q] = step[q]
        BY <3>1, AnswerTypes DEF IInv
      <3>3. \A q \in Request : Stored(q) => Stored(q)'
        BY <3>1, <3>2, PassedUnchanged DEF Stored
      <3> QED BY <3>1, <3>2, <3>3, StoredKeeps DEF KeysStored, IInv, TypeOK
    <2> QED BY <1>4, <2>1, <2>2, <2>3, <2>4, <2>5, <2>6, <2>7 DEF Guard
  <1>5. CASE (\E k \in Key : KeyExpires(k)) \/ TokenChanges \/ RevocationChanges
    <2>1. UNCHANGED <<chain, pos, step, lost>> /\ entries' \subseteq entries
      BY <1>5 DEF KeyExpires, TokenChanges, RevocationChanges
    <2>2. \A q \in Request : Stored(q) => Stored(q)'
      BY <2>1, PassedUnchanged DEF Stored
    <2> QED BY <2>1, <2>2, StoredKeeps DEF KeysStored
  <1>6. CASE UNCHANGED vars
    <2>1. \A q \in Request : Stored(q) => Stored(q)'
      BY <1>6, PassedUnchanged DEF Stored, vars
    <2> QED BY <1>6, <2>1, StoredKeeps DEF KeysStored, vars
  <1> QED BY <1>1, <1>4, <1>5, <1>6 DEF Next

(* Who stored its key is not the one that is told that it is in process, and is *)
(* handled, on its way, or one of those that stored it in vain.                *)
LEMMA StoredIsCause ==
  ASSUME IInv, KeysStored, KeyOnce, NEW q \in Request, Stored(q)
  PROVE  step[q] # "inProcess" /\ (HandledOrComing(q) \/ StoredInVain(q))
  <1>1. pos[q] \in Nat /\ Len(chain) \in Nat /\ pos[q] <= Len(chain)
        /\ DOMAIN chain = 1 .. Len(chain)
    BY ChainIsSequence DEF IInv, TypeOK
  <1>2. ASSUME Passed(q), step[q] \in {"store", "stored", "inProcess"} PROVE FALSE
    <2>1. PICK i \in 1 .. pos[q] : chain[i] = "idem"
      BY <1>2 DEF Passed
    <2>2. chain[pos[q] + 1] = "idem"
      BY <1>2 DEF IInv, PassedUnbarred
    <2>3. pos[q] < Len(chain)
      BY <1>2 DEF IInv, PassedUnbarred
    <2> QED BY <1>1, <2>1, <2>2, <2>3 DEF KeyOnce
  <1>3. Passed(q) => step[q] # "new"
    BY <1>1 DEF Passed, IInv, PassedUnbarred
  <1>4. step[q] \in {"new"} \cup Busy \cup Statuses
    BY DEF IInv, TypeOK
  <1>5. q \in lost => step[q] = "error"
    BY DEF KeysStored
  <1> QED BY <1>2, <1>3, <1>4, <1>5 DEF Stored, HandledOrComing, StoredInVain, Statuses

(* "your request in process" (response.go:41), in any chain that has           *)
(* VerifIdemKey once: some other request of the key was handled, is on its way, *)
(* or is one of those that stored the key in vain (idempotency-key.go:90-142).  *)
THEOREM InProcessExplained == Spec => []InProcessHasCause
  <1>1. Init => KeysStored
    BY DEF Init, KeysStored
  <1>2. IInv /\ KeysStored => InProcessHasCause
    <2> SUFFICES ASSUME IInv, KeysStored, KeyOnce, NEW r \in Request, step[r] = "inProcess"
                 PROVE  \E q \in Request \ {r} :
                          KeyOf[q] = KeyOf[r] /\ (HandledOrComing(q) \/ StoredInVain(q))
      BY DEF InProcessHasCause
    <2>1. PICK q \in Request : KeyOf[q] = KeyOf[r] /\ Stored(q)
      BY DEF KeysStored
    <2>2. q # r /\ (HandledOrComing(q) \/ StoredInVain(q))
      BY <2>1, StoredIsCause
    <2> QED BY <2>1, <2>2
  <1> QED BY InitInv, StepInv, StoredStep, <1>1, <1>2, PTL DEF Spec

-----------------------------------------------------------------------------
(* What VerifIdemKey promises where it can: clients that wait before they retry. *)

Rivals(r, q) == r # q /\ KeyOf[r] = KeyOf[q]

(* Who passed VerifIdemKey left the key; of the requests of one key one at most  *)
(* is under way, and one at most has passed or is about to.                      *)
SerialInv ==
  /\ \A r \in Request : Passed(r) \/ step[r] = "stored" => KeyOf[r] \in entries
  /\ \A r, q \in Request : Rivals(r, q) =>
       /\ ~(step[r] \in Busy /\ step[q] \in Busy)
       /\ ~(Passed(r) /\ Passed(q))
       /\ ~(step[r] \in {"store", "stored"} /\ Passed(q))

(* A step that starts no request, lets none look up its key and none pass      *)
(* VerifIdemKey keeps what is true of them.                                   *)
LEMMA QuietKeepsSerial ==
  ASSUME SerialInv, entries \subseteq entries',
         \A q \in Request : Passed(q)' => Passed(q),
         \A q \in Request : step'[q] \in Busy => step[q] \in Busy,
         \A q \in Request : step'[q] \in {"store", "stored"} => step'[q] = step[q]
  PROVE  SerialInv'
  BY DEF SerialInv, Rivals

LEMMA SerialStep == IInv /\ SerialInv /\ [SerialNext]_vars => SerialInv'
  <1> SUFFICES ASSUME IInv, SerialInv, [SerialNext]_vars PROVE SerialInv'
    OBVIOUS
  <1> USE DEF redisVars, requestVars
  <1>1. ASSUME NEW r \in Request, Arrive(r), ~Overlaps(r) PROVE SerialInv'
    <2>1. /\ step' = [step EXCEPT ![r] = "ask"] /\ UNCHANGED <<chain, pos, entries>>
          /\ step \in [Request -> {"new"} \cup Busy \cup Statuses]
      BY <1>1 DEF Arrive, IInv, TypeOK
    <2>2. /\ step'[r] = "ask"
          /\ \A q \in Request \ {r} : step'[q] = step[q]
          /\ \A q \in Request : Rivals(r, q) \/ Rivals(q, r) => step[q] \notin Busy
      BY <1>1, <2>1 DEF Overlaps, Rivals
    <2> QED BY <2>1, <2>2, PassedUnchanged DEF SerialInv, Rivals
  <1>2. ASSUME NEW r \in Request,
               ValidateHeader(r) \/ ReadBody(r) \/ ParseToken(r) \/ GetFails(r) \/ StoreFails(r)
               \/ StoreAnswerLost(r)
        PROVE  SerialInv'
    <2>1. PICK s \in {"badRequest", "unauthorized", "error"} : Answer(r, s)
      BY <1>2 DEF ValidateHeader, ReadBody, ParseToken, GetFails, StoreFails, StoreAnswerLost
    <2>2. UNCHANGED <<chain, pos>> /\ entries \subseteq entries'
      BY <1>2, <2>1 DEF ValidateHeader, ReadBody, ParseToken, GetFails, StoreFails,
                        StoreAnswerLost, Answer
    <2>3. \A q \in Request : step'[q] \in Busy => step'[q] = step[q]
      BY <2>1 DEF Answer, IInv, TypeOK
    <2> QED BY <2>2, <2>3, PassedUnchanged, QuietKeepsSerial
  <1>3. ASSUME NEW r \in Request, VerifCsrf(r) \/ RevokeToken(r) PROVE SerialInv'
    <2>1. /\ step[r] = "ask" /\ chain[pos[r] + 1] # "idem" /\ UNCHANGED <<chain, entries>>
          /\ CallNext(r) \/ Answer(r, "unauthorized") \/ Answer(r, "error")
      BY <1>3 DEF VerifCsrf, RevokeToken, Asks, IInv, TypeOK, Revocation
    <2>2. CASE CallNext(r)
      BY <2>1, <2>2, PassedNext, QuietKeepsSerial
    <2>3. CASE Answer(r, "unauthorized") \/ Answer(r, "error")
      <3>1. \A q \in Request : step'[q] \in Busy => step'[q] = step[q]
        BY <2>3 DEF Answer, IInv, TypeOK
      <3>2. UNCHANGED <<chain, pos>>
        BY <2>1, <2>3 DEF Answer
      <3> QED BY <2>1, <3>1, <3>2, PassedUnchanged, QuietKeepsSerial
    <2> QED BY <2>1, <2>2, <2>3
  <1>4. ASSUME NEW r \in Request, VerifIdemKey(r) PROVE SerialInv'
    <2>1. /\ UNCHANGED <<chain, pos, entries>> /\ step[r] = "ask"
          /\ step \in [Request -> {"new"} \cup Busy \cup Statuses]
      BY <1>4 DEF VerifIdemKey, Asks, Answer, IInv, TypeOK
    <2>2. CASE KeyOf[r] \in entries
      <3>1. \A q \in Request : step'[q] \in Busy => step'[q] = step[q]
        BY <1>4, <2>1, <2>2 DEF VerifIdemKey, Answer
      <3> QED BY <2>1, <3>1, PassedUnchanged, QuietKeepsSerial
    <2>3. CASE KeyOf[r] \notin entries
      <3>1. step'[r] = "store" /\ \A q \in Request \ {r} : step'[q] = step[q]
        BY <1>4, <2>1, <2>3 DEF VerifIdemKey
      <3>2. \A q \in Request : Rivals(r, q) => ~Passed(q)
        BY <2>3 DEF SerialInv, Rivals
      <3> QED BY <2>1, <3>1, <3>2, PassedUnchanged DEF SerialInv, Rivals
    <2> QED BY <2>2, <2>3
  <1>5. ASSUME NEW r \in Request, StoreKey(r) PROVE SerialInv'
    <2>1. /\ step' = [step EXCEPT ![r] = "stored"] /\ step[r] = "store"
          /\ entries' = entries \cup {KeyOf[r]} /\ UNCHANGED <<chain, pos>>
      BY <1>5 DEF StoreKey
    <2>2. step'[r] = "stored" /\ \A q \in Request \ {r} : step'[q] = step[q]
      BY <2>1 DEF IInv, TypeOK
    <2> QED BY <2>1, <2>2, PassedUnchanged DEF SerialInv, Rivals
  <1>6. ASSUME NEW r \in Request, StoreAnswered(r) PROVE SerialInv'
    <2>1. /\ Passed(r)' /\ step'[r] \in {"ask", "handled"}
          /\ \A q \in Request \ {r} : (Passed(q)' <=> Passed(q)) /\ step'[q] = step[q]
      BY <1>6, PassedNext DEF StoreAnswered, IInv, PassedUnbarred
    <2>2. entries' = entries /\ step[r] = "stored"
      BY <1>6 DEF StoreAnswered
    <2>3. \A q \in Request : Rivals(r, q) \/ Rivals(q, r) => ~Passed(q) /\ step[q] \notin Busy
      BY <2>2 DEF SerialInv, Rivals
    <2> QED BY <2>1, <2>2, <2>3 DEF SerialInv, Rivals
  <1>7. CASE TokenChanges \/ RevocationChanges
    BY <1>7, PassedUnchanged, QuietKeepsSerial DEF TokenChanges, RevocationChanges
  <1>8. CASE UNCHANGED vars
    BY <1>8, PassedUnchanged, QuietKeepsSerial DEF vars
  <1> QED BY <1>1, <1>2, <1>3, <1>4, <1>5, <1>6, <1>7, <1>8 DEF SerialNext, Guard

(* "no doouble request" (idempotency-key.go:2) holds in a service that chains  *)
(* VerifIdemKey, wherever in the chain, if no client sends a request again     *)
(* before the answer to the first, and keys outlast the retries: of the        *)
(* requests of one key one at most is handled, whatever fails in between.      *)
THEOREM RetriesPassOnce ==
  (\A ch \in Chains : \E i \in DOMAIN ch : ch[i] = "idem") => (SerialSpec => []HandledOnce)
  <1> SUFFICES ASSUME \A ch \in Chains : \E i \in DOMAIN ch : ch[i] = "idem"
               PROVE  SerialSpec => []HandledOnce
    OBVIOUS
  <1>1. Init => SerialInv
    BY DEF Init, SerialInv, Passed
  <1>2. [SerialNext]_vars => [Next]_vars
    BY DEF SerialNext, Next
  <1>3. IInv /\ SerialInv => HandledOnce
    <2> SUFFICES ASSUME IInv, SerialInv PROVE HandledOnce
      OBVIOUS
    <2>1. \E i \in 1 .. Len(chain) : chain[i] = "idem"
      BY ChainIsSequence DEF IInv, TypeOK
    <2>2. \A r \in Request : step[r] = "handled" => Passed(r)
      BY <2>1 DEF IInv, PassedUnbarred, Passed
    <2> QED BY <2>2 DEF HandledOnce, SerialInv, Rivals
  <1> QED BY InitInv, StepInv, SerialStep, <1>1, <1>2, <1>3, PTL DEF SerialSpec

-----------------------------------------------------------------------------
(* S3Client: what the helpers say of a call, and what an upload stores.       *)

(* A call that is under way has no verdict yet; what the service did shows in   *)
(* its reply, and an upload that is on its way has the length it announces.     *)
CallInv ==
  /\ pc # "idle" => verdict = "none" /\ ~heard
  /\ pc = "served" => reply \in Answers(done)
  /\ pc \in {"sent", "served"} => Sends
  /\ op = "uploadFile" /\ pc \in {"built", "sent"} => content = size
  /\ done => pc \in {"served", "idle"}

LEMMA NoReplyIsReply == NoReply \in Reply
  BY DEF NoReply, Reply, Code

LEMMA S3TypeInit == S3Init => S3TypeOK
  <1> SUFFICES ASSUME S3Init PROVE S3TypeOK
    OBVIOUS
  <1>1. {file, size, content, got} \subseteq 0 .. MaxSize /\ calls \in 0 .. MaxCalls
    BY S3Assumption DEF S3Assumption, S3Init
  <1>2. {done, heard} \subseteq BOOLEAN
    BY Zenon DEF S3Init
  <1> QED BY <1>1, <1>2, NoReplyIsReply DEF S3Init, S3TypeOK

LEMMA S3TypeStep == S3TypeOK /\ [S3Next]_s3Vars => S3TypeOK'
  <1> SUFFICES ASSUME S3TypeOK, [S3Next]_s3Vars PROVE S3TypeOK'
    OBVIOUS
  <1> USE S3Assumption DEF S3Assumption, S3TypeOK, Goes, Fails
  <1>1. ASSUME NEW o \in Op, NEW v \in Via, Call(o, v) PROVE S3TypeOK'
    <2>1. {file', size', content', got'} \subseteq 0 .. MaxSize /\ calls' \in 0 .. MaxCalls
      BY <1>1 DEF Call
    <2>2. {done', heard'} \subseteq BOOLEAN
      BY <1>1, Zenon DEF Call
    <2> QED BY <1>1, <2>1, <2>2, NoReplyIsReply DEF Call
  <1>2. CASE Stat
    BY <1>2 DEF Stat
  <1>3. CASE OpenFails \/ ReadFile \/ ReadPart
    BY <1>3 DEF OpenFails, ReadFile, ReadPart
  <1>4. CASE WriteFile \/ Send \/ Lose
    BY <1>4 DEF WriteFile, Send, Lose
  <1>5. ASSUME NEW did \in BOOLEAN, Serve(did) PROVE S3TypeOK'
    BY <1>5 DEF Serve, Answers
  <1>6. CASE Return
    BY <1>6 DEF Return
  <1>7. CASE UNCHANGED s3Vars
    BY <1>7 DEF s3Vars
  <1> QED BY <1>1, <1>2, <1>3, <1>4, <1>5, <1>6, <1>7 DEF S3Next

LEMMA CallStep == S3TypeOK /\ CallInv /\ [S3Next]_s3Vars => CallInv'
  <1> SUFFICES ASSUME S3TypeOK, CallInv, [S3Next]_s3Vars PROVE CallInv'
    OBVIOUS
  <1> USE DEF S3TypeOK, CallInv, Goes, Fails
  <1>1. ASSUME NEW o \in Op, NEW v \in Via, Call(o, v) PROVE CallInv'
    BY <1>1 DEF Call, Upload
  <1>2. CASE Stat \/ OpenFails \/ ReadFile \/ ReadPart
    BY <1>2 DEF Stat, OpenFails, ReadFile, ReadPart
  <1>3. CASE WriteFile \/ Send \/ Lose
    BY <1>3 DEF WriteFile, Send, Lose, Sends
  <1>4. ASSUME NEW did \in BOOLEAN, Serve(did) PROVE CallInv'
    BY <1>4 DEF Serve, Answers, Sends
  <1>5. CASE Return
    BY <1>5 DEF Return
  <1>6. CASE UNCHANGED s3Vars
    BY <1>6 DEF s3Vars, Answers, Sends
  <1> QED BY <1>1, <1>2, <1>3, <1>4, <1>5, <1>6 DEF S3Next

(* What the adapters and the helpers make of a reply: of a call that was not    *)
(* done they accept none over gRPC, and over HTTP only one that says nothing of *)
(* it; over gRPC they refuse one of a call that was done only for its data.     *)
LEMMA AcceptsOverGrpc ==
  ASSUME S3TypeOK, reply \in Answers(done), via = "grpc", Accepts(OverGrpc)
  PROVE  done
  BY DEF S3TypeOK, Answers, Accepts, OverGrpc, GrpcProbe, Wire, Response,
         Sends, Op, Upload, Link, Probe, Fetch

LEMMA AcceptsOverHttp ==
  ASSUME S3TypeOK, reply \in Answers(done), via = "http", Accepts(OverHttp)
  PROVE  done \/ SaysNothing
  <1>1. CASE op \in Upload \cup Link
    <2>1. OverHttp.code = Decoded(reply.code) /\ OverHttp.err = (reply.refused \/ reply.junk)
      BY <1>1 DEF OverHttp, HttpUpload, HttpLink, HttpHealth, HttpReady, HttpFetch, Response,
                  Upload, Link, Probe, Fetch
    <2>2. ~reply.refused /\ ~reply.junk /\ reply.code \in {"0", "none"}
      BY <1>1, <2>1 DEF Accepts, Decoded, Upload, Link
    <2> QED BY <2>2 DEF Answers, SaysNothing
  <1>2. CASE op \in Probe \cup Fetch
    <2>1. ~reply.refused
      BY <1>2 DEF Accepts, OverHttp, HttpUpload, HttpLink, HttpHealth, HttpReady, HttpFetch,
                  Response, Upload, Link, Probe, Fetch
    <2>2. op \notin Upload \cup Link
      BY <1>2 DEF Upload, Link, Probe, Fetch
    <2> QED BY <2>1, <2>2 DEF Answers, SaysNothing
  <1> QED BY <1>1, <1>2 DEF S3TypeOK, Op

LEMMA AcceptsWhatWasDone ==
  ASSUME S3TypeOK, reply \in Answers(done), Accepts(IF via = "grpc" THEN OverGrpc ELSE OverHttp)
  PROVE  done \/ SaysNothing
  <1>1. CASE via = "grpc"
    BY <1>1, AcceptsOverGrpc
  <1>2. CASE via = "http"
    BY <1>2, AcceptsOverHttp
  <1> QED BY <1>1, <1>2 DEF S3TypeOK, Via

LEMMA GrpcAcceptsAnswers ==
  ASSUME S3TypeOK, reply \in Answers(TRUE), via = "grpc", op \notin Fetch, ~Accepts(OverGrpc)
  PROVE  op \in Upload /\ ~reply.data
  BY DEF S3TypeOK, Answers, Accepts, OverGrpc, GrpcProbe, Wire, Response, Reply,
         Sends, Op, Upload, Link, Probe, Fetch

(* Only Return gives a verdict upon a reply, and only Call begins anew. *)
LEMMA VerdictStep == S3TypeOK /\ CallInv /\ TrueVerdict /\ [S3Next]_s3Vars => TrueVerdict'
  <1> SUFFICES ASSUME S3TypeOK, CallInv, TrueVerdict, [S3Next]_s3Vars PROVE TrueVerdict'
    OBVIOUS
  <1> USE DEF CallInv, TrueVerdict, Goes, Fails
  <1>1. ASSUME NEW o \in Op, NEW v \in Via, Call(o, v) PROVE TrueVerdict'
    BY <1>1 DEF Call
  <1>2. CASE Stat \/ OpenFails \/ ReadFile \/ ReadPart \/ WriteFile \/ Send \/ Lose
    BY <1>2 DEF Stat, OpenFails, ReadFile, ReadPart, WriteFile, Send, Lose, SaysNothing
  <1>3. ASSUME NEW did \in BOOLEAN, Serve(did) PROVE TrueVerdict'
    BY <1>3 DEF Serve
  <1>4. CASE Return
    <2>1. reply \in Answers(done) /\ Sends
      BY <1>4 DEF Return
    <2>2. verdict' = "ok" => done' \/ SaysNothing'
      BY <1>4, <2>1, AcceptsWhatWasDone DEF Return, SaysNothing
    <2>3. ASSUME verdict' = "error", done', via' = "grpc" PROVE op' \in Upload /\ ~reply'.data
      <3>1. done = TRUE /\ via = "grpc" /\ op \notin Fetch
        BY <1>4, <2>1, <2>3 DEF Return, S3TypeOK, Sends
      <3>2. ~Accepts(OverGrpc)
        BY <1>4, <2>3, <3>1 DEF Return
      <3> QED BY <1>4, <2>1, <3>1, <3>2, GrpcAcceptsAnswers DEF Return
    <2> QED BY <2>2, <2>3
  <1>5. CASE UNCHANGED s3Vars
    BY <1>5 DEF s3Vars, SaysNothing
  <1> QED BY <1>1, <1>2, <1>3, <1>4, <1>5 DEF S3Next

(* What the service stores is the content of the request. *)
LEMMA UploadStep == S3TypeOK /\ CallInv /\ NeverTruncated /\ [S3Next]_s3Vars => NeverTruncated'
  <1> SUFFICES ASSUME S3TypeOK, CallInv, NeverTruncated, [S3Next]_s3Vars PROVE NeverTruncated'
    OBVIOUS
  <1> USE DEF CallInv, NeverTruncated, Goes, Fails
  <1>1. ASSUME NEW o \in Op, NEW v \in Via, Call(o, v) PROVE NeverTruncated'
    BY <1>1 DEF Call
  <1>2. CASE Stat \/ OpenFails \/ ReadFile \/ ReadPart \/ WriteFile \/ Send \/ Lose
    BY <1>2 DEF Stat, OpenFails, ReadFile, ReadPart, WriteFile, Send, Lose
  <1>3. ASSUME NEW did \in BOOLEAN, Serve(did) PROVE NeverTruncated'
    BY <1>3 DEF Serve, Upload
  <1>4. CASE Return
    BY <1>4 DEF Return
  <1>5. CASE UNCHANGED s3Vars
    BY <1>5 DEF s3Vars
  <1> QED BY <1>1, <1>2, <1>3, <1>4, <1>5 DEF S3Next

LEMMA S3Inv == S3Spec => [](S3TypeOK /\ CallInv)
  <1>1. S3Init => CallInv
    BY DEF S3Init, CallInv
  <1> QED BY S3TypeInit, S3TypeStep, CallStep, <1>1, PTL DEF S3Spec

(* A call keeps its types, whatever is lost and however the file changes. *)
THEOREM S3Types == S3Spec => []S3TypeOK
  BY S3TypeInit, S3TypeStep, PTL DEF S3Spec

(* The helpers tell the truth over both adapters (operations.go:19-152): no      *)
(* success that the service did not do, unless an HTTP answer said nothing of it *)
(* (client.go:185-187 and 235-237 read a missing code as zero), and over gRPC no *)
(* failure that it did and answered, but for an upload without data.             *)
THEOREM VerdictsAreTrue == S3Spec => []TrueVerdict
  <1>1. S3Init => TrueVerdict
    BY DEF S3Init, TrueVerdict
  <1> QED BY S3Inv, VerdictStep, <1>1, PTL DEF S3Spec

(* An upload from a file that is written meanwhile stores what it announced or   *)
(* nothing (build.go:105-125), however long the file is and becomes.             *)
THEOREM FilesAreWhole == S3Spec => []NeverTruncated
  <1>1. S3Init => NeverTruncated
    BY DEF S3Init, NeverTruncated
  <1> QED BY S3Inv, UploadStep, <1>1, PTL DEF S3Spec
=============================================================================
