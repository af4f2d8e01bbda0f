----------------------------- MODULE AuditRelay -----------------------------
(***************************************************************************)
(* What the audit worker pool of audittrail_publisher.go promises to its    *)
(* callers, with the workers, the channel and the circuit breaker left out: *)
(* a message is refused at the door or accepted; an accepted message is      *)
(* handed to RabbitMQ at most once or given up; and once Stop has returned   *)
(* nothing that was accepted is still pending and nothing more is accepted.  *)
(***************************************************************************)

CONSTANT Message     \* the messages the application submits

VARIABLES
  status,            \* what became of each message
  stopped            \* Stop has returned

vars == <<status, stopped>>

Status == {"new", "accepted", "refused", "delivered", "lost"}

TypeOK ==
  /\ status \in [Message -> Status]
  /\ stopped \in BOOLEAN

Init ==
  /\ status = [m \in Message |-> "new"]
  /\ stopped = FALSE

Move(m, from, to) ==
  /\ status[m] = from
  /\ status' = [status EXCEPT ![m] = to]
  /\ UNCHANGED stopped

(* Submit takes the message over. *)
Accept(m) == ~stopped /\ Move(m, "new", "accepted")

(* Submit turns the message away: breaker open, buffer full, or shut down. *)
Refuse(m) == Move(m, "new", "refused")

Deliver(m) == Move(m, "accepted", "delivered")

Lose(m) == Move(m, "accepted", "lost")

(* Stop returns, and may do so only when no accepted message is pending. *)
Finish ==
  /\ \A m \in Message : status[m] # "accepted"
  /\ stopped' = TRUE
  /\ UNCHANGED status

Next ==
  \/ \E m \in Message : Accept(m) \/ Refuse(m) \/ Deliver(m) \/ Lose(m)
  \/ Finish

SafeSpec == Init /\ [][Next]_vars

(* Every accepted message is settled one way or the other. *)
Spec == SafeSpec /\ \A m \in Message : WF_vars(Deliver(m) \/ Lose(m))
=============================================================================
