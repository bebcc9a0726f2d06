--------------------------- MODULE WriteCertainty ---------------------------
(***************************************************************************)
(* What the runtime promises about the one consequential write of a run    *)
(* (EffectState in model/enums.py, docs/mutation-design.md section 3): it  *)
(* leaves at most once, nothing moves its certainty back to where a second *)
(* dispatch would look safe, and a settled verdict stands.                 *)
(***************************************************************************)
EXTENDS Naturals

VARIABLES
  certainty,   \* an EffectState
  sent         \* how many times the write was handed to the application

EffectState ==
  {"not_dispatched", "dispatching", "dispatched", "committed", "not_committed", "ambiguous"}

Settled == {"committed", "not_committed"}

Init ==
  /\ certainty = "not_dispatched"
  /\ sent = 0

\* The dispatch call is about to be made.
Attempt ==
  /\ certainty = "not_dispatched"
  /\ certainty' = "dispatching"
  /\ UNCHANGED sent

\* Authorization or resolution refused it before any side effect.
Refuse ==
  /\ certainty = "dispatching"
  /\ certainty' = "not_dispatched"
  /\ UNCHANGED sent

Dispatch ==
  /\ certainty = "dispatching"
  /\ certainty' = "dispatched"
  /\ sent' = sent + 1

\* Only observation moves it on, and a human may have it observed again.
Establish ==
  /\ certainty \in {"dispatched", "ambiguous"}
  /\ certainty' \in Settled \cup {"ambiguous"}
  /\ UNCHANGED sent

Next == Attempt \/ Refuse \/ Dispatch \/ Establish

Spec == Init /\ [][Next]_<< certainty, sent >>

=============================================================================
