---------------------------- MODULE ReplayProofs ----------------------------
(***************************************************************************)
(* What holds of a replay for any capability, any application, any number  *)
(* of retries and polls and however often an operator takes the session:   *)
(* a write leaves once, one party drives, a pause can be taken up again,   *)
(* and what the run says of its write is so.                               *)
(***************************************************************************)
EXTENDS ReplaySession, SequenceLemmas

\* The awaits of advance at which the step at the cursor was not executed yet,
\* and those at which it was; those of _verify_embedded; those of
\* assess_reconciliation.
Before == {"start", "scope", "dialog", "execute", "commit"}
After == {"rescope", "resolve", "baseline", "baseline_effect"}
Checking == {"navigate", "navigated", "view", "effect", "extract", "checkpoint"}
Judging == {"assess", "poll", "poll_page"}

Blocked == pending # None /\ pending.reason = "UNKNOWN_DIALOG"

\* Where the coroutine is in the capability.
PlaceInv ==
  /\ pc \in {"dialog", "execute", "commit", "respond"} \cup After \cup Checking \cup Judging =>
       cursor \in Steps
  /\ pc \in {"execute"} \cup After => Kind[cursor] # "verified"
  /\ pc \in {"commit", "respond"} \cup Checking => Kind[cursor] = "verified"
  /\ pc = "success" => cursor = N + 1
  /\ HasRecipe => cursor <= N
  /\ pc = "navigated" => nav <= NavLen
  /\ pc \notin Checking \cup {"idle", "raised"} \cup Judging => caller = "advance"

\* Who drives, and what the pause is that lets a human.
DriverInv ==
  /\ pc \notin Judging \cup {"idle"} => owner = "automation"
  /\ pc \in Judging => owner = "human" /\ Blocked /\ CheckpointsBelow # {}
  /\ owner = "human" => pending # None

\* A pause is about the step at the cursor; the session has one only while it is
\* paused, judged or verified again, and a commit pending only in such a pause.
PauseInv ==
  /\ pending # None => pending.step = cursor
  /\ pendingCommit =>
       /\ pending # None
       /\ pending.reason = "MUTATION_AMBIGUOUS"
       /\ cursor \in Steps
       /\ Kind[cursor] = "verified"
  /\ SoleWrite /\ pending # None /\ pending.reason = "MUTATION_AMBIGUOUS" => pendingCommit
  /\ pc \in Before \cup After \cup {"respond", "success"} => pending = None
  /\ pc \in Checking /\ caller = "advance" => pending = None
  /\ pc \in Checking \cup {"raised"} /\ caller = "reverify" => pendingCommit
  /\ pc = "idle" /\ result.status = "Escalated" =>
       pending = [reason |-> result.code, step |-> cursor]
  /\ SoleWrite /\ pc = "idle" /\ result.status # "Escalated" => pending = None

\* What was dispatched so far: nothing at the cursor while it is still to be
\* executed, and nothing beyond it while automation advances.
DispatchInv ==
  /\ \A i \in Steps : dispatches[i] <= 1
  /\ pc \in Before \/ Blocked => \A i \in Steps : i >= cursor => dispatches[i] = 0
  /\ pc \in After \cup {"success"} => \A i \in Steps : i > cursor => dispatches[i] = 0

\* What last_effect_state is where, and that a write it has not seen leave did
\* not leave.
EffectInv ==
  /\ pc \in (Before \ {"commit"}) \cup After \cup {"success"} \/ Blocked =>
       effectState = "not_dispatched"
  /\ pc = "commit" => effectState = "dispatching"
  /\ pc = "respond" => effectState = "dispatched"
  /\ pc \in Checking \ {"checkpoint"} => effectState \in {"dispatched", "ambiguous"}
  /\ pc = "checkpoint" => effectState = "committed"
  /\ pc = "idle" /\ pendingCommit => effectState = "ambiguous"
  /\ effectState \in {"not_dispatched", "dispatching"} =>
       /\ applied = 0
       /\ ~inflight
       /\ HasRecipe => dispatches[N] = 0

\* What makes a verdict true: a baseline that was absent leaves nobody but this
\* write to bring the effect about, a rejection is no carried out write, and an
\* authoritative application holds nothing back.
TruthInv ==
  /\ EffectTruth
  /\ setup.authoritative => ~inflight
  /\ pc = "respond" /\ page \in Outcome[cursor] => applied = 0 /\ ~inflight
  /\ setup.quiet /\ baseline = "absent" => ~foreign
  /\ setup.quiet /\ pc \in {"baseline_effect", "effect"} => page \in EffectView
  /\ setup.quiet /\ pc = "extract" => applied > 0

\* Automation advances only after the page was reconciled.
ReconciledInv == pc \in Before \cup After \cup {"success"} => reconciled

IInv ==
  /\ TypeOK
  /\ PlaceInv
  /\ DriverInv
  /\ PauseInv
  /\ DispatchInv
  /\ EffectInv
  /\ TruthInv
  /\ ReconciledInv

-----------------------------------------------------------------------------
(* Facts about the capability, and about what a step leaves alone *)

\* What SessionAssumption says of the capability being replayed.
LEMMA CapabilityFacts ==
  ASSUME setup \in Setups
  PROVE  /\ N \in Nat \ {0}
         /\ Kind \in [Steps -> {"read", "write", "verified"}]
         /\ \A i \in Steps : Kind[i] = "verified" => i = N
         /\ N \in Steps
         /\ NavLen \in Nat
<1>1. WellFormed(setup.capability)
  BY SessionAssumption DEF Setups
<1>2. Kind \in Seq({"read", "write", "verified"}) /\ Kind # << >>
  BY <1>1 DEF WellFormed, Kind
<1>3. /\ N \in Nat \ {0} /\ DOMAIN Kind = Steps
      /\ Kind \in [Steps -> {"read", "write", "verified"}]
  BY <1>2 DEF N, Steps
<1>4. \A i \in Steps : Kind[i] = "verified" => i = N
  BY <1>1, <1>3 DEF WellFormed, Kind, N
<1> QED
  BY <1>1, <1>3, <1>4 DEF WellFormed, NavLen, Steps

\* The capability stays what it is.
LEMMA SetupConstant ==
  ASSUME setup' = setup
  PROVE  /\ Kind' = Kind /\ Post' = Post /\ Outcome' = Outcome /\ Checked' = Checked
         /\ N' = N /\ Steps' = Steps /\ NavLen' = NavLen /\ EffectView' = EffectView
         /\ HasRecipe' = HasRecipe /\ SoleWrite' = SoleWrite
  BY DEF Kind, Post, Outcome, Checked, N, Steps, NavLen, EffectView, HasRecipe, SoleWrite

\* There is a nearest checkpoint below the cursor as soon as there is one: the
\* steps it is sought among are finitely many.
LEMMA NearestCheckpoint ==
  ASSUME TypeOK, CheckpointsBelow # {}
  PROVE  Nearest \in CheckpointsBelow /\ \A j \in CheckpointsBelow : j <= Nearest
<1> DEFINE Back == {N - i : i \in CheckpointsBelow}
<1>1. WellFormed(setup.capability) /\ N \in Nat \ {0}
  BY SessionAssumption, CapabilityFacts DEF TypeOK, Setups
<1>2. CheckpointsBelow \subseteq Steps
  BY <1>1 DEF WellFormed, CheckpointsBelow, Checked, Steps, N, Kind
<1>3. Back \subseteq Nat /\ Back # {}
  <2>1. \A i \in CheckpointsBelow : N - i \in Nat
    BY <1>1, <1>2 DEF Steps
  <2> QED
    BY <2>1
<1>4. PICK x \in Back : \A y \in Back : x <= y
  <2> HIDE DEF Back
  <2> QED
    BY <1>3, NatMin
<1>5. PICK i \in CheckpointsBelow : x = N - i
  OBVIOUS
<1>6. \A j \in CheckpointsBelow : j <= i
  <2> TAKE j \in CheckpointsBelow
  <2>1. N - i <= N - j
    BY <1>4, <1>5
  <2> QED
    BY <1>1, <1>2, <2>1 DEF Steps
<1> QED
  BY <1>6 DEF Nearest

\* Control that goes back because the nearest checkpoint holds goes back on a
\* reconciled page.
LEMMA HandBackReconciles ==
  ASSUME TypeOK, CheckpointsBelow # {}, CheckpointHolds, HandBack
  PROVE  reconciled'
  BY NearestCheckpoint DEF CheckpointHolds, HandBack

USE DEF application, locals, coroutine, pause, effect, session, history, lease

\* Control goes back under a new epoch.
LEMMA HandBackFacts ==
  HandBack => owner' = "automation" /\ epoch' = epoch + 1 /\ reconciled' \in BOOLEAN
  BY DEF HandBack, ToAutomation

\* The checkpoints below the cursor move only with the cursor.
LEMMA CheckpointsConstant ==
  ASSUME setup' = setup, cursor' = cursor
  PROVE  CheckpointsBelow' = CheckpointsBelow
  BY SetupConstant DEF CheckpointsBelow

\* A dispatch counted for the step at the cursor, where none was made from there
\* on, is the first for that step and touches no other.
LEMMA CountDispatchFacts ==
  ASSUME TypeOK, cursor \in Steps, CountDispatch,
         \A i \in Steps : dispatches[i] <= 1,
         \A i \in Steps : i >= cursor => dispatches[i] = 0
  PROVE  /\ dispatches' \in [Steps -> Nat]
         /\ \A i \in Steps : dispatches'[i] <= 1
         /\ \A i \in Steps : i > cursor => dispatches'[i] = 0
         /\ \A i \in Steps : i # cursor => dispatches'[i] = dispatches[i]
<1>1. CASE Kind[cursor] = "read"
  BY <1>1 DEF CountDispatch, TypeOK, Steps
<1>2. CASE Kind[cursor] # "read"
  <2>1. dispatches' = [dispatches EXCEPT ![cursor] = dispatches[cursor] + 1]
    BY <1>2 DEF CountDispatch
  <2> QED
    BY <2>1 DEF TypeOK, Steps
<1> QED
  BY <1>1, <1>2

\* An intervention that is open for the step at the cursor, for the same reason,
\* stays; without one, it is opened.
LEMMA EscalateFacts ==
  ASSUME TypeOK, NEW r \in Reason, Escalate(r),
         pending = None \/ (pending.reason = r /\ pending.step = cursor)
  PROVE  pending' = [reason |-> r, step |-> cursor]
  BY DEF Escalate, TypeOK

-----------------------------------------------------------------------------
(* Every step preserves the invariant *)

\* Whatever ends the verification of a write without an answer leaves the pause
\* the operator can take up again: the commit pending, and the intervention for it.
LEMMA AmbiguousStep ==
  ASSUME IInv, pc \in Checking, MutationAmbiguous,
         UNCHANGED << application, locals, cursor, baseline, haveOutput, history >>
  PROVE  IInv'
<1>1. setup \in Setups /\ setup' = setup
  BY DEF IInv, TypeOK
<1> USE <1>1 DEF IInv, Before, After, Checking, Judging, Blocked, Steps
<1>2. /\ pending' = [reason |-> "MUTATION_AMBIGUOUS", step |-> cursor]
      /\ pc' = "idle"
      /\ result' = [status |-> "Escalated", code |-> "MUTATION_AMBIGUOUS"]
      /\ pendingCommit'
      /\ effectState' = "ambiguous"
  BY DEF PauseInv, TypeOK, MutationAmbiguous, Escalate, Return
<1>3. cursor \in Steps /\ Kind[cursor] = "verified" /\ pending' # None
  BY <1>2, SessionAssumption DEF PlaceInv, Reason
<1>4. TypeOK'
  <2>1. pendingCommit' \in BOOLEAN
    BY DEF MutationAmbiguous
  <2> QED
    BY <1>2, SetupConstant DEF MutationAmbiguous, ToHuman, TypeOK, LeaseTypeOK,
                               ControlOwner, Labels, Codes, Statuses, Reason,
                               WriteStates!EffectState, PlaceInv
<1>5. PlaceInv'
  BY <1>2, SetupConstant DEF PlaceInv, TypeOK, PauseInv, DriverInv
<1>6. DriverInv'
  BY <1>2 DEF MutationAmbiguous, DriverInv, TypeOK, PauseInv, PlaceInv, LeaseTypeOK,
              ControlOwner
<1>7. PauseInv'
  BY <1>2, <1>3, SetupConstant DEF PauseInv, TypeOK, PlaceInv, DriverInv
<1>8. DispatchInv'
  BY <1>2, SetupConstant DEF DispatchInv, TypeOK, PlaceInv, DriverInv, PauseInv
<1>9. EffectInv'
  BY <1>2 DEF EffectInv, PlaceInv, DriverInv, PauseInv, DispatchInv
<1>10. TruthInv'
  BY <1>2 DEF TruthInv, PlaceInv, EffectInv, EffectTruth
<1>11. ReconciledInv'
  BY <1>2 DEF ReconciledInv, PlaceInv, DriverInv
<1> QED
  BY <1>4, <1>5, <1>6, <1>7, <1>8, <1>9, <1>10, <1>11 DEF IInv

\* A judgement that fails gives the lease back and leaves no intervention.
LEMMA FailClosedStep ==
  ASSUME IInv, pc \in Judging, NEW c \in Codes, FailClosed(c),
         UNCHANGED << application, nav, caller, cursor, pendingCommit, effect, dispatches >>,
         tries' = tries, blocked' = blocked
  PROVE  IInv'
<1>1. setup \in Setups /\ setup' = setup
  BY DEF IInv, TypeOK
<1> USE <1>1 DEF IInv, Before, After, Checking, Judging, Blocked, Steps
<1>2. TypeOK'
  BY SetupConstant, HandBackFacts DEF FailClosed, Return, TypeOK, LeaseTypeOK, ControlOwner,
                                      Labels, Codes, Statuses, Reason,
                                      WriteStates!EffectState, PlaceInv
<1>3. PlaceInv'
  BY SetupConstant DEF FailClosed, Return, PlaceInv, DriverInv
<1>4. DriverInv'
  BY HandBackFacts DEF FailClosed, Return, DriverInv, PlaceInv, LeaseTypeOK, ControlOwner
<1>5. PauseInv'
  BY DEF FailClosed, Return, PauseInv, DriverInv
<1>6. DispatchInv'
  BY SetupConstant DEF DispatchInv, PlaceInv, DriverInv, PauseInv
<1>7. EffectInv'
  BY SetupConstant DEF FailClosed, Return, EffectInv, DriverInv, PauseInv, DispatchInv
<1>8. TruthInv'
  BY DEF FailClosed, Return, TruthInv, EffectInv, EffectTruth
<1>9. ReconciledInv'
  BY DEF FailClosed, Return, ReconciledInv, DriverInv
<1> QED
  BY <1>2, <1>3, <1>4, <1>5, <1>6, <1>7, <1>8, <1>9 DEF IInv

\* A poll that settles nothing polls again, is still blocked, or fails.
LEMMA PollAgainStep ==
  ASSUME IInv, pc \in Judging, NEW seen \in BOOLEAN, PollAgain(seen),
         UNCHANGED << application, nav, caller, cursor, pendingCommit, effect, dispatches >>
  PROVE  IInv'
<1>1. setup \in Setups /\ setup' = setup
  BY DEF IInv, TypeOK
<1> USE <1>1 DEF IInv, Before, After, Checking, Judging, Blocked, Steps
<1>2. Escalate(pending.reason) => pending' = [reason |-> "UNKNOWN_DIALOG", step |-> cursor]
  BY EscalateFacts DEF DriverInv, PauseInv, Reason
<1>3. TypeOK'
  <2>1. blocked' \in BOOLEAN
    BY DEF PollAgain, Escalate, TypeOK
  <2>2. LeaseTypeOK' /\ reconciled' \in BOOLEAN
    BY HandBackFacts DEF PollAgain, KeepControl, FailClosed, Return, Escalate, TypeOK,
                         LeaseTypeOK, ControlOwner
  <2>3. tries' \in 0 .. Polls \cup 0 .. Retries
    BY SessionAssumption DEF PollAgain, PollsLeft, CountTry, FailClosed, Return, Escalate,
                             TypeOK
  <2>4. /\ pending' \in [reason : Reason, step : Steps] \cup {None}
        /\ result' \in [status : Statuses, code : Codes]
        /\ pc' \in Labels
    BY DEF PollAgain, Continue, KeepControl, FailClosed, Return, Escalate, TypeOK, PlaceInv,
           Reason, Codes, Statuses, Labels, DriverInv
  <2> QED
    BY SetupConstant, <2>2, <2>3, <2>4 DEF PollAgain, PollsLeft, CountTry, Continue,
                                           KeepControl, FailClosed, Return, Escalate,
                                           TypeOK, LeaseTypeOK, ControlOwner, Labels, Codes,
                                           Statuses, Reason, WriteStates!EffectState,
                                           PlaceInv
<1>4. PlaceInv'
  BY SetupConstant DEF PollAgain, Continue, KeepControl, FailClosed, Return, Escalate,
                       PlaceInv, TypeOK, PauseInv, DriverInv
<1>5. DriverInv'
  BY HandBackFacts, CheckpointsConstant DEF PollAgain, Continue, KeepControl, FailClosed,
                                            Return, Escalate, DriverInv, TypeOK, PauseInv,
                                            PlaceInv, LeaseTypeOK, ControlOwner
<1>6. PauseInv'
  BY DEF PollAgain, Continue, KeepControl, FailClosed, Return, Escalate, PauseInv, TypeOK,
         PlaceInv, DriverInv
<1>7. DispatchInv'
  BY SetupConstant DEF KeepControl, FailClosed, Return, Escalate, DispatchInv, TypeOK,
                       PlaceInv, DriverInv, PauseInv
<1>8. EffectInv'
  BY SetupConstant DEF PollAgain, Continue, KeepControl, FailClosed, Return, Escalate,
                       EffectInv, TypeOK, PlaceInv, DriverInv, PauseInv, DispatchInv
<1>9. TruthInv'
  BY DEF PollAgain, Continue, KeepControl, FailClosed, Return, Escalate, TruthInv, TypeOK,
         PlaceInv, EffectInv, EffectTruth
<1>10. ReconciledInv'
  BY DEF PollAgain, Continue, KeepControl, FailClosed, Return, Escalate, ReconciledInv,
         TypeOK, PlaceInv, DriverInv
<1> QED
  BY <1>3, <1>4, <1>5, <1>6, <1>7, <1>8, <1>9, <1>10 DEF IInv

\* Nothing is dispatched before the loop begins.
LEMMA StartStep == IInv /\ Start => IInv'
<1> SUFFICES ASSUME IInv, Start PROVE IInv'
  OBVIOUS
<1>1. setup \in Setups /\ setup' = setup
  BY DEF IInv, TypeOK, Start
<1> USE <1>1 DEF IInv, Before, After, Checking, Judging, Blocked, Steps
<1>2. TypeOK'
  BY SetupConstant DEF Start, Return, SurfaceFailure, ScopeDenied, Continue, TypeOK,
                       LeaseTypeOK, ControlOwner, Labels, Codes, Statuses, Reason,
                       WriteStates!EffectState, PlaceInv
<1>3. PlaceInv'
  BY SetupConstant DEF Start, Return, SurfaceFailure, ScopeDenied, Continue, PlaceInv,
                       TypeOK, PauseInv, DriverInv
<1>4. DriverInv'
  BY DEF Start, Return, SurfaceFailure, ScopeDenied, Continue, DriverInv, TypeOK, PauseInv,
         PlaceInv, LeaseTypeOK, ControlOwner
<1>5. PauseInv'
  BY DEF Start, Return, SurfaceFailure, ScopeDenied, Continue, PauseInv, TypeOK, PlaceInv,
         DriverInv
<1>6. DispatchInv'
  BY SetupConstant DEF Start, DispatchInv, TypeOK, PlaceInv, DriverInv, PauseInv
<1>7. EffectInv'
  BY SetupConstant DEF Start, Return, SurfaceFailure, ScopeDenied, Continue, EffectInv,
                       TypeOK, PlaceInv, DriverInv, PauseInv, DispatchInv
<1>8. TruthInv'
  BY DEF Start, Return, SurfaceFailure, ScopeDenied, Continue, TruthInv, TypeOK, PlaceInv,
         EffectInv, EffectTruth
<1>9. ReconciledInv'
  BY DEF Start, ReconciledInv, PlaceInv, DriverInv
<1> QED
  BY <1>2, <1>3, <1>4, <1>5, <1>6, <1>7, <1>8, <1>9 DEF IInv

\* Out of scope, the run fails with nothing pending.
LEMMA CheckScopeStep == IInv /\ CheckScope => IInv'
<1> SUFFICES ASSUME IInv, CheckScope PROVE IInv'
  OBVIOUS
<1>1. setup \in Setups /\ setup' = setup
  BY DEF IInv, TypeOK, CheckScope
<1> USE <1>1 DEF IInv, Before, After, Checking, Judging, Blocked, Steps
<1>2. TypeOK'
  BY SetupConstant DEF CheckScope, Return, SurfaceFailure, ScopeDenied, Continue, TypeOK,
                       LeaseTypeOK, ControlOwner, Labels, Codes, Statuses, Reason,
                       WriteStates!EffectState, PlaceInv
<1>3. PlaceInv'
  BY SetupConstant DEF CheckScope, Return, SurfaceFailure, ScopeDenied, Continue, PlaceInv,
                       TypeOK, PauseInv, DriverInv
<1>4. DriverInv'
  BY DEF CheckScope, Return, SurfaceFailure, ScopeDenied, Continue, DriverInv, TypeOK,
         PauseInv, PlaceInv, LeaseTypeOK, ControlOwner
<1>5. PauseInv'
  BY DEF CheckScope, Return, SurfaceFailure, ScopeDenied, Continue, PauseInv, TypeOK,
         PlaceInv, DriverInv
<1>6. DispatchInv'
  BY SetupConstant DEF CheckScope, DispatchInv, TypeOK, PlaceInv, DriverInv, PauseInv
<1>7. EffectInv'
  BY SetupConstant DEF CheckScope, Return, SurfaceFailure, ScopeDenied, Continue, EffectInv,
                       TypeOK, PlaceInv, DriverInv, PauseInv, DispatchInv
<1>8. TruthInv'
  BY DEF CheckScope, Return, SurfaceFailure, ScopeDenied, Continue, TruthInv, TypeOK,
         PlaceInv, EffectInv, EffectTruth
<1>9. ReconciledInv'
  BY DEF CheckScope, ReconciledInv, PlaceInv, DriverInv
<1> QED
  BY <1>2, <1>3, <1>4, <1>5, <1>6, <1>7, <1>8, <1>9 DEF IInv

\* A dialog in the way pauses the session at a step that was not executed.
LEMMA CheckDialogStep == IInv /\ CheckDialog => IInv'
<1> SUFFICES ASSUME IInv, CheckDialog PROVE IInv'
  OBVIOUS
<1>1. setup \in Setups /\ setup' = setup
  BY DEF IInv, TypeOK, CheckDialog
<1> USE <1>1 DEF IInv, Before, After, Checking, Judging, Blocked, Steps
<1>2. TypeOK'
  BY SetupConstant, SessionAssumption DEF CheckDialog, Return, SurfaceFailure, Escalate,
                                          Continue, TypeOK, LeaseTypeOK, ControlOwner,
                                          Labels, Codes, Statuses, Reason,
                                          WriteStates!EffectState, PlaceInv
<1>3. PlaceInv'
  BY SetupConstant DEF CheckDialog, Return, SurfaceFailure, Escalate, Continue, PlaceInv,
                       TypeOK, PauseInv, DriverInv
<1>4. DriverInv'
  BY DEF CheckDialog, Return, SurfaceFailure, Escalate, Continue, DriverInv, TypeOK,
         PauseInv, PlaceInv, LeaseTypeOK, ControlOwner
<1>5. PauseInv'
  BY DEF CheckDialog, Return, SurfaceFailure, Escalate, Continue, PauseInv, TypeOK,
         PlaceInv, DriverInv
<1>6. DispatchInv'
  BY SetupConstant DEF CheckDialog, DispatchInv, TypeOK, PlaceInv, DriverInv, PauseInv
<1>7. EffectInv'
  BY SetupConstant DEF CheckDialog, Return, SurfaceFailure, Escalate, Continue, EffectInv,
                       TypeOK, PlaceInv, DriverInv, PauseInv, DispatchInv
<1>8. TruthInv'
  BY DEF CheckDialog, Return, SurfaceFailure, Escalate, Continue, TruthInv, TypeOK,
         PlaceInv, EffectInv, EffectTruth
<1>9. ReconciledInv'
  BY DEF CheckDialog, ReconciledInv, PlaceInv, DriverInv
<1> QED
  BY <1>2, <1>3, <1>4, <1>5, <1>6, <1>7, <1>8, <1>9 DEF IInv

\* The step at the cursor is dispatched and goes on, is in doubt, is tried again,
\* or is refused.
LEMMA ExecuteStep == IInv /\ Execute => IInv'
<1> SUFFICES ASSUME IInv, Execute PROVE IInv'
  OBVIOUS
<1>1. setup \in Setups /\ setup' = setup
  BY DEF IInv, TypeOK, Execute
<1> USE <1>1 DEF IInv, Before, After, Checking, Judging, Blocked, Steps
<1>2. /\ cursor \in Steps
      /\ Kind[cursor] # "verified"
      /\ pending = None
      /\ effectState = "not_dispatched"
      /\ \A i \in Steps : dispatches[i] <= 1
      /\ \A i \in Steps : i >= cursor => dispatches[i] = 0
  BY DEF Execute, PlaceInv, PauseInv, DispatchInv, EffectInv
<1>3. /\ dispatches' \in [Steps -> Nat]
      /\ \A i \in Steps : dispatches'[i] <= 1
      /\ \A i \in Steps : i > cursor => dispatches'[i] = 0
      /\ \A i \in Steps : i # cursor => dispatches'[i] = dispatches[i]
  <2>1. CASE CountDispatch
    BY <1>2, <2>1, CountDispatchFacts
  <2>2. CASE dispatches' = dispatches
    BY <1>2, <2>2 DEF TypeOK
  <2> QED
    BY <2>1, <2>2 DEF Execute
<1>4. TypeOK'
  <2>1. haveOutput' \in BOOLEAN
    BY DEF Execute, CountTry, SurfaceFailure, Refused, TypeOK
  <2> QED
    BY <1>3, SetupConstant, SessionAssumption, <2>1
    DEF Execute, MayDispatch, MayAct, Escalate, Return, Continue, CountTry, SurfaceFailure,
        Refused, TypeOK, LeaseTypeOK, ControlOwner, Labels, Codes, Statuses, Reason,
        WriteStates!EffectState, PlaceInv
<1>5. PlaceInv'
  BY SetupConstant DEF Execute, Escalate, Return, Continue, CountTry, SurfaceFailure,
                       Refused, PlaceInv, TypeOK, PauseInv, DriverInv
<1>6. DriverInv'
  BY DEF Execute, Escalate, Return, Continue, CountTry, SurfaceFailure, Refused, DriverInv,
         TypeOK, PauseInv, PlaceInv, LeaseTypeOK, ControlOwner
<1>7. PauseInv'
  BY SetupConstant DEF Execute, Escalate, Return, Continue, CountTry, SurfaceFailure,
                       Refused, PauseInv, TypeOK, PlaceInv, DriverInv, SoleWrite, HasRecipe
<1>8. DispatchInv'
  BY <1>3, SetupConstant DEF Execute, Escalate, Return, Continue, CountTry, SurfaceFailure,
                             Refused, DispatchInv, TypeOK, PlaceInv, DriverInv, PauseInv
<1>9. EffectInv'
  BY <1>3, CapabilityFacts, SetupConstant
  DEF Execute, Escalate, Return, Continue, CountTry, SurfaceFailure, Refused, EffectInv,
      TypeOK, PlaceInv, DriverInv, PauseInv, DispatchInv, HasRecipe
<1>10. TruthInv'
  BY DEF Execute, Escalate, Return, Continue, CountTry, SurfaceFailure, Refused, TruthInv,
         TypeOK, PlaceInv, EffectInv, EffectTruth
<1>11. ReconciledInv'
  BY DEF Execute, Return, Continue, CountTry, SurfaceFailure, Refused, ReconciledInv,
         TypeOK, PlaceInv, DriverInv
<1> QED
  BY <1>4, <1>5, <1>6, <1>7, <1>8, <1>9, <1>10, <1>11 DEF IInv

\* After the act the page may have left the scope.
LEMMA RecheckScopeStep == IInv /\ RecheckScope => IInv'
<1> SUFFICES ASSUME IInv, RecheckScope PROVE IInv'
  OBVIOUS
<1>1. setup \in Setups /\ setup' = setup
  BY DEF IInv, TypeOK, RecheckScope
<1> USE <1>1 DEF IInv, Before, After, Checking, Judging, Blocked, Steps
<1>2. TypeOK'
  BY SetupConstant, SessionAssumption DEF RecheckScope, SurfaceFailure, ScopeDenied, Return,
                                          Continue, TypeOK, LeaseTypeOK, ControlOwner,
                                          Labels, Codes, Statuses, Reason,
                                          WriteStates!EffectState, PlaceInv
<1>3. PlaceInv'
  BY SetupConstant DEF RecheckScope, SurfaceFailure, ScopeDenied, Return, Continue,
                       PlaceInv, TypeOK, PauseInv, DriverInv
<1>4. DriverInv'
  BY DEF RecheckScope, SurfaceFailure, ScopeDenied, Return, Continue, DriverInv, TypeOK,
         PauseInv, PlaceInv, LeaseTypeOK, ControlOwner
<1>5. PauseInv'
  BY DEF RecheckScope, SurfaceFailure, ScopeDenied, Return, Continue, PauseInv, TypeOK,
         PlaceInv, DriverInv
<1>6. DispatchInv'
  BY SetupConstant DEF RecheckScope, SurfaceFailure, ScopeDenied, Return, Continue,
                       DispatchInv, TypeOK, PlaceInv, DriverInv, PauseInv
<1>7. EffectInv'
  BY SetupConstant DEF RecheckScope, SurfaceFailure, ScopeDenied, Return, Continue,
                       EffectInv, TypeOK, PlaceInv, DriverInv, PauseInv, DispatchInv
<1>8. TruthInv'
  BY DEF RecheckScope, SurfaceFailure, ScopeDenied, Return, Continue, TruthInv, TypeOK,
         PlaceInv, EffectInv, EffectTruth
<1>9. ReconciledInv'
  BY DEF RecheckScope, ReconciledInv, PlaceInv, DriverInv
<1> QED
  BY <1>2, <1>3, <1>4, <1>5, <1>6, <1>7, <1>8, <1>9 DEF IInv

\* The postcondition is polled for; the cursor moves once it holds.
LEMMA ResolveStep == IInv /\ Resolve => IInv'
<1> SUFFICES ASSUME IInv, Resolve PROVE IInv'
  OBVIOUS
<1>1. setup \in Setups /\ setup' = setup
  BY DEF IInv, TypeOK, Resolve
<1> USE <1>1 DEF IInv, Before, After, Checking, Judging, Blocked, Steps
<1>2. TypeOK'
  BY SetupConstant, SessionAssumption DEF Resolve, Return, Continue, PollsLeft, CountTry,
                                          SurfaceFailure, TypeOK, LeaseTypeOK, ControlOwner,
                                          Labels, Codes, Statuses, Reason,
                                          WriteStates!EffectState, PlaceInv
<1>3. PlaceInv'
  BY SetupConstant DEF Resolve, Return, Continue, CountTry, SurfaceFailure, PlaceInv,
                       TypeOK, PauseInv, DriverInv
<1>4. DriverInv'
  BY DEF Resolve, Return, Continue, CountTry, SurfaceFailure, DriverInv, TypeOK, PauseInv,
         PlaceInv, LeaseTypeOK, ControlOwner
<1>5. PauseInv'
  BY DEF Resolve, Return, Continue, CountTry, SurfaceFailure, PauseInv, TypeOK, PlaceInv,
         DriverInv
<1>6. DispatchInv'
  BY SetupConstant DEF Resolve, Return, Continue, CountTry, SurfaceFailure, DispatchInv,
                       TypeOK, PlaceInv, DriverInv, PauseInv
<1>7. EffectInv'
  BY SetupConstant DEF Resolve, Return, Continue, CountTry, SurfaceFailure, EffectInv,
                       TypeOK, PlaceInv, DriverInv, PauseInv, DispatchInv
<1>8. TruthInv'
  BY DEF Resolve, Return, Continue, CountTry, SurfaceFailure, TruthInv, TypeOK, PlaceInv,
         EffectInv, EffectTruth
<1>9. ReconciledInv'
  BY DEF Resolve, SurfaceFailure, ReconciledInv, TypeOK, PlaceInv, DriverInv
<1> QED
  BY <1>2, <1>3, <1>4, <1>5, <1>6, <1>7, <1>8, <1>9 DEF IInv

\* The effect's view, before the write, is only read.
LEMMA BaselineViewStep == IInv /\ BaselineView => IInv'
<1> SUFFICES ASSUME IInv, BaselineView PROVE IInv'
  OBVIOUS
<1>1. setup \in Setups /\ setup' = setup
  BY DEF IInv, TypeOK, BaselineView
<1> USE <1>1 DEF IInv, Before, After, Checking, Judging, Blocked, Steps
<1>2. TypeOK'
  BY CapabilityFacts, SetupConstant DEF BaselineView, Continue, TypeOK, LeaseTypeOK,
                                        ControlOwner, Labels, Codes, Statuses, Reason,
                                        WriteStates!EffectState, PlaceInv
<1>3. PlaceInv'
  BY CapabilityFacts, SetupConstant DEF BaselineView, Continue, PlaceInv, DriverInv,
                                        HasRecipe
<1>4. DriverInv'
  BY DEF BaselineView, Continue, DriverInv, PlaceInv, LeaseTypeOK, ControlOwner
<1>5. PauseInv'
  BY DEF BaselineView, Continue, PauseInv, DriverInv
<1>6. DispatchInv'
  BY SetupConstant DEF BaselineView, Continue, DispatchInv, PlaceInv, DriverInv, PauseInv
<1>7. EffectInv'
  BY SetupConstant DEF BaselineView, Continue, EffectInv, DriverInv, PauseInv, DispatchInv
<1>8. TruthInv'
  BY SetupConstant DEF BaselineView, Continue, TruthInv, EffectInv, EffectTruth
<1>9. ReconciledInv'
  BY DEF BaselineView, ReconciledInv
<1> QED
  BY <1>2, <1>3, <1>4, <1>5, <1>6, <1>7, <1>8, <1>9 DEF IInv

\* What the baseline says of the effect is so then.
LEMMA BaselineEffectStep == IInv /\ BaselineEffect => IInv'
<1> SUFFICES ASSUME IInv, BaselineEffect PROVE IInv'
  OBVIOUS
<1>1. setup \in Setups /\ setup' = setup
  BY DEF IInv, TypeOK, BaselineEffect
<1> USE <1>1 DEF IInv, Before, After, Checking, Judging, Blocked, Steps
<1>2. TypeOK'
  BY CapabilityFacts, SetupConstant DEF BaselineEffect, Continue, TypeOK, LeaseTypeOK,
                                        ControlOwner, Labels, Codes, Statuses, Reason,
                                        WriteStates!EffectState, PlaceInv
<1>3. PlaceInv'
  BY CapabilityFacts, SetupConstant DEF BaselineEffect, Continue, PlaceInv, PauseInv,
                                        DriverInv, HasRecipe
<1>4. DriverInv'
  BY DEF BaselineEffect, Continue, DriverInv, PauseInv, PlaceInv, LeaseTypeOK, ControlOwner
<1>5. PauseInv'
  BY DEF BaselineEffect, Continue, PauseInv, PlaceInv, DriverInv
<1>6. DispatchInv'
  BY SetupConstant DEF BaselineEffect, DispatchInv, PlaceInv, DriverInv, PauseInv
<1>7. EffectInv'
  BY SetupConstant DEF BaselineEffect, Continue, EffectInv, PlaceInv, DriverInv, PauseInv,
                       DispatchInv
<1>8. TruthInv'
  BY DEF BaselineEffect, Continue, EffectVisible, TruthInv, PlaceInv, EffectInv, EffectTruth
<1>9. ReconciledInv'
  BY DEF BaselineEffect, ReconciledInv, DriverInv
<1> QED
  BY <1>2, <1>3, <1>4, <1>5, <1>6, <1>7, <1>8, <1>9 DEF IInv

\* The last look at the scope.
LEMMA FinishScopeStep == IInv /\ FinishScope => IInv'
<1> SUFFICES ASSUME IInv, FinishScope PROVE IInv'
  OBVIOUS
<1>1. setup \in Setups /\ setup' = setup
  BY DEF IInv, TypeOK, FinishScope
<1> USE <1>1 DEF IInv, Before, After, Checking, Judging, Blocked, Steps
<1>2. TypeOK'
  BY SetupConstant DEF FinishScope, SurfaceFailure, ScopeDenied, Return, Continue, TypeOK,
                       LeaseTypeOK, ControlOwner, Labels, Codes, Statuses, Reason,
                       WriteStates!EffectState, PlaceInv
<1>3. PlaceInv'
  BY CapabilityFacts, SetupConstant DEF FinishScope, SurfaceFailure, ScopeDenied, Return,
                                        Continue, PlaceInv, TypeOK, PauseInv, DriverInv
<1>4. DriverInv'
  BY DEF FinishScope, SurfaceFailure, ScopeDenied, Return, Continue, DriverInv, TypeOK,
         PauseInv, PlaceInv, LeaseTypeOK, ControlOwner
<1>5. PauseInv'
  BY DEF FinishScope, SurfaceFailure, ScopeDenied, Return, Continue, PauseInv, TypeOK,
         PlaceInv, DriverInv
<1>6. DispatchInv'
  BY SetupConstant DEF FinishScope, DispatchInv, TypeOK, PlaceInv, DriverInv, PauseInv
<1>7. EffectInv'
  BY SetupConstant DEF FinishScope, SurfaceFailure, ScopeDenied, Return, Continue,
                       EffectInv, TypeOK, PlaceInv, DriverInv, PauseInv, DispatchInv
<1>8. TruthInv'
  BY DEF FinishScope, SurfaceFailure, ScopeDenied, Return, Continue, TruthInv, TypeOK,
         PlaceInv, EffectInv, EffectTruth
<1>9. ReconciledInv'
  BY DEF FinishScope, ReconciledInv, PlaceInv, DriverInv
<1> QED
  BY <1>2, <1>3, <1>4, <1>5, <1>6, <1>7, <1>8, <1>9 DEF IInv

\* The end of a capability with no verified write.
LEMMA FinishSuccessStep == IInv /\ FinishSuccess => IInv'
<1> SUFFICES ASSUME IInv, FinishSuccess PROVE IInv'
  OBVIOUS
<1>1. setup \in Setups /\ setup' = setup
  BY DEF IInv, TypeOK, FinishSuccess
<1> USE <1>1 DEF IInv, Before, After, Checking, Judging, Blocked, Steps
<1>2. TypeOK'
  BY SetupConstant DEF FinishSuccess, SurfaceFailure, Return, TypeOK, LeaseTypeOK,
                       ControlOwner, Labels, Codes, Statuses, Reason,
                       WriteStates!EffectState, PlaceInv
<1>3. PlaceInv'
  BY SetupConstant DEF FinishSuccess, SurfaceFailure, Return, PlaceInv, PauseInv, DriverInv
<1>4. DriverInv'
  BY DEF FinishSuccess, SurfaceFailure, Return, DriverInv, PauseInv, PlaceInv, LeaseTypeOK,
         ControlOwner
<1>5. PauseInv'
  BY DEF FinishSuccess, SurfaceFailure, Return, PauseInv, PlaceInv, DriverInv
<1>6. DispatchInv'
  BY SetupConstant DEF FinishSuccess, SurfaceFailure, Return, DispatchInv, PlaceInv,
                       DriverInv, PauseInv
<1>7. EffectInv'
  BY SetupConstant DEF FinishSuccess, SurfaceFailure, Return, EffectInv, PlaceInv,
                       DriverInv, PauseInv, DispatchInv
<1>8. TruthInv'
  BY DEF FinishSuccess, SurfaceFailure, Return, TruthInv, PlaceInv, EffectInv, EffectTruth
<1>9. ReconciledInv'
  BY DEF FinishSuccess, ReconciledInv, DriverInv
<1> QED
  BY <1>2, <1>3, <1>4, <1>5, <1>6, <1>7, <1>8, <1>9 DEF IInv

\* The write leaves, is refused before it does, or may have left.
LEMMA CommitStep == IInv /\ Commit => IInv'
<1> SUFFICES ASSUME IInv, Commit PROVE IInv'
  OBVIOUS
<1>1. setup \in Setups /\ setup' = setup
  BY DEF IInv, TypeOK, Commit
<1> USE <1>1 DEF IInv, Before, After, Checking, Judging, Blocked, Steps
<1>2. /\ cursor \in Steps
      /\ Kind[cursor] = "verified"
      /\ pending = None
      /\ \A i \in Steps : dispatches[i] <= 1
      /\ \A i \in Steps : i >= cursor => dispatches[i] = 0
  BY DEF Commit, PlaceInv, PauseInv, DispatchInv
<1>3. /\ dispatches' \in [Steps -> Nat]
      /\ \A i \in Steps : dispatches'[i] <= 1
      /\ \A i \in Steps : i > cursor => dispatches'[i] = 0
      /\ \A i \in Steps : i # cursor => dispatches'[i] = dispatches[i]
  <2>1. CASE CountDispatch
    BY <1>2, <2>1, CountDispatchFacts
  <2>2. CASE dispatches' = dispatches
    BY <1>2, <2>2 DEF TypeOK
  <2> QED
    BY <2>1, <2>2 DEF Commit
<1>4. TypeOK'
  <2>1. inflight' \in BOOLEAN
    BY DEF Commit, SurfaceFailure, Refused, TypeOK
  <2> QED
    BY <1>3, CapabilityFacts, SetupConstant, <2>1
    DEF Commit, MayDispatch, MayAct, Continue, Return, SurfaceFailure, Refused, TypeOK,
        LeaseTypeOK, ControlOwner, Labels, Codes, Statuses, Reason, WriteStates!EffectState,
        PlaceInv
<1>5. PlaceInv'
  BY SetupConstant DEF Commit, Continue, Return, SurfaceFailure, Refused, PlaceInv, TypeOK,
                       PauseInv, DriverInv
<1>6. DriverInv'
  BY DEF Commit, Continue, Return, SurfaceFailure, Refused, DriverInv, TypeOK, PauseInv,
         PlaceInv, LeaseTypeOK, ControlOwner
<1>7. PauseInv'
  BY DEF Commit, Continue, Return, SurfaceFailure, Refused, PauseInv, TypeOK, PlaceInv,
         DriverInv
<1>8. DispatchInv'
  BY <1>3, SetupConstant DEF Commit, Continue, Return, SurfaceFailure, Refused, DispatchInv,
                             TypeOK, PlaceInv, DriverInv, PauseInv
<1>9. EffectInv'
  BY CapabilityFacts, SetupConstant DEF Commit, Continue, Return, SurfaceFailure, Refused,
                                        EffectInv, TypeOK, PlaceInv, DriverInv, PauseInv,
                                        DispatchInv
<1>10. TruthInv'
  BY SetupConstant DEF Commit, Continue, Return, SurfaceFailure, Refused, TruthInv, TypeOK,
                       PlaceInv, EffectInv, EffectTruth
<1>11. ReconciledInv'
  BY DEF Commit, Return, SurfaceFailure, Refused, ReconciledInv, TypeOK, PlaceInv, DriverInv
<1> QED
  BY <1>4, <1>5, <1>6, <1>7, <1>8, <1>9, <1>10, <1>11 DEF IInv

\* A declared outcome settles the write, any other response leaves it to be verified.
LEMMA RespondStep == IInv /\ Respond => IInv'
<1> SUFFICES ASSUME IInv, Respond PROVE IInv'
  OBVIOUS
<1>1. setup \in Setups /\ setup' = setup
  BY DEF IInv, TypeOK, Respond
<1> USE <1>1 DEF IInv, Before, After, Checking, Judging, Blocked, Steps
<1>2. TypeOK'
  BY CapabilityFacts, SetupConstant DEF Respond, Return, Continue, TypeOK, LeaseTypeOK,
                                        ControlOwner, Labels, Codes, Statuses, Reason,
                                        WriteStates!EffectState, PlaceInv
<1>3. PlaceInv'
  BY SetupConstant DEF Respond, Return, Continue, PlaceInv, PauseInv, DriverInv
<1>4. DriverInv'
  BY DEF Respond, Return, Continue, DriverInv, PauseInv, PlaceInv, LeaseTypeOK, ControlOwner
<1>5. PauseInv'
  BY DEF Respond, Return, Continue, PauseInv, PlaceInv, DriverInv
<1>6. DispatchInv'
  BY SetupConstant DEF Respond, Return, Continue, DispatchInv, PlaceInv, DriverInv, PauseInv
<1>7. EffectInv'
  BY DEF Respond, Return, Continue, EffectInv, PlaceInv, DriverInv, PauseInv, DispatchInv
<1>8. TruthInv'
  BY DEF Respond, Return, Continue, TruthInv, PlaceInv, EffectInv, EffectTruth
<1>9. ReconciledInv'
  BY DEF Respond, Return, Continue, ReconciledInv, PlaceInv, DriverInv
<1> QED
  BY <1>2, <1>3, <1>4, <1>5, <1>6, <1>7, <1>8, <1>9 DEF IInv

\* A verification writes nothing: neither do the steps that follow.
LEMMA VerifyNavigateStep == IInv /\ VerifyNavigate => IInv'
<1> SUFFICES ASSUME IInv, VerifyNavigate PROVE IInv'
  OBVIOUS
<1>1. setup \in Setups /\ setup' = setup
  BY DEF IInv, TypeOK, VerifyNavigate
<1> USE <1>1 DEF IInv, Before, After, Checking, Judging, Blocked, Steps
<1>2. CASE MutationAmbiguous /\ UNCHANGED page
  BY <1>2, AmbiguousStep DEF VerifyNavigate
<1>3. CASE ~(MutationAmbiguous /\ UNCHANGED page)
  <2>1. TypeOK'
    BY <1>3, SetupConstant DEF VerifyNavigate, Proceed, Continue, Propagate, TypeOK,
                               LeaseTypeOK, ControlOwner, Labels, Codes, Statuses, Reason,
                               WriteStates!EffectState, PlaceInv
  <2>2. PlaceInv'
    BY <1>3, SetupConstant DEF VerifyNavigate, Proceed, Continue, Propagate, PlaceInv,
                               TypeOK, PauseInv, DriverInv
  <2>3. DriverInv'
    BY <1>3 DEF VerifyNavigate, Proceed, Continue, Propagate, DriverInv, TypeOK, PauseInv,
                PlaceInv, LeaseTypeOK, ControlOwner
  <2>4. PauseInv'
    BY <1>3, SetupConstant DEF VerifyNavigate, Proceed, Continue, Propagate, PauseInv,
                               TypeOK, PlaceInv, DriverInv
  <2>5. DispatchInv'
    BY <1>3, SetupConstant DEF VerifyNavigate, Proceed, Continue, Propagate, DispatchInv,
                               TypeOK, PlaceInv, DriverInv, PauseInv
  <2>6. EffectInv'
    BY <1>3 DEF VerifyNavigate, Proceed, Continue, Propagate, EffectInv, TypeOK, PlaceInv,
                DriverInv, PauseInv, DispatchInv
  <2>7. TruthInv'
    BY <1>3 DEF VerifyNavigate, Proceed, Continue, Propagate, TruthInv, TypeOK, PlaceInv,
                EffectInv, EffectTruth
  <2>8. ReconciledInv'
    BY <1>3 DEF VerifyNavigate, Proceed, Continue, Propagate, ReconciledInv, TypeOK,
                PlaceInv, DriverInv
  <2> QED
    BY <2>1, <2>2, <2>3, <2>4, <2>5, <2>6, <2>7, <2>8 DEF IInv
<1> QED
  BY <1>2, <1>3

\* Out of scope, the verification has no answer.
LEMMA VerifyScopeStep == IInv /\ VerifyScope => IInv'
<1> SUFFICES ASSUME IInv, VerifyScope PROVE IInv'
  OBVIOUS
<1>1. setup \in Setups /\ setup' = setup
  BY DEF IInv, TypeOK, VerifyScope
<1> USE <1>1 DEF IInv, Before, After, Checking, Judging, Blocked, Steps
<1>2. CASE MutationAmbiguous /\ UNCHANGED nav
  BY <1>2, AmbiguousStep DEF VerifyScope
<1>3. CASE ~(MutationAmbiguous /\ UNCHANGED nav)
  <2>1. TypeOK'
    BY <1>3, CapabilityFacts, SetupConstant
    DEF VerifyScope, Proceed, Continue, TypeOK, LeaseTypeOK, ControlOwner, Labels, Codes,
        Statuses, Reason, WriteStates!EffectState, PlaceInv
  <2>2. PlaceInv'
    BY <1>3, SetupConstant DEF VerifyScope, Proceed, Continue, PlaceInv, TypeOK, PauseInv,
                               DriverInv
  <2>3. DriverInv'
    BY <1>3 DEF VerifyScope, Proceed, Continue, DriverInv, TypeOK, PauseInv, PlaceInv,
                LeaseTypeOK, ControlOwner
  <2>4. PauseInv'
    BY <1>3, SetupConstant DEF VerifyScope, Proceed, Continue, PauseInv, TypeOK, PlaceInv,
                               DriverInv
  <2>5. DispatchInv'
    BY <1>3, SetupConstant DEF VerifyScope, Proceed, Continue, DispatchInv, TypeOK,
                               PlaceInv, DriverInv, PauseInv
  <2>6. EffectInv'
    BY <1>3 DEF VerifyScope, Proceed, Continue, EffectInv, TypeOK, PlaceInv, DriverInv,
                PauseInv, DispatchInv
  <2>7. TruthInv'
    BY <1>3 DEF VerifyScope, Proceed, Continue, TruthInv, TypeOK, PlaceInv, EffectInv,
                EffectTruth
  <2>8. ReconciledInv'
    BY <1>3 DEF VerifyScope, Proceed, Continue, ReconciledInv, TypeOK, PlaceInv, DriverInv
  <2> QED
    BY <2>1, <2>2, <2>3, <2>4, <2>5, <2>6, <2>7, <2>8 DEF IInv
<1> QED
  BY <1>2, <1>3

\* Nor has it under a dialog.
LEMMA VerifyDialogStep == IInv /\ VerifyDialog => IInv'
<1> SUFFICES ASSUME IInv, VerifyDialog PROVE IInv'
  OBVIOUS
<1>1. setup \in Setups /\ setup' = setup
  BY DEF IInv, TypeOK, VerifyDialog
<1> USE <1>1 DEF IInv, Before, After, Checking, Judging, Blocked, Steps
<1>2. CASE MutationAmbiguous
  BY <1>2, AmbiguousStep DEF VerifyDialog
<1>3. CASE ~MutationAmbiguous
  <2>1. TypeOK'
    BY <1>3, SetupConstant DEF VerifyDialog, Proceed, Continue, TypeOK, LeaseTypeOK,
                               ControlOwner, Labels, Codes, Statuses, Reason,
                               WriteStates!EffectState, PlaceInv
  <2>2. PlaceInv'
    BY <1>3, SetupConstant DEF VerifyDialog, Proceed, Continue, PlaceInv, TypeOK, PauseInv,
                               DriverInv
  <2>3. DriverInv'
    BY <1>3 DEF VerifyDialog, Proceed, Continue, DriverInv, TypeOK, PauseInv, PlaceInv,
                LeaseTypeOK, ControlOwner
  <2>4. PauseInv'
    BY <1>3, SetupConstant DEF VerifyDialog, Proceed, Continue, PauseInv, TypeOK, PlaceInv,
                               DriverInv
  <2>5. DispatchInv'
    BY <1>3, SetupConstant DEF VerifyDialog, Proceed, Continue, DispatchInv, TypeOK,
                               PlaceInv, DriverInv, PauseInv
  <2>6. EffectInv'
    BY <1>3 DEF VerifyDialog, Proceed, Continue, EffectInv, TypeOK, PlaceInv, DriverInv,
                PauseInv, DispatchInv
  <2>7. TruthInv'
    BY <1>3 DEF VerifyDialog, Proceed, Continue, TruthInv, TypeOK, PlaceInv, EffectInv,
                EffectTruth
  <2>8. ReconciledInv'
    BY <1>3 DEF VerifyDialog, Proceed, Continue, ReconciledInv, TypeOK, PlaceInv, DriverInv
  <2> QED
    BY <2>1, <2>2, <2>3, <2>4, <2>5, <2>6, <2>7, <2>8 DEF IInv
<1> QED
  BY <1>2, <1>3

\* Nor on another view.
LEMMA VerifyViewStep == IInv /\ VerifyView => IInv'
<1> SUFFICES ASSUME IInv, VerifyView PROVE IInv'
  OBVIOUS
<1>1. setup \in Setups /\ setup' = setup
  BY DEF IInv, TypeOK, VerifyView
<1> USE <1>1 DEF IInv, Before, After, Checking, Judging, Blocked, Steps
<1>2. CASE MutationAmbiguous
  BY <1>2, AmbiguousStep DEF VerifyView
<1>3. CASE ~MutationAmbiguous
  <2>1. TypeOK'
    BY <1>3, SetupConstant DEF VerifyView, Proceed, Continue, TypeOK, LeaseTypeOK,
                               ControlOwner, Labels, Codes, Statuses, Reason,
                               WriteStates!EffectState, PlaceInv
  <2>2. PlaceInv'
    BY <1>3, SetupConstant DEF VerifyView, Proceed, Continue, PlaceInv, TypeOK, PauseInv,
                               DriverInv
  <2>3. DriverInv'
    BY <1>3 DEF VerifyView, Proceed, Continue, DriverInv, TypeOK, PauseInv, PlaceInv,
                LeaseTypeOK, ControlOwner
  <2>4. PauseInv'
    BY <1>3, SetupConstant DEF VerifyView, Proceed, Continue, PauseInv, TypeOK, PlaceInv,
                               DriverInv
  <2>5. DispatchInv'
    BY <1>3, SetupConstant DEF VerifyView, Proceed, Continue, DispatchInv, TypeOK, PlaceInv,
                               DriverInv, PauseInv
  <2>6. EffectInv'
    BY <1>3 DEF VerifyView, Proceed, Continue, EffectInv, TypeOK, PlaceInv, DriverInv,
                PauseInv, DispatchInv
  <2>7. TruthInv'
    BY <1>3, SetupConstant DEF VerifyView, Proceed, Continue, TruthInv, TypeOK, PlaceInv,
                               EffectInv, EffectTruth
  <2>8. ReconciledInv'
    BY <1>3 DEF VerifyView, Proceed, Continue, ReconciledInv, TypeOK, PlaceInv, DriverInv
  <2> QED
    BY <2>1, <2>2, <2>3, <2>4, <2>5, <2>6, <2>7, <2>8 DEF IInv
<1> QED
  BY <1>2, <1>3

\* The effect is read where the recipe says.
LEMMA VerifyEffectStep == IInv /\ VerifyEffect => IInv'
<1> SUFFICES ASSUME IInv, VerifyEffect PROVE IInv'
  OBVIOUS
<1>1. setup \in Setups /\ setup' = setup
  BY DEF IInv, TypeOK, VerifyEffect
<1> USE <1>1 DEF IInv, Before, After, Checking, Judging, Blocked, Steps
<1>2. CASE MutationAmbiguous
  BY <1>2, AmbiguousStep DEF VerifyEffect
<1>3. CASE ~MutationAmbiguous
  <2>1. TypeOK'
    <3>1. pendingCommit' \in BOOLEAN
      BY <1>3 DEF VerifyEffect, Proceed, Conclude, AbsenceIsAuthoritative, TypeOK
    <3> QED
      BY <1>3, SetupConstant, <3>1 DEF VerifyEffect, Proceed, Continue, Conclude,
                                       EffectVisible, AbsentBefore, AbsenceIsAuthoritative,
                                       Return, TypeOK, LeaseTypeOK, ControlOwner, Labels,
                                       Codes, Statuses, Reason, WriteStates!EffectState,
                                       PlaceInv
  <2>2. PlaceInv'
    BY <1>3, SetupConstant DEF VerifyEffect, Proceed, Continue, Conclude, EffectVisible,
                               AbsentBefore, AbsenceIsAuthoritative, Return, PlaceInv,
                               TypeOK, PauseInv, DriverInv
  <2>3. DriverInv'
    BY <1>3 DEF VerifyEffect, Proceed, Continue, Conclude, EffectVisible, AbsentBefore,
                AbsenceIsAuthoritative, Return, DriverInv, TypeOK, PauseInv, PlaceInv,
                LeaseTypeOK, ControlOwner
  <2>4. PauseInv'
    BY <1>3, SetupConstant DEF VerifyEffect, Proceed, Continue, Conclude, EffectVisible,
                               AbsentBefore, AbsenceIsAuthoritative, Return, PauseInv,
                               TypeOK, PlaceInv, DriverInv
  <2>5. DispatchInv'
    BY <1>3, SetupConstant DEF VerifyEffect, Proceed, Continue, Conclude, EffectVisible,
                               AbsentBefore, AbsenceIsAuthoritative, Return, DispatchInv,
                               TypeOK, PlaceInv, DriverInv, PauseInv
  <2>6. EffectInv'
    BY <1>3 DEF VerifyEffect, Proceed, Continue, Conclude, EffectVisible, AbsentBefore,
                AbsenceIsAuthoritative, Return, EffectInv, TypeOK, PlaceInv, DriverInv,
                PauseInv, DispatchInv
  <2>7. TruthInv'
    BY <1>3 DEF VerifyEffect, Proceed, Continue, Conclude, EffectVisible, AbsentBefore,
                AbsenceIsAuthoritative, Return, TruthInv, TypeOK, PlaceInv, EffectInv,
                EffectTruth
  <2>8. ReconciledInv'
    BY <1>3 DEF VerifyEffect, Proceed, Continue, Conclude, EffectVisible, AbsentBefore,
                AbsenceIsAuthoritative, Return, ReconciledInv, TypeOK, PlaceInv, DriverInv
  <2> QED
    BY <2>1, <2>2, <2>3, <2>4, <2>5, <2>6, <2>7, <2>8 DEF IInv
<1> QED
  BY <1>2, <1>3

\* The effect is there: the write committed.
LEMMA VerifyExtractStep == IInv /\ VerifyExtract => IInv'
<1> SUFFICES ASSUME IInv, VerifyExtract PROVE IInv'
  OBVIOUS
<1>1. setup \in Setups /\ setup' = setup
  BY DEF IInv, TypeOK, VerifyExtract
<1> USE <1>1 DEF IInv, Before, After, Checking, Judging, Blocked, Steps
<1>2. CASE MutationAmbiguous /\ UNCHANGED haveOutput
  BY <1>2, AmbiguousStep DEF VerifyExtract
<1>3. CASE ~(MutationAmbiguous /\ UNCHANGED haveOutput)
  <2>1. TypeOK'
    <3>1. haveOutput' \in BOOLEAN
      BY DEF VerifyExtract, TypeOK
    <3> QED
      BY <1>3, SetupConstant, <3>1 DEF VerifyExtract, Proceed, Continue, Propagate, TypeOK,
                                       LeaseTypeOK, ControlOwner, Labels, Codes, Statuses,
                                       Reason, WriteStates!EffectState, PlaceInv
  <2>2. PlaceInv'
    BY <1>3, SetupConstant DEF VerifyExtract, Proceed, Continue, Propagate, PlaceInv,
                               TypeOK, PauseInv, DriverInv
  <2>3. DriverInv'
    BY <1>3 DEF VerifyExtract, Proceed, Continue, Propagate, DriverInv, TypeOK, PauseInv,
                PlaceInv, LeaseTypeOK, ControlOwner
  <2>4. PauseInv'
    BY <1>3, SetupConstant DEF VerifyExtract, Proceed, Continue, Propagate, PauseInv,
                               TypeOK, PlaceInv, DriverInv
  <2>5. DispatchInv'
    BY <1>3, SetupConstant DEF VerifyExtract, Proceed, Continue, Propagate, DispatchInv,
                               TypeOK, PlaceInv, DriverInv, PauseInv
  <2>6. EffectInv'
    BY <1>3 DEF VerifyExtract, Proceed, Continue, Propagate, EffectInv, TypeOK, PlaceInv,
                DriverInv, PauseInv, DispatchInv
  <2>7. TruthInv'
    BY <1>3 DEF VerifyExtract, Proceed, Continue, Propagate, TruthInv, TypeOK, PlaceInv,
                EffectInv, EffectTruth
  <2>8. ReconciledInv'
    BY <1>3 DEF VerifyExtract, Proceed, Continue, Propagate, ReconciledInv, TypeOK,
                PlaceInv, DriverInv
  <2> QED
    BY <2>1, <2>2, <2>3, <2>4, <2>5, <2>6, <2>7, <2>8 DEF IInv
<1> QED
  BY <1>2, <1>3

\* A committed write is concluded one way or the other; an error of the surface
\* in a second verification leaves the pause as it was.
LEMMA VerifySuccessStep == IInv /\ VerifySuccess => IInv'
<1> SUFFICES ASSUME IInv, VerifySuccess PROVE IInv'
  OBVIOUS
<1>1. setup \in Setups /\ setup' = setup
  BY DEF IInv, TypeOK, VerifySuccess
<1> USE <1>1 DEF IInv, Before, After, Checking, Judging, Blocked, Steps
<1>2. TypeOK'
  <2>1. pendingCommit' \in BOOLEAN
    BY DEF VerifySuccess, Conclude, Propagate, TypeOK
  <2> QED
    BY SetupConstant, <2>1 DEF VerifySuccess, Conclude, Return, SurfaceFailure, Propagate,
                               TypeOK, LeaseTypeOK, ControlOwner, Labels, Codes, Statuses,
                               Reason, WriteStates!EffectState, PlaceInv
<1>3. PlaceInv'
  BY SetupConstant DEF VerifySuccess, Conclude, Return, SurfaceFailure, Propagate, PlaceInv,
                       TypeOK, PauseInv, DriverInv
<1>4. DriverInv'
  BY DEF VerifySuccess, Conclude, Return, SurfaceFailure, Propagate, DriverInv, TypeOK,
         PauseInv, PlaceInv, LeaseTypeOK, ControlOwner
<1>5. PauseInv'
  BY SetupConstant DEF VerifySuccess, Conclude, Return, SurfaceFailure, Propagate, PauseInv,
                       TypeOK, PlaceInv, DriverInv
<1>6. DispatchInv'
  BY SetupConstant DEF VerifySuccess, Conclude, Return, SurfaceFailure, Propagate,
                       DispatchInv, TypeOK, PlaceInv, DriverInv, PauseInv
<1>7. EffectInv'
  BY DEF VerifySuccess, Conclude, Return, SurfaceFailure, Propagate, EffectInv, TypeOK,
         PlaceInv, DriverInv, PauseInv, DispatchInv
<1>8. TruthInv'
  BY DEF VerifySuccess, Conclude, Return, SurfaceFailure, Propagate, TruthInv, TypeOK,
         PlaceInv, EffectInv, EffectTruth
<1>9. ReconciledInv'
  BY DEF VerifySuccess, Conclude, Return, SurfaceFailure, Propagate, ReconciledInv, TypeOK,
         PlaceInv, DriverInv
<1> QED
  BY <1>2, <1>3, <1>4, <1>5, <1>6, <1>7, <1>8, <1>9 DEF IInv

\* The operator takes a session that is paused.
LEMMA TakeControlStep == IInv /\ TakeControl => IInv'
<1> SUFFICES ASSUME IInv, TakeControl PROVE IInv'
  OBVIOUS
<1>1. setup \in Setups /\ setup' = setup
  BY DEF IInv, TypeOK, TakeControl
<1> USE <1>1 DEF IInv, Before, After, Checking, Judging, Blocked, Steps
<1>2. TypeOK'
  BY SetupConstant DEF TakeControl, ToHuman, TypeOK, LeaseTypeOK, ControlOwner, Labels,
                       Codes, Statuses, Reason, WriteStates!EffectState, PlaceInv
<1>3. PlaceInv'
  BY SetupConstant DEF TakeControl, PlaceInv, DriverInv
<1>4. DriverInv'
  BY DEF TakeControl, DriverInv, LeaseTypeOK, ControlOwner
<1>5. PauseInv'
  BY SetupConstant DEF TakeControl, PauseInv, DriverInv
<1>6. DispatchInv'
  BY SetupConstant DEF TakeControl, DispatchInv, DriverInv, PauseInv
<1>7. EffectInv'
  BY SetupConstant DEF TakeControl, EffectInv, DriverInv, PauseInv, DispatchInv
<1>8. TruthInv'
  BY DEF TakeControl, TruthInv, EffectTruth
<1>9. ReconciledInv'
  BY DEF TakeControl, ReconciledInv
<1> QED
  BY <1>2, <1>3, <1>4, <1>5, <1>6, <1>7, <1>8, <1>9 DEF IInv

\* What the operator does on the page dispatches no step.
LEMMA PerformStep == IInv /\ Perform => IInv'
<1> SUFFICES ASSUME IInv, Perform PROVE IInv'
  OBVIOUS
<1>1. setup \in Setups /\ setup' = setup
  BY DEF IInv, TypeOK, Perform
<1> USE <1>1 DEF IInv, Before, After, Checking, Judging, Blocked, Steps
<1>2. TypeOK'
  BY SetupConstant DEF Perform, TypeOK, LeaseTypeOK, ControlOwner, Labels, Codes, Statuses,
                       Reason, WriteStates!EffectState, PlaceInv
<1>3. PlaceInv'
  BY SetupConstant DEF Perform, PlaceInv
<1>4. DriverInv'
  BY DEF Perform, DriverInv, ControlOwner
<1>5. PauseInv'
  BY SetupConstant DEF Perform, PauseInv
<1>6. DispatchInv'
  BY SetupConstant DEF Perform, DispatchInv, PauseInv
<1>7. EffectInv'
  BY SetupConstant DEF Perform, EffectInv, PauseInv, DispatchInv
<1>8. TruthInv'
  BY DEF Perform, TruthInv, EffectTruth
<1>9. ReconciledInv'
  BY DEF Perform, ReconciledInv
<1> QED
  BY <1>2, <1>3, <1>4, <1>5, <1>6, <1>7, <1>8, <1>9 DEF IInv

\* An ambiguous write is verified again, never sent again.
LEMMA ResumeAmbiguousStep == IInv /\ ResumeAmbiguous => IInv'
<1> SUFFICES ASSUME IInv, ResumeAmbiguous PROVE IInv'
  OBVIOUS
<1>1. setup \in Setups /\ setup' = setup
  BY DEF IInv, TypeOK, ResumeAmbiguous
<1> USE <1>1 DEF IInv, Before, After, Checking, Judging, Blocked, Steps
<1>2. TypeOK'
  BY CapabilityFacts, SetupConstant, HandBackFacts
  DEF ResumeAmbiguous, Continue, Return, TypeOK, LeaseTypeOK, ControlOwner, Labels, Codes,
      Statuses, Reason, WriteStates!EffectState, PlaceInv
<1>3. PlaceInv'
  BY SetupConstant DEF ResumeAmbiguous, Continue, Return, PlaceInv, TypeOK, PauseInv,
                       DriverInv
<1>4. DriverInv'
  BY HandBackFacts DEF ResumeAmbiguous, Continue, Return, DriverInv, TypeOK, PauseInv,
                       PlaceInv, LeaseTypeOK, ControlOwner
<1>5. PauseInv'
  BY SetupConstant DEF ResumeAmbiguous, AmbiguousPause, Continue, Return, PauseInv, TypeOK,
                       PlaceInv, DriverInv
<1>6. DispatchInv'
  BY SetupConstant DEF ResumeAmbiguous, Continue, Return, DispatchInv, TypeOK, PlaceInv,
                       DriverInv, PauseInv
<1>7. EffectInv'
  BY SetupConstant DEF ResumeAmbiguous, Continue, Return, EffectInv, TypeOK, PlaceInv,
                       DriverInv, PauseInv, DispatchInv
<1>8. TruthInv'
  BY DEF ResumeAmbiguous, Continue, Return, TruthInv, TypeOK, PlaceInv, EffectInv,
         EffectTruth
<1>9. ReconciledInv'
  BY DEF ResumeAmbiguous, Continue, Return, ReconciledInv, TypeOK, PlaceInv, DriverInv
<1> QED
  BY <1>2, <1>3, <1>4, <1>5, <1>6, <1>7, <1>8, <1>9 DEF IInv

\* A cleared dialog is judged by the checkpoints below the cursor.
LEMMA ResumeBlockedStep == IInv /\ ResumeBlocked => IInv'
<1> SUFFICES ASSUME IInv, ResumeBlocked PROVE IInv'
  OBVIOUS
<1>1. setup \in Setups /\ setup' = setup
  BY DEF IInv, TypeOK, ResumeBlocked
<1> USE <1>1 DEF IInv, Before, After, Checking, Judging, Blocked, Steps
<1>2. TypeOK'
  BY SetupConstant, HandBackFacts DEF ResumeBlocked, FailClosed, Continue, KeepControl,
                                      Return, TypeOK, LeaseTypeOK, ControlOwner, Labels,
                                      Codes, Statuses, Reason, WriteStates!EffectState,
                                      PlaceInv
<1>3. PlaceInv'
  BY SetupConstant DEF ResumeBlocked, FailClosed, Continue, Return, PlaceInv, TypeOK,
                       PauseInv, DriverInv
<1>4. DriverInv'
  BY HandBackFacts, CheckpointsConstant DEF ResumeBlocked, AmbiguousPause, FailClosed,
                                            Continue, KeepControl, Return, DriverInv,
                                            TypeOK, PauseInv, PlaceInv, LeaseTypeOK,
                                            ControlOwner, Reason
<1>5. PauseInv'
  BY DEF ResumeBlocked, AmbiguousPause, FailClosed, Continue, KeepControl, Return, PauseInv,
         TypeOK, PlaceInv, DriverInv
<1>6. DispatchInv'
  BY SetupConstant DEF ResumeBlocked, FailClosed, Continue, KeepControl, Return,
                       DispatchInv, TypeOK, PlaceInv, DriverInv, PauseInv
<1>7. EffectInv'
  BY SetupConstant DEF ResumeBlocked, FailClosed, Continue, KeepControl, Return, EffectInv,
                       TypeOK, PlaceInv, DriverInv, PauseInv, DispatchInv
<1>8. TruthInv'
  BY DEF ResumeBlocked, FailClosed, Continue, Return, TruthInv, TypeOK, PlaceInv, EffectInv,
         EffectTruth
<1>9. ReconciledInv'
  BY DEF ResumeBlocked, FailClosed, Continue, Return, ReconciledInv, TypeOK, PlaceInv,
         DriverInv
<1> QED
  BY <1>2, <1>3, <1>4, <1>5, <1>6, <1>7, <1>8, <1>9 DEF IInv

\* A judgement that cannot be made, or is out of scope, fails closed.
LEMMA AssessScopeStep == IInv /\ AssessScope => IInv'
<1> SUFFICES ASSUME IInv, AssessScope PROVE IInv'
  OBVIOUS
<1>1. setup \in Setups /\ setup' = setup
  BY DEF IInv, TypeOK, AssessScope
<1> USE <1>1 DEF IInv, Before, After, Checking, Judging, Blocked, Steps
<1>2. CASE \E c \in Codes : FailClosed(c) /\ UNCHANGED << caller, tries, blocked >>
  BY <1>2, FailClosedStep DEF AssessScope
<1>3. CASE Continue("poll") /\ tries' = 0 /\ blocked' = TRUE /\ KeepControl /\ UNCHANGED caller
  <2>1. TypeOK'
    <3>1. blocked' \in BOOLEAN
      BY <1>3
    <3> QED
      BY <1>3, SetupConstant, SessionAssumption
      DEF AssessScope, Continue, KeepControl, TypeOK, LeaseTypeOK, ControlOwner, Labels,
          Codes, Statuses, Reason, WriteStates!EffectState, PlaceInv
  <2>2. PlaceInv'
    BY <1>3, SetupConstant DEF AssessScope, Continue, PlaceInv, TypeOK, PauseInv, DriverInv
  <2>3. DriverInv'
    BY <1>3, CheckpointsConstant DEF AssessScope, Continue, KeepControl, DriverInv, TypeOK,
                                     PauseInv, PlaceInv, LeaseTypeOK, ControlOwner
  <2>4. PauseInv'
    BY <1>3 DEF AssessScope, Continue, KeepControl, PauseInv, TypeOK, PlaceInv, DriverInv
  <2>5. DispatchInv'
    BY SetupConstant DEF AssessScope, DispatchInv, TypeOK, PlaceInv, DriverInv, PauseInv
  <2>6. EffectInv'
    BY <1>3, SetupConstant DEF AssessScope, Continue, EffectInv, TypeOK, PlaceInv,
                               DriverInv, PauseInv, DispatchInv
  <2>7. TruthInv'
    BY <1>3 DEF AssessScope, Continue, TruthInv, TypeOK, PlaceInv, EffectInv, EffectTruth
  <2>8. ReconciledInv'
    BY <1>3 DEF Continue, ReconciledInv, TypeOK, PlaceInv, DriverInv
  <2> QED
    BY <2>1, <2>2, <2>3, <2>4, <2>5, <2>6, <2>7, <2>8 DEF IInv
<1> QED
  BY <1>2, <1>3 DEF AssessScope, Codes

\* The dialog is still there, or gone.
LEMMA PollDialogStep == IInv /\ PollDialog => IInv'
<1> SUFFICES ASSUME IInv, PollDialog PROVE IInv'
  OBVIOUS
<1>1. setup \in Setups /\ setup' = setup
  BY DEF IInv, TypeOK, PollDialog
<1> USE <1>1 DEF IInv, Before, After, Checking, Judging, Blocked, Steps
<1>2. CASE \E c \in Codes : FailClosed(c) /\ UNCHANGED << caller, tries, blocked >>
  BY <1>2, FailClosedStep DEF PollDialog
<1>3. CASE \E seen \in BOOLEAN : PollAgain(seen) /\ UNCHANGED caller
  BY <1>3, PollAgainStep DEF PollDialog
<1>4. CASE /\ Continue("poll_page") /\ blocked' = FALSE
           /\ KeepControl /\ UNCHANGED << caller, tries >>
  <2>1. TypeOK'
    <3>1. blocked' \in BOOLEAN
      BY <1>4
    <3> QED
      BY <1>4, SetupConstant, <3>1 DEF PollDialog, Continue, KeepControl, TypeOK,
                                       LeaseTypeOK, ControlOwner, Labels, Codes, Statuses,
                                       Reason, WriteStates!EffectState, PlaceInv
  <2>2. PlaceInv'
    BY <1>4, SetupConstant DEF PollDialog, Continue, PlaceInv, TypeOK, PauseInv, DriverInv
  <2>3. DriverInv'
    BY <1>4, CheckpointsConstant DEF PollDialog, Continue, KeepControl, DriverInv, TypeOK,
                                     PauseInv, PlaceInv, LeaseTypeOK, ControlOwner
  <2>4. PauseInv'
    BY <1>4 DEF PollDialog, Continue, KeepControl, PauseInv, TypeOK, PlaceInv, DriverInv
  <2>5. DispatchInv'
    BY SetupConstant DEF PollDialog, DispatchInv, TypeOK, PlaceInv, DriverInv, PauseInv
  <2>6. EffectInv'
    BY <1>4, SetupConstant DEF PollDialog, Continue, EffectInv, TypeOK, PlaceInv, DriverInv,
                               PauseInv, DispatchInv
  <2>7. TruthInv'
    BY <1>4 DEF PollDialog, Continue, TruthInv, TypeOK, PlaceInv, EffectInv, EffectTruth
  <2>8. ReconciledInv'
    BY <1>4 DEF Continue, ReconciledInv, TypeOK, PlaceInv, DriverInv
  <2> QED
    BY <2>1, <2>2, <2>3, <2>4, <2>5, <2>6, <2>7, <2>8 DEF IInv
<1> QED
  BY <1>2, <1>3, <1>4 DEF PollDialog, Codes, TypeOK

\* The nearest checkpoint holds, or the polls go on to their end.
LEMMA PollCheckpointStep == IInv /\ PollCheckpoint => IInv'
<1> SUFFICES ASSUME IInv, PollCheckpoint PROVE IInv'
  OBVIOUS
<1>1. setup \in Setups /\ setup' = setup
  BY DEF IInv, TypeOK, PollCheckpoint
<1> USE <1>1 DEF IInv, Before, After, Checking, Judging, Blocked, Steps
<1>2. CASE \E c \in Codes : FailClosed(c) /\ UNCHANGED << caller, tries, blocked >>
  BY <1>2, FailClosedStep DEF PollCheckpoint
<1>3. CASE \E seen \in BOOLEAN : PollAgain(seen) /\ UNCHANGED caller
  BY <1>3, PollAgainStep DEF PollCheckpoint
<1>4. CASE CheckpointHolds /\ HandBack /\ ResumeFromCursor /\ UNCHANGED << tries, blocked >>
  <2>1. reconciled'
    BY <1>4, HandBackReconciles DEF PollCheckpoint, DriverInv
  <2>2. TypeOK'
    BY <1>4, SetupConstant, HandBackFacts
    DEF PollCheckpoint, Continue, ResumeFromCursor, TypeOK, LeaseTypeOK, ControlOwner,
        Labels, Codes, Statuses, Reason, WriteStates!EffectState, PlaceInv
  <2>3. PlaceInv'
    BY <1>4, SetupConstant DEF PollCheckpoint, Continue, ResumeFromCursor, PlaceInv, TypeOK,
                               PauseInv, DriverInv
  <2>4. DriverInv'
    BY <1>4, HandBackFacts DEF Continue, ResumeFromCursor, DriverInv, TypeOK, PauseInv,
                               PlaceInv, LeaseTypeOK, ControlOwner
  <2>5. PauseInv'
    BY <1>4 DEF PollCheckpoint, Continue, ResumeFromCursor, PauseInv, TypeOK, PlaceInv,
                DriverInv
  <2>6. DispatchInv'
    BY SetupConstant DEF PollCheckpoint, DispatchInv, TypeOK, PlaceInv, DriverInv, PauseInv
  <2>7. EffectInv'
    BY <1>4, SetupConstant DEF PollCheckpoint, Continue, ResumeFromCursor, EffectInv,
                               TypeOK, PlaceInv, DriverInv, PauseInv, DispatchInv
  <2>8. TruthInv'
    BY <1>4 DEF PollCheckpoint, Continue, ResumeFromCursor, TruthInv, TypeOK, PlaceInv,
                EffectInv, EffectTruth
  <2>9. ReconciledInv'
    BY <2>1 DEF ReconciledInv, PlaceInv, DriverInv
  <2> QED
    BY <2>2, <2>3, <2>4, <2>5, <2>6, <2>7, <2>8, <2>9 DEF IInv
<1> QED
  BY <1>2, <1>3, <1>4 DEF PollCheckpoint, Codes, TypeOK

\* Nothing the application does on its own gives the session a dispatch.
LEMMA ApplicationStep == IInv /\ Application => IInv'
<1> SUFFICES ASSUME IInv, Application PROVE IInv'
  OBVIOUS
<1>1. setup \in Setups /\ setup' = setup
  BY DEF IInv, TypeOK, Application, DialogChanges, LateWrite, Navigates, ForeignWrite
<1> USE <1>1 DEF IInv, Before, After, Checking, Judging, Blocked, Steps
<1>2. TypeOK'
  <2>1. dialog' \in BOOLEAN
    BY DEF Application, DialogChanges, LateWrite, Navigates, ForeignWrite, TypeOK
  <2>2. foreign' \in BOOLEAN
    BY DEF Application, DialogChanges, LateWrite, Navigates, ForeignWrite, TypeOK
  <2>3. inflight' \in BOOLEAN
    BY DEF Application, DialogChanges, LateWrite, Navigates, ForeignWrite, TypeOK
  <2> QED
    BY SetupConstant, <2>1, <2>2, <2>3 DEF Application, DialogChanges, LateWrite, Navigates,
                                           ForeignWrite, TypeOK, LeaseTypeOK, ControlOwner,
                                           Labels, Codes, Statuses, Reason,
                                           WriteStates!EffectState, PlaceInv
<1>3. PlaceInv'
  BY SetupConstant DEF Application, PlaceInv, TypeOK, PauseInv, DriverInv
<1>4. DriverInv'
  BY CheckpointsConstant DEF Application, DriverInv, PauseInv, PlaceInv, LeaseTypeOK,
                             ControlOwner
<1>5. PauseInv'
  BY SetupConstant DEF Application, PauseInv, TypeOK, PlaceInv, DriverInv
<1>6. DispatchInv'
  BY SetupConstant DEF Application, DispatchInv, TypeOK, PlaceInv, DriverInv, PauseInv
<1>7. EffectInv'
  BY SetupConstant DEF Application, DialogChanges, LateWrite, Navigates, ForeignWrite,
                       EffectInv, TypeOK, PlaceInv, DriverInv, PauseInv, DispatchInv
<1>8. TruthInv'
  BY CapabilityFacts, SetupConstant DEF Application, DialogChanges, LateWrite, Navigates,
                                        ForeignWrite, TruthInv, TypeOK, PlaceInv, EffectInv,
                                        EffectTruth
<1>9. ReconciledInv'
  BY DEF Application, ReconciledInv, PlaceInv, DriverInv
<1> QED
  BY <1>2, <1>3, <1>4, <1>5, <1>6, <1>7, <1>8, <1>9 DEF IInv

-----------------------------------------------------------------------------
(* The invariant *)

\* The session begins idle, with nothing sent.
LEMMA InitInv == Init => IInv
<1> SUFFICES ASSUME Init PROVE IInv
  OBVIOUS
<1>1. setup \in Setups
  BY DEF Init
<1> USE <1>1 DEF Init, LeaseInit, NoResult
<1>2. TypeOK
  <2>1. /\ inflight \in BOOLEAN /\ blocked \in BOOLEAN /\ pendingCommit \in BOOLEAN
        /\ haveOutput \in BOOLEAN /\ reconciled \in BOOLEAN
    OBVIOUS
  <2> QED
    BY <2>1, CapabilityFacts, SessionAssumption
    DEF TypeOK, LeaseTypeOK, ControlOwner, Labels, Codes, Statuses, WriteStates!EffectState,
        Steps
<1>3. PlaceInv
  BY CapabilityFacts DEF PlaceInv, After, Checking, Judging
<1>4. DriverInv /\ PauseInv
  BY DEF DriverInv, PauseInv, Judging, Checking, Before, After
<1>5. DispatchInv
  BY CapabilityFacts DEF DispatchInv, Blocked, After
<1>6. EffectInv
  BY CapabilityFacts DEF EffectInv, Before, After, Checking, Blocked
<1>7. TruthInv /\ ReconciledInv
  BY DEF TruthInv, EffectTruth, ReconciledInv
<1> QED
  BY <1>2, <1>3, <1>4, <1>5, <1>6, <1>7 DEF IInv

\* A step of nobody leaves the invariant alone.
LEMMA StutterStep == IInv /\ UNCHANGED vars => IInv'
<1> SUFFICES ASSUME IInv, UNCHANGED vars PROVE IInv'
  OBVIOUS
<1> USE DEF IInv, vars
<1>1. setup' = setup /\ cursor' = cursor
  OBVIOUS
<1>2. TypeOK' /\ PlaceInv'
  BY <1>1, SetupConstant DEF TypeOK, LeaseTypeOK, PlaceInv
<1>3. DriverInv' /\ PauseInv'
  BY <1>1, SetupConstant, CheckpointsConstant DEF DriverInv, PauseInv, Blocked
<1>4. DispatchInv' /\ EffectInv'
  BY <1>1, SetupConstant DEF DispatchInv, EffectInv, Blocked
<1>5. TruthInv' /\ ReconciledInv'
  BY <1>1, SetupConstant DEF TruthInv, EffectTruth, ReconciledInv
<1> QED
  BY <1>2, <1>3, <1>4, <1>5 DEF IInv

\* The invariant holds throughout, of every replay.
THEOREM Invariance == Spec => []IInv
<1>1. IInv /\ [Next]_vars => IInv'
  BY StartStep, CheckScopeStep, CheckDialogStep, ExecuteStep, RecheckScopeStep, ResolveStep,
     BaselineViewStep, BaselineEffectStep, FinishScopeStep, FinishSuccessStep, CommitStep,
     RespondStep, VerifyNavigateStep, VerifyScopeStep, VerifyDialogStep, VerifyViewStep,
     VerifyEffectStep, VerifyExtractStep, VerifySuccessStep, AssessScopeStep,
     PollDialogStep, PollCheckpointStep, TakeControlStep, PerformStep, ResumeAmbiguousStep,
     ResumeBlockedStep, ApplicationStep, StutterStep
  DEF Next, Advance, Mutate, Reconcile, Operate
<1> QED
  BY InitInv, <1>1, PTL DEF Spec

-----------------------------------------------------------------------------
(* What the runs check, for every value of the constants *)

\* Every variable keeps its type.
THEOREM TypeCorrect == Spec => []TypeOK
  BY Invariance, PTL DEF IInv

\* No consequential step reaches the application twice, whatever is retried,
\* paused, taken over, resumed or verified again.
THEOREM DispatchedOnce == Spec => []DispatchOnce
<1>1. IInv => DispatchOnce
  BY DEF IInv, DispatchInv, DispatchOnce
<1> QED
  BY Invariance, <1>1, PTL

\* While a human drives, the session only judges whether it may resume, and there
\* is an intervention to resolve.
THEOREM OneDrives == Spec => []OneDriver
<1>1. IInv => OneDriver
  BY DEF IInv, TypeOK, Labels, DriverInv, OneDriver, Judging
<1> QED
  BY Invariance, <1>1, PTL

\* What last_effect_state says of the write is so in the application.
THEOREM EffectsAreTrue == Spec => []EffectTruth
  BY Invariance, PTL DEF IInv, TruthInv

\* The intervention a caller is told of is the one the operator acts on, and an
\* exception out of a second verification leaves it and the commit pending.
THEOREM PausesAreRoutable == Spec => []EscalationRoutable
<1>1. IInv => EscalationRoutable
  BY DEF IInv, DriverInv, PauseInv, EscalationRoutable, Judging
<1> QED
  BY Invariance, <1>1, PTL

\* A final result leaves no intervention and no commit pending, and automation
\* holding the lease.
THEOREM EndsAreClean == Spec => []TerminalClean
<1>1. IInv => TerminalClean
  BY DEF IInv, TypeOK, LeaseTypeOK, ControlOwner, DriverInv, PauseInv, TerminalClean
<1> QED
  BY Invariance, <1>1, PTL

\* A Success of a capability whose one write is verified is returned only where
\* the write committed and on a page where the success checkpoint holds.
THEOREM SuccessIsCommitted == Spec => CommitObserved
<1>1. IInv /\ [Next]_vars =>
        [SoleWrite /\ Succeeds => SuccessHolds /\ effectState' = "committed"]_vars
  <2> SUFFICES ASSUME IInv, Next, SoleWrite, Succeeds
               PROVE  SuccessHolds /\ effectState' = "committed"
    OBVIOUS
  <2> USE DEF IInv, Succeeds
  <2>1. CASE Start \/ CheckScope \/ CheckDialog
    BY <2>1 DEF Start, CheckScope, CheckDialog, SurfaceFailure, ScopeDenied, Return,
                Continue, Escalate
  <2>2. CASE Execute \/ RecheckScope \/ Resolve
    BY <2>2 DEF Execute, RecheckScope, Resolve, SurfaceFailure, ScopeDenied, Refused,
                Return, Continue, Escalate
  <2>3. CASE BaselineView \/ BaselineEffect \/ FinishScope
    BY <2>3 DEF BaselineView, BaselineEffect, FinishScope, SurfaceFailure, ScopeDenied,
                Return, Continue
  <2>4. CASE FinishSuccess
    BY <2>4, CapabilityFacts DEF FinishSuccess, SurfaceFailure, Return, TypeOK, PlaceInv,
                                 SoleWrite
  <2>5. CASE Commit \/ Respond
    BY <2>5 DEF Commit, Respond, SurfaceFailure, Refused, Return, Continue
  <2>6. CASE VerifyNavigate \/ VerifyScope \/ VerifyDialog \/ VerifyView
    BY <2>6 DEF VerifyNavigate, VerifyScope, VerifyDialog, VerifyView, Proceed, Continue,
                MutationAmbiguous, Escalate, Return, Propagate
  <2>7. CASE VerifyEffect \/ VerifyExtract
    BY <2>7 DEF VerifyEffect, VerifyExtract, Proceed, Continue, MutationAmbiguous, Escalate,
                Return, Propagate, Conclude
  <2>8. CASE VerifySuccess
    BY <2>8 DEF VerifySuccess, EffectInv, SurfaceFailure, Conclude, Return, Propagate
  <2>9. CASE AssessScope \/ PollDialog \/ PollCheckpoint
    BY <2>9 DEF AssessScope, PollDialog, PollCheckpoint, PollAgain, FailClosed, Escalate,
                Continue, Return, ResumeFromCursor
  <2>10. CASE TakeControl \/ Perform \/ Application
    BY <2>10 DEF TakeControl, Perform, Application
  <2>11. CASE ResumeAmbiguous
    BY <2>11 DEF ResumeAmbiguous, AmbiguousPause, PauseInv, Continue
  <2>12. CASE ResumeBlocked
    BY <2>12 DEF ResumeBlocked, FailClosed, Continue, Return
  <2> QED
    BY <2>1, <2>2, <2>3, <2>4, <2>5, <2>6, <2>7, <2>8, <2>9, <2>10, <2>11, <2>12
    DEF Next, Advance, Mutate, Reconcile, Operate
<1> QED
  BY Invariance, <1>1, PTL DEF Spec, CommitObserved

\* Automation acts only on a page the nearest checkpoint vouched for when it last
\* got control back.
THEOREM ResumesReconciled == Spec => ReconciledResume
<1>1. IInv /\ [Next]_vars =>
        [(pc = "execute" /\ pc' # pc) \/ dispatches' # dispatches => reconciled]_vars
  <2> SUFFICES ASSUME IInv, Next, dispatches' # dispatches PROVE reconciled
    BY DEF IInv, ReconciledInv, Before
  <2>1. pc \in {"execute", "commit"}
    BY DEF Next, Advance, Mutate, Reconcile, Operate, Start, CheckScope, CheckDialog,
           Execute, RecheckScope, Resolve, BaselineView, BaselineEffect, FinishScope,
           FinishSuccess, Commit, Respond, VerifyNavigate, VerifyScope, VerifyDialog,
           VerifyView, VerifyEffect, VerifyExtract, VerifySuccess, AssessScope, PollDialog,
           PollCheckpoint, TakeControl, Perform, ResumeAmbiguous, ResumeBlocked, Application
  <2> QED
    BY <2>1 DEF IInv, ReconciledInv, Before
<1> QED
  BY Invariance, <1>1, PTL DEF Spec, ReconciledResume

-----------------------------------------------------------------------------
(* The replay implements WriteCertainty *)

Certainty == IF SoleWrite THEN effectState ELSE "not_dispatched"
Sent == IF SoleWrite THEN dispatches[N] ELSE 0

\* The write's certainty moves only as WriteCertainty allows: the initial states
\* map to its initial state, and every step to one of its steps or to a stutter.
THEOREM CertaintyRefined == Spec => ImplementsWriteCertainty
<1>1. Init => WriteStates!Init
  BY CapabilityFacts DEF Init, WriteStates!Init
<1>2. IInv /\ [Next]_vars => [WriteStates!Next]_<< Certainty, Sent >>
  <2> SUFFICES ASSUME IInv, Next PROVE WriteStates!Next \/ UNCHANGED << Certainty, Sent >>
    BY DEF vars, Certainty, Sent, SoleWrite, HasRecipe, N, Kind, Steps
  <2>1. setup \in Setups /\ setup' = setup
    BY DEF IInv, TypeOK, Next, Advance, Mutate, Reconcile, Operate, Start, CheckScope,
           CheckDialog, Execute, RecheckScope, Resolve, BaselineView, BaselineEffect,
           FinishScope, FinishSuccess, Commit, Respond, VerifyNavigate, VerifyScope,
           VerifyDialog, VerifyView, VerifyEffect, VerifyExtract, VerifySuccess,
           AssessScope, PollDialog, PollCheckpoint, TakeControl, Perform, ResumeAmbiguous,
           ResumeBlocked, Application, DialogChanges, LateWrite, Navigates, ForeignWrite
  <2> USE <2>1 DEF IInv
  <2>2. CASE UNCHANGED << effectState, dispatches >>
    BY <2>2, SetupConstant DEF Certainty, Sent
  <2>3. CASE ~SoleWrite
    BY <2>3, SetupConstant DEF Certainty, Sent
  <2>4. CASE SoleWrite /\ ~ UNCHANGED << effectState, dispatches >>
    <3> USE <2>4, SetupConstant DEF SoleWrite
    <3>1. CASE CheckDialog
      BY <3>1 DEF CheckDialog, EffectInv, Before, WriteStates!Next, WriteStates!Attempt,
                  Certainty, Sent
    <3>2. CASE Execute
      BY <3>2, CapabilityFacts DEF Execute, CountDispatch, PlaceInv, Certainty, Sent, After,
                                   TypeOK, WriteStates!Next, WriteStates!Attempt
    <3>3. CASE Commit
      BY <3>3, CapabilityFacts DEF Commit, CountDispatch, PlaceInv, DispatchInv, EffectInv,
                                   TypeOK, WriteStates!Next, WriteStates!Refuse,
                                   WriteStates!Dispatch
    <3>4. CASE Respond
      BY <3>4 DEF Respond, EffectInv, WriteStates!Next, WriteStates!Establish,
                  WriteStates!Settled
    <3>5. CASE VerifyNavigate \/ VerifyScope \/ VerifyDialog \/ VerifyView
      BY <3>5 DEF VerifyNavigate, VerifyScope, VerifyDialog, VerifyView, MutationAmbiguous,
                  EffectInv, Checking, WriteStates!Next, WriteStates!Establish,
                  WriteStates!Settled
    <3>6. CASE VerifyEffect \/ VerifyExtract
      BY <3>6 DEF VerifyEffect, VerifyExtract, MutationAmbiguous, EffectInv, Checking,
                  WriteStates!Next, WriteStates!Establish, WriteStates!Settled
    <3> QED
      BY <3>1, <3>2, <3>3, <3>4, <3>5, <3>6
      DEF Next, Advance, Mutate, Reconcile, Operate, Start, CheckScope, RecheckScope,
          Resolve, BaselineView, BaselineEffect, FinishScope, FinishSuccess, VerifySuccess,
          AssessScope, PollDialog, PollCheckpoint, TakeControl, Perform, ResumeAmbiguous,
          ResumeBlocked, Application
  <2> QED
    BY <2>2, <2>3, <2>4
<1> QED
  BY <1>1, <1>2, Invariance, PTL DEF Spec, ImplementsWriteCertainty, WriteStates!Spec,
                                     Certainty, Sent

=============================================================================
