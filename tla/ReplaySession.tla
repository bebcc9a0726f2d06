---------------------------- MODULE ReplaySession ----------------------------
(***************************************************************************)
(* A model-free replay of a compiled capability against one live page, and *)
(* the operator who may take it over while it is paused                    *)
(* (execution/session.py, handoff/operator.py).                            *)
(*                                                                         *)
(* ReplaySession runs in one coroutine; its state between two awaits is pc *)
(* together with the locals of the coroutine.  Every surface read is a     *)
(* step of its own, so the application (dialogs, navigation, a write that  *)
(* lands late) moves between any two of them.  The consoles drive the      *)
(* session and the operator from one task, so the operator acts when no    *)
(* coroutine of the session is in progress: pc = "idle".                   *)
(*                                                                         *)
(* Pages are what conditions tell apart: a condition is the set of pages   *)
(* it matches.  The verified write of the capability, if it has one, is    *)
(* its last step.                                                          *)
(***************************************************************************)
EXTENDS ControlLease, Sequences

CONSTANTS
  Page,          \* states of the page that the capabilities' conditions tell apart
  InScope,       \* the pages NavigationPolicy allows
  Capability,    \* the capabilities a run may replay
  Authority,     \* authoritative_absence of the AuthorityPolicies a run may have
  Retries,       \* _TRANSIENT_RETRIES
  Polls,         \* polls within _resolve_timeout_ms
  MaxEpoch,      \* bound on handoffs
  Quiet,         \* whether, in a run, the application moves by itself no further than
                 \* dialogs and late writes: no navigation, no effect of others
  None           \* Python's None

Reason == {"UNKNOWN_DIALOG", "MUTATION_AMBIGUOUS"}

\* What a run needs to know of a capability:
\*   kind       step -> "read", "write" (no recipe) or "verified" (with one)
\*   approved   the steps whose operation id the ConfirmationPolicy approves
\*   checked    the steps with a postcondition
\*   post       step -> the pages its postcondition matches
\*   outcome    step -> the pages its business outcomes match
\*   success    the pages success_checkpoint's live matchers match
\*   output     the step that reads the output success_checkpoint asks for: 0
\*              none asked for, Len(kind) + 1 the extract of the recipe
\*   navLen     number of navigate steps of the recipe
\*   navWrites  those whose own target does not classify as read-only
\*   extract    the recipe has an extract step
\*   view       the pages on which the recipe evaluates the effect
WellFormed(c) ==
  /\ c.kind \in Seq({"read", "write", "verified"}) \ {<< >>}
  /\ \A i \in DOMAIN c.kind : c.kind[i] = "verified" => i = Len(c.kind)
  /\ c.approved \cup c.checked \subseteq DOMAIN c.kind
  /\ {c.post, c.outcome} \subseteq [DOMAIN c.kind -> SUBSET Page]
  /\ c.success \cup c.view \subseteq Page
  /\ c.output \in 0 .. Len(c.kind) + 1
  /\ c.navLen \in Nat
  /\ c.navWrites \subseteq 1 .. c.navLen
  /\ c.extract \in BOOLEAN

ASSUME SessionAssumption ==
  /\ InScope \subseteq Page
  /\ \A c \in Capability : WellFormed(c)
  /\ Retries \in Nat \ {0}
  /\ Polls \in Nat
  /\ MaxEpoch \in Nat
  /\ Quiet \cup Authority \subseteq BOOLEAN
  /\ None \notin [reason : Reason, step : Nat]

VARIABLES
  \* the application
  page,          \* the live page
  dialog,        \* an unmodeled blocking dialog is up
  applied,       \* how many times the application carried out the verified write
  foreign,       \* the effect is there, and not by this write
  inflight,      \* the write is accepted but not carried out yet
  setup,         \* the run's capability, whether the application's reads never
                 \* lag, as its AuthorityPolicy says, and whether it is quiet
  \* the coroutine
  pc,
  caller,        \* "advance" or "reverify", whichever awaits _verify_embedded
  tries,         \* attempts or polls used up by the loop it is in
  nav,           \* the navigate step of the recipe it is at
  blocked,       \* dialog_present: the last answer _await_reconciliation got
  \* ReplaySession
  cursor,        \* _cursor, counted from 1
  pending,       \* pending: None or an InterventionSignal
  pendingCommit, \* _pending_commit is set
  effectState,   \* last_effect_state
  baseline,      \* _baseline_present: "unknown", "absent" or "present"
  haveOutput,    \* _outputs holds what success_checkpoint asks for
  result,        \* the last RunResult returned
  \* history
  dispatches,    \* step -> consequential dispatches made for it
  reconciled     \* the page reconciled when automation last got control back

Setups == [capability : Capability, authoritative : Authority, quiet : Quiet]

Kind == setup.capability.kind
Approved == setup.capability.approved
Checked == setup.capability.checked
Post == setup.capability.post
Outcome == setup.capability.outcome
SuccessView == setup.capability.success
OutputStep == setup.capability.output
NavLen == setup.capability.navLen
NavWrites == setup.capability.navWrites
HasExtract == setup.capability.extract
EffectView == setup.capability.view

N == Len(Kind)
Steps == 1 .. N

\* _sole_verification
HasRecipe == Kind[N] = "verified"

\* The verified write is the capability's one consequential step.  The validators
\* admit others before it, which are then dispatched without a recipe.
SoleWrite == HasRecipe /\ \A i \in Steps : Kind[i] # "write"

application == << page, dialog, applied, foreign, inflight, setup >>
locals == << caller, tries, nav, blocked >>
coroutine == << pc, locals >>
pause == << pending, pendingCommit >>
effect == << effectState, baseline, haveOutput >>
session == << cursor, pause, effect, result >>
history == << dispatches, reconciled >>
vars == << lease, application, coroutine, session, history >>

NoResult == [status |-> "none", code |-> None]

Init ==
  /\ LeaseInit
  /\ page \in Page
  /\ dialog \in BOOLEAN
  /\ applied = 0
  /\ foreign \in BOOLEAN
  /\ inflight = FALSE
  /\ setup \in Setups
  /\ pc = "start"
  /\ caller = "advance"
  /\ tries = 0
  /\ nav = 1
  /\ blocked = TRUE
  /\ cursor = 1
  /\ pending = None
  /\ pendingCommit = FALSE
  /\ effectState = "not_dispatched"
  /\ baseline = "unknown"
  /\ haveOutput = FALSE
  /\ result = NoResult
  /\ dispatches = [i \in Steps |-> 0]
  /\ reconciled = TRUE

-----------------------------------------------------------------------------
(* Results *)

\* The coroutine returns a RunResult to whoever awaits it.
Return(status, code) ==
  /\ pc' = "idle"
  /\ result' = [status |-> status, code |-> code]

\* _surface_failure and _failure_code: the codes within each family are one.
SurfaceFailure == Return("Failure", "SURFACE_ERROR")
Refused == Return("Failure", "REFUSED")
ScopeDenied == Return("Failure", "POLICY_DENIED")

\* Mutants: the attempt is not counted; one poll too many.
CountNone == UNCHANGED tries
OnePollMore == tries <= Polls

CountTry == tries' = tries + 1
PollsLeft == tries < Polls

\* _escalate: an intervention open for this very step is kept as it is.
Escalate(reason) ==
  /\ pending' = IF pending = None \/ pending.step # cursor
                THEN [reason |-> reason, step |-> cursor]
                ELSE pending
  /\ Return("Escalated", reason)

\* The await goes on in the same coroutine, at label.
Continue(label) ==
  /\ pc' = label
  /\ UNCHANGED result

CheckpointsBelow == {i \in Checked : i < cursor}

\* Mutant: the first checkpoint.
Farthest == CHOOSE i \in CheckpointsBelow : \A j \in CheckpointsBelow : i <= j

\* _nearest_prior_checkpoint
Nearest == CHOOSE i \in CheckpointsBelow : \A j \in CheckpointsBelow : j <= i

\* Mutant: the lease stays with the human.
HandBackLater == reconciled' = (CheckpointsBelow # {}) /\ UNCHANGED lease

\* Control goes back to automation; history notes whether, at that moment, the
\* page is one the capability's own checkpoints allow to resume from.
HandBack ==
  /\ ToAutomation
  /\ reconciled' = \E i \in CheckpointsBelow :
                      (\A j \in CheckpointsBelow : j <= i) /\ page \in Post[i]

-----------------------------------------------------------------------------
(* start and advance, for steps without a recipe *)

\* The target URL is the caller's; goto may land on any page of the application.
Start ==
  /\ pc = "start"
  /\ \/ SurfaceFailure /\ UNCHANGED page
     \/ \E entry \in Page : entry \notin InScope /\ ScopeDenied /\ UNCHANGED page
     \/ \E entry \in InScope, p \in Page : Continue("scope") /\ page' = p
  /\ UNCHANGED << lease, dialog, applied, foreign, inflight, setup, locals, cursor,
                  pause, effect, history >>

\* The head of the loop: settle, and stop on a page out of scope.
CheckScope ==
  /\ pc = "scope"
  /\ cursor <= N
  /\ \/ SurfaceFailure
     \/ page \notin InScope /\ ScopeDenied
     \/ page \in InScope /\ Continue("dialog")
  /\ UNCHANGED << lease, application, locals, cursor, pause, effect, history >>

\* Nothing is executed into an unmodeled dialog.
CheckDialog ==
  /\ pc = "dialog"
  /\ \/ SurfaceFailure /\ UNCHANGED << tries, pending, effectState >>
     \/ /\ dialog
        /\ Escalate("UNKNOWN_DIALOG")
        /\ UNCHANGED << tries, effectState >>
     \/ /\ ~dialog
        /\ Kind[cursor] = "verified"
        /\ effectState' = "dispatching"
        /\ Continue("commit")
        /\ UNCHANGED << tries, pending >>
     \/ /\ ~dialog
        /\ Kind[cursor] # "verified"
        /\ tries' = 1
        /\ Continue("execute")
        /\ UNCHANGED << pending, effectState >>
  /\ UNCHANGED << lease, application, caller, nav, blocked, cursor, pendingCommit,
                  baseline, haveOutput, history >>

\* The kernel lets a consequential step through only if its operation id is
\* approved, and any step only while automation owns the lease.
MayDispatch == MayAct(epoch) /\ (Kind[cursor] = "read" \/ cursor \in Approved)

CountDispatch ==
  dispatches' = IF Kind[cursor] = "read" THEN dispatches
                ELSE [dispatches EXCEPT ![cursor] = @ + 1]

\* _execute_step, one attempt: only a transient condition is tried again, and
\* the click of a consequential step raises no SurfaceError, so its attempt
\* may be repeated only before it was dispatched.
Execute ==
  /\ pc = "execute"
  /\ \/ /\ MayDispatch
        /\ CountDispatch
        /\ page' \in Page
        /\ haveOutput' = (haveOutput \/ OutputStep = cursor)
        /\ Continue("rescope")
        /\ UNCHANGED << tries, pending, effectState >>
     \/ /\ MayDispatch
        /\ Kind[cursor] = "write"
        /\ CountDispatch
        /\ page' \in Page
        /\ effectState' = "ambiguous"
        /\ Escalate("MUTATION_AMBIGUOUS")
        /\ UNCHANGED << tries, haveOutput >>
     \/ /\ tries < Retries
        /\ CountTry
        /\ \/ UNCHANGED page
           \/ Kind[cursor] = "read" /\ MayDispatch /\ page' \in Page
        /\ UNCHANGED << pc, pending, effectState, haveOutput, result, dispatches >>
     \/ /\ SurfaceFailure \/ Refused
        /\ UNCHANGED << page, tries, pending, effectState, haveOutput, dispatches >>
  /\ UNCHANGED << lease, dialog, applied, foreign, inflight, setup, caller, nav, blocked,
                  cursor, pendingCommit, baseline, reconciled >>

\* The action may have navigated: scope again, before the page is read.
RecheckScope ==
  /\ pc = "rescope"
  /\ \/ SurfaceFailure /\ UNCHANGED tries
     \/ page \notin InScope /\ ScopeDenied /\ UNCHANGED tries
     \/ page \in InScope /\ Continue("resolve") /\ tries' = 0
  /\ UNCHANGED << lease, application, caller, nav, blocked, cursor, pause, effect,
                  history >>

PostconditionHolds == cursor \in Checked => page \in Post[cursor]

\* _resolve_step, one poll: business outcomes first, then the postcondition; a
\* transient condition counts as neither.
Resolve ==
  /\ pc = "resolve"
  /\ \/ /\ page \in Outcome[cursor]
        /\ Return("BusinessOutcome", "declared")
        /\ UNCHANGED tries
     \/ /\ page \notin Outcome[cursor]
        /\ PostconditionHolds
        /\ Continue("baseline")
        /\ UNCHANGED tries
     \/ /\ cursor \in Checked \/ Outcome[cursor] # {}
        /\ \/ PollsLeft /\ CountTry /\ UNCHANGED << pc, result >>
           \/ ~PollsLeft /\ Return("Failure", "CHECKPOINT_FAILED") /\ UNCHANGED tries
           \/ SurfaceFailure /\ UNCHANGED tries
  /\ UNCHANGED << lease, application, caller, nav, blocked, cursor, pause, effect,
                  history >>

\* What a read of the recipe's effect matcher finds.
EffectVisible == page \in EffectView /\ (applied > 0 \/ foreign)

\* _maybe_capture_baseline reads the view first and the effect next; a
\* SurfaceError in either leaves the baseline as it was.
BaselineView ==
  /\ pc = "baseline"
  /\ \/ /\ HasRecipe
        /\ page \in EffectView
        /\ Continue("baseline_effect")
        /\ UNCHANGED cursor
     \/ /\ cursor' = cursor + 1
        /\ Continue("scope")
  /\ UNCHANGED << lease, application, locals, pause, effect, history >>

BaselineEffect ==
  /\ pc = "baseline_effect"
  /\ \/ baseline' = IF EffectVisible THEN "present" ELSE "absent"
     \/ UNCHANGED baseline
  /\ cursor' = cursor + 1
  /\ Continue("scope")
  /\ UNCHANGED << lease, application, locals, pause, effectState, haveOutput, history >>

\* _success_satisfied
SuccessHolds == page \in SuccessView /\ (OutputStep = 0 \/ haveOutput)

\* _finish
FinishScope ==
  /\ pc = "scope"
  /\ cursor > N
  /\ \/ SurfaceFailure
     \/ page \notin InScope /\ ScopeDenied
     \/ page \in InScope /\ Continue("success")
  /\ UNCHANGED << lease, application, locals, cursor, pause, effect, history >>

FinishSuccess ==
  /\ pc = "success"
  /\ \/ SurfaceFailure
     \/ SuccessHolds /\ Return("Success", None)
     \/ ~SuccessHolds /\ Return("Failure", "CHECKPOINT_FAILED")
  /\ UNCHANGED << lease, application, locals, cursor, pause, effect, history >>

-----------------------------------------------------------------------------
(* _run_commit_verified *)

\* What the application makes of the click: it carries the write out, drops
\* it, rejects it, or, where an absent effect proves nothing, does it later.
\* Only a rejection shows a business outcome of the step.
Commit ==
  /\ pc = "commit"
  /\ \/ /\ MayDispatch
        /\ CountDispatch
        /\ effectState' = "dispatched"
        /\ \/ /\ applied' = applied + 1
              /\ page' \in Page \ Outcome[cursor]
              /\ UNCHANGED inflight
           \/ /\ page' \in Page
              /\ UNCHANGED << applied, inflight >>
           \/ /\ ~setup.authoritative
              /\ inflight' = TRUE
              /\ page' \in Page \ Outcome[cursor]
              /\ UNCHANGED applied
        /\ \/ Continue("respond") /\ UNCHANGED nav
           \/ Continue("navigate") /\ nav' = 1
     \/ /\ Refused \/ SurfaceFailure
        /\ effectState' = "not_dispatched"
        /\ UNCHANGED << page, applied, inflight, nav, dispatches >>
  /\ UNCHANGED << lease, dialog, foreign, setup, caller, tries, blocked, cursor, pause, baseline,
                  haveOutput, reconciled >>

\* A clean dispatch: an explicit rejection on the response decides; without
\* one, or when it cannot be read, the effect is verified.
Respond ==
  /\ pc = "respond"
  /\ \/ /\ page \in Outcome[cursor]
        /\ effectState' = "not_committed"
        /\ Return("BusinessOutcome", "declared")
        /\ UNCHANGED nav
     \/ /\ Continue("navigate")
        /\ nav' = 1
        /\ UNCHANGED effectState
  /\ UNCHANGED << lease, application, caller, tries, blocked, cursor, pause, baseline,
                  haveOutput, history >>

-----------------------------------------------------------------------------
(* _verify_embedded, awaited by advance or by reverify_mutation *)

\* Mutant: reverify_mutation drops what is pending before it verifies.
PropagateCleared ==
  /\ pc' = "raised"
  /\ pending' = None
  /\ pendingCommit' = FALSE
  /\ UNCHANGED << lease, result >>

\* Mutant: reverify_mutation leaves everything pending.
ConcludeOnly(status, code) ==
  /\ Return(status, code)
  /\ UNCHANGED << lease, pause >>

\* reverify_mutation drops what is pending once the result is no Escalated.
Conclude(status, code) ==
  /\ Return(status, code)
  /\ IF caller = "reverify" THEN pending' = None /\ pendingCommit' = FALSE
                            ELSE UNCHANGED pause
  /\ UNCHANGED lease

\* Mutant: the commit to verify again is not remembered.
AmbiguousForgotten ==
  /\ effectState' = "ambiguous"
  /\ Escalate("MUTATION_AMBIGUOUS")
  /\ IF caller = "reverify" THEN ToHuman ELSE UNCHANGED lease
  /\ UNCHANGED pendingCommit

\* _mutation_ambiguous; resume then gives control back to the human.
MutationAmbiguous ==
  /\ effectState' = "ambiguous"
  /\ pendingCommit' = TRUE
  /\ Escalate("MUTATION_AMBIGUOUS")
  /\ IF caller = "reverify" THEN ToHuman ELSE UNCHANGED lease

\* An exception the coroutine does not handle goes up to the caller.
Propagate ==
  /\ pc' = "raised"
  /\ UNCHANGED << lease, pause, result >>

Proceed(label) ==
  /\ Continue(label)
  /\ UNCHANGED << lease, pause >>

\* One navigate step of the recipe, under the read-only gate.
VerifyNavigate ==
  /\ pc = "navigate"
  /\ nav <= NavLen
  /\ \/ nav \notin NavWrites /\ page' \in Page /\ Proceed("navigated") /\ UNCHANGED effectState
     \/ MutationAmbiguous /\ UNCHANGED page
     \/ nav \notin NavWrites /\ Propagate /\ UNCHANGED << page, effectState >>
  /\ UNCHANGED << dialog, applied, foreign, inflight, setup, locals, cursor, baseline,
                  haveOutput, history >>

VerifyScope ==
  /\ pc = "navigated"
  /\ \/ /\ page \in InScope
        /\ nav' = nav + 1
        /\ Proceed("navigate")
        /\ UNCHANGED effectState
     \/ MutationAmbiguous /\ UNCHANGED nav
  /\ UNCHANGED << application, caller, tries, blocked, cursor, baseline, haveOutput,
                  history >>

VerifyDialog ==
  /\ pc = "navigate"
  /\ nav > NavLen
  /\ \/ ~dialog /\ Proceed("view") /\ UNCHANGED effectState
     \/ MutationAmbiguous
  /\ UNCHANGED << application, locals, cursor, baseline, haveOutput, history >>

VerifyView ==
  /\ pc = "view"
  /\ \/ page \in EffectView /\ Proceed("effect") /\ UNCHANGED effectState
     \/ MutationAmbiguous
  /\ UNCHANGED << application, locals, cursor, baseline, haveOutput, history >>

\* Mutants: a baseline never read counts as absent; any absence is a verdict.
NotPresentBefore == baseline # "present"
AnyAbsence == TRUE

AbsentBefore == baseline = "absent"
AbsenceIsAuthoritative == setup.authoritative

\* The effect is attributed to the write only if it was absent before, and
\* its absence is a verdict only if the authority policy says so.
VerifyEffect ==
  /\ pc = "effect"
  /\ \/ /\ EffectVisible
        /\ AbsentBefore
        /\ HasExtract
        /\ Proceed("extract")
        /\ UNCHANGED effectState
     \/ /\ EffectVisible
        /\ AbsentBefore
        /\ ~HasExtract
        /\ effectState' = "committed"
        /\ Proceed("checkpoint")
     \/ /\ ~EffectVisible
        /\ AbsentBefore
        /\ AbsenceIsAuthoritative
        /\ effectState' = "not_committed"
        /\ Conclude("Failure", "MUTATION_NOT_COMMITTED")
     \/ MutationAmbiguous
  /\ UNCHANGED << application, locals, cursor, baseline, haveOutput, history >>

VerifyExtract ==
  /\ pc = "extract"
  /\ \/ /\ haveOutput' = (haveOutput \/ OutputStep = N + 1)
        /\ effectState' = "committed"
        /\ Proceed("checkpoint")
     \/ MutationAmbiguous /\ UNCHANGED haveOutput
     \/ Propagate /\ UNCHANGED << effectState, haveOutput >>
  /\ UNCHANGED << application, locals, cursor, baseline, history >>

\* A committed write is no Success before the success checkpoint holds.  An
\* error of that read is handled in advance and nowhere else.
VerifySuccess ==
  /\ pc = "checkpoint"
  /\ \/ SuccessHolds /\ Conclude("Success", None)
     \/ ~SuccessHolds /\ Conclude("Failure", "CHECKPOINT_FAILED")
     \/ caller = "advance" /\ SurfaceFailure /\ UNCHANGED << lease, pause >>
     \/ caller = "reverify" /\ Propagate
  /\ UNCHANGED << application, locals, cursor, effect, history >>

-----------------------------------------------------------------------------
(* OperatorController, and the session's part of its resume *)

TakeControl ==
  /\ pc = "idle"
  /\ pending # None
  /\ epoch < MaxEpoch
  /\ ToHuman
  /\ UNCHANGED << application, coroutine, session, history >>

\* A click or a submit on the live page: the human, not the kernel, is the
\* authority.  An action out of scope is reported after it happened.
Perform ==
  /\ pc = "idle"
  /\ owner = "human"
  /\ page' \in Page
  /\ dialog' \in BOOLEAN
  /\ UNCHANGED << lease, applied, foreign, inflight, setup, coroutine, session, history >>

\* Mutant: a pause is a pause.
NeverAmbiguous == FALSE

AmbiguousPause == pending.reason = "MUTATION_AMBIGUOUS"

\* resume of an ambiguous mutation: control goes back before reverify_mutation,
\* which, with no commit pending, has nothing to verify.
ResumeAmbiguous ==
  /\ pc = "idle"
  /\ epoch < MaxEpoch
  /\ pending # None
  /\ AmbiguousPause
  /\ HandBack
  /\ \/ pendingCommit /\ caller' = "reverify" /\ nav' = 1 /\ Continue("navigate")
     \/ ~pendingCommit /\ Return("Success", None) /\ UNCHANGED << caller, nav >>
  /\ UNCHANGED << application, tries, blocked, cursor, pause, effect, dispatches >>

\* assess_reconciliation ends in a failure, and control goes back all the same.
FailClosed(code) ==
  /\ Return("Failure", code)
  /\ pending' = None
  /\ HandBack

KeepControl == UNCHANGED << lease, pending, reconciled >>

\* resume of any other pause: the human keeps the session while it is assessed.
ResumeBlocked ==
  /\ pc = "idle"
  /\ owner = "human"
  /\ epoch < MaxEpoch
  /\ pending # None
  /\ ~AmbiguousPause
  /\ \/ CheckpointsBelow = {} /\ FailClosed("CHECKPOINT_FAILED")
     \/ CheckpointsBelow # {} /\ Continue("assess") /\ KeepControl
  /\ UNCHANGED << application, locals, cursor, pendingCommit, effect, dispatches >>

AssessScope ==
  /\ pc = "assess"
  /\ \/ FailClosed("SURFACE_ERROR") /\ UNCHANGED << tries, blocked >>
     \/ page \notin InScope /\ FailClosed("POLICY_DENIED") /\ UNCHANGED << tries,
                                                                           blocked >>
     \/ /\ page \in InScope
        /\ tries' = 0
        /\ blocked' = TRUE
        /\ Continue("poll")
        /\ KeepControl
  /\ UNCHANGED << application, caller, nav, cursor, pendingCommit, effect, dispatches >>

\* A poll that did not settle it: again, within the budget; then the last
\* answer about the dialog decides between still blocked and failed.
PollAgain(seen) ==
  /\ blocked' = seen
  /\ \/ /\ PollsLeft
        /\ CountTry
        /\ Continue("poll")
        /\ KeepControl
     \/ /\ ~PollsLeft
        /\ IF seen THEN Escalate(pending.reason) /\ UNCHANGED << lease, reconciled >>
                   ELSE FailClosed("CHECKPOINT_FAILED")
        /\ UNCHANGED tries

\* _await_reconciliation reads the dialog first, the checkpoint next; a
\* transient condition in either leaves the last answer about the dialog.
PollDialog ==
  /\ pc = "poll"
  /\ \/ PollAgain(blocked)
     \/ dialog /\ PollAgain(TRUE)
     \/ ~dialog /\ blocked' = FALSE /\ Continue("poll_page") /\ KeepControl /\ UNCHANGED tries
     \/ FailClosed("SURFACE_ERROR") /\ UNCHANGED << tries, blocked >>
  /\ UNCHANGED << application, caller, nav, cursor, pendingCommit, effect, dispatches >>

\* Mutant: a cleared dialog is enough.
NothingToHold == TRUE

CheckpointHolds == page \in Post[Nearest]

\* Mutant: the intervention that was resolved stays.
ResumeWithPending ==
  /\ caller' = "advance"
  /\ Continue("scope")
  /\ UNCHANGED pending

ResumeFromCursor ==
  /\ pending' = None
  /\ caller' = "advance"
  /\ Continue("scope")

\* The checkpoint holds: control goes back, and resume_from_cursor advances.
PollCheckpoint ==
  /\ pc = "poll_page"
  /\ \/ /\ CheckpointHolds
        /\ HandBack
        /\ ResumeFromCursor
        /\ UNCHANGED << tries, blocked >>
     \/ PollAgain(blocked) /\ UNCHANGED caller
     \/ FailClosed("SURFACE_ERROR") /\ UNCHANGED << caller, tries, blocked >>
  /\ UNCHANGED << application, nav, cursor, pendingCommit, effect, dispatches >>

-----------------------------------------------------------------------------
(* The application, on its own *)

DialogChanges ==
  /\ dialog' = ~dialog
  /\ UNCHANGED << page, applied, foreign, inflight, setup >>

LateWrite ==
  /\ inflight
  /\ inflight' = FALSE
  /\ applied' = applied + 1
  /\ UNCHANGED << page, dialog, foreign, setup >>

Navigates ==
  /\ ~setup.quiet
  /\ page' \in Page \ Outcome[N]
  /\ UNCHANGED << dialog, applied, foreign, inflight, setup >>

ForeignWrite ==
  /\ ~setup.quiet
  /\ foreign' = TRUE
  /\ UNCHANGED << page, dialog, applied, inflight, setup >>

Application ==
  /\ DialogChanges \/ LateWrite \/ Navigates \/ ForeignWrite
  /\ UNCHANGED << lease, coroutine, session, history >>

-----------------------------------------------------------------------------

Advance ==
  \/ Start
  \/ CheckScope
  \/ CheckDialog
  \/ Execute
  \/ RecheckScope
  \/ Resolve
  \/ BaselineView
  \/ BaselineEffect
  \/ FinishScope
  \/ FinishSuccess

Mutate ==
  \/ Commit
  \/ Respond
  \/ VerifyNavigate
  \/ VerifyScope
  \/ VerifyDialog
  \/ VerifyView
  \/ VerifyEffect
  \/ VerifyExtract
  \/ VerifySuccess

Reconcile == AssessScope \/ PollDialog \/ PollCheckpoint

Operate == TakeControl \/ Perform \/ ResumeAmbiguous \/ ResumeBlocked

Next == Advance \/ Mutate \/ Reconcile \/ Operate \/ Application

\* The event loop resumes the session's coroutine when the surface answers; the
\* operator and the application may take their time.
Spec == Init /\ [][Next]_vars /\ WF_vars(Advance \/ Mutate \/ Reconcile)

-----------------------------------------------------------------------------
(* Properties *)

Statuses == {"none", "Success", "BusinessOutcome", "Failure", "Escalated"}

Codes ==
  {None, "declared", "SURFACE_ERROR", "REFUSED", "POLICY_DENIED", "CHECKPOINT_FAILED",
   "MUTATION_NOT_COMMITTED"} \cup Reason

Labels ==
  {"start", "scope", "dialog", "execute", "rescope", "resolve", "baseline",
   "baseline_effect", "success", "commit", "respond", "navigate", "navigated", "view",
   "effect", "extract", "checkpoint", "assess", "poll", "poll_page", "idle", "raised"}

\* last_effect_state tracks the certainty of one write, the verified one; a write
\* without a recipe before it would leave its own there.
WriteStates == INSTANCE WriteCertainty WITH
  certainty <- IF SoleWrite THEN effectState ELSE "not_dispatched",
  sent <- IF SoleWrite THEN dispatches[N] ELSE 0

\* Every variable keeps its type, and the counters their bounds.
TypeOK ==
  /\ LeaseTypeOK
  /\ page \in Page
  /\ applied \in Nat
  /\ setup \in Setups
  /\ dialog \in BOOLEAN /\ foreign \in BOOLEAN /\ inflight \in BOOLEAN
  /\ blocked \in BOOLEAN /\ pendingCommit \in BOOLEAN
  /\ haveOutput \in BOOLEAN /\ reconciled \in BOOLEAN
  /\ pc \in Labels
  /\ caller \in {"advance", "reverify"}
  /\ tries \in 0 .. Polls \cup 0 .. Retries
  /\ nav \in 1 .. NavLen + 1
  /\ cursor \in 1 .. N + 1
  /\ pending \in [reason : Reason, step : Steps] \cup {None}
  /\ effectState \in WriteStates!EffectState
  /\ baseline \in {"unknown", "absent", "present"}
  /\ result \in [status : Statuses, code : Codes]
  /\ dispatches \in [Steps -> Nat]

\* No consequential step reaches the application twice in a run, whatever is
\* retried, paused, taken over, resumed or verified again (mutation-design.md
\* section 2; _execute_step, _run_commit_verified, reverify_mutation).
DispatchOnce == \A i \in Steps : dispatches[i] <= 1

Succeeds ==
  pc' = "idle" /\ (pc # "idle" \/ result' # result) /\ result'.status = "Success"

\* A Success of a capability whose one write is verified is returned only for a write that committed,
\* and on a page where the success checkpoint holds, whichever of the two
\* callers of _verify_embedded awaits it, and never by a resume that had nothing
\* to verify.
CommitObserved ==
  [][SoleWrite /\ Succeeds => SuccessHolds /\ effectState' = "committed"]_vars

\* "The system never reports a success it could not observe"
\* (docs/mutation-design.md:111): any Success needs the success checkpoint.
SuccessObserved == [][pc' = "idle" /\ result' # result /\ result'.status = "Success" =>
                        SuccessHolds]_vars

\* What last_effect_state says is so in the application: a write it calls not
\* dispatched never left; and, where nobody else moves the application between
\* the reads, one it calls committed was carried out, one it calls not committed
\* was not and will not be.
EffectTruth ==
  /\ effectState = "not_dispatched" => applied = 0 /\ ~inflight
  /\ setup.quiet /\ effectState = "committed" => applied > 0
  /\ setup.quiet /\ effectState = "not_committed" => applied = 0 /\ ~inflight

\* While a human drives, the session does nothing but read to judge whether it
\* may resume, and there always is an intervention to resolve.
OneDriver ==
  owner = "human" => pc \in {"idle", "assess", "poll", "poll_page"} /\ pending # None

\* Automation acts only on a page the nearest checkpoint vouched for when it
\* last got control back (assess_reconciliation), whatever the human did.
ReconciledResume ==
  [][(pc = "execute" /\ pc' # pc) \/ dispatches' # dispatches => reconciled]_vars

\* The intervention a caller is told of is the one the operator will act on, and
\* an exception out of a second verification (a refused step, or a read that
\* fails after the write was found COMMITTED, session.py:583) loses nothing: the
\* commit and its intervention are still pending and automation holds the lease,
\* so a caller that handles it can have control taken and verify again.
EscalationRoutable ==
  /\ pc = "idle" /\ result.status = "Escalated" =>
       pending = [reason |-> result.code, step |-> cursor]
  /\ pc = "raised" /\ caller = "reverify" =>
       pendingCommit /\ pending # None /\ owner = "automation"

\* A final result of a capability whose one write is verified leaves nothing
\* behind: no intervention, no commit pending, and automation holding the lease.
\* (With a write that has no recipe, the Success of a resume that had nothing to
\* verify leaves the intervention pending: the early return of SuccessObserved.)
TerminalClean ==
  SoleWrite /\ pc = "idle" /\ result.status # "Escalated" =>
    pending = None /\ ~pendingCommit /\ owner = "automation"

\* Once the write may have happened, the run ends in a RunResult, never in an
\* exception that leaves its effect unsettled ("dispatched, effect not
\* establishable" is Escalated(MUTATION_AMBIGUOUS)).
DispatchedNeverRaises == pc = "raised" => effectState \notin {"dispatched", "ambiguous"}

\* The write's certainty moves only as WriteCertainty allows.
ImplementsWriteCertainty == WriteStates!Spec

\* The session always comes back to its caller: every retry and every poll is
\* bounded, and nothing waits for the human.
SessionReturns == pc \notin {"idle", "raised"} ~> pc \in {"idle", "raised"}

=============================================================================
