---------------------------- MODULE LegacyReplay ----------------------------
(***************************************************************************)
(* A replay session, and the operator who may take it over, on the demo    *)
(* application: ReplaySession with LegacyCore as its page.  Every click of *)
(* the session is a request, and what it then reads is the document the    *)
(* browser shows, which the answers change in their own time.              *)
(*                                                                         *)
(* ReplaySession lets every read fail.  Here none does (Definite): what is *)
(* on display is seen, so that what a run ends in follows from the state   *)
(* of the application alone, as docs/eval-scenarios.md tabulates it.       *)
(***************************************************************************)
EXTENDS ReplaySession, LegacyCore

CONSTANT MaxDispatch   \* bound on the sub-accounts a teller asks for before the run

VARIABLE number   \* the run's input member_number

allvars == << vars, core, number >>

\* The two capabilities of evidence/capability: the request each step makes, and
\* each navigate step of the recipe, None for one that types or extracts.
Lookup ==
  [kind |-> << "read", "read", "read" >>, approved |-> {}, checked |-> {2},
   post |-> << {}, {"profile"}, {} >>, outcome |-> << {}, {"not_found"}, {} >>,
   success |-> PageKinds, output |-> 3, navLen |-> 0, navWrites |-> {}, extract |-> FALSE,
   view |-> {}, click |-> << None, "search", None >>, navClick |-> << >>]

Open ==
  [kind |-> << "read", "read", "read", "verified" >>, approved |-> {4}, checked |-> {2, 3},
   post |-> << {}, {"profile"}, {"form", "rejected"}, {} >>,
   outcome |-> << {}, {}, {}, {"rejected"} >>,
   success |-> PageKinds, output |-> 5, navLen |-> 3, navWrites |-> {}, extract |-> TRUE,
   view |-> {"profile"}, click |-> << None, "search", "form", "open" >>,
   navClick |-> << "inquiry", None, "search" >>]

ASSUME ReplayAssumption ==
  /\ Page = PageKinds
  /\ Capability \subseteq {Lookup, Open}
  /\ None \notin Routes \cup Reason \cup
                 {"declared", "SURFACE_ERROR", "REFUSED", "POLICY_DENIED",
                  "CHECKPOINT_FAILED", "MUTATION_NOT_COMMITTED"}
  /\ MaxDispatch \in Nat

\* What the session reads is the document on display.
Displays ==
  /\ page' = doc'.page
  /\ dialog' = doc'.dialog

LegacyInit ==
  /\ CoreInit
  /\ number \in Number
  /\ page = doc.page
  /\ dialog = doc.dialog
  /\ foreign = FALSE
  /\ Init

-----------------------------------------------------------------------------
(* Before the run *)

\* What others did before the run starts is not this write's.
NotByThisRun == foreign' = IF pc = "start" THEN HasSubAccount(number)' ELSE foreign

\* The session rests, and the application moves.
AtRest ==
  /\ Displays
  /\ NotByThisRun
  /\ UNCHANGED << lease, applied, inflight, setup, coroutine, session, history, number >>

\* A teller works in a browser of his own, or resets the demo state.
Teller ==
  /\ pc = "start"
  /\ number' = number
  /\ \/ \E r \in Controls : Click(r) /\ (r.route = "open" => dispatchCount < MaxDispatch)
     \/ ResetDemoState
  /\ AtRest

\* The session opens its browser on the shell.
StartOnShell ==
  /\ \E query \in Query : Opens(query)
  /\ number' = number
  /\ Displays
  /\ Start
  /\ pc' = "scope"

-----------------------------------------------------------------------------
(* The run *)

\* What is on display is seen: no read fails, no condition is transient, and a
\* polling budget outlasts an answer that is on its way.
Definite ==
  LET escalates == pc' = "idle" /\ result'.status = "Escalated"
      resolved == doc.page \in Outcome[cursor] \/ PostconditionHolds IN
  /\ pc' # "raised"
  /\ result'.code \notin {"SURFACE_ERROR", "REFUSED"}
  /\ pc \in {"resolve", "poll", "poll_page"} /\ pc' = "idle" =>
       wire = Nothing \/ result'.status = "BusinessOutcome"
  /\ CASE pc = "execute"         -> pc' = "rescope"
       [] pc = "resolve"         -> resolved => pc' # pc /\ result'.status # "Failure"
       [] pc = "baseline"        -> HasRecipe /\ doc.page \in EffectView =>
                                      pc' = "baseline_effect"
       [] pc = "baseline_effect" -> baseline' = IF EffectVisible THEN "present"
                                                                        ELSE "absent"
       [] pc = "respond"         -> doc.page \in Outcome[cursor] => pc' = "idle"
       [] pc = "navigate"        -> escalates => nav > NavLen /\ doc.dialog
       [] pc = "view"            -> escalates => doc.page \notin EffectView
       [] pc = "effect"          -> escalates => ~AbsentBefore
       [] pc \in {"navigated", "extract"} -> ~escalates
       [] pc = "poll"            -> IF doc.dialog THEN blocked' ELSE pc' = "poll_page"
       [] pc = "poll_page"       -> CheckpointHolds => pc' = "scope"
       [] OTHER                  -> TRUE

\* wait_settled comes before these reads.
Settles == {"scope", "rescope", "respond", "navigated", "assess"}

\* The session reads, decides and returns.
Look ==
  /\ pc \in Settles /\ ~(pc = "scope" /\ cursor > N) => Settled
  /\ UNCHANGED << core, number >>
  /\ Displays
  /\ \/ CheckScope
     \/ CheckDialog
     \/ RecheckScope
     \/ Resolve
     \/ BaselineView
     \/ BaselineEffect
     \/ FinishScope
     \/ FinishSuccess
     \/ Respond
     \/ VerifyScope
     \/ VerifyDialog
     \/ VerifyView
     \/ VerifyEffect
     \/ VerifyExtract
     \/ VerifySuccess
     \/ Reconcile
  /\ Definite

\* Mutant: whatever number the form holds.
MakesAny(route) ==
  IF route = None THEN UNCHANGED core
  ELSE \E r \in Controls : r.route = route /\ Click(r)

\* A step of the session that clicks makes the request of that control; the
\* form of the inquiry carries the number that was typed.
Makes(route) ==
  IF route = None THEN UNCHANGED core
  ELSE \E r \in Controls :
         /\ r.route = route
         /\ route = "search" => r.number = number
         /\ Click(r)

\* The control is always there: the checkpoint before the step, which automation
\* advances from and resumes from alike, is that of the page it is on.
ExecuteOnCore ==
  /\ pc = "execute"
  /\ Makes(setup.capability.click[cursor])
  /\ number' = number
  /\ Displays
  /\ Execute
  /\ Definite

NavigateOnCore ==
  /\ pc = "navigate"
  /\ nav <= NavLen
  /\ Makes(setup.capability.navClick[nav])
  /\ number' = number
  /\ Displays
  /\ VerifyNavigate
  /\ Definite

\* The consequential click reaches the application, which carries it out at
\* once or not at all, and whose answer may be held back until the click times
\* out.  The write meant is the one at the number the caller asked for.
CommitOnCore ==
  /\ pc = "commit"
  /\ \E r \in Controls : r.route = setup.capability.click[cursor] /\ OpenSubAccount(r)
  /\ number' = number
  /\ applied' = IF HasSubAccount(number)' = HasSubAccount(number) THEN applied ELSE applied + 1
  /\ UNCHANGED inflight
  /\ Displays
  /\ Commit
  /\ Definite
  /\ (pc' = "navigate") = (wire'.route = "held")

\* The operator decides, or works in the session's browser: he clears what
\* blocks the run and leaves the task itself to it.
OperateOnCore ==
  /\ number' = number
  /\ \/ UNCHANGED core /\ Displays /\ (TakeControl \/ ResumeAmbiguous \/ ResumeBlocked)
     \/ /\ \E r \in Controls : r.route # "open" /\ Click(r)
        /\ Displays
        /\ Perform

\* The application answers.
Answer ==
  /\ Serve
  /\ number' = number
  /\ AtRest

Session == Look \/ ExecuteOnCore \/ NavigateOnCore \/ CommitOnCore

LegacyNext == Teller \/ StartOnShell \/ Session \/ OperateOnCore \/ Answer

\* The event loop resumes the session, and the application answers every
\* request; the teller and the operator may take their time.
LegacySpec == LegacyInit /\ [][LegacyNext]_allvars /\ WF_allvars(Session) /\ WF_allvars(Answer)

-----------------------------------------------------------------------------
(* Properties *)

\* The scenario the session's browser was opened with.
World == ResolveScenario(Nothing, scenarioCookie)

Writes == HasRecipe

\* What a look-up no human touched ends in; docs/eval-scenarios.md says the same
\* of each scenario it gives a look-up's outcome for.
LookupVerdict ==
  IF number \notin Member \/ World = "not_found" THEN {"declared"}
  ELSE IF World \in {"session_expired", "permission_denied", "verification_required"}
          \/ (World = "commit_unverifiable" /\ foreign) THEN {"CHECKPOINT_FAILED"}
  ELSE IF World = "unexpected_dialog" \/ VerificationDialog(number, World) THEN {"UNKNOWN_DIALOG"}
  ELSE {None}

\* What a write no human touched ends in.  What keeps the look-up from the
\* profile keeps the write from it; a sub-account that was there is declared;
\* else the effect is read back.  This is the code's table, and departs from
\* docs/eval-scenarios.md:16-17 twice: under SLOW the view is read once, maybe too
\* early (session.py:553), and the write declares no outcome for "no record".
WriteVerdict ==
  IF number \notin Member \/ World = "not_found" THEN {"CHECKPOINT_FAILED"}
  ELSE IF applied = 0 /\ LookupVerdict # {None} THEN LookupVerdict
  ELSE IF foreign THEN {"declared"}
  ELSE IF World = "commit_dropped" THEN {"MUTATION_NOT_COMMITTED"}
  ELSE IF World = "commit_unverifiable" \/ VerificationDialog(number, World)
       THEN {"MUTATION_AMBIGUOUS"}
  ELSE IF World = "slow" THEN {None, "MUTATION_AMBIGUOUS"}
  ELSE {None}

\* A run no human touches ends in its scenario's verdict, for either capability,
\* any member number and whatever was in the store before, and a Success is the
\* one result without a code (advance and all it awaits, with member_profile and
\* open_sub_account; the verdicts are LookupVerdict's and WriteVerdict's).
ScenarioVerdicts ==
  pc = "idle" /\ epoch = 0 =>
    /\ result.code \in IF Writes THEN WriteVerdict ELSE LookupVerdict
    /\ (result.code = None) = (result.status = "Success")

\* What a verified write's result claims is so in the store: a Success opened
\* exactly one sub-account that was not there before, MUTATION_NOT_COMMITTED none.
ClaimsMatchCore ==
  pc = "idle" /\ Writes =>
    /\ result.status = "Success" => applied = 1 /\ ~foreign /\ created[number] = 1
    /\ result.code = "MUTATION_NOT_COMMITTED" => ~HasSubAccount(number)

\* A declared rejection opened none, because one was there.
RejectionMatchesCore ==
  pc = "idle" /\ Writes =>
    (result.code = "declared" => applied = 0 /\ foreign /\ created[number] = 1)

\* What a write's result claims is so in the application's store, at the number
\* the caller asked for, through every takeover and second verification.  The
\* part on rejections is for takeovers that end on the member asked for: with
\* one member on record there is no other; ResumesOnTheRecord is about the rest.
VerdictMatchesCore == ClaimsMatchCore /\ RejectionMatchesCore

\* The effect is judged on the member's own page as the store is now, never on
\* a document that was there before the write or before the last navigation
\* (_maybe_capture_baseline, _verify_embedded; wait_settled is all they wait for).
ReadsAreFresh ==
  pc \in {"baseline_effect", "effect"} =>
    doc.number = number /\ doc.rows = created[number]

\* The recoverable ambiguity recovers: with the dialog of VERIFICATION_DIALOG
\* acknowledged, the second verification ends in Success, and nothing is
\* dispatched again (scenarios.py:40-43, reverify_mutation).
AcknowledgedRecovers ==
  pc = "navigate" /\ nav = 1 /\ caller = "reverify" /\ baseline = "absent"
  /\ World = "verification_dialog" /\ number \in acknowledged
    ~> pc = "idle" /\ result.status = "Success" /\ dispatches[N] = 1

\* "The human leaves the page elsewhere | reconciliation finds no matching
\* checkpoint" (docs/handoff-design.md:161): automation resumes on the record
\* it was working on.
ResumesOnTheRecord ==
  [][owner = "human" /\ pc' = "scope" => doc.number = number]_allvars

=============================================================================
