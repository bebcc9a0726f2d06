--------------------------- MODULE DiscoveryLoop ----------------------------
(***************************************************************************)
(* The discovery loop (discovery/agent.py): observe, let the model propose,*)
(* let the kernel execute, record; with its bounds, the human handoff of a *)
(* model that asks for one, and the approval of a consequential action.    *)
(* The steps are the stretches between awaits.  The kernel is here only by *)
(* what TrustedKernel establishes of it: an execution is fenced, needs a   *)
(* grant where it is consequential, and comes back executed, rejected,     *)
(* failed or uncertain.                                                    *)
(***************************************************************************)
EXTENDS ControlLease, Sequences, FiniteSets

CONSTANTS
  Page, Entry, InScope,  \* pages, the target url's, those of the allowlist
  HeadingOf,      \* their headings
  Control,        \* controls, as the descriptors of their candidates
  On,             \* per page, the controls it shows
  Goes,           \* per control, the page a click leads to
  Slow,           \* controls whose page comes later than wait_settled waits
  Location,       \* per control, what _describe makes of its descriptor
  Consequential,  \* controls the classifier does not call read-only
  Proposal,       \* what the model may decide: [action, control, output]
  Named,          \* output names a model may come up with
  Output, Success, None,
  HasHuman,       \* a lease and an on_human_request handler are supplied
  HasApprover,    \* an on_consequential_approval handler is supplied
  MaxSteps,       \* max_steps
  StuckLimit,     \* _STUCK_LIMIT
  RepeatLimit,    \* _REPEAT_LIMIT
  MaxHuman        \* bound on the operator's clicks

\* "invalid" stands for a reply that is no proposal at all.
ProposedActionType ==
  {"click", "type", "extract", "select", "scroll", "observe", "declare_success",
   "request_human", "invalid"}

StopReason == {"GOAL_REACHED", "STUCK", "MAX_STEPS", "HUMAN_REQUESTED", "OUT_OF_SCOPE"}

\* A target url out of scope ends discover before its first turn.
ASSUME LoopAssumption ==
  /\ None \notin StopReason
  /\ Entry \in InScope
  /\ InScope \subseteq Page
  /\ On \in [Page -> SUBSET Control]
  /\ Goes \in [Control -> Page]
  /\ Proposal \subseteq [action : ProposedActionType, control : Control \cup {None}, output : Named]
  /\ MaxSteps \in Nat \ {0}
  /\ StuckLimit \in Nat \ {0}
  /\ RepeatLimit \in Nat \ {0}
  /\ MaxHuman \in Nat

VARIABLES
  pc,        \* the await the loop is at, or how discover ended
  view,      \* the page the browser shows
  landing,   \* the page a slow navigation is about to show, or None
  turn,      \* step_index
  proposal,  \* the model's decision
  seen,      \* the page and the epoch of the observation it was made on
  captured,  \* the epoch passed to the kernel
  before,    \* heading_before
  asked,     \* the heading in the fingerprint a human is asked to approve
  errors,    \* consecutive_errors
  repeats,   \* repeat_count
  last,      \* last_signature
  obtained,  \* obtained_outputs
  trace,     \* trace_steps
  pending,   \* whether handoff.pending is set
  stop,      \* stop_reason
  executed,  \* what the surface was made to do, in order, and on what page
  turns,     \* what came of each turn: "executed", "error" or "neutral"
  clicks     \* number of the operator's clicks

counters == << errors, repeats, last, obtained, trace >>
page == << view, landing >>
given == << captured, before, asked >>
call == << proposal, seen, given >>
ended == << turn, stop >>
vars == << pc, page, ended, call, counters, pending, executed, turns, clicks, lease >>

Init ==
  /\ LeaseInit
  /\ pc = "top"
  /\ view = Entry
  /\ landing = None
  /\ turn = 0
  /\ proposal = None
  /\ seen = None
  /\ captured = 0
  /\ before = None
  /\ asked = None
  /\ errors = 0
  /\ repeats = 0
  /\ last = None
  /\ obtained = {}
  /\ trace = << >>
  /\ pending = FALSE
  /\ stop = None
  /\ executed = << >>
  /\ turns = << >>
  /\ clicks = 0

-----------------------------------------------------------------------------
(* How a turn ends *)

\* break, with a stop reason.
Stop(reason) ==
  /\ pc' = "done"
  /\ stop' = reason
  /\ UNCHANGED turn

\* Mutant: one turn more than max_steps.
OneTurnMore ==
  IF turn = MaxSteps
  THEN Stop("MAX_STEPS")
  ELSE /\ pc' = "top"
       /\ turn' = turn + 1
       /\ UNCHANGED stop

\* continue, or the end of the body; range(max_steps) may be exhausted.
NextTurn ==
  IF turn + 1 = MaxSteps
  THEN Stop("MAX_STEPS")
  ELSE /\ pc' = "top"
       /\ turn' = turn + 1
       /\ UNCHANGED stop

\* An exception nothing in discover catches.
Escape ==
  /\ pc' = "raised"
  /\ UNCHANGED ended

Came(what) == turns' = Append(turns, what)

\* Mutant: what came to nothing costs no turn.
NeutralIsFree ==
  /\ pc' = "top"
  /\ UNCHANGED << ended, counters, turns >>

\* A turn that came to nothing and counts as no error.
Neutral ==
  /\ Came("neutral")
  /\ NextTurn
  /\ UNCHANGED counters

\* Every refusal, of the loop or of the kernel: consecutive_errors grows, and
\* is compared at once.
Refused ==
  /\ errors' = errors + 1
  /\ Came("error")
  /\ IF errors' >= StuckLimit THEN Stop("STUCK") ELSE NextTurn
  /\ UNCHANGED << repeats, last, obtained, trace >>

-----------------------------------------------------------------------------
(* Observing *)

\* Mutant: navigation scope is not enforced after the entry.
ScopeUnchecked == TRUE

\* nav_policy.check_all(scope_urls).
ScopeHolds == view \in InScope

\* wait_settled and the scope check.
CheckScope ==
  /\ pc = "top"
  /\ IF ScopeHolds
     THEN pc' = "observe" /\ UNCHANGED ended
     ELSE Stop("OUT_OF_SCOPE")
  /\ UNCHANGED << page, call, counters, pending, executed, turns, clicks, lease >>

\* observe; the candidates go to the model, and by_id to the kernel.
Observe ==
  /\ pc = "observe"
  /\ seen' = [page |-> view, epoch |-> epoch]
  /\ pc' = "decide"
  /\ UNCHANGED << page, ended, proposal, given, counters, pending, executed, turns, clicks,
                  lease >>

-----------------------------------------------------------------------------
(* Deciding *)

\* The refusals the loop makes itself, before the kernel is asked.
UnknownOutput(p) == p.action = "extract" /\ p.output \notin Output

\* Mutant: re-extracting is recorded as a step like any other.
NeverObtained(p) == FALSE

AlreadyObtained(p) == p.action = "extract" /\ p.output \in obtained

\* Software ratifies a declared success.
Ratified == Success \in obtained

\* model.decide returns p.
Decided(p) ==
  /\ pc = "decide"
  /\ proposal' = p
  /\ UNCHANGED << page, seen, executed, clicks, lease >>

\* ModelOutputError, or an output the capability does not declare.
RefuseDecision(p) ==
  /\ Decided(p)
  /\ p.action = "invalid" \/ UnknownOutput(p)
  /\ Refused
  /\ UNCHANGED << given, pending >>

DeclareSuccess(p) ==
  /\ Decided(p)
  /\ p.action = "declare_success"
  /\ IF Ratified
     THEN Stop("GOAL_REACHED") /\ UNCHANGED << counters, turns >>
     ELSE Refused
  /\ UNCHANGED << given, pending >>

RequestHuman(p) ==
  /\ Decided(p)
  /\ p.action = "request_human"
  /\ IF HasHuman
     THEN pc' = "human" /\ pending' = TRUE /\ UNCHANGED ended
     ELSE Stop("HUMAN_REQUESTED") /\ UNCHANGED pending
  /\ UNCHANGED << given, counters, turns >>

\* Observing again, and re-extracting, which is no progress and no error.
PassTurn(p) ==
  /\ Decided(p)
  /\ p.action = "observe" \/ (AlreadyObtained(p) /\ ~ UnknownOutput(p))
  /\ Neutral
  /\ UNCHANGED << given, pending >>

\* What is left goes to the kernel, with the epoch as it is then; a click waits
\* for the heading before it first.
Propose(p) ==
  /\ Decided(p)
  /\ p.action \notin {"invalid", "declare_success", "request_human", "observe"}
  /\ ~ UnknownOutput(p)
  /\ ~ AlreadyObtained(p)
  /\ IF p.action = "click"
     THEN pc' = "heading" /\ UNCHANGED given
     ELSE /\ pc' = "kernel"
          /\ captured' = epoch
          /\ before' = None
          /\ UNCHANGED asked
  /\ UNCHANGED << ended, counters, pending, turns >>

\* surface.primary_heading, and the epoch after it.
ReadHeading ==
  /\ pc = "heading"
  /\ pc' = "kernel"
  /\ before' = HeadingOf[view]
  /\ captured' = epoch
  /\ UNCHANGED << page, ended, proposal, seen, asked, counters, pending, executed, turns,
                  clicks, lease >>

Decide(p) ==
  RefuseDecision(p) \/ DeclareSuccess(p) \/ RequestHuman(p) \/ PassTurn(p) \/ Propose(p)

-----------------------------------------------------------------------------
(* Executing *)

Writes(p) == p.action = "click" /\ p.control \in Consequential

\* What the kernel can make the surface do.
Executable == {"click", "type", "extract"}

\* The kernel refuses: an action it does not execute, the fence, a candidate that
\* was not observed, a target that is not on the page any more.  Its other
\* rejections come to the same here.
KernelRefuses ==
  \/ proposal.action \notin Executable
  \/ ~ MayAct(captured)
  \/ proposal.control \notin On[seen.page]
  \/ proposal.control \notin On[view]

\* The action is made: a click may lead elsewhere, at once or later.
Perform ==
  /\ executed' = Append(executed, [action |-> proposal.action, control |-> proposal.control,
                                   output |-> proposal.output, page |-> view])
  /\ IF proposal.action # "click"
     THEN UNCHANGED page
     ELSE IF proposal.control \in Slow
     THEN landing' = Goes[proposal.control] /\ UNCHANGED view
     ELSE view' = Goes[proposal.control] /\ landing' = None

Dispatch ==
  /\ Perform
  /\ pc' = IF proposal.action = "click" THEN "settle" ELSE "record"
  /\ UNCHANGED << ended, counters, turns >>

\* A click raises after it was made: neither a SurfaceError nor the uncertainty
\* of a consequential click is caught by an except clause.
SurfaceRaises ==
  /\ proposal.action = "click"
  /\ Perform
  /\ Escape
  /\ UNCHANGED << counters, turns >>

\* kernel.execute without a grant, whose fingerprint has the heading read then;
\* without a handler there is no grant to be had.
Execute ==
  /\ pc = "kernel"
  /\ IF KernelRefuses \/ (Writes(proposal) /\ ~ HasApprover)
     THEN Refused /\ UNCHANGED << page, call, executed >>
     ELSE IF Writes(proposal)
     THEN /\ pc' = "approval"
          /\ asked' = HeadingOf[view]
          /\ UNCHANGED << ended, page, proposal, seen, captured, before, executed, counters,
                          turns >>
     ELSE (Dispatch \/ SurfaceRaises) /\ UNCHANGED call
  /\ UNCHANGED << pending, clicks, lease >>

\* on_consequential_approval returns None.
Deny ==
  /\ pc = "approval"
  /\ Refused
  /\ asked' = None
  /\ UNCHANGED << page, proposal, seen, captured, before, pending, executed, clicks, lease >>

\* A grant, and kernel.execute with it, which finds the operation as it was
\* when the grant was asked for, or not.
Approve ==
  /\ pc = "approval"
  /\ pc' = "granted"
  /\ UNCHANGED << page, ended, call, counters, pending, executed, turns, clicks, lease >>

ExecuteGranted ==
  /\ pc = "granted"
  /\ IF KernelRefuses \/ HeadingOf[view] # asked
     THEN Refused /\ UNCHANGED << page, executed >>
     ELSE Dispatch \/ SurfaceRaises
  /\ asked' = None
  /\ UNCHANGED << proposal, seen, captured, before, pending, clicks, lease >>

-----------------------------------------------------------------------------
(* Recording *)

\* After a click: wait_settled and the scope of the page it led to.
Settle ==
  /\ pc = "settle"
  /\ IF ScopeHolds
     THEN pc' = "record" /\ UNCHANGED ended
     ELSE Stop("OUT_OF_SCOPE")
  /\ UNCHANGED << page, call, counters, pending, executed, turns, clicks, lease >>

\* wait_for_heading_change returns a changed heading, or None at its timeout.
Landmark ==
  IF proposal.action = "click" /\ HeadingOf[view] # before THEN HeadingOf[view] ELSE None

\* _describe: text and output are not part of it.
Signature == << proposal.action, Location[proposal.control] >>

\* Mutant: an execution leaves the count of errors as it is.
ErrorsKept == errors

\* An execution starts the count of consecutive errors anew.
ErrorsAfter == 0

\* repeat_count
Repeats == IF Signature = last THEN repeats + 1 ELSE 1

Record ==
  /\ pc = "record"
  /\ trace' = Append(trace,
                [action |-> proposal.action, control |-> proposal.control,
                 output |-> proposal.output, route |-> seen.page,
                 landmark |-> Landmark, before |-> before])
  /\ obtained' = IF proposal.action = "extract" THEN obtained \cup {proposal.output} ELSE obtained
  /\ errors' = ErrorsAfter
  /\ last' = Signature
  /\ repeats' = Repeats
  /\ Came("executed")
  /\ IF repeats' >= RepeatLimit THEN Stop("STUCK") ELSE NextTurn
  /\ UNCHANGED << page, call, pending, executed, clicks, lease >>

\* An await that raises: the model client, but for a reply it cannot parse, or the
\* surface, for the loop or for the kernel.  Nothing in discover catches it.
AwaitRaises ==
  /\ pc \in {"top", "observe", "decide", "heading", "kernel", "granted", "settle", "record"}
  /\ Escape
  /\ UNCHANGED << page, call, counters, pending, executed, turns, clicks, lease >>

-----------------------------------------------------------------------------
(* The human, through OperatorController and the console *)

HumanOnly == << ended, call, counters, executed, turns >>

\* It needs a pending intervention, whatever the loop is doing.
TakeControl ==
  /\ pending
  /\ ToHuman
  /\ UNCHANGED << pc, page, HumanOnly, pending, clicks >>

\* A human click, wherever it leads: a scope violation is reported to the human.
HumanClick(c) ==
  /\ pc \notin {"done", "raised"}
  /\ owner = "human"
  /\ clicks < MaxHuman
  /\ c \in On[view]
  /\ view' = Goes[c]
  /\ landing' = None
  /\ clicks' = clicks + 1
  /\ UNCHANGED << pc, HumanOnly, pending, lease >>

\* Mutant: the loop goes on with the observation it had.
ReleaseToDecide ==
  /\ pc = "human"
  /\ ToAutomation
  /\ pending' = FALSE
  /\ pc' = "decide"
  /\ UNCHANGED << page, ended, call, counters, turns, executed, clicks >>

\* Mutant: the intervention is not cleared when the handler returns.
ReleaseKeepsPending ==
  /\ pc = "human"
  /\ ToAutomation
  /\ Neutral
  /\ UNCHANGED << page, call, pending, executed, clicks >>

\* release_to_automation; the handler returns True and the loop goes on.
Release ==
  /\ pc = "human"
  /\ ToAutomation
  /\ pending' = FALSE
  /\ Neutral
  /\ UNCHANGED << page, call, executed, clicks >>

\* The handler returns False, whoever has control.
Quit ==
  /\ pc = "human"
  /\ pending' = FALSE
  /\ Stop("HUMAN_REQUESTED")
  /\ UNCHANGED << page, call, counters, executed, turns, clicks, lease >>

\* resume without take: OperatorError leaves the console and discover.
ReleaseUntaken ==
  /\ pc = "human"
  /\ owner = "automation"
  /\ pending' = FALSE
  /\ Escape
  /\ UNCHANGED << page, call, counters, executed, turns, clicks, lease >>

\* The page of a slow navigation shows.
Land ==
  /\ landing # None
  /\ view' = landing
  /\ landing' = None
  /\ UNCHANGED << pc, ended, call, counters, pending, executed, turns, clicks, lease >>

-----------------------------------------------------------------------------

Automation ==
  \/ CheckScope
  \/ Observe
  \/ \E p \in Proposal : Decide(p)
  \/ ReadHeading
  \/ Execute
  \/ ExecuteGranted
  \/ Settle
  \/ Record
  \/ AwaitRaises

Human ==
  \/ Approve
  \/ Deny
  \/ TakeControl
  \/ \E c \in Control : HumanClick(c)
  \/ Release
  \/ Quit
  \/ ReleaseUntaken

Next ==
  \/ Automation
  \/ Human
  \/ Land

\* The loop's awaits return; a human may never answer.
Spec == Init /\ [][Next]_vars /\ WF_vars(Automation)

-----------------------------------------------------------------------------
(* Properties *)

Heading == {HeadingOf[p] : p \in Page}

\* What is executed, and what of it is recorded.
Operation ==
  [action : ProposedActionType, control : Control \cup {None}, output : Named, page : Page]

TraceStep ==
  [action : ProposedActionType, control : Control \cup {None}, output : Named,
   route : Page, landmark : Heading \cup {None}, before : Heading \cup {None}]

\* The types, and the bounds of the three counters.
TypeOK ==
  /\ LeaseTypeOK
  /\ pc \in {"top", "observe", "decide", "heading", "human", "kernel", "approval", "granted",
             "settle", "record", "done", "raised"}
  /\ view \in Page
  /\ landing \in Page \cup {None}
  /\ turn \in 0 .. MaxSteps - 1
  /\ proposal \in Proposal \cup {None}
  /\ seen \in [page : Page, epoch : Nat] \cup {None}
  /\ captured \in Nat
  /\ before \in Heading \cup {None}
  /\ asked \in Heading \cup {None}
  /\ errors \in 0 .. StuckLimit
  /\ repeats \in 0 .. RepeatLimit
  /\ obtained \subseteq Output
  /\ trace \in Seq(TraceStep)
  /\ pending \in BOOLEAN
  /\ stop \in StopReason \cup {None}
  /\ executed \in Seq(Operation)
  /\ turns \in Seq({"executed", "error", "neutral"})
  /\ clicks \in Nat

\* Step i of the trace read output o.
Reads(i, o) == trace[i].action = "extract" /\ trace[i].output = o

\* A goal is reached with the success output read exactly once, and the trace
\* handed to the compiler holds every action the surface was made to do, in
\* order: nothing dispatched is missing from the artifact, a consequential
\* click least of all, whatever was refused or handed over in between.
GoalTrace ==
  stop = "GOAL_REACHED" =>
    /\ \E i \in DOMAIN trace : Reads(i, Success)
    /\ \A i, j \in DOMAIN trace : Reads(i, Success) /\ Reads(j, Success) => i = j
    /\ Len(trace) = Len(executed)
    /\ \A i \in DOMAIN trace :
         /\ trace[i].action = executed[i].action
         /\ trace[i].control = executed[i].control

\* The errors of the turns since the last execution.
ErrorsInARow ==
  Cardinality({i \in DOMAIN turns :
                 turns[i] = "error" /\ \A j \in i .. Len(turns) : turns[j] # "executed"})

SameSignature(steps) ==
  \A i, j \in steps : << trace[i].action, Location[trace[i].control] >> =
                      << trace[j].action, Location[trace[j].control] >>

Repeating ==
  /\ Len(trace) >= RepeatLimit
  /\ SameSignature(Len(trace) - RepeatLimit + 1 .. Len(trace))

\* The loop stops as stuck exactly when that many turns in a row failed with
\* nothing executed between them, or that many executions in a row look the
\* same; observing, handing over and re-extracting neither count nor reset.
StuckIsStuck == stop = "STUCK" <=> ErrorsInARow >= StuckLimit \/ Repeating

\* What the kernel is asked to do was decided on an observation made in the
\* current tenure of automation ("discard the stale pre-handoff observation").
FreshObservation ==
  pc \in {"kernel", "approval", "granted"} =>
    owner = "automation" /\ seen.epoch = epoch /\ captured = epoch

\* A human drives only while the loop waits for the handler, or after the run:
\* nothing can take control from a running loop.
OneDriver ==
  /\ owner = "human" => pc \in {"human", "done", "raised"}
  /\ pending => pc = "human"

\* The trace of a reached goal has no heading of a page out of scope and nothing
\* read from or typed into one, though each scope check is followed by an await
\* before the page is used, and a slow navigation may land in it.  It is less than
\* agent.py:352 asks for ("re-check scope before recording a landmark from the
\* resulting page into the trace/artifact"): such a heading does get into the trace,
\* and such a page before the model, but the next turn's check then ends the run
\* OUT_OF_SCOPE.  A click made on such a page that leads back is not excluded, and
\* no page is assumed to navigate by itself but for a slow landing.
GoalReadInScope ==
  stop = "GOAL_REACHED" =>
    \A i \in DOMAIN trace :
      /\ trace[i].landmark # None => \E p \in InScope : HeadingOf[p] = trace[i].landmark
      /\ trace[i].action # "click" => executed[i].page \in InScope

\* Only a human keeps the loop waiting: max_steps bounds every other turn.
LoopEnds == pc = "top" ~> pc \in {"done", "raised", "human", "approval"}

\* A run never ends with a consequential click made and neither recorded for
\* verification nor reported ("the runtime verifies through read-back").
WritesAccounted ==
  pc = "raised" => \A i \in DOMAIN executed :
    executed[i].control \in Consequential => i \in DOMAIN trace

=============================================================================
