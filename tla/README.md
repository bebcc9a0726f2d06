# A verification development of replayable computer use

`src/src/computer_use` drives one live browser session.  A *discovery* run lets
a model propose actions, a *compiler* turns the successful trace into a
*capability*, and a *replay* runs the capability without a model.  Whatever
drives it, every automated action passes one *trusted kernel*, and a human
operator may take the session over and give it back.  What can go wrong in such
a system is a click that cannot be undone: made twice, made without anybody's
approval, made while a human is driving, or made and then reported as something
else.  This directory says in TLA+ what the code does about that, checks it with
TLC on small instances, and proves with TLAPS, for instances of every size, what
the kernel, the discovery loop, the replay session, the compiler and the surface
promise, and what the two shipped capabilities come to on the demo application.

## 1. The parts of the system

| Part | Code | State | Operations | What makes it correct |
|---|---|---|---|---|
| Control lease | `execution/lease.py` | owner, epoch | `to_human`, `to_automation`, `assert_automation_may_act` | one driver at a time; the epoch never repeats, so work of an earlier tenure is recognised |
| Trusted kernel | `execution/kernel.py` | nonces issued, nonces consumed; the locals of every call in progress | `execute`, `execute_step` | nothing consequential is dispatched without a standing or one-time approval, or by stale work; the exception raised tells truly what may have happened |
| One-time approvals | `execution/approval.py` | (in the kernel) | `fingerprint_of`, requests, grants | a grant works once, for the operation the human saw |
| Risk, policy, confirmation, authority | `safety/*.py` | none (pure) | `classify`, `check`, `approves`, `treats_absence_as_definite` | software, not the model, decides what is consequential |
| Replay session | `execution/session.py`, `execution/replay.py` | cursor, outputs, pending intervention, pending commit, effect state, baseline | `start`, `advance`, `reverify_mutation`, `assess_reconciliation`, `resume_from_cursor` | a write leaves once; its reported effect is true; success is observed; every run returns |
| Operator controller | `handoff/operator.py` | (the session's and the lease's) | `take_control`, `perform`, `release_to_automation`, `resume` | automation resumes only on a page it can vouch for |
| Discovery loop | `discovery/agent.py` | trace, obtained outputs, three counters, last signature, stop reason | `discover` | the loop ends, for the reason it gives; the trace holds what was executed and nothing refused |
| Compiler | `discovery/compiler.py`, `discovery/trace.py` | none (pure) | `compile_capability` | a compiled capability replays what was discovered; a write gets a verification that can be evaluated before and after it |
| Capability artifact | `model/*.py` | none (validated data) | validators | an artifact alone cannot make replay lie about outputs or writes |
| Navigation scope | `safety/navigation.py` | none | `check`, `check_all` | no page out of scope is read or acted on |
| Playwright surface | `surface/*.py` | the live page and its frames | `observe`, `observe_blocker`, `capture`, `has_text`, `has_heading`, `has_blocking_dialog`, `primary_heading`, `count`, `extract`, `click`, `type_text`, waits | an answer is one some page gave; a target is one control, or an error |
| Evidence | `observability/*.py` | append-only files | `write` | a record holds no sensitive value |
| Interventions and consoles | `handoff/intervention.py`, `handoff/operator_ui.py`, `cli.py` | the candidates on display, the command in progress | command loops | the operator acts on what he was shown; every command comes back; nobody else drives meanwhile |
| Secrets | `safety/secrets.py` | none | `resolve` | a value that is missing is an error before any side effect |
| Model client | `discovery/anthropic_model.py`, `discovery/model.py` | none | `decide` | untrusted: any proposal at all |
| Demo application | `demo_app/legacy_core` | sub-accounts, acknowledgements, the browser's cookies | HTTP routes in twelve scenarios | each scenario brings out the verdict the docs tabulate for it |

How they interact: the discovery loop and the replay session run in one asyncio
coroutine each and await the kernel, the surface and, in discovery, the human.
The kernel reads the lease before it starts and again right before it acts; the
operator moves the lease.  The session owns the pause (`pending`) the operator
reads, and the operator calls back into the session to reconcile or to verify
again.  Nothing is shared but the lease, the pause and the live page, and
nothing is persisted: no crash is recovered from.

What is hard about it:
- every surface call is an await, so the page, the lease and the human move
  between any two reads of one decision;
- the kernel object is shared, so two calls may be past its first gate at once;
- a dispatched click may be carried out, dropped, rejected or carried out late,
  and the response may be lost;
- a pause may be resumed along two different paths, one of which hands the lease
  back and forth;
- polls, retries, fallbacks and repeat limits are bounded by different counters;
- the frames of a page are read one after the other, and each may navigate
  between two reads, or under an evaluation, which is then tried again.

`PROJECT.json` lists each hazard at its line with the properties that would
catch it, or the reason none does.

## 2. The plan

In the order of what hurts most, each item checked with TLC first and proved
where section 6 says so:

1. **ControlLease, TrustedKernel** - the gate every action passes: checked and
   proved.
2. **WriteCertainty** - the abstract promise about one write.
3. **ReplaySession** - start, advance, verified commit, verification,
   reconciliation and resume, composed with the lease, the operator and the
   application; it implements WriteCertainty: checked and proved.
4. **DiscoveryLoop** - `discover` with its limits, the approval round trip and
   the human request, composed with the lease and the operator's
   `release_to_automation`: checked and proved.
5. **Compiler** - recording a trace, and `compile_capability` as operators on
   it, against what replay needs of a recipe: checked and proved.
6. **Artifact** - the validators of `model/artifact.py`, which the compiler's
   output has to pass; what they say of a capability holds by their definition and
   is no property here.
7. **LegacyCore, LegacyReplay** - the demo application as a component of its own,
   and the session replaying the two shipped capabilities on it, against its store
   and the table of verdicts in `docs/eval-scenarios.md`: checked and proved.
8. **Surface, OperatorConsole** - resolution over frames, retries and polls, the
   second resolution inside `click`, which neither gate of the kernel fences, and
   the console that acts through it: checked, and what a call answers, where an
   act lands and that it is on display proved.

Nothing of the plan is left.  What stays model-checked only is at the end of
section 6, what is not modelled in section 7.

## 3. Modules and how they correspond to the code

`PROJECT.json` "map" names, for every definition, the lines it stands for.

**ControlLease** holds the two fields of the class; `ToHuman` and `ToAutomation`
are its transitions (not enabled where the code raises), `MayAct` the fencing
test.  The kernel, the session and the loop extend it.

**TrustedKernel** models a call of `_authorize_and_execute` await by await.  The
frame of a call is a record: where it is, what it was given (operation, epoch
captured by the caller, grant), what it has found so far, and the verdict its
last run ended with (a `RejectionCode`, `ApprovalRequired`, a
`SurfaceError`, `MutationDispatchUncertain` or a result).

    scheduled --Enter--> counting --Count--> counted --Decide--> acting --Act--> idle
                            ^                   |  \--> reading --ReadLandmark--> read
                            '----- fallback ----'                  |--RequestApproval--> idle
                                                                   '--UseApproval--> acting

The browser's answer (`Count`, `ReadLandmark`) and the moment the coroutine goes
on with it are different steps.  `Transfer` (a takeover or a release), `Drift`
(the page changes) and `GrantApproval` (the human says yes) fall between any
two of them.  `Locators` gives an operation its primary descriptor and its ordered fallbacks;
a discovered proposal has one locator, the descriptor of the candidate it chose.
A fingerprint keeps of a target what `fingerprint_of` keeps (`Identity`).  The
history variables `invoked`, `disturbed`, `aged` and `uses` record what no field
of the code does: what was really asked of the surface, which calls saw a change
of hands, which nonces are older than one, and how often a nonce was used.

**WriteCertainty** is the abstract specification: the certainty of the one write
moves `not_dispatched -> dispatching -> dispatched -> settled or ambiguous`, it
leaves once, and a settled verdict stands.

**ReplaySession** models the session's one coroutine: `pc` says which await it
is in.  `Advance` groups the ordinary loop, `Mutate` the verified commit and its
verification (awaited by `advance` or, after a takeover, by
`reverify_mutation`: `caller`), `Reconcile` the assessment of a page a human
hands back, `Operate` the operator's calls, `Application` what the application
does by itself.  A condition of the capability is the set of pages it matches.
`applied`, `inflight` and `foreign` are the truth about the write that
`effectState` is a claim about.  `SoleWrite` is a capability whose one write has
a recipe, which is what a certainty of *the* write can be about.  What a run is about (`setup`: the capability,
the authority policy, whether the application is `quiet`) is chosen once, in
`Init`.

**LegacyCore** has one action per handler of `app.py`: a request is on the
`wire`, and `Serve` answers it with a document, a redirect (a further request)
or an answer that is held back, by the scenario that query and cookie resolve
to.  A handler runs without an await but for the two that sleep, so it is one
step.  `doc` is what the workspace shows, `created` and `acknowledged` are the
store.  **LegacyReplay** extends it and ReplaySession: `Lookup` and `Open` are the
two capabilities of `evidence/capability`, a click of the session is a request,
its page is the document on display, `applied` counts the sub-accounts the run
opened at the number the caller asked for; a teller works in a browser of his own
before the run, and the operator in the session's during a takeover.

**Surface** models every read and every act of the class from await to await.  A
`call` goes through the frames its target is confined to (`FramesOf`), one
evaluation each; `Evaluate` reads the document the frame then shows,
`TransientError` is an evaluation that a navigation destroyed and that is tried
again in place, `Decide` takes the count of matches for what it means to the
operation (none, one, several), `NextPoll` goes round again while a budget is left, and
`Land` resolves the locator a second time and acts in that instant, or
`DriverError` raises.  `StartsLoading` and `Commits` are a frame moving.  `shown`
remembers what each frame has shown during a call.  The frames of a page are
distinct, and those of a target (`Scoped`) are in the order of the page.  **OperatorConsole** extends it and ControlLease:
`at` says which await of the handoff demo is in progress, from the run
before the pause through the presentation of the pause and the commands of the
console to the end of the browser session.  The session is known by what it
asks of the surface and by the ways `resume` ends, and is not modelled a second
time.

**DiscoveryLoop** models `discover` from await to await (`pc`):

    top --CheckScope--> observe --Observe--> decide --Propose--> kernel --Execute--> settle --> record --> top
                                             |   |                ^   '--> approval --Approve--> granted --'
                                             |   '--> heading ----' (a click: ReadHeading)
                                             '--RequestHuman--> human --Release--> top

A refusal of the loop or of the kernel (`Refused`), a turn that came to nothing
(`Neutral`) and an execution (`Record`) are the three ways a turn ends, with
their own effect on the counters; `Stop` is a `break`, `Escape` an exception that
nothing in `discover` catches (an await of its own that raises, or the kernel).  The model client may decide anything in
`Proposal`.  The kernel is here by its contract, which TrustedKernel establishes:
it refuses, or the surface acts, or it raises, after a click that was
made.  What it re-reads, the lease and the page, is what
`KernelRefuses` and the heading in `ExecuteGranted` look at (`asked` is the heading
the kernel fingerprinted when it asked for the approval).  `TakeControl`,
`HumanClick`, `Release`, `Quit` and `ReleaseUntaken` are the commands of the
discovery console; `Land` is a page that shows after `wait_settled` returned
(`Slow`).  `executed` and `turns` are histories the trace and the counters are
compared with.

**Artifact** holds the validators of a step, of a recipe and of a capability as
`Valid`.

**Compiler** extends Artifact.  Its behaviour is the recording of a trace, one
executed step at a time; `seen` remembers the page each step ended on, which the
compiler does not know.  `CompileCapability`, `Verification`, `PageCondition`,
`BaselineReachable` and `VerificationProvenance` are operators on the trace;
`Compiles` is where `compile_capability` raises no CompilationError and the
validators accept what it built.  The properties relate the artifact to `seen`.

The **MC** modules give small instances drawn from the demo application and the
tests.  **TrustedKernelProofs**, **ReplayProofs**, **DiscoveryProofs**,
**CompilerProofs**, **ConsoleProofs**, **AnswerProofs** and **LegacyProofs** hold
the proofs, and **SequenceLemmas** what they need of sequences joined one after the other
(`FlattenSeq` of the community modules, by its definition as a function).

A definition whose comment starts "Mutant:" is a plausible mistake in the
definition next to it.  No specification uses it; `PROJECT.json` names which
property notices when it takes the place of the real one.

## 4. The runs

| Run | Instance | Shows |
|---|---|---|
| `kernel_approval` | 2 calls, 2 operations with one fingerprint, 2 nonces, 1 transfer, 2 pages | one grant, one dispatch, and only with a human's grant for that fingerprint, although both calls may carry the same grant or a forged one |
| `kernel_tenure` | 1 call, 8 operations of every kind, two of them with one fingerprint, fallbacks, 2 transfers | stale work is not dispatched in a later tenure of automation; a grant dies with the tenure; each verdict is true to what was asked of the surface; every call ends |
| `replay_runs` | the creation of a sub-account with two look-up steps before it or one, a write without a recipe, and one that has such a write before the verified one; both authority policies, quiet and restless applications, 4 changes of hands | the effect state is true and moves only forward, as WriteCertainty allows; success is observed; one dispatch, whatever is retried, resumed or verified again; one driver; reconciled resume; a pause or an exception can be taken up again; clean ends; always returns |
| `replay_unseen_success` | the write without a recipe | *violation*: disagreement 1 below |
| `replay_verify_raises` | a verified write | *violation*: disagreement 2 |
| `discovery_loop` | 11 answers of the model, 5 turns, a slow page in scope and one out of it, which shows the same controls, an operator with one click | a goal's trace is what was executed, with nothing read out of scope in it; stuck means stuck; decisions are fresh; one driver; the loop ends |
| `discovery_uncertain` | clicks only, no operator | *violation*: disagreement 3 |
| `compiler_teller` | all traces of up to 10 steps on 5 pages, 4 of them with one route, one without a heading, one slow to show, and a write that may lead back to the first | unless the view is known by the entry's route, a baseline is read; where the navigation showed its pages, the condition it is read under holds on the view the effect is read on; the confirmation follows the write; the provenance is exact |
| `compiler_lost_outcome` | the same with 8 steps, one outcome binding | *violation*: disagreement 4 |
| `legacy_replay` | the look-up and the write of `evidence/capability` in all twelve scenarios, a member and a stranger, sub-accounts opened by others before the run, 4 changes of hands | each scenario nobody takes over ends in its verdict, that of `docs/eval-scenarios.md` but for the write under `slow` and `not_found`; what a result claims of the write is so in the store; the effect is never judged on a document older than the last navigation; an acknowledged dialog lets the ambiguity recover |
| `legacy_other_record` | the look-up, two members | *violation*: disagreement 5 |
| `operator_console` | two frames, 4 documents with a control shown twice, in two cases, behind a dialog, in both frames, without a name, out of scope; 2 retries, 2 polls, 3 changes of hands | what a read returns, some document shown meanwhile gave, frame by frame; a click lands on a unique match; the operator's act lands on a control on display, and only while he has the lease; every call and every command ends |

**Bounds and why they are enough.**  Two calls, because every conflict in the
kernel is between two holders of one nonce; two nonces, so that a request can be
made again after a grant was spent.  Two transfers are one takeover and one
return, the shortest way to stale work under an automation owner; the replay
runs allow four, so a write can be taken over, verified again, found ambiguous
again (which moves the lease twice) and taken over once more.  Two transient
retries and two polls let a loop fail once, succeed late, and run out.  Three
steps leave two checkpoints below the write, so "nearest" is not "only".
In the loop the limits are those of the code scaled down: three errors in a row
and two repeats fit into five turns together with something that resets them,
so each limit is reached alone, after a reset and at the last turn; one click of
the operator is enough to leave the page or the scope.  Ten steps hold a
look-up, the form, the write, and any way back to the member view with both reads,
and a detour over a page that shows late or has no heading.  One retry and one poll are enough on the demo application, which
never stays transient for a reason of its own; one sub-account asked for
beforehand is the difference between a write that is new and one that is not.
Two frames are a shell and a workspace, the least that has an order; a control
occurs in both, so that uniqueness is a matter of all frames together; two polls
let a change come late and not come; three changes of hands are a takeover, a
resume that pauses again, and a second takeover, under which the
first list is still on display.
`MaxEpoch`, `Retries`, `Polls`, `MaxPolls`, the number of nonces, `MaxHuman`,
`MaxTrace` and `MaxDispatch` bound what the code does not or bounds
by wall-clock time; `MaxSteps`, `StuckLimit`, `RepeatLimit` and `EvalRetries` are
limits of the code.

**Fairness.**  `WF_vars(Step(c))` in the kernel and `WF_vars(Advance \/ Mutate \/
Reconcile)` in the session: every await there is answered or raises (each
Playwright call has a timeout), and the event loop resumes a coroutine whose
await is done.  `WF_vars(Automation)` in the loop, for the same reason and for
the model client, whose request returns or raises.  `WF(Session)` and `WF(Answer)` on the demo
application: a local server answers every request, the held-back one after its
sleep.  `WF(OnSurface /\ SurfaceStep)` and `WF(ConsoleStep /\ ~Command)` in the
console: an evaluation or a wait in progress ends, and the console goes on with
what it got; typing a command is not among it.  Nothing is assumed of the operator, the human asked for an
approval, or the application: they may never act.

**Assumptions about the environment**, each visible in the module:
- an application shows one of the write's business outcomes only when it
  rejected the write, and, where the authority policy trusts an absence
  (`authoritative`, chosen once per run), it never carries a write out after it
  answered (`Commit`);
- what EffectTruth says of a settled verdict it says of `quiet` runs, in which the
  application does not navigate by itself and nobody else makes the very same
  change: the code cannot tell either case apart, and the docs claim
  attribution only for an absent-to-present transition.  Every other property of
  `replay_runs` is checked with both;
- in LegacyReplay every read of the page succeeds (`Definite`): what is on
  display is seen.  ReplaySession, in `replay_runs`, lets each of them fail;
- in LegacyReplay the operator clears what blocks the run and does not do its
  task: he does not submit the form himself, whose effect nothing could tell
  from the run's;
- the frames of a Surface stay attached, and a document is what the scripts
  return on it;
- the operator acts between the session's coroutines, because both consoles
  await them from the one task that reads the operator's commands;
- in DiscoveryLoop a page moves only under a click, the operator's or the loop's,
  at once or, where it is slow, once later;
- in Compiler a step that does not click stays on its page, and a page that is
  slow to show has shown by the next step, only too late for its heading
  (`CompilerAssumption`, `SlowPages`);
- the caller of the kernel passes a lease and the epoch it captured, as the
  session and the loop do.

Deadlock is not checked where the system may stop: a run that ended with no
intervention pending, a finished discovery, a trace at `MaxTrace`, a console that was left.

## 5. Disagreements found

1. `replay_unseen_success`: resuming a MUTATION_AMBIGUOUS pause of a step
   without a recipe returns Success although nothing was verified and later
   steps did not run (`session.py:620`); `docs/mutation-design.md:111-112`: "the
   system never reports a success it could not observe."
2. `replay_verify_raises`: a KernelRejection while a dispatched write is
   verified leaves the run as an exception (`session.py:555`);
   `docs/mutation-design.md:92` maps "dispatched, effect not establishable" to
   `Escalated(MUTATION_AMBIGUOUS)`.
3. `discovery_uncertain`: an approved click whose completion is uncertain ends
   `discover` as an exception (`agent.py:327` catches KernelRejection only), with
   no outcome and no trace; `kernel.py:79-80`: "the runtime verifies through
   read-back."
4. `compiler_lost_outcome`: an outcome binding that matches a step after the write
   is resolved and then in no step of the artifact (`compiler.py:304`);
   `compiler.py:7`: "authored business outcomes attach to the specific transition
   declared to produce them".
5. `legacy_other_record`: the nearest checkpoint of both shipped capabilities is
   the heading "Member Profile", which every member's profile has.  An operator
   who leaves the page on another member's is reconciled (`session.py:759`), and
   the run returns that member's balance for the number it was given;
   `docs/handoff-design.md:161`: "The human leaves the page elsewhere |
   reconciliation finds no matching checkpoint, escalate".

Further behaviour of the code that a reader of the docs may not expect.  Where a
property below has a premise, the premise is in its formula and the case it
excludes is in the instance of its run, so that without it TLC refutes the
property; the one exception is VerdictMatchesCore, whose run has one member:

- a fingerprint keeps neither text, label nor frame of a target
  (`approval.py:50`), so a grant lets through any operation that differs in these
  alone.  HumanAuthorized is about the fingerprint, in instances where all
  targets share one; no shipped caller submits a grant with another proposal than
  the one it was asked for;
- the heading after a click is polled for after the scope was checked
  (`agent.py:354-361`), so with a slow navigation that leaves the scope the heading
  of a page outside gets into the trace, and such a page, when it comes up while
  the model decides, is acted on.  GoalReadInScope says what holds of it: the trace of a
  reached goal has no such heading, since the next turn stops the run, and has
  nothing that was read or typed there, although a click made there may be in it;
- a trace whose success output is read on the entry page's route, without a landmark
  after the write, compiles, since `_baseline_reachable` (`compiler.py:255`) looks
  at the route its first step was decided on; but replay reads a baseline after
  each step only (`session.py:721-725`), so it may read none and end every good
  commit as MUTATION_AMBIGUOUS, which `compiler.py:289-292` is there to prevent.
  BaselineIsRead has this for its premise;
- without a landmark after the write the view is known by its route
  (`compiler.py:200`), and where one top document holds all frames that is also the
  route of the write's form, on which `compiler.py:197-198` means no baseline to be
  read.  BaselineOnEffectView tells the two apart only by heading.  And a landmark
  that is missing, because a page came too late or has no heading, makes the
  recipe look for the page before it: this is its premise `NavigationShows`;
- what `docs/eval-scenarios.md:16-17` says of `slow` and `not_found` is so of the
  look-up.  A write may under `slow` end MUTATION_AMBIGUOUS although it was made: the
  profile is read once after the navigation (`session.py:553`), and `wait_settled`
  compares two readings of the URL; and where there is no record it ends
  CHECKPOINT_FAILED, since the capability binds no outcome to that
  (`WriteVerdict`);
- after a takeover that ends on another member's record (disagreement 5) a declared
  rejection may be of that member's sub-account: the second half of
  VerdictMatchesCore, which `legacy_replay` checks with one member on record, is
  then false, and is proved until control first changes hands;
- an output read only by a recipe's navigate steps counts as produced
  (`artifact.py:423`) and is not kept by replay (`session.py:539-543`), so such
  an artifact loads and cannot succeed;
- under `unexpected_dialog`, every look-up shows the dialog again, so a write
  whose result that scenario blocks is ambiguous again after each takeover;
- on a page where no checkpoint holds, `resume` of a blocked step ends the run as
  Failure(CHECKPOINT_FAILED), where the table of `docs/handoff-design.md` has an
  escalation (`ResumeBlocked`);
- the handoff console answers "still blocked ... click/type then resume again"
  also when automation ran on and paused again: the lease is then
  automation's, and `take` must come first (`Resume` in OperatorConsole);
- three extracts whose targets have text only share a signature (`agent.py:119`)
  and stop the run as repeated.

## 6. What is proved

`PROJECT.json` "theorems" lists the results.  Each is about the specification
itself, for every value of its constants that the module's named ASSUME admits,
so for sets and sequences of every size, any number of retries, polls and
turns and any number of changes of hands; what a theorem assumes beyond that
stands in its statement and is said below.

**The kernel** (`TrustedKernelProofs`): `TypeCorrect`, `GrantsAreSingleUse`,
`WritesAreHumanAuthorized`, `VerdictsAreTrue`, `DispatchIsFenced`,
`GrantsDieWithTransfer`, `GrantsBindTheIdentity`.
None of the properties is inductive.  That a grant is used once says nothing of
a nonce that is unspent; that a verdict is true says nothing of a call that has
not ended.  `IInv` adds what the code relies on in between: a call in progress
has an operation and stands at one of its locators (`FrameInv`); it has asked
nothing of the surface before it acts, and what it asks then is what its
operation and target classify as; if the lease changed hands since it was
scheduled, its epoch is behind; a nonce that is not spent has authorized
nothing (`NonceInv`).  `FrameStep` proves once that replacing the frame of
one call keeps all of this if the new frame satisfies it, and each action is a
lemma that uses it.  The action properties follow from what a dispatch has to be
(`DispatchIsGated`): of all steps only the second gate leads to the surface, so
the call's epoch is the lease's, and, by `IInv`, the call saw no change of hands.
`GrantsDieWithTransfer` needs one more invariant, `AgeInv`: the fingerprint of a
request made before the latest change of hands carries an epoch that is behind,
while a grant that passes the gate carries the current one.  What a grant binds is
the *identity* a fingerprint keeps of a target, for every `Identity`
(`GrantsBindTheIdentity`); that it is the target itself is not so, since
`fingerprint_of` keeps neither label, text nor frame (section 5).

**The replay session** (`ReplayProofs`): `TypeCorrect`, `DispatchedOnce`,
`OneDrives`, `EffectsAreTrue`, `PausesAreRoutable`, `EndsAreClean`,
`SuccessIsCommitted`, `ResumesReconciled`, and `CertaintyRefined`: the session
implements WriteCertainty.  One inductive invariant carries them all, in parts that
each say what one piece of the state is worth at each await:
- `PlaceInv`, where the cursor may be, and on which kind of step;
- `DriverInv`: a human drives only a pause, and the session judges a page only for
  a pause by a dialog with a checkpoint below it;
- `PauseInv`: a pause is about the step at the cursor, a commit is pending only in
  one that is ambiguous, and a second verification that raises leaves both;
- `DispatchInv`: nothing was dispatched at the cursor while its step is still to
  be executed, nor beyond it.  This is what makes `DispatchOnce` inductive:
  a pause by a dialog is the only one that goes on executing, and it is at a step
  that was not executed;
- `EffectInv`: which values `last_effect_state` may have at which await, and that
  a write it calls not dispatched has left no trace;
- `TruthInv`: what makes a verdict true, in a quiet run: an absent baseline means
  that nobody else has brought the effect about, the effect is read on its view, a
  page of a business outcome is a page of a rejection;
- `ReconciledInv`: automation advances on a page that was vouched for.
  `NearestCheckpoint` shows that there is a nearest checkpoint as soon as there is
  one, by the least element of a set of naturals (`NatMin`).

Each action has a lemma of its own, and the verification steps share
`AmbiguousStep`, the judging ones `FailClosedStep`.  The refinement is a step
simulation on `Certainty` and `Sent`: under the invariant each action that moves
either is an action of WriteCertainty, the others stutter.  The certainty of *the*
write is that of a capability with one (`SoleWrite`).

**The discovery loop** (`DiscoveryProofs`): `TypeCorrect`, `DecisionsAreFresh`,
`OneDrives`, `GoalsAreTraced`, `StuckMeansStuck` and `GoalsStayInScope`.
- `PhaseInv`: what is being carried out is a proposal the loop's own refusals let
  pass, and the counters are below their limits while the loop runs; with it the
  types are inductive, since each counter is compared right after it grew;
- `TenureInv`: an intervention is pending only at the handler, so only there can
  the lease move, and the observation in use bears the current epoch;
- `TraceInv`: the trace follows `executed` except for the one action not recorded
  yet (`FollowInv`), an output is in `obtained` exactly when one step of the trace
  read it (`ReadInv`), and only a ratified declaration stops with GOAL_REACHED
  (`GoalInv`);
- `ScopeInv`: a page out of scope on display stays there until the next turn's
  check, so only the last step of a trace can be of one, and no goal is then
  declared;
- `StuckInv`: the counter of errors is the number of failed turns since the last
  execution, the counter of repeats the length of the run of equal signatures at
  the end of the trace, and both are below their limits unless the loop is stuck.

**The compiler** (`CompilerProofs`): `EffectViewIsReached`, `BaselineIsThere`,
`ConfirmationFollowsWrite`, `ProvenanceIsExact` and `BaselineIsOnTheView`, each about
every application and traces of every length.  The recording keeps `RecordInv`: an
entry has the route of the page it was decided on and the landmark of the page it
led to, and no output is read twice; what the compiler makes of a trace is then a
matter of its operators.  `_baseline_reachable` looks at landmarks and routes;
`EffectViewIsReached` says that what it finds is so of a page of the recording,
the entry page included.  `BaselineIsThere` says that, unless it is the entry
page's route, it is so of a page some step before the write ended on, which is
where replay reads a baseline.  For `BaselineIsOnTheView` the recording also keeps
`ViewInv`: from one landmark to the next the heading stays, as long as each page
had one and showed it in time; so the last landmark after the write, if there is
one, is the heading under which the effect was read.

**The surface and the console** (`ConsoleProofs`, `AnswerProofs`):
`ActsLandOnTheOne` (ClickUnique), `ReadsAreAssembled` (AnswersAssembled) and
`ActsAreOnDisplay` (ActsOnDisplayed).
- `FrameInv`: what a frame shows it has shown during the call;
- `CallInv`, and in it `PassSoFar`: what a locator's pass has found is nothing,
  one element, with all frames passed but its own seen without one, or several.
  Only `Land` adds a hit, on the locator a whole pass chose (`OnlyLandHits`);
- `PlaceInv`, `ChoiceInv`: the call in progress is the one the console's place
  awaits, and what it chose is a control;
- `PassInv`: what a pass has so far is what the frames it went through bring, each
  showing one of the documents it has shown during the call.  A retry keeps the
  pass, a poll begins a new one, and another frame extends both sides by one
  (`PassGrows`).  A pass over all frames begins with the pass over the first of
  them (`FlattenPrefix`), and where it stops early, more frames would not change
  what it comes to (`EndsAlike`), so it decides as the whole pass would;
- `ResolvedInv`: a control chosen in a listing has one namesake in it.  A place in
  the listing, which is the frames' listings one after the other, is a place in
  one frame's, so counting namesakes by frame and place comes to the same number.

**The session on the demo application** (`LegacyProofs`): `EffectReadsAreFresh`,
`ClaimsAreTrue`, `VerdictsAreTrue`, `ScenariosAreClassified`.  `LInv` joins the
session's own `IInv` with what the application adds (`LegacyInvariance`):
- `DisplayInv`: a profile on display shows its member, with the store as it is now;
- `StoreInv`: the store has a sub-account at the number asked for exactly when
  somebody else opened it before or the run did, at most once and never both;
- `AnswerInv`: the answer to a write is on its way or on display only after its
  dispatch, and is a rejection only if nothing was opened;
- `RunInv`, `RecipeInv`: which page the run is on at each await of each step, and
  which request may still be on its way there.  `EffectOnDisplay` follows: when the
  effect is read, the search for the number was answered, by its profile;
- `WriteClaims`: what the result says.  `ClaimsAreTrue` is what it comes to: a
  Success and a MUTATION_NOT_COMMITTED are true wherever an operator leaves the
  page.

A declared rejection is true of the number asked for only if the write was
rejected *there*, and disagreement 5 is that a run may go on with another member's
record.  So `VerdictsAreTrue` claims it until control first changes hands
(`epoch = 0`), and the rest through every takeover.  Until then `RecordInv` is
inductive: while automation advances, what the browser shows and asks for is of
the number asked for; `LeaseMoves` says that owner and epoch move together only,
so automation still has control.  `legacy_replay` checks it through takeovers
too, with one member on record.

`ScenariosAreClassified` is the table of verdicts (`LookupVerdict`, `WriteVerdict`)
for any set of members and numbers, any store before the run and any timing of the
answers.  It is the table of `docs/eval-scenarios.md` but for the write under `slow`
and `not_found` (section 5).  It is about a run no human takes over (`Unaided`: the epoch is that of the start),
whose `ScenarioInv` says more than `LInv` can: every request and document bears
the scenario the shell was loaded with (`WorldInv`); which page each step ended on,
and so what still stands between the run and the profile (`StageInv`); what the
scenario made of the write, and which of its verifications can see it
(`OutcomeInv`); and the result (`Classified`).  Its two premises are what the table
takes for granted: the allowlist covers the demo's pages, and an effect that is
absent after a write was not made.

**Only model-checked:**
- liveness: `CallsEnd`, `SessionReturns`, `LoopEnds`, `CallsReturn`, `CommandsEnd`,
  `AcknowledgedRecovers`; liveness under fairness is out of the prover's reach;
- the violations of section 5, each a behaviour TLC finds.

**Only proved**: the kernel without interactive approval (`Interactive` FALSE),
which no run sets; the demo application with an authority policy that does not
trust an absence, an allowlist that leaves pages out, or other members than the
run's, except for the one look-up of `legacy_other_record`.

## 7. What is not modelled

- Evidence: no part of the program reads a record back, so no state depends on
  it; what may stand in one is a question of text.
- The model client, which is untrusted and is "any proposal" in the loop's model.
- Of the surface: `goto`, `start` and `close`, which run before and after
  everything else, frames that are detached, the reading of a control's own
  text, and the waits for a text and for a frame's URL, which nothing in
  `src/computer_use` calls.
- Of the consoles: rendering, and the parsing of a line.
- Of the demo application: a second browser at work during a run (a teller works
  before it), wording, and what a member's record says.
- HTTP.
- Of the artifact: `any_of` conditions, fallbacks and derived values are not told
  apart.
- Of the safety rules: how a route is matched and a missing secret is looked up;
  the models take the sets of pages and of operations that come of it.
  `RiskClass.IRREVERSIBLE` is never produced by the classifier, so the kernel's
  and the session's rules have two classes.
- Of the session: the observations for diagnostics (`_failure`'s expected and
  observed), which change no state, and `close`.
