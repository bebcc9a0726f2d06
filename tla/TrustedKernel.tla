---------------------------- MODULE TrustedKernel ----------------------------
(***************************************************************************)
(* The kernel every automated action passes through (execution/kernel.py,  *)
(* with approval.py, safety/risk.py, safety/policy.py and                  *)
(* safety/confirmation.py).  A call of _authorize_and_execute awaits the   *)
(* surface several times; each await is a step of its own here, so lease   *)
(* transfers, page changes, a human's approval and other calls on the same *)
(* kernel fall between any two of them.                                    *)
(*                                                                         *)
(* A surface read is two steps: the browser answers (Count, ReadLandmark)  *)
(* and, later, the coroutine goes on with the answer (Decide, Authorize).  *)
(***************************************************************************)
EXTENDS ControlLease, Sequences, FiniteSets

CONSTANTS
  Call,           \* coroutines that may be inside the kernel at once
  Op,             \* operations submitted: replay steps, discovery proposals
  Descriptor,     \* target descriptors
  Page,           \* states of the page
  Nonce,          \* uuid4 values; their number bounds the approval requests
  ForgedNonce,    \* a nonce the kernel never issues
  None,           \* Python's None
  MaxEpoch,       \* bound on lease transfers
  ActionOf,       \* Op -> Action
  Locators,       \* Op -> the primary descriptor, then its ordered fallbacks
  Unready,        \* ops that name no action the kernel executes, or no known target
  Incomplete,     \* ops that lack a field their action requires
  Unresolvable,   \* TYPE ops whose value cannot be resolved at run time
  Approved,       \* ops whose operation id the ConfirmationPolicy approves
  AllowedActions, \* the action allowlist of the Policy
  SafeClick,      \* descriptors whose name is in safe_click_names
  Identity,       \* descriptor -> the fields a fingerprint keeps of it
  Landmark,       \* page -> its primary heading
  Matches,        \* page -> descriptor -> number of controls it matches
  Interactive     \* interactive_approval

Action == {"click", "type", "extract"}

ASSUME KernelAssumption ==
  /\ None \notin Op
  /\ None \notin Descriptor
  /\ ActionOf \in [Op -> Action]
  /\ Locators \in [Op -> Seq(Descriptor) \ {<< >>}]
  /\ Unready \subseteq Op
  /\ Incomplete \subseteq Op
  /\ Unresolvable \subseteq {o \in Op : ActionOf[o] = "type"}
  /\ Approved \subseteq Op
  /\ AllowedActions \subseteq Action
  /\ SafeClick \subseteq Descriptor
  /\ Matches \in [Page -> [Descriptor -> Nat]]
  /\ Interactive \in BOOLEAN
  /\ ForgedNonce \notin Nonce
  /\ MaxEpoch \in Nat

VARIABLES
  page,       \* the live page
  call,       \* the frame of each call: its locals, and its last verdict
  issued,     \* _issued_nonces
  consumed,   \* _consumed_nonces
  requests,   \* ApprovalRequests raised so far, with the target each is about
  granted,    \* ApprovalGrants a human has made
  invoked,    \* history: the risk of what each call last asked of the surface
  disturbed,  \* history: calls that saw a lease transfer since scheduled
  aged,       \* history: nonces issued before the latest lease transfer
  uses        \* history: dispatches each nonce has authorized

approvals == << issued, consumed, requests, granted >>
vars == << lease, page, call, approvals, invoked, disturbed, aged, uses >>

-----------------------------------------------------------------------------
(* What the kernel derives *)

RiskClass == {"read_only", "consequential_write"}

\* RiskClassifier.classify: software-owned, on the descriptor that resolved.
Risk(o, d) ==
  IF ActionOf[o] # "click" \/ d \in SafeClick THEN "read_only" ELSE "consequential_write"

\* fingerprint_of: label, text and frame of the target are not kept.
Fingerprint(o, d, landmark, e) ==
  [action |-> ActionOf[o], identity |-> Identity[d], landmark |-> landmark, epoch |-> e]

\* UNREADY stands for NOT_EXECUTABLE, UNRESOLVABLE_CANDIDATE and
\* UNKNOWN_CANDIDATE, MISSING_FIELD for MISSING_VALUE and MISSING_OUTPUT, and
\* VALUE_UNAVAILABLE for the three codes of ValueResolver.resolve.
Rejections ==
  {"UNREADY", "POLICY_DENIED", "MISSING_FIELD", "TARGET_MISSING", "LOCATOR_AMBIGUOUS",
   "RISK_CONFIRMATION_REQUIRED", "APPROVAL_STALE", "APPROVAL_INVALID",
   "VALUE_UNAVAILABLE", "CONTROL_NOT_OWNED"}

Verdicts ==
  Rejections \cup {"none", "approval_required", "executed", "uncertain", "surface_error"}

\* The frame of a call that is not running.
Ended(v) ==
  [pc |-> "idle", op |-> None, captured |-> NoEpoch, approval |-> {}, probe |-> 1,
   found |-> 0, target |-> None, landmark |-> None, verdict |-> v]

\* Mutant: a target that is missing is looked for again from its primary on.
RaiseUnlessMissing(c, v) ==
  call' = [call EXCEPT ![c] = IF v = "TARGET_MISSING"
                              THEN [@ EXCEPT !.pc = "counting", !.probe = 1, !.found = 0]
                              ELSE Ended(v)]

Raise(c, v) == call' = [call EXCEPT ![c] = Ended(v)]

Running == {c \in Call : call[c].pc # "idle"}

\* The calls that may still raise ApprovalRequired.
Asking == {c \in Running : call[c].approval = {}}

Init ==
  /\ LeaseInit
  /\ page \in Page
  /\ call = [c \in Call |-> Ended("none")]
  /\ issued = {}
  /\ consumed = {}
  /\ requests = {}
  /\ granted = {}
  /\ invoked = [c \in Call |-> "none"]
  /\ disturbed = {}
  /\ aged = {}
  /\ uses = [n \in Nonce |-> 0]

-----------------------------------------------------------------------------
(* A call, await by await *)

\* Orchestration captures the lease's epoch and will call the kernel with it:
\* at once (ReplaySession._execute_step) or after a human's decision (discover,
\* which passes the same epoch again with the grant).  A grant may be one a
\* human made, spent or not, or one nobody made.  The guard on Nonce keeps a
\* fresh nonce for every call that may ask for one.
Schedule(c, o, g) ==
  /\ call[c].pc = "idle"
  /\ g = {} => Cardinality(issued) + Cardinality(Asking) < Cardinality(Nonce)
  /\ call' = [call EXCEPT ![c] = [Ended("none") EXCEPT !.pc = "scheduled", !.op = o,
                                                       !.captured = epoch, !.approval = g]]
  /\ invoked' = [invoked EXCEPT ![c] = "none"]
  /\ disturbed' = disturbed \ {c}
  /\ UNCHANGED << lease, page, approvals, aged, uses >>

Forgeries == {[nonce |-> ForgedNonce, print |-> r.print] : r \in requests}

\* execute and execute_step up to the first await: what they are given, the
\* ownership gate, the policy's action allowlist, the fields the action requires.
Enter(c) ==
  /\ call[c].pc = "scheduled"
  /\ \/ call[c].op \in Unready /\ Raise(c, "UNREADY")
     \/ /\ call[c].op \notin Unready
        /\ ~MayAct(call[c].captured)
        /\ Raise(c, "CONTROL_NOT_OWNED")
     \/ /\ call[c].op \notin Unready
        /\ MayAct(call[c].captured)
        /\ ActionOf[call[c].op] \notin AllowedActions
        /\ Raise(c, "POLICY_DENIED")
     \/ /\ call[c].op \notin Unready
        /\ MayAct(call[c].captured)
        /\ ActionOf[call[c].op] \in AllowedActions
        /\ call[c].op \in Incomplete
        /\ Raise(c, "MISSING_FIELD")
     \/ /\ call[c].op \notin Unready
        /\ MayAct(call[c].captured)
        /\ ActionOf[call[c].op] \in AllowedActions
        /\ call[c].op \notin Incomplete
        /\ call' = [call EXCEPT ![c].pc = "counting"]
  /\ UNCHANGED << lease, page, approvals, invoked, disturbed, aged, uses >>

Locator(c) == Locators[call[c].op][call[c].probe]

\* _resolve_target awaits surface.count of one descriptor.
Count(c) ==
  /\ call[c].pc = "counting"
  /\ \/ call' = [call EXCEPT ![c].pc = "counted", ![c].found = Matches[page][Locator(c)]]
     \/ Raise(c, "surface_error")
  /\ UNCHANGED << lease, page, approvals, invoked, disturbed, aged, uses >>

\* The second ownership gate, and the dispatch call right after it.  TYPE
\* resolves its value in between; spent is what the approval, if any, used up.
GateAndInvoke(c, d, spent) ==
  \/ /\ ~MayAct(call[c].captured)
     /\ Raise(c, "CONTROL_NOT_OWNED")
     /\ UNCHANGED << invoked, uses >>
  \/ /\ MayAct(call[c].captured)
     /\ call[c].op \in Unresolvable
     /\ Raise(c, "VALUE_UNAVAILABLE")
     /\ UNCHANGED << invoked, uses >>
  \/ /\ MayAct(call[c].captured)
     /\ call[c].op \notin Unresolvable
     /\ call' = [call EXCEPT ![c].pc = "acting", ![c].target = d]
     /\ invoked' = [invoked EXCEPT ![c] = Risk(call[c].op, d)]
     /\ uses' = [n \in Nonce |-> IF n \in spent THEN uses[n] + 1 ELSE uses[n]]

\* Confirmed statically, or without need of it: no human has to be asked.
Standing(c) ==
  \/ Risk(call[c].op, Locator(c)) = "read_only"
  \/ call[c].op \in Approved

\* What _resolve_target concludes from a count, and, once a single control
\* matched, _authorize_and_execute from its risk.
Decide(c) ==
  /\ call[c].pc = "counted"
  /\ \/ /\ call[c].found > 1
        /\ Raise(c, "LOCATOR_AMBIGUOUS")
        /\ UNCHANGED << invoked, uses >>
     \/ /\ call[c].found = 0
        /\ IF call[c].probe < Len(Locators[call[c].op])
           THEN call' = [call EXCEPT ![c].pc = "counting", ![c].probe = @ + 1]
           ELSE Raise(c, "TARGET_MISSING")
        /\ UNCHANGED << invoked, uses >>
     \/ /\ call[c].found = 1
        /\ Standing(c)
        /\ GateAndInvoke(c, Locator(c), {})
     \/ /\ call[c].found = 1
        /\ ~Standing(c)
        /\ IF Interactive
           THEN call' = [call EXCEPT ![c].pc = "reading", ![c].target = Locator(c)]
           ELSE Raise(c, "RISK_CONFIRMATION_REQUIRED")
        /\ UNCHANGED << invoked, uses >>
  /\ UNCHANGED << lease, page, approvals, disturbed, aged >>

\* _require_one_time_approval awaits surface.primary_heading.
ReadLandmark(c) ==
  /\ call[c].pc = "reading"
  /\ \/ call' = [call EXCEPT ![c].pc = "read", ![c].landmark = Landmark[page]]
     \/ Raise(c, "surface_error")
  /\ UNCHANGED << lease, page, approvals, invoked, disturbed, aged, uses >>

Current(c) == Fingerprint(call[c].op, call[c].target, call[c].landmark, call[c].captured)

\* No grant: issue a nonce and raise ApprovalRequired.
RequestApproval(c) ==
  /\ call[c].pc = "read"
  /\ call[c].approval = {}
  /\ \E n \in Nonce \ issued :
       /\ issued' = issued \cup {n}
       /\ requests' = requests \cup
                        {[nonce |-> n, print |-> Current(c), target |-> call[c].target]}
  /\ Raise(c, "approval_required")
  /\ UNCHANGED << lease, page, consumed, granted, invoked, disturbed, aged, uses >>

\* Mutants: a spent nonce passes; a nonce never issued passes.
IssuedOnly(g) == g.nonce \in issued
UnspentOnly(g) == g.nonce \notin consumed

Redeemable(g) == g.nonce \in issued \ consumed

\* Mutants: the grant's fingerprint is not compared; it is, but for the epoch.
AnyPrint(c, g) == TRUE
SamePageAndTarget(c, g) == g.print = [Current(c) EXCEPT !.epoch = g.print.epoch]

Covers(c, g) == g.print = Current(c)

\* A grant: its nonce must be issued and unspent, its fingerprint the live one;
\* then it is spent, whatever the second ownership gate says next.
UseApproval(c, g) ==
  /\ call[c].pc = "read"
  /\ g \in call[c].approval
  /\ \/ /\ ~Redeemable(g)
        /\ Raise(c, "APPROVAL_INVALID")
        /\ UNCHANGED << consumed, invoked, uses >>
     \/ /\ Redeemable(g)
        /\ ~Covers(c, g)
        /\ Raise(c, "APPROVAL_STALE")
        /\ UNCHANGED << consumed, invoked, uses >>
     \/ /\ Redeemable(g)
        /\ Covers(c, g)
        /\ consumed' = consumed \cup {g.nonce}
        /\ GateAndInvoke(c, call[c].target, {g.nonce})
  /\ UNCHANGED << lease, page, issued, requests, granted, disturbed, aged >>

\* Mutant: every error of the surface is an ordinary SurfaceError.
Erroneous(c) == "surface_error"

\* An error of a consequential click says nothing about its effect.
Errs(c) == IF invoked[c] = "read_only" THEN "surface_error" ELSE "uncertain"

\* The surface acts, or raises.  A control that no longer matches uniquely makes
\* it raise.
Act(c) ==
  /\ call[c].pc = "acting"
  /\ \/ /\ Matches[page][call[c].target] = 1
        /\ Raise(c, "executed")
     \/ Raise(c, Errs(c))
  /\ UNCHANGED << lease, page, approvals, invoked, disturbed, aged, uses >>

-----------------------------------------------------------------------------
(* Around the kernel *)

\* on_consequential_approval returned a grant for a raised request.
GrantApproval(r) ==
  /\ granted' = granted \cup {[nonce |-> r.nonce, print |-> r.print]}
  /\ UNCHANGED << lease, page, call, issued, consumed, requests, invoked, disturbed, aged, uses >>

\* OperatorController.take_control, release_to_automation and resume.
Transfer ==
  /\ epoch < MaxEpoch
  /\ ToHuman \/ ToAutomation
  /\ disturbed' = Running
  /\ aged' = issued
  /\ UNCHANGED << page, call, approvals, invoked, uses >>

\* The application, or whoever owns the session, changes the page.
Drift(p) ==
  /\ page' = p
  /\ UNCHANGED << lease, call, approvals, invoked, disturbed, aged, uses >>

Step(c) ==
  \/ Enter(c)
  \/ Count(c)
  \/ Decide(c)
  \/ ReadLandmark(c)
  \/ RequestApproval(c)
  \/ \E g \in call[c].approval : UseApproval(c, g)
  \/ Act(c)

Next ==
  \/ \E c \in Call, o \in Op :
       \/ Schedule(c, o, {})
       \/ \E g \in granted \cup Forgeries : Schedule(c, o, {g})
  \/ \E c \in Call : Step(c)
  \/ \E r \in requests : GrantApproval(r)
  \/ Transfer
  \/ \E p \in Page \ {page} : Drift(p)

\* The event loop resumes every coroutine whose await the surface answered.
Spec == Init /\ [][Next]_vars /\ \A c \in Call : WF_vars(Step(c))

-----------------------------------------------------------------------------
(* Properties *)

Frames ==
  [pc : {"idle", "scheduled", "counting", "counted", "reading", "read", "acting"},
   op : Op \cup {None}, captured : Nat \cup {NoEpoch},
   approval : SUBSET (granted \cup Forgeries), probe : Nat, found : Nat,
   target : Descriptor \cup {None}, landmark : {Landmark[p] : p \in Page} \cup {None},
   verdict : Verdicts]

\* Every variable keeps its type; what a call carries as an approval is a grant
\* a human made or a forgery of a raised request.
TypeOK ==
  /\ LeaseTypeOK
  /\ page \in Page
  /\ call \in [Call -> Frames]
  /\ issued \subseteq Nonce
  /\ consumed \subseteq issued
  /\ \A r \in requests : r.nonce \in issued
  /\ \A g \in granted : \E r \in requests : g = [nonce |-> r.nonce, print |-> r.print]
  /\ invoked \in [Call -> RiskClass \cup {"none"}]
  /\ disturbed \subseteq Call
  /\ aged \subseteq issued
  /\ uses \in [Nonce -> Nat]

\* c's click, type or extract is handed to the surface.
Dispatches(c) == call[c].pc # "acting" /\ call'[c].pc = "acting"

\* A consequential write that only a human's grant could let through.
Granted(c) ==
  /\ call[c].pc = "acting"
  /\ Risk(call[c].op, call[c].target) = "consequential_write"
  /\ call[c].op \notin Approved

\* Work captured before a change of hands never reaches the surface after it,
\* even if automation owns the session again: no dispatch by a call that
\* saw a transfer since it captured its epoch, and none while a human owns
\* (_assert_may_act before and after the awaits; handoff-design.md, "Stale
\* work cannot sneak back in").
FencedDispatch ==
  [][\A c \in Call : Dispatches(c) =>
       owner = "automation" /\ c \notin disturbed]_vars

\* However many calls carry it, and however they interleave, one approval
\* authorizes at most one dispatch (the nonce sets of the kernel).
GrantSingleUse == \A n \in Nonce : uses[n] <= 1

\* A consequential write on the surface that no standing approval covers was
\* granted by a human for the fingerprint it has, and that grant is spent; a
\* forged grant never gets there (_require_one_time_approval).  A fingerprint has
\* what approval.py:50-58 keeps of a target, and the heading as it was read: two
\* controls known by their text alone share one, and a page that moves between
\* the heading's read and the dispatch is not noticed.
HumanAuthorized ==
  \A c \in Call : Granted(c) =>
    \E g \in call[c].approval \cap granted : g.nonce \in consumed /\ g.print = Current(c)

\* A grant does not outlive the tenure it was asked for in: once control has
\* changed hands after the request, it authorizes no dispatch (the
\* epoch in OperationFingerprint together with the second gate).
GrantDiesWithTransfer ==
  [][\A c \in Call : (Dispatches(c) /\ Granted(c)') =>
       \A g \in call[c].approval : g.nonce \notin aged]_vars

\* What a verdict lets its caller conclude, on which the session's EffectState
\* rests: a rejection means nothing was asked of the surface, a SurfaceError
\* that no consequential write was, and only a dispatched consequential write
\* is ever uncertain.
VerdictTruth ==
  \A c \in Call :
    /\ call[c].verdict \in Rejections \cup {"approval_required"} => invoked[c] = "none"
    /\ call[c].verdict = "surface_error" => invoked[c] # "consequential_write"
    /\ call[c].verdict = "uncertain" => invoked[c] = "consequential_write"

\* Every call ends: no await waits on the lease, on another call or on the
\* human, and the locators run out.
CallsEnd == \A c \in Call : call[c].pc # "idle" ~> call[c].pc = "idle"

=============================================================================
