-------------------------- MODULE DiscoveryProofs ---------------------------
(***************************************************************************)
(* What holds of the discovery loop for any application, any answers of    *)
(* the model and any limits: it drives only in its own tenure, on what it  *)
(* observed in it, and the trace of a reached goal is what was executed.   *)
(***************************************************************************)
EXTENDS DiscoveryLoop, FiniteSetTheorems, TLAPS

\* The awaits from the decision on, at which a proposal is being carried out.
Carrying == {"heading", "kernel", "approval", "granted", "settle", "record"}
Ended == {"done", "raised"}

\* What the model proposes.
Proposed == [action : ProposedActionType, control : Control \cup {None}, output : Named]

\* A proposal being carried out passed the loop's own refusals.
PhaseInv ==
  /\ pc \in Carrying =>
       /\ proposal \in Proposal
       /\ ~ UnknownOutput(proposal)
       /\ ~ AlreadyObtained(proposal)
  /\ pc \in Carrying \cup {"decide", "human"} => seen \in [page : Page, epoch : Nat]
  /\ pc \notin Ended => errors < StuckLimit /\ repeats < RepeatLimit

LEMMA InitTypeInv == Init => TypeOK /\ PhaseInv
<1> SUFFICES ASSUME Init PROVE TypeOK /\ PhaseInv
  OBVIOUS
<1>1. << >> \in Seq(TraceStep) /\ << >> \in Seq(Operation)
      /\ << >> \in Seq({"executed", "error", "neutral"})
  OBVIOUS
<1>2. TypeOK
  <2>1. LeaseTypeOK
    BY DEF Init, LeaseInit, LeaseTypeOK, ControlOwner
  <2>2. view \in Page /\ turn \in 0 .. MaxSteps - 1 /\ errors \in 0 .. StuckLimit
        /\ repeats \in 0 .. RepeatLimit
    BY LoopAssumption DEF Init
  <2> QED
    BY <1>1, <2>1, <2>2 DEF Init, TypeOK
<1>3. PhaseInv
  BY LoopAssumption DEF Init, PhaseInv, Carrying, Ended
<1> QED
  BY <1>2, <1>3

\* The ways a turn ends keep the types of what they touch.
LEMMA EndTypes ==
  ASSUME TypeOK, PhaseInv, pc \notin Ended,
         (NextTurn /\ UNCHANGED << errors, repeats >>) \/ Neutral \/ Refused
           \/ (\E reason \in StopReason : Stop(reason) /\ UNCHANGED << errors, repeats >>)
  PROVE  /\ pc' \in {"top", "done"}
         /\ turn' \in 0 .. MaxSteps - 1
         /\ stop' \in StopReason \cup {None}
         /\ errors' \in 0 .. StuckLimit
         /\ repeats' \in 0 .. RepeatLimit
         /\ pc' \notin Ended => errors' < StuckLimit /\ repeats' < RepeatLimit
<1> QED
  BY LoopAssumption DEF TypeOK, PhaseInv, Ended, NextTurn, Stop, Neutral, Refused, Came,
     counters, StopReason

\* The part of TypeOK that every step but one keeps as it is.
LEMMA PerformTypes ==
  ASSUME TypeOK, PhaseInv, pc \in Carrying, ~ KernelRefuses, Perform
  PROVE  /\ view' \in Page
         /\ landing' \in Page \cup {None}
         /\ executed' \in Seq(Operation)
<1>1. proposal \in Proposed /\ view \in Page
  BY LoopAssumption DEF PhaseInv, Proposed, TypeOK
<1>2. proposal.control \in Control /\ Goes[proposal.control] \in Page
  BY LoopAssumption DEF KernelRefuses, TypeOK
<1>3. [action |-> proposal.action, control |-> proposal.control, output |-> proposal.output,
       page |-> view] \in Operation
  BY <1>1 DEF Proposed, Operation
<1>4. executed \in Seq(Operation) /\ view \in Page /\ landing \in Page \cup {None}
  BY DEF TypeOK
<1> QED
  BY <1>2, <1>3, <1>4 DEF Perform, page

LEMMA TurnTypes ==
  ASSUME TypeOK, NEW what \in {"executed", "error", "neutral"}, Came(what)
  PROVE  turns' \in Seq({"executed", "error", "neutral"})
<1> QED
  BY DEF TypeOK, Came

LEMMA ObserveTypes ==
  ASSUME TypeOK, PhaseInv, CheckScope \/ Observe \/ ReadHeading \/ Settle
  PROVE  TypeOK' /\ PhaseInv'
<1>1. CASE CheckScope
  BY <1>1 DEF CheckScope, Stop, ended, page, call, given, counters, lease, TypeOK, LeaseTypeOK,
     PhaseInv, Carrying, Ended, StopReason, UnknownOutput, AlreadyObtained
<1>2. CASE Observe
  BY <1>2 DEF Observe, ended, page, given, counters, lease, TypeOK, LeaseTypeOK,
     PhaseInv, Carrying, Ended, UnknownOutput, AlreadyObtained
<1>3. CASE Settle
  BY <1>3 DEF Settle, Stop, ended, page, call, given, counters, lease, TypeOK, LeaseTypeOK,
     PhaseInv, Carrying, Ended, StopReason, UnknownOutput, AlreadyObtained
<1>4. CASE ReadHeading
  <2>1. before' \in Heading /\ captured' \in Nat
    BY <1>4 DEF ReadHeading, TypeOK, LeaseTypeOK, Heading
  <2> QED
    BY <1>4, <2>1 DEF ReadHeading, ended, page, counters, lease, TypeOK, LeaseTypeOK,
       PhaseInv, Carrying, Ended, UnknownOutput, AlreadyObtained
<1> QED
  BY <1>1, <1>2, <1>3, <1>4

\* A turn that is refused, or comes to nothing, where it may do so.
LEMMA RefusalTypes ==
  ASSUME TypeOK, PhaseInv, pc \notin Ended,
         Refused \/ Neutral,
         UNCHANGED << page, executed >>,
         captured' \in Nat, seen' = seen, clicks' \in Nat, pending' \in BOOLEAN,
         before' \in Heading \cup {None}, asked' \in Heading \cup {None},
         proposal' \in Proposal \cup {None},
         LeaseTypeOK'
  PROVE  TypeOK' /\ PhaseInv'
<1>1. /\ pc' \in {"top", "done"}
      /\ turn' \in 0 .. MaxSteps - 1
      /\ stop' \in StopReason \cup {None}
      /\ errors' \in 0 .. StuckLimit
      /\ repeats' \in 0 .. RepeatLimit
      /\ pc' \notin Ended => errors' < StuckLimit /\ repeats' < RepeatLimit
  BY EndTypes
<1>2. turns' \in Seq({"executed", "error", "neutral"})
  BY TurnTypes DEF Refused, Neutral
<1>3. obtained' = obtained /\ trace' = trace
  BY DEF Refused, Neutral, counters
<1>4. TypeOK'
  BY <1>1, <1>2, <1>3 DEF TypeOK, page
<1>5. PhaseInv'
  BY <1>1 DEF PhaseInv, Carrying, Ended
<1> QED
  BY <1>4, <1>5

LEMMA DecideTypes ==
  ASSUME TypeOK, PhaseInv, NEW p \in Proposal, Decide(p)
  PROVE  TypeOK' /\ PhaseInv'
<1>1. /\ pc = "decide" /\ pc \notin Ended
      /\ proposal' \in Proposal
      /\ LeaseTypeOK'
      /\ UNCHANGED << page, seen, executed, clicks >>
      /\ seen \in [page : Page, epoch : Nat]
  BY DEF Decide, Decided, RefuseDecision, DeclareSuccess, RequestHuman, PassTurn, Propose,
     lease, TypeOK, LeaseTypeOK, PhaseInv, Carrying, Ended
<1>2. CASE RefuseDecision(p) \/ PassTurn(p)
  BY <1>1, <1>2, RefusalTypes DEF RefuseDecision, PassTurn, given, TypeOK
<1>3. CASE DeclareSuccess(p)
  <2>1. CASE Ratified
    BY <1>1, <1>3, <2>1 DEF DeclareSuccess, Stop, given, counters, page, StopReason,
       TypeOK, PhaseInv, Carrying, Ended
  <2>2. CASE ~ Ratified
    BY <1>1, <1>3, <2>2, RefusalTypes DEF DeclareSuccess, given, TypeOK
  <2> QED
    BY <2>1, <2>2
<1>4. CASE RequestHuman(p)
  BY <1>1, <1>4 DEF RequestHuman, Stop, ended, given, counters, page, StopReason,
     TypeOK, PhaseInv, Carrying, Ended
<1>5. CASE Propose(p)
  <2>1. before' \in Heading \cup {None} /\ captured' \in Nat /\ asked' \in Heading \cup {None}
    BY <1>5 DEF Propose, given, TypeOK, LeaseTypeOK
  <2>2. TypeOK'
    BY <1>1, <1>5, <2>1 DEF Propose, ended, counters, page, TypeOK, LeaseTypeOK
  <2>3. PhaseInv'
    BY <1>1, <1>5 DEF Propose, Decided, counters, PhaseInv, Carrying, Ended,
       UnknownOutput, AlreadyObtained
  <2> QED
    BY <2>2, <2>3
<1> QED
  BY <1>2, <1>3, <1>4, <1>5 DEF Decide

LEMMA ExecuteTypes ==
  ASSUME TypeOK, PhaseInv, Execute \/ ExecuteGranted
  PROVE  TypeOK' /\ PhaseInv'
<1>1. /\ pc \in {"kernel", "granted"} /\ pc \in Carrying /\ pc \notin Ended
      /\ LeaseTypeOK'
      /\ UNCHANGED << proposal, seen, captured, before, pending, clicks >>
      /\ asked' \in Heading \cup {None}
  BY DEF Execute, ExecuteGranted, Carrying, Ended, lease, call, given, TypeOK, LeaseTypeOK, Heading
<1>2. CASE Refused /\ UNCHANGED << page, executed >>
  BY <1>1, <1>2, RefusalTypes DEF call, given, TypeOK
<1>3. CASE pc' = "approval" /\ UNCHANGED << ended, page, executed, counters, turns >>
  BY <1>1, <1>3 DEF ended, page, call, given, counters, TypeOK, PhaseInv, Carrying, Ended,
     UnknownOutput, AlreadyObtained
<1>4. ASSUME Perform \/ UNCHANGED << page, executed >>, ~ KernelRefuses,
             pc' \in {"settle", "record", "raised"}, UNCHANGED << ended, counters, turns >>
      PROVE  TypeOK' /\ PhaseInv'
  <2>1. /\ view' \in Page
        /\ landing' \in Page \cup {None}
        /\ executed' \in Seq(Operation)
    BY <1>1, <1>4, PerformTypes DEF page, TypeOK
  <2>2. TypeOK'
    BY <1>1, <1>4, <2>1 DEF ended, call, given, counters, TypeOK
  <2>3. PhaseInv'
    BY <1>1, <1>4 DEF call, given, counters, PhaseInv, Carrying,
                       Ended, UnknownOutput, AlreadyObtained
  <2> QED
    BY <2>2, <2>3
<1>5. CASE ~ KernelRefuses /\ (Dispatch \/ SurfaceRaises)
  BY <1>4, <1>5 DEF Dispatch, SurfaceRaises, Escape
<1> QED
  BY <1>2, <1>3, <1>5 DEF Execute, ExecuteGranted

LEMMA RecordTypes ==
  ASSUME TypeOK, PhaseInv, Record
  PROVE  TypeOK' /\ PhaseInv'
<1>1. /\ pc = "record" /\ pc \in Carrying /\ pc \notin Ended
      /\ LeaseTypeOK'
      /\ UNCHANGED << page, call, pending, executed, clicks >>
  BY DEF Record, Carrying, Ended, lease, TypeOK, LeaseTypeOK
<1>2. repeats' \in 1 .. RepeatLimit /\ (repeats' < RepeatLimit \/ repeats' = RepeatLimit)
  BY <1>1, LoopAssumption DEF Record, Repeats, TypeOK, PhaseInv
<1>3. errors' = 0
  BY DEF Record, ErrorsAfter
<1>4. turns' \in Seq({"executed", "error", "neutral"})
  BY TurnTypes DEF Record
<1>5. obtained' \subseteq Output
  BY <1>1 DEF Record, TypeOK, PhaseInv, UnknownOutput
<1>6. trace' \in Seq(TraceStep)
  <2>1. Landmark \in Heading \cup {None}
    BY DEF Landmark, Heading, TypeOK
  <2>2. [action |-> proposal.action, control |-> proposal.control,
         output |-> proposal.output, route |-> seen.page,
         landmark |-> Landmark, before |-> before] \in TraceStep
    <3>1. proposal \in Proposed
      BY <1>1, LoopAssumption DEF PhaseInv, Proposed
    <3>2. seen.page \in Page /\ before \in Heading \cup {None}
      BY <1>1 DEF PhaseInv, TypeOK
    <3> QED
      BY <2>1, <3>1, <3>2 DEF Proposed, TraceStep
  <2>3. trace \in Seq(TraceStep)
    BY DEF TypeOK
  <2> QED
    BY <2>2, <2>3 DEF Record
<1>7. /\ pc' \in {"top", "done"}
      /\ turn' \in 0 .. MaxSteps - 1
      /\ stop' \in StopReason \cup {None}
      /\ repeats' >= RepeatLimit => pc' = "done"
  BY <1>2, LoopAssumption DEF Record, NextTurn, Stop, TypeOK, StopReason
<1>8. TypeOK'
  BY <1>1, <1>2, <1>3, <1>4, <1>5, <1>6, <1>7, LoopAssumption DEF page, call, given, TypeOK
<1>9. PhaseInv'
  BY <1>1, <1>2, <1>3, <1>7, LoopAssumption DEF PhaseInv, Carrying, Ended
<1> QED
  BY <1>8, <1>9

LEMMA HumanTypes ==
  ASSUME TypeOK, PhaseInv, Human \/ Land
  PROVE  TypeOK' /\ PhaseInv'
<1>1. CASE Approve
  BY <1>1 DEF Approve, page, ended, call, given, counters, lease, TypeOK, LeaseTypeOK,
     PhaseInv, Carrying, Ended, UnknownOutput, AlreadyObtained
<1>2. CASE Deny
  BY <1>2, RefusalTypes DEF Deny, call, given, lease, TypeOK, LeaseTypeOK, Ended
<1>3. CASE TakeControl
  BY <1>3 DEF TakeControl, HumanOnly, ToHuman, page, ended, call, given, counters, TypeOK,
     LeaseTypeOK, ControlOwner, PhaseInv, Carrying, Ended, UnknownOutput, AlreadyObtained
<1>4. ASSUME NEW c \in Control, HumanClick(c)
      PROVE  TypeOK' /\ PhaseInv'
  BY <1>4, LoopAssumption DEF HumanClick, HumanOnly, ended, call, given, counters, lease, TypeOK,
     LeaseTypeOK, PhaseInv, Carrying, Ended, UnknownOutput, AlreadyObtained
<1>5. CASE Release
  <2>1. LeaseTypeOK'
    BY <1>5 DEF Release, ToAutomation, TypeOK, LeaseTypeOK, ControlOwner
  <2> QED
    BY <1>5, <2>1, RefusalTypes DEF Release, call, given, TypeOK, Ended
<1>6. CASE Quit
  BY <1>6 DEF Quit, Stop, page, call, given, counters, lease, TypeOK, LeaseTypeOK, StopReason,
     PhaseInv, Carrying, Ended
<1>7. CASE ReleaseUntaken
  BY <1>7 DEF ReleaseUntaken, Escape, ended, page, call, given, counters, lease, TypeOK,
     LeaseTypeOK, PhaseInv, Carrying, Ended
<1>8. CASE Land
  BY <1>8 DEF Land, ended, call, given, counters, lease, TypeOK, LeaseTypeOK,
     PhaseInv, Carrying, Ended, UnknownOutput, AlreadyObtained
<1> QED
  BY <1>1, <1>2, <1>3, <1>4, <1>5, <1>6, <1>7, <1>8 DEF Human

LEMMA NextTypeInv == TypeOK /\ PhaseInv /\ [Next]_vars => TypeOK' /\ PhaseInv'
<1> SUFFICES ASSUME TypeOK, PhaseInv, [Next]_vars
             PROVE  TypeOK' /\ PhaseInv'
  OBVIOUS
<1>1. CASE Automation
  <2>1. CASE AwaitRaises
    BY <2>1 DEF AwaitRaises, Escape, page, ended, call, given, counters, lease, TypeOK, LeaseTypeOK,
       PhaseInv, Carrying, Ended
  <2> QED
    BY <1>1, <2>1, ObserveTypes, DecideTypes, ExecuteTypes, RecordTypes DEF Automation
<1>2. CASE Human \/ Land
  BY <1>2, HumanTypes
<1>3. CASE UNCHANGED vars
  BY <1>3 DEF vars, page, ended, call, given, counters, lease, TypeOK, LeaseTypeOK,
     PhaseInv, Carrying, Ended, UnknownOutput, AlreadyObtained
<1> QED
  BY <1>1, <1>2, <1>3 DEF Next

LEMMA Typing == Spec => [](TypeOK /\ PhaseInv)
<1> QED
  BY InitTypeInv, NextTypeInv, PTL DEF Spec

\* The loop's variables keep their types and its counters their bounds: no more
\* than max_steps turns, and no count past the limit that stops the run.
THEOREM TypeCorrect == Spec => []TypeOK
<1> QED
  BY Typing, PTL

-----------------------------------------------------------------------------
(* Who drives, and on what *)

TenureInv ==
  /\ owner \in ControlOwner
  /\ pending => pc = "human"
  /\ owner = "human" => pc \in {"human"} \cup Ended
  /\ pc \in {"decide", "heading", "kernel", "approval", "granted"} => seen.epoch = epoch
  /\ pc \in {"kernel", "approval", "granted"} => captured = epoch

LEMMA InitTenureInv == Init => TenureInv
<1> QED
  BY DEF Init, LeaseInit, TenureInv, ControlOwner, Ended

\* A turn that ends keeps no observation.
LEMMA EndTenure ==
  ASSUME TenureInv, Refused \/ Neutral \/ NextTurn \/ (\E reason \in StopReason : Stop(reason))
  PROVE  pc' \in {"top", "done"}
<1> QED
  BY DEF Refused, Neutral, NextTurn, Stop

LEMMA NextTenureInv == TenureInv /\ [Next]_vars => TenureInv'
<1> SUFFICES ASSUME TenureInv, [Next]_vars PROVE TenureInv'
  OBVIOUS
<1>1. CASE CheckScope \/ Settle
  BY <1>1 DEF CheckScope, Settle, Stop, call, given, lease, TenureInv, Ended
<1>2. CASE Observe \/ ReadHeading
  BY <1>2 DEF Observe, ReadHeading, lease, TenureInv, Ended
<1>3. ASSUME NEW p \in Proposal, Decide(p)
      PROVE  TenureInv'
  <2>1. /\ pc = "decide" /\ owner = "automation" /\ ~ pending
        /\ UNCHANGED << seen, owner, epoch >>
    BY <1>3 DEF Decide, Decided, RefuseDecision, DeclareSuccess, RequestHuman, PassTurn,
       Propose, lease, TenureInv, Ended, ControlOwner
  <2>2. CASE RefuseDecision(p) \/ PassTurn(p) \/ DeclareSuccess(p)
    BY <2>1, <2>2, EndTenure DEF RefuseDecision, PassTurn, DeclareSuccess, TenureInv,
       Ended, StopReason
  <2>3. CASE RequestHuman(p)
    BY <2>1, <2>3 DEF RequestHuman, Stop, TenureInv, Ended
  <2>4. CASE Propose(p)
    BY <2>1, <2>4 DEF Propose, TenureInv, Ended
  <2> QED
    BY <1>3, <2>2, <2>3, <2>4 DEF Decide
<1>4. CASE Execute \/ ExecuteGranted
  <2>1. /\ pc \in {"kernel", "granted"} /\ owner = "automation" /\ ~ pending
        /\ UNCHANGED << proposal, seen, captured, pending, owner, epoch >>
        /\ pc' \in {"top", "done", "approval", "settle", "record", "raised"}
    BY <1>4, EndTenure DEF Execute, ExecuteGranted, Dispatch, SurfaceRaises, Escape,
                       call, given, lease,
       TenureInv, Ended, ControlOwner
  <2> QED
    BY <2>1 DEF call, given, TenureInv, Ended
<1>5. CASE Record \/ Deny
  <2>1. /\ pc \in {"record", "approval"} /\ owner = "automation" /\ ~ pending
        /\ UNCHANGED << pending, owner, epoch >>
        /\ pc' \in {"top", "done"}
    BY <1>5, EndTenure DEF Record, Deny, NextTurn, Stop, lease, TenureInv, Ended, ControlOwner
  <2> QED
    BY <2>1 DEF TenureInv, Ended
<1>6. CASE Approve
  BY <1>6 DEF Approve, call, given, lease, TenureInv, Ended
<1>7. CASE TakeControl
  BY <1>7 DEF TakeControl, ToHuman, TenureInv, Ended, ControlOwner
<1>8. ASSUME NEW c \in Control, HumanClick(c)
      PROVE  TenureInv'
  BY <1>8 DEF HumanClick, HumanOnly, call, given, lease, TenureInv, Ended
<1>9. CASE Release
  <2>1. pc' \in {"top", "done"} /\ owner' = "automation" /\ pending' = FALSE
    BY <1>9, EndTenure DEF Release, ToAutomation
  <2> QED
    BY <2>1 DEF TenureInv, Ended, ControlOwner
<1>10. CASE Quit \/ ReleaseUntaken \/ AwaitRaises
  BY <1>10 DEF Quit, ReleaseUntaken, AwaitRaises, Stop, Escape, lease, TenureInv, Ended
<1>11. CASE Land
  BY <1>11 DEF Land, call, given, lease, TenureInv, Ended
<1>12. CASE UNCHANGED vars
  BY <1>12 DEF vars, call, given, lease, TenureInv, Ended
<1> QED
  BY <1>1, <1>2, <1>3, <1>4, <1>5, <1>6, <1>7, <1>8, <1>9, <1>10, <1>11, <1>12
     DEF Next, Automation, Human

LEMMA Tenure == Spec => []TenureInv
<1> QED
  BY InitTenureInv, NextTenureInv, PTL DEF Spec

\* Whatever the kernel is asked to do was decided on an observation of the
\* tenure automation is in: discover never carries a decision over a handoff.
THEOREM DecisionsAreFresh == Spec => []FreshObservation
<1>1. TenureInv => FreshObservation
  BY DEF TenureInv, FreshObservation, Ended, ControlOwner
<1> QED
  BY <1>1, Tenure, PTL

\* Control is with the human only while the handler has it, or once discover is
\* over: clearing the intervention in every case is what makes it so.
THEOREM OneDrives == Spec => []OneDriver
<1>1. TenureInv => OneDriver
  BY DEF TenureInv, OneDriver, Ended
<1> QED
  BY <1>1, Tenure, PTL

-----------------------------------------------------------------------------
(* The trace of a reached goal *)

\* Every output obtained was read by one step of the trace, and no other was.
ReadInv ==
  /\ \A i \in DOMAIN trace : trace[i].action = "extract" => trace[i].output \in obtained
  /\ \A o \in obtained : \E i \in DOMAIN trace : Reads(i, o)
  /\ \A o \in obtained : \A i, j \in DOMAIN trace : Reads(i, o) /\ Reads(j, o) => i = j

\* The trace follows what was executed, one step behind from the execution of
\* an action to its record.
FollowInv ==
  /\ Len(trace) <= Len(executed)
  /\ \A i \in DOMAIN trace : /\ trace[i].action = executed[i].action
                            /\ trace[i].control = executed[i].control
  /\ pc \in {"settle", "record"} =>
       /\ Len(executed) = Len(trace) + 1
       /\ executed[Len(executed)].action = proposal.action
       /\ executed[Len(executed)].control = proposal.control
  /\ pc \notin {"settle", "record"} \cup Ended => Len(executed) = Len(trace)

GoalInv ==
  /\ pc # "done" => stop = None
  /\ stop = "GOAL_REACHED" => Success \in obtained /\ Len(executed) = Len(trace)

TraceInv == ReadInv /\ FollowInv /\ GoalInv

LEMMA InitTraceInv == Init => TraceInv
<1> QED
  BY LoopAssumption DEF Init, TraceInv, ReadInv, FollowInv, GoalInv, Ended, StopReason

\* Recording a step.
LEMMA RecordTrace ==
  ASSUME TypeOK, PhaseInv, TraceInv, Record
  PROVE  TraceInv'
<1> DEFINE step == [action |-> proposal.action, control |-> proposal.control,
                    output |-> proposal.output, route |-> seen.page,
                    landmark |-> Landmark, before |-> before]
<1>1. /\ pc = "record" /\ pc \in Carrying
      /\ trace' = Append(trace, step) /\ trace \in Seq(TraceStep)
      /\ executed' = executed /\ executed \in Seq(Operation)
      /\ step.action = proposal.action /\ step.control = proposal.control
      /\ step.output = proposal.output
  BY DEF Record, TypeOK, Carrying
<1>2. /\ Len(trace') = Len(trace) + 1 /\ Len(trace) \in Nat
      /\ DOMAIN trace' = DOMAIN trace \cup {Len(trace) + 1}
      /\ DOMAIN trace = 1 .. Len(trace)
      /\ \A i \in DOMAIN trace : trace'[i] = trace[i]
      /\ trace'[Len(trace) + 1] = step
  BY <1>1
<1> HIDE DEF step
<1>3. ReadInv'
  <2>1. CASE proposal.action = "extract"
    <3>1. /\ obtained' = obtained \cup {proposal.output}
          /\ proposal.output \notin obtained
      BY <1>1, <2>1 DEF Record, PhaseInv, AlreadyObtained
    <3>2. \A i \in DOMAIN trace : ~ (trace[i].action = "extract" /\ trace[i].output = proposal.output)
      BY <3>1 DEF TraceInv, ReadInv
    <3> QED
      BY <1>1, <1>2, <2>1, <3>1, <3>2 DEF TraceInv, ReadInv, Reads
  <2>2. CASE proposal.action # "extract"
    <3>1. obtained' = obtained
      BY <2>2 DEF Record
    <3>2. step.action # "extract"
      BY <1>1, <2>2
    <3> QED
      BY <1>2, <3>1, <3>2 DEF TraceInv, ReadInv, Reads
  <2> QED
    BY <2>1, <2>2
<1>4. pc' \in {"top", "done"} /\ (pc' = "done" <=> stop' # stop) /\ stop' # "GOAL_REACHED"
  BY <1>1, LoopAssumption DEF Record, NextTurn, Stop, StopReason, TraceInv, GoalInv
<1>5. FollowInv'
  BY <1>1, <1>2, <1>4 DEF TraceInv, FollowInv
<1>6. GoalInv'
  BY <1>1, <1>4 DEF TraceInv, GoalInv
<1> QED
  BY <1>3, <1>5, <1>6 DEF TraceInv

\* Executing an action.
LEMMA ExecuteTrace ==
  ASSUME TypeOK, TraceInv, Execute \/ ExecuteGranted
  PROVE  TraceInv'
<1>1. /\ pc \in {"kernel", "granted"}
      /\ UNCHANGED << proposal, obtained, trace >>
      /\ trace \in Seq(TraceStep) /\ executed \in Seq(Operation)
      /\ stop = None /\ Len(executed) = Len(trace)
  BY DEF Execute, ExecuteGranted, Refused, Dispatch, SurfaceRaises, counters, call, given, TypeOK,
     TraceInv, GoalInv, FollowInv, Ended
<1>2. ReadInv'
  BY <1>1 DEF TraceInv, ReadInv, Reads
<1>3. CASE executed' = executed /\ pc' \notin {"settle", "record"}
  <2>1. (pc' # "done" => stop' = None) /\ stop' # "GOAL_REACHED"
    BY <1>1, <1>3, LoopAssumption DEF Execute, ExecuteGranted, Refused, NextTurn, Stop,
       SurfaceRaises, Escape, Dispatch, ended, StopReason
  <2> QED
    BY <1>1, <1>2, <1>3, <2>1 DEF TraceInv, FollowInv, GoalInv
<1>4. CASE Perform /\ pc' \in {"settle", "record", "raised"} /\ UNCHANGED ended
  <2> DEFINE operation == [action |-> proposal.action, control |-> proposal.control,
                           output |-> proposal.output, page |-> view]
  <2>1. /\ executed' = Append(executed, operation)
        /\ operation.action = proposal.action /\ operation.control = proposal.control
    BY <1>4 DEF Perform
  <2>2. /\ Len(executed') = Len(executed) + 1
        /\ executed'[Len(executed')] = operation
        /\ \A i \in DOMAIN trace : executed'[i] = executed[i]
    BY <1>1, <2>1
  <2> HIDE DEF operation
  <2>3. FollowInv'
    BY <1>1, <1>4, <2>1, <2>2 DEF TraceInv, FollowInv, Ended
  <2>4. GoalInv'
    BY <1>1, <1>4, LoopAssumption DEF ended, GoalInv, StopReason
  <2> QED
    BY <1>2, <2>3, <2>4 DEF TraceInv
<1> QED
  BY <1>1, <1>3, <1>4 DEF Execute, ExecuteGranted, Dispatch, SurfaceRaises, Refused, NextTurn,
     Stop, Escape

LEMMA NextTraceInv == TypeOK /\ PhaseInv /\ TraceInv /\ [Next]_vars => TraceInv'
<1> SUFFICES ASSUME TypeOK, PhaseInv, TraceInv, [Next]_vars PROVE TraceInv'
  OBVIOUS
\* Every step that executes and records nothing.
<1>1. ASSUME UNCHANGED << executed, obtained, trace >>,
             pc' \in {"settle", "record"} =>
               pc \in {"settle", "record"} /\ proposal' = proposal,
             pc' \notin {"settle", "record"} \cup Ended => pc \notin {"settle", "record"} \cup Ended,
             pc' # "done" => stop' = None,
             stop' = "GOAL_REACHED" =>
               stop' = stop \/ (Success \in obtained /\ pc = "decide")
      PROVE  TraceInv'
  <2>1. ReadInv' /\ FollowInv'
    BY <1>1 DEF TraceInv, ReadInv, FollowInv, Reads, Ended
  <2>2. GoalInv'
    BY <1>1 DEF TraceInv, GoalInv, FollowInv, Ended
  <2> QED
    BY <2>1, <2>2 DEF TraceInv
<1>2. CASE CheckScope \/ Observe \/ ReadHeading \/ Settle
  BY <1>1, <1>2, LoopAssumption DEF CheckScope, Observe, ReadHeading, Settle, Stop,
                                                 ended, call, given, counters,
     TraceInv, GoalInv, Ended, StopReason
<1>3. ASSUME NEW p \in Proposal, Decide(p)
      PROVE  TraceInv'
  <2>1. /\ pc = "decide" /\ stop = None
        /\ UNCHANGED << executed, obtained, trace >>
        /\ pc' \in {"top", "done", "human", "heading", "kernel"}
    BY <1>3 DEF Decide, Decided, RefuseDecision, DeclareSuccess, RequestHuman, PassTurn,
       Propose, Refused, Neutral, NextTurn, Stop, counters, TraceInv, GoalInv
  <2>2. /\ pc' # "done" => stop' = None
        /\ stop' = "GOAL_REACHED" => Success \in obtained
    BY <1>3, <2>1, LoopAssumption DEF Decide, RefuseDecision, DeclareSuccess, RequestHuman,
       PassTurn, Propose, Refused, Neutral, NextTurn, Stop, Ratified, ended, StopReason
  <2> QED
    BY <1>1, <2>1, <2>2 DEF Ended
<1>4. CASE Execute \/ ExecuteGranted
  BY <1>4, ExecuteTrace
<1>5. CASE Record
  BY <1>5, RecordTrace
<1>6. CASE Approve \/ Deny \/ TakeControl \/ (\E c \in Control : HumanClick(c))
  <2>1. /\ UNCHANGED << executed, obtained, trace, proposal >>
        /\ pc' \in {"settle", "record"} => pc' = pc
        /\ pc' \notin Ended => pc \notin Ended
        /\ pc \in {"settle", "record"} => pc' = pc
    BY <1>6 DEF Approve, Deny, TakeControl, HumanClick, HumanOnly, Refused, NextTurn, Stop,
       call, given, counters, Ended
  <2>2. (pc' # "done" => stop' = None) /\ (stop' = "GOAL_REACHED" => stop' = stop)
    BY <1>6, LoopAssumption DEF Approve, Deny, TakeControl, HumanClick, HumanOnly, Refused,
       NextTurn, Stop, ended, StopReason, TraceInv, GoalInv
  <2> QED
    BY <1>1, <2>1, <2>2
<1>7. CASE Release \/ Quit \/ ReleaseUntaken \/ AwaitRaises
  <2>1. /\ UNCHANGED << executed, obtained, trace >>
        /\ pc \notin Ended /\ pc' \in {"top", "done", "raised"}
        /\ pc' = "top" => pc = "human"
    BY <1>7 DEF Release, Quit, ReleaseUntaken, AwaitRaises, Ended,
                  Neutral, NextTurn, Stop, Escape, counters
  <2>2. (pc' # "done" => stop' = None) /\ stop' # "GOAL_REACHED"
    BY <1>7, <2>1, LoopAssumption DEF Release, Quit, ReleaseUntaken, AwaitRaises, Neutral,
       NextTurn, Stop, Escape, ended, StopReason, TraceInv, GoalInv, Ended
  <2> QED
    BY <1>1, <2>1, <2>2 DEF Ended
<1>8. CASE Land \/ UNCHANGED vars
  BY <1>1, <1>8 DEF Land, vars, ended, call, given, counters, TraceInv, GoalInv, Ended
<1> QED
  BY <1>2, <1>3, <1>4, <1>5, <1>6, <1>7, <1>8 DEF Next, Automation, Human

LEMMA Tracing == Spec => []TraceInv
<1> QED
  BY InitTraceInv, NextTraceInv, Typing, PTL DEF Spec

\* A goal is only reached with the success output read once, and by a trace that
\* is exactly what the surface was made to do.
THEOREM GoalsAreTraced == Spec => []GoalTrace
<1>1. TypeOK /\ TraceInv => GoalTrace
  <2> SUFFICES ASSUME TypeOK, TraceInv, stop = "GOAL_REACHED"
               PROVE  GoalTrace
    BY DEF GoalTrace
  <2>1. Success \in obtained /\ Len(trace) = Len(executed)
    BY DEF TraceInv, GoalInv
  <2> QED
    BY <2>1 DEF TraceInv, ReadInv, FollowInv, GoalTrace
<1> QED
  BY <1>1, Typing, Tracing, PTL

-----------------------------------------------------------------------------
(* Scope *)

\* The browser shows a page out of scope, and none is about to follow it.
Stranded == view \notin InScope /\ landing = None

\* Step i of the trace has no heading of such a page, and did not act on one but
\* by a click.
InBounds(i) ==
  /\ trace[i].landmark # None => \E p \in InScope : HeadingOf[p] = trace[i].landmark
  /\ trace[i].action # "click" => executed[i].page \in InScope

\* Away from the end of a run, and from the scope check after a click, a page out
\* of scope stays; so the next turn begins on the one a step was recorded from,
\* and its check ends the run.
ScopeInv ==
  /\ pc \notin {"settle"} \cup Ended /\ view \notin InScope => landing = None
  /\ pc = "settle" => proposal.action = "click"
  /\ pc = "record" /\ proposal.action # "click" =>
       executed[Len(executed)].page \in InScope \/ Stranded
  /\ pc \notin Ended =>
       (\A i \in DOMAIN trace : InBounds(i)) \/ (pc = "top" /\ Stranded)
  /\ GoalReadInScope

LEMMA InitScopeInv == Init => ScopeInv
<1> QED
  BY LoopAssumption DEF Init, ScopeInv, GoalReadInScope, StopReason

\* Recording a step: what is out of scope then is on display.
LEMMA RecordScope ==
  ASSUME TypeOK, TraceInv, ScopeInv, Record
  PROVE  ScopeInv'
<1>1. /\ pc = "record" /\ UNCHANGED << view, landing, executed, proposal >>
      /\ trace \in Seq(TraceStep) /\ executed \in Seq(Operation)
      /\ Len(executed) = Len(trace) + 1
      /\ executed[Len(executed)].action = proposal.action
      /\ stop = None
  BY DEF Record, page, call, given, TypeOK, TraceInv, FollowInv, GoalInv
<1>2. pc' \in {"top", "done"} /\ stop' # "GOAL_REACHED"
  BY <1>1, LoopAssumption DEF Record, NextTurn, Stop, StopReason
<1>3. PICK step : /\ trace' = Append(trace, step)
                  /\ step.landmark = Landmark /\ step.action = proposal.action
  BY DEF Record
<1>4. /\ DOMAIN trace' = DOMAIN trace \cup {Len(trace) + 1}
      /\ Len(trace) + 1 = Len(executed)
      /\ \A i \in DOMAIN trace : trace'[i] = trace[i]
      /\ trace'[Len(executed)] = step
  BY <1>1, <1>3
<1>5. \A i \in DOMAIN trace : InBounds(i)'
  BY <1>1, <1>4 DEF ScopeInv, Ended, InBounds
<1>6. InBounds(Len(executed))' \/ Stranded
  <2>1. CASE proposal.action = "click"
    BY <1>1, <1>3, <1>4, <2>1 DEF ScopeInv, Ended, Stranded, InBounds, Landmark
  <2>2. CASE proposal.action # "click"
    <3>1. step.landmark = None
      BY <1>3, <2>2 DEF Landmark
    <3>2. executed[Len(executed)].page \in InScope \/ Stranded
      BY <1>1, <2>2 DEF ScopeInv
    <3> QED
      BY <1>1, <1>4, <3>1, <3>2 DEF InBounds
  <2> QED
    BY <2>1, <2>2
<1>7. pc' # "done" => (\A i \in DOMAIN trace' : InBounds(i)') \/ (pc' = "top" /\ Stranded')
  BY <1>1, <1>2, <1>4, <1>5, <1>6 DEF Stranded
<1> QED
  BY <1>1, <1>2, <1>7 DEF ScopeInv, GoalReadInScope, Ended

\* Executing one: it acts on the page on display.
LEMMA ExecuteScope ==
  ASSUME TypeOK, TraceInv, ScopeInv, Execute \/ ExecuteGranted
  PROVE  ScopeInv'
<1>1. /\ pc \in {"kernel", "granted"} /\ stop = None
      /\ UNCHANGED << proposal, trace >>
      /\ trace \in Seq(TraceStep) /\ executed \in Seq(Operation)
      /\ Len(executed) = Len(trace)
      /\ \A i \in DOMAIN trace : InBounds(i)
      /\ view \notin InScope => landing = None
  BY DEF Execute, ExecuteGranted, Refused, Dispatch, SurfaceRaises, call, given, counters,
     TypeOK, TraceInv, FollowInv, GoalInv, ScopeInv, Ended
<1>2. CASE UNCHANGED << view, landing, executed >> /\ pc' \in {"top", "done", "approval"}
  <2>1. stop' # "GOAL_REACHED"
    BY <1>1, <1>2, LoopAssumption DEF Execute, ExecuteGranted, Refused, NextTurn, Stop,
       Dispatch, SurfaceRaises, Escape, ended, StopReason
  <2> QED
    BY <1>1, <1>2, <2>1 DEF ScopeInv, GoalReadInScope, InBounds, Ended
<1>3. CASE Perform /\ UNCHANGED ended
  <2>1. PICK operation : /\ executed' = Append(executed, operation)
                         /\ operation.page = view
    BY <1>3 DEF Perform
  <2>2. /\ \A i \in DOMAIN trace : executed'[i] = executed[i]
        /\ executed'[Len(executed')] = operation
    BY <1>1, <2>1
  <2>3. \A i \in DOMAIN trace : InBounds(i)'
    BY <1>1, <2>2 DEF InBounds
  <2>4. proposal.action # "click" => UNCHANGED << view, landing >>
    BY <1>3 DEF Perform, page
  <2>5. /\ pc' \in {"settle", "record", "raised"}
        /\ pc' = "record" <=> proposal.action # "click"
        /\ stop' = None
    BY <1>1, <1>3, <2>1, <2>2 DEF Execute, ExecuteGranted, Dispatch, SurfaceRaises, Escape,
       Refused, ended
  <2> QED
    BY <1>1, <2>1, <2>2, <2>3, <2>4, <2>5, LoopAssumption
       DEF ScopeInv, GoalReadInScope, Stranded, Ended, StopReason
<1> QED
  BY <1>2, <1>3 DEF Execute, ExecuteGranted, Dispatch, SurfaceRaises, Refused, NextTurn, Stop,
     Escape, page

LEMMA NextScopeInv ==
  ASSUME TypeOK, TraceInv, TenureInv, ScopeInv, [Next]_vars
  PROVE  ScopeInv'
\* Every step that keeps the page, executes and records nothing.
<1>1. ASSUME UNCHANGED << view, landing, executed, trace >>,
             pc' \notin {"settle"} \cup Ended =>
               pc \notin {"settle"} \cup Ended \/ view \in InScope,
             pc' \notin Ended => pc \notin Ended,
             pc' \in {"settle", "record"} => proposal' = proposal,
             pc' = "settle" => pc = "settle",
             pc' = "record" => pc \in {"settle", "record"},
             pc = "top" => pc' = "top" \/ pc' \in Ended \/ view \in InScope,
             stop' = "GOAL_REACHED" => stop' = stop \/ pc = "decide"
      PROVE  ScopeInv'
  <2>1. GoalReadInScope'
    BY <1>1 DEF ScopeInv, GoalReadInScope, InBounds, Ended
  <2> QED
    BY <1>1, <2>1 DEF ScopeInv, Stranded, InBounds, Ended
<1>2. CASE CheckScope \/ Settle
  BY <1>1, <1>2, LoopAssumption DEF CheckScope, Settle, ScopeHolds, Stop, page, call, given, ended,
     counters, Ended, StopReason
<1>3. CASE Observe \/ ReadHeading \/ Approve \/ TakeControl
  BY <1>1, <1>3 DEF Observe, ReadHeading, Approve, TakeControl, HumanOnly, page, call, given,
     ended, counters, Ended
<1>4. ASSUME NEW p \in Proposal, Decide(p)
      PROVE  ScopeInv'
  <2>1. /\ UNCHANGED << view, landing, executed, trace >> /\ pc = "decide"
        /\ pc' \in {"top", "done", "human", "heading", "kernel"}
    BY <1>4 DEF Decide, Decided, RefuseDecision, DeclareSuccess, RequestHuman, PassTurn,
       Propose, Refused, Neutral, NextTurn, Stop, counters, page
  <2> QED
    BY <1>1, <2>1 DEF Ended
<1>5. CASE Execute \/ ExecuteGranted
  BY <1>5, ExecuteScope
<1>6. CASE Record
  BY <1>6, RecordScope
<1>7. CASE Deny \/ Release \/ Quit \/ ReleaseUntaken \/ AwaitRaises
  <2>1. /\ UNCHANGED << view, landing, executed, trace >> /\ pc \notin Ended
        /\ pc' \in {"top", "done", "raised"}
        /\ pc' = "top" => pc \in {"approval", "human"}
        /\ stop' = "GOAL_REACHED" => stop' = stop
    BY <1>7, LoopAssumption DEF Deny, Release, Quit, ReleaseUntaken, AwaitRaises, Refused,
       Neutral, NextTurn, Stop, Escape, page, counters, ended, Ended, StopReason
  <2> QED
    BY <1>1, <2>1 DEF Ended
\* What moves the page without the loop.
<1>8. CASE Land \/ \E c \in Control : HumanClick(c)
  <2>1. /\ UNCHANGED << pc, stop, executed, trace, proposal >> /\ landing' = None
        /\ pc = "human" \/ Land
    BY <1>8 DEF Land, HumanClick, HumanOnly, call, given, counters, ended, TenureInv, Ended
  <2>2. Stranded /\ pc = "top" => FALSE
    BY <1>8, <2>1 DEF Land, Stranded
  <2>3. pc = "record" => Land /\ (view \notin InScope => landing = None)
    BY <2>1 DEF ScopeInv, Ended
  <2>4. pc = "record" => ~ Stranded
    BY <2>3 DEF Land, Stranded
  <2> QED
    BY <2>1, <2>2, <2>4 DEF ScopeInv, GoalReadInScope, InBounds, Ended
<1>9. CASE UNCHANGED vars
  BY <1>1, <1>9 DEF vars, page, ended, call, given, counters, ScopeInv, Ended
<1> QED
  BY <1>2, <1>3, <1>4, <1>5, <1>6, <1>7, <1>8, <1>9 DEF Next, Automation, Human

\* Whatever lands between a scope check and the read it guards, and wherever the
\* operator and the slow navigations lead: the trace of a reached goal holds no
\* heading of a page out of scope, and nothing read from or typed into one.
THEOREM GoalsStayInScope == Spec => []GoalReadInScope
<1>1. TypeOK /\ TraceInv /\ TenureInv /\ ScopeInv /\ [Next]_vars => ScopeInv'
  BY NextScopeInv
<1>2. ScopeInv => GoalReadInScope
  BY DEF ScopeInv
<1>3. TypeOK /\ PhaseInv => TypeOK
  OBVIOUS
<1> QED
  BY <1>1, <1>2, <1>3, InitScopeInv, Typing, Tracing, Tenure, PTL DEF Spec

-----------------------------------------------------------------------------
(* When the loop gives up *)

\* The turns that failed since the last execution.
FailedSince == {i \in DOMAIN turns :
                 turns[i] = "error" /\ \A j \in i .. Len(turns) : turns[j] # "executed"}

Signed(i) == << trace[i].action, Location[trace[i].control] >>

\* consecutive_errors counts the errors in a row.
ErrorsCounted == IsFiniteSet(FailedSince) /\ Cardinality(FailedSince) = errors

\* repeat_count counts the steps at the end of the trace that look like the last
\* one, and no more of them are there.
RepeatsCounted ==
  /\ repeats <= Len(trace)
  /\ Len(trace) > 0 => repeats > 0
  /\ \A i \in DOMAIN trace : i > Len(trace) - repeats => Signed(i) = last
  /\ repeats < Len(trace) => Signed(Len(trace) - repeats) # last

LimitInv ==
  /\ pc # "done" => stop = None
  /\ stop = "STUCK" => errors >= StuckLimit \/ repeats >= RepeatLimit
  /\ stop # "STUCK" => errors < StuckLimit /\ repeats < RepeatLimit

StuckInv == ErrorsCounted /\ RepeatsCounted /\ LimitInv

LEMMA InitStuckInv == Init => StuckInv
<1> SUFFICES ASSUME Init PROVE StuckInv
  OBVIOUS
<1>1. FailedSince = {}
  BY DEF Init, FailedSince
<1>2. ErrorsCounted
  BY <1>1, FS_EmptySet DEF Init, ErrorsCounted
<1>3. RepeatsCounted
  BY DEF Init, RepeatsCounted
<1>4. LimitInv
  BY LoopAssumption DEF Init, LimitInv, StopReason
<1> QED
  BY <1>2, <1>3, <1>4 DEF StuckInv

\* What a turn that came to something does to the failed ones.
LEMMA FailedAfter ==
  ASSUME TypeOK, ErrorsCounted, NEW what \in {"executed", "error", "neutral"}, Came(what)
  PROVE  /\ IsFiniteSet(FailedSince')
         /\ Cardinality(FailedSince') = CASE what = "executed" -> 0
                                          [] what = "error" -> errors + 1
                                          [] what = "neutral" -> errors
<1> DEFINE n == Len(turns)
<1>1. /\ turns \in Seq({"executed", "error", "neutral"}) /\ n \in Nat
      /\ DOMAIN turns = 1 .. n /\ DOMAIN turns' = 1 .. n + 1
      /\ Len(turns') = n + 1
      /\ turns'[n + 1] = what
      /\ \A i \in 1 .. n : turns'[i] = turns[i]
  BY DEF TypeOK, Came
<1>2. n + 1 \notin FailedSince
  BY <1>1 DEF FailedSince
<1> HIDE DEF n
<1>3. CASE what = "executed"
  <2>1. FailedSince' = {}
    BY <1>1, <1>3 DEF FailedSince
  <2> QED
    BY <1>3, <2>1, FS_EmptySet
<1>4. CASE what = "error"
  <2>1. FailedSince' = FailedSince \cup {n + 1}
    BY <1>1, <1>4 DEF FailedSince, n
  <2> QED
    BY <1>2, <1>4, <2>1, FS_AddElement DEF ErrorsCounted
<1>5. CASE what = "neutral"
  <2>1. FailedSince' = FailedSince
    BY <1>1, <1>5 DEF FailedSince, n
  <2> QED
    BY <1>5, <2>1 DEF ErrorsCounted
<1> QED
  BY <1>3, <1>4, <1>5

\* Every step that records no turn and counts nothing.
LEMMA UncountedStuck ==
  ASSUME StuckInv, UNCHANGED << turns, trace, errors, repeats, last >>,
         pc' # "done" => stop' = None,
         stop' = "STUCK" => stop = "STUCK",
         stop = "STUCK" => stop' = "STUCK"
  PROVE  StuckInv'
<1>1. ErrorsCounted' /\ RepeatsCounted'
  BY DEF StuckInv, ErrorsCounted, FailedSince, RepeatsCounted, Signed
<1>2. LimitInv'
  BY DEF StuckInv, LimitInv
<1> QED
  BY <1>1, <1>2 DEF StuckInv

LEMMA RefusedStuck ==
  ASSUME TypeOK, StuckInv, stop = None, Refused \/ Neutral
  PROVE  StuckInv'
<1>1. ErrorsCounted'
  <2>1. CASE Refused
    BY <2>1, FailedAfter DEF Refused, StuckInv, ErrorsCounted
  <2>2. CASE Neutral
    BY <2>2, FailedAfter DEF Neutral, counters, StuckInv, ErrorsCounted
  <2> QED
    BY <2>1, <2>2
<1>2. RepeatsCounted'
  BY DEF Refused, Neutral, counters, StuckInv, RepeatsCounted, Signed
<1>3. LimitInv'
  BY LoopAssumption DEF Refused, Neutral, counters, NextTurn, Stop, StopReason, StuckInv,
     LimitInv, TypeOK
<1> QED
  BY <1>1, <1>2, <1>3 DEF StuckInv

LEMMA RecordStuck ==
  ASSUME TypeOK, StuckInv, Record
  PROVE  StuckInv'
<1> DEFINE step == [action |-> proposal.action, control |-> proposal.control,
                    output |-> proposal.output, route |-> seen.page,
                    landmark |-> Landmark, before |-> before]
           n == Len(trace)
<1>1. /\ trace' = Append(trace, step) /\ trace \in Seq(TraceStep)
      /\ << step.action, Location[step.control] >> = Signature
  BY DEF Record, TypeOK, Signature
<1> HIDE DEF step
<1>2. /\ n \in Nat /\ Len(trace') = n + 1
      /\ DOMAIN trace = 1 .. n /\ DOMAIN trace' = 1 .. n + 1
      /\ \A i \in 1 .. n : trace'[i] = trace[i]
      /\ trace'[n + 1] = step
  BY <1>1
<1>3. last' = Signature /\ repeats' = Repeats /\ repeats \in Nat
  BY DEF Record, TypeOK
<1>4. /\ << trace'[n + 1].action, Location[trace'[n + 1].control] >> = Signature
      /\ \A i \in 1 .. n : << trace'[i].action, Location[trace'[i].control] >> = Signed(i)
  BY <1>1, <1>2 DEF Signed
<1>5. ErrorsCounted'
  BY FailedAfter DEF Record, ErrorsAfter, StuckInv, ErrorsCounted
<1>6. RepeatsCounted'
  <2>1. CASE Signature = last
    BY <1>2, <1>3, <1>4, <2>1 DEF Repeats, StuckInv, RepeatsCounted, Signed
  <2>2. CASE Signature # last
    BY <1>2, <1>3, <1>4, <2>2 DEF Repeats, StuckInv, RepeatsCounted, Signed
  <2> QED
    BY <2>1, <2>2
<1>7. LimitInv'
  BY <1>3, LoopAssumption DEF Record, ErrorsAfter, Repeats, NextTurn, Stop, StopReason,
     StuckInv, LimitInv, TypeOK
<1> QED
  BY <1>5, <1>6, <1>7 DEF StuckInv

LEMMA NextStuckInv == TypeOK /\ StuckInv /\ [Next]_vars => StuckInv'
<1> SUFFICES ASSUME TypeOK, StuckInv, [Next]_vars PROVE StuckInv'
  OBVIOUS
<1>1. pc # "done" => stop = None
  BY DEF StuckInv, LimitInv
<1>2. CASE CheckScope \/ Observe \/ ReadHeading \/ Settle \/ AwaitRaises
  BY <1>1, <1>2, UncountedStuck, LoopAssumption DEF CheckScope, Observe, ReadHeading, Settle,
                              AwaitRaises,
     Stop, Escape, ended, counters, StopReason
<1>3. ASSUME NEW p \in Proposal, Decide(p)
      PROVE  StuckInv'
  <2>1. stop = None
    BY <1>1, <1>3 DEF Decide, Decided, RefuseDecision, DeclareSuccess, RequestHuman, PassTurn,
       Propose
  <2>2. CASE Refused \/ Neutral
    BY <2>1, <2>2, RefusedStuck
  <2>3. CASE ~ (Refused \/ Neutral)
    BY <1>3, <2>1, <2>3, UncountedStuck, LoopAssumption DEF Decide, RefuseDecision,
       DeclareSuccess, RequestHuman, PassTurn, Propose, Stop, ended, counters, StopReason
  <2> QED
    BY <2>2, <2>3
<1>4. CASE Execute \/ ExecuteGranted
  <2>1. stop = None
    BY <1>1, <1>4 DEF Execute, ExecuteGranted
  <2>2. CASE Refused
    BY <2>1, <2>2, RefusedStuck
  <2>3. CASE ~ Refused
    BY <1>4, <2>1, <2>3, UncountedStuck, LoopAssumption DEF Execute, ExecuteGranted, Dispatch,
       SurfaceRaises, Escape, ended, counters, StopReason
  <2> QED
    BY <2>2, <2>3
<1>5. CASE Record
  BY <1>5, RecordStuck
<1>6. CASE Deny \/ Release
  <2>1. stop = None
    BY <1>1, <1>6 DEF Deny, Release
  <2> QED
    BY <1>6, <2>1, RefusedStuck DEF Deny, Release
<1>7. CASE Approve \/ TakeControl \/ (\E c \in Control : HumanClick(c)) \/ Land
  BY <1>1, <1>7, UncountedStuck DEF Approve, TakeControl, HumanClick, HumanOnly, Land, ended,
     counters
<1>8. CASE Quit \/ ReleaseUntaken
  BY <1>1, <1>8, UncountedStuck, LoopAssumption DEF Quit, ReleaseUntaken, Stop, Escape, ended,
     counters, StopReason
<1>9. CASE UNCHANGED vars
  BY <1>1, <1>9, UncountedStuck DEF vars, ended, counters
<1> QED
  BY <1>2, <1>3, <1>4, <1>5, <1>6, <1>7, <1>8, <1>9 DEF Next, Automation, Human

\* discover stops as stuck exactly when _STUCK_LIMIT turns in a row failed with
\* nothing executed between them, or _REPEAT_LIMIT executions in a row looked the
\* same: its two counters are those numbers, whatever came between.
THEOREM StuckMeansStuck == Spec => []StuckIsStuck
<1>1. TypeOK /\ StuckInv => StuckIsStuck
  <2> SUFFICES ASSUME TypeOK, StuckInv PROVE StuckIsStuck
    OBVIOUS
  <2>1. ErrorsInARow = errors
    BY DEF StuckInv, ErrorsCounted, FailedSince, ErrorsInARow
  <2>2. /\ Len(trace) \in Nat /\ repeats \in Nat /\ DOMAIN trace = 1 .. Len(trace)
        /\ RepeatLimit \in Nat \ {0}
    BY LoopAssumption DEF TypeOK
  <2>3. ASSUME repeats >= RepeatLimit PROVE Repeating
    BY <2>2, <2>3 DEF StuckInv, RepeatsCounted, Repeating, SameSignature, Signed
  <2>4. ASSUME Repeating, repeats < RepeatLimit PROVE FALSE
    <3>1. /\ Len(trace) - repeats \in Len(trace) - RepeatLimit + 1 .. Len(trace)
          /\ Len(trace) \in Len(trace) - RepeatLimit + 1 .. Len(trace)
          /\ Len(trace) \in DOMAIN trace
          /\ repeats < Len(trace) /\ repeats > 0
      BY <2>2, <2>4 DEF Repeating, StuckInv, RepeatsCounted
    <3>2. Signed(Len(trace) - repeats) = Signed(Len(trace))
      BY <2>4, <3>1 DEF Repeating, SameSignature, Signed
    <3>3. Signed(Len(trace)) = last
      BY <2>2, <3>1 DEF StuckInv, RepeatsCounted
    <3> QED
      BY <3>1, <3>2, <3>3 DEF StuckInv, RepeatsCounted
  <2> QED
    BY <2>1, <2>2, <2>3, <2>4, LoopAssumption DEF StuckInv, LimitInv, StuckIsStuck, TypeOK
<1> QED
  BY <1>1, InitStuckInv, NextStuckInv, Typing, PTL DEF Spec

=============================================================================
