------------------------- MODULE TrustedKernelProofs -------------------------
(***************************************************************************)
(* The kernel's guarantees for every set of calls, operations, pages and   *)
(* nonces and any number of lease transfers.  Everything follows from one  *)
(* inductive invariant, IInv: a call in progress has an operation and a    *)
(* locator of it, has asked nothing of the surface before it acts, and, if *)
(* the lease changed hands since it was scheduled, carries an epoch that   *)
(* is behind; a nonce not spent has authorized nothing.                    *)
(***************************************************************************)
EXTENDS TrustedKernel, TLAPS

FrameInv(c) ==
  /\ call[c].pc # "idle" =>
       /\ call[c].op \in Op
       /\ call[c].probe \in 1 .. Len(Locators[call[c].op])
       /\ call[c].captured \in Nat
       /\ call[c].captured <= epoch
       /\ c \in disturbed => call[c].captured < epoch
       /\ call[c].verdict = "none"
  /\ call[c].pc \in {"reading", "read", "acting"} => call[c].target \in Descriptor
  /\ call[c].pc \notin {"idle", "acting"} => invoked[c] = "none"
  /\ call[c].pc = "acting" => invoked[c] = Risk(call[c].op, call[c].target)

NonceInv == \A n \in Nonce : uses[n] <= 1 /\ (n \notin consumed => uses[n] = 0)

IInv ==
  /\ TypeOK
  /\ \A c \in Call : FrameInv(c)
  /\ NonceInv
  /\ HumanAuthorized
  /\ VerdictTruth

-----------------------------------------------------------------------------

LEMMA LocatorIsDescriptor ==
  ASSUME IInv, NEW c \in Call, call[c].pc # "idle"
  PROVE  /\ Locator(c) \in Descriptor
         /\ ActionOf[call[c].op] \in Action
         /\ Len(Locators[call[c].op]) \in Nat
  BY KernelAssumption DEF IInv, FrameInv, Locator, Action

LEMMA RiskIsClass ==
  ASSUME NEW o, NEW d
  PROVE  Risk(o, d) \in RiskClass
  BY DEF Risk, RiskClass

\* A frame that ended is a frame.
LEMMA EndedIsFrame ==
  ASSUME NEW v \in Verdicts
  PROVE  /\ Ended(v) \in Frames
         /\ Ended(v).pc = "idle"
         /\ Ended(v).verdict = v
  BY DEF Ended, Frames, NoEpoch

\* A step that replaces the frame of one call, and nothing else, keeps the
\* invariant if the new frame satisfies what the invariant asks of it.
LEMMA FrameStep ==
  ASSUME IInv, NEW c \in Call, NEW f \in Frames,
         call' = [call EXCEPT ![c] = f],
         UNCHANGED << lease, page, approvals, invoked, disturbed, aged, uses >>,
         f.pc # "idle" =>
           /\ f.op \in Op
           /\ f.probe \in 1 .. Len(Locators[f.op])
           /\ f.captured \in Nat
           /\ f.captured <= epoch
           /\ c \in disturbed => f.captured < epoch
           /\ f.verdict = "none"
           /\ invoked[c] = "none",
         f.pc # "acting",
         f.pc \in {"reading", "read"} => f.target \in Descriptor,
         f.verdict \in Rejections \cup {"approval_required"} => invoked[c] = "none",
         f.verdict = "surface_error" => invoked[c] # "consequential_write",
         f.verdict = "uncertain" => invoked[c] = "consequential_write"
  PROVE  IInv'
<1>1. TypeOK'
  BY DEF IInv, TypeOK, LeaseTypeOK, lease, approvals, Frames, Forgeries
<1>2. \A x \in Call : x # c => call'[x] = call[x]
  BY DEF IInv, TypeOK
<1>3. call'[c] = f
  BY DEF IInv, TypeOK
<1>4. (\A x \in Call : FrameInv(x))'
  BY <1>2, <1>3 DEF IInv, FrameInv, lease
<1>5. NonceInv'
  BY DEF IInv, NonceInv, approvals
<1>6. HumanAuthorized'
  BY <1>2, <1>3 DEF IInv, HumanAuthorized, Granted, Current, approvals
<1>7. VerdictTruth'
  BY <1>2, <1>3 DEF IInv, VerdictTruth
<1> QED
  BY <1>1, <1>4, <1>5, <1>6, <1>7 DEF IInv

LEMMA RaiseStep ==
  ASSUME IInv, NEW c \in Call, NEW v \in Verdicts, Raise(c, v),
         UNCHANGED << lease, page, approvals, invoked, disturbed, aged, uses >>,
         v \in Rejections \cup {"approval_required"} => invoked[c] = "none",
         v = "surface_error" => invoked[c] # "consequential_write",
         v = "uncertain" => invoked[c] = "consequential_write"
  PROVE  IInv'
<1>1. /\ Ended(v) \in Frames
      /\ Ended(v).pc = "idle"
      /\ Ended(v).verdict = v
  BY EndedIsFrame
<1> QED
  BY <1>1, FrameStep DEF Raise

\* Before a call acts, any verdict that says nothing was asked is true of it.
LEMMA RaiseBeforeActing ==
  ASSUME IInv, NEW c \in Call, NEW v \in Rejections \cup {"surface_error"}, Raise(c, v),
         call[c].pc \notin {"idle", "acting"},
         UNCHANGED << lease, page, approvals, invoked, disturbed, aged, uses >>
  PROVE  IInv'
<1>1. invoked[c] = "none"
  BY DEF IInv, FrameInv
<1>2. v \in Verdicts /\ v # "uncertain"
  BY DEF Verdicts, Rejections
<1> QED
  BY <1>1, <1>2, RaiseStep

\* The second gate and the dispatch: what an approval spends was issued and not
\* spent before, and covers what is dispatched wherever one is needed.
LEMMA GateStep ==
  ASSUME IInv, NEW c \in Call, NEW d \in Descriptor, NEW spent,
         call[c].pc \in {"counted", "read"},
         GateAndInvoke(c, d, spent),
         spent \subseteq issued \ consumed,
         consumed' = consumed \cup spent,
         UNCHANGED << lease, page, issued, requests, granted, disturbed, aged >>,
         Risk(call[c].op, d) = "consequential_write" /\ call[c].op \notin Approved =>
           \E g \in call[c].approval \cap granted :
             /\ g.nonce \in spent
             /\ g.print = Fingerprint(call[c].op, d, call[c].landmark, call[c].captured)
  PROVE  IInv'
<1>1. CASE UNCHANGED << invoked, uses >> /\ \E v \in {"CONTROL_NOT_OWNED", "VALUE_UNAVAILABLE"} : Raise(c, v)
  <2>1. PICK v \in {"CONTROL_NOT_OWNED", "VALUE_UNAVAILABLE"} : Raise(c, v)
    BY <1>1
  <2>2. v \in Verdicts
    BY DEF Verdicts, Rejections
  <2>3. /\ Ended(v) \in Frames
        /\ Ended(v).pc = "idle"
        /\ Ended(v).verdict = v
    BY <2>2, EndedIsFrame
  <2>4. call' = [call EXCEPT ![c] = Ended(v)]
    BY <2>1 DEF Raise
  <2>5. (\A x \in Call : x # c => call'[x] = call[x]) /\ call'[c] = Ended(v)
    BY <2>4 DEF IInv, TypeOK
  <2>6. TypeOK'
    BY <1>1, <2>3, <2>4 DEF IInv, TypeOK, LeaseTypeOK, lease, Frames, Forgeries
  <2>7. (\A x \in Call : FrameInv(x))'
    BY <1>1, <2>3, <2>5 DEF IInv, FrameInv, lease
  <2>8. NonceInv'
    BY <1>1 DEF IInv, NonceInv
  <2>9. HumanAuthorized'
    BY <2>3, <2>5 DEF IInv, HumanAuthorized, Granted, Current
  <2>10. invoked[c] = "none"
    BY DEF IInv, FrameInv
  <2>11. VerdictTruth'
    BY <1>1, <2>3, <2>5, <2>10 DEF IInv, VerdictTruth
  <2> QED
    BY <2>6, <2>7, <2>8, <2>9, <2>11 DEF IInv
<1>2. CASE /\ MayAct(call[c].captured)
           /\ call' = [call EXCEPT ![c].pc = "acting", ![c].target = d]
           /\ invoked' = [invoked EXCEPT ![c] = Risk(call[c].op, d)]
           /\ uses' = [n \in Nonce |-> IF n \in spent THEN uses[n] + 1 ELSE uses[n]]
  <2> DEFINE f == [call[c] EXCEPT !.pc = "acting", !.target = d]
  <2>1. call[c] \in Frames
    BY DEF IInv, TypeOK
  <2>2. call' = [call EXCEPT ![c] = f]
    BY <1>2 DEF IInv, TypeOK
  <2>3. (\A x \in Call : x # c => call'[x] = call[x]) /\ call'[c] = f
    BY <2>2 DEF IInv, TypeOK
  <2>4. f \in Frames
    BY <2>1 DEF Frames
  <2>5. /\ f.pc = "acting" /\ f.target = d /\ f.op = call[c].op
        /\ f.approval = call[c].approval /\ f.landmark = call[c].landmark
        /\ f.captured = call[c].captured /\ f.probe = call[c].probe
        /\ f.verdict = call[c].verdict
    BY <2>1 DEF Frames
  <2> HIDE DEF f
  <2>6. Risk(call[c].op, d) \in RiskClass
    BY RiskIsClass
  <2>7a. call' \in [Call -> Frames']
    BY <2>2, <2>4 DEF IInv, TypeOK, Frames, Forgeries
  <2>7b. invoked' \in [Call -> RiskClass \cup {"none"}] /\ uses' \in [Nonce -> Nat]
    BY <1>2, <2>6 DEF IInv, TypeOK
  <2>7. TypeOK'
    BY <2>7a, <2>7b DEF IInv, TypeOK, LeaseTypeOK, lease
  <2>8. (\A x \in Call : FrameInv(x))'
    BY <1>2, <2>3, <2>5 DEF IInv, TypeOK, FrameInv, lease
  <2>9. NonceInv'
    BY <1>2 DEF IInv, TypeOK, NonceInv
  <2>10. HumanAuthorized'
    BY <2>3, <2>5 DEF IInv, HumanAuthorized, Granted, Current
  <2>11. VerdictTruth'
    <3>1. call'[c].verdict = "none"
      BY <2>3, <2>5 DEF IInv, FrameInv
    <3>2. \A x \in Call : x # c => call'[x] = call[x] /\ invoked'[x] = invoked[x]
      BY <1>2, <2>3 DEF IInv, TypeOK
    <3> QED
      BY <3>1, <3>2 DEF IInv, VerdictTruth, Rejections
  <2> QED
    BY <2>7, <2>8, <2>9, <2>10, <2>11 DEF IInv
<1> QED
  BY <1>1, <1>2 DEF GateAndInvoke

-----------------------------------------------------------------------------
(* One lemma per kind of step *)

LEMMA InitIInv == Init => IInv
<1> SUFFICES ASSUME Init PROVE IInv
  OBVIOUS
<1>1. /\ Ended("none") \in Frames
      /\ Ended("none").pc = "idle"
      /\ Ended("none").verdict = "none"
  BY EndedIsFrame DEF Verdicts
<1>2. TypeOK
  BY <1>1 DEF Init, TypeOK, LeaseInit, LeaseTypeOK, ControlOwner
<1>3. \A c \in Call : FrameInv(c)
  BY <1>1 DEF Init, FrameInv
<1>4. NonceInv
  BY DEF Init, NonceInv
<1>5. HumanAuthorized
  BY <1>1 DEF Init, HumanAuthorized, Granted
<1>6. VerdictTruth
  BY <1>1 DEF Init, VerdictTruth
<1> QED
  BY <1>2, <1>3, <1>4, <1>5, <1>6 DEF IInv

LEMMA ScheduleStep ==
  ASSUME IInv, NEW c \in Call, NEW o \in Op, NEW a \in SUBSET (granted \cup Forgeries),
         Schedule(c, o, a)
  PROVE  IInv'
<1> DEFINE f == [Ended("none") EXCEPT !.pc = "scheduled", !.op = o, !.captured = epoch,
                                      !.approval = a]
<1>1. /\ f \in Frames
      /\ f.pc = "scheduled" /\ f.op = o /\ f.probe = 1
      /\ f.captured = epoch /\ f.verdict = "none"
  BY DEF Ended, Frames, IInv, TypeOK, LeaseTypeOK, Verdicts
<1>2. (\A x \in Call : x # c => call'[x] = call[x]) /\ call'[c] = f
  BY DEF Schedule, IInv, TypeOK
<1> HIDE DEF f
<1>3. \A x \in Call : x # c => invoked'[x] = invoked[x]
  BY DEF Schedule, IInv, TypeOK
<1>4. invoked'[c] = "none" /\ invoked' \in [Call -> RiskClass \cup {"none"}]
  BY DEF Schedule, IInv, TypeOK
<1>5. call' \in [Call -> Frames]
  BY <1>1, <1>2 DEF Schedule, IInv, TypeOK
<1>6. TypeOK'
  BY <1>4, <1>5 DEF Schedule, IInv, TypeOK, LeaseTypeOK, lease, approvals, Frames, Forgeries
<1>7. 1 \in 1 .. Len(Locators[o])
  BY KernelAssumption
<1>8. (\A x \in Call : FrameInv(x))'
  <2>1. FrameInv(c)'
    <3>1. epoch' = epoch /\ epoch \in Nat /\ c \notin disturbed'
      BY DEF Schedule, IInv, TypeOK, LeaseTypeOK, lease
    <3> QED
      BY <1>1, <1>2, <1>4, <1>7, <3>1 DEF FrameInv
  <2>2. ASSUME NEW x \in Call, x # c PROVE FrameInv(x)'
    BY <1>2, <1>3, <2>2 DEF Schedule, IInv, FrameInv, lease
  <2> QED
    BY <2>1, <2>2
<1>9. NonceInv'
  BY DEF Schedule, IInv, NonceInv, approvals
<1>10. HumanAuthorized'
  BY <1>1, <1>2 DEF Schedule, IInv, HumanAuthorized, Granted, Current, approvals
<1>11. VerdictTruth'
  <2>1. call'[c].verdict = "none"
    BY <1>1, <1>2
  <2> QED
    BY <2>1, <1>2, <1>3 DEF IInv, VerdictTruth, Rejections
<1> QED
  BY <1>6, <1>8, <1>9, <1>10, <1>11 DEF IInv

LEMMA EnterStep ==
  ASSUME IInv, NEW c \in Call, Enter(c)
  PROVE  IInv'
<1>1. CASE \E v \in {"UNREADY", "CONTROL_NOT_OWNED", "POLICY_DENIED", "MISSING_FIELD"} :
             Raise(c, v)
  BY <1>1, RaiseBeforeActing DEF Enter, Rejections
<1>2. CASE call' = [call EXCEPT ![c].pc = "counting"]
  <2> DEFINE f == [call[c] EXCEPT !.pc = "counting"]
  <2>1. call[c] \in Frames /\ call' = [call EXCEPT ![c] = f]
    BY <1>2 DEF IInv, TypeOK
  <2>2. /\ f \in Frames /\ f.pc = "counting"
        /\ f.op = call[c].op /\ f.probe = call[c].probe /\ f.captured = call[c].captured
        /\ f.verdict = call[c].verdict
    BY <2>1 DEF Frames
  <2> HIDE DEF f
  <2>3. FrameInv(c) /\ call[c].pc = "scheduled"
    BY DEF IInv, Enter
  <2>4. UNCHANGED << lease, page, approvals, invoked, disturbed, aged, uses >>
    BY DEF Enter
  <2> QED
    BY <2>1, <2>2, <2>3, <2>4, FrameStep DEF FrameInv, Rejections
<1> QED
  BY <1>1, <1>2 DEF Enter

LEMMA CountStep ==
  ASSUME IInv, NEW c \in Call, Count(c)
  PROVE  IInv'
<1>1. CASE Raise(c, "surface_error")
  BY <1>1, RaiseBeforeActing DEF Count
<1>2. CASE call' = [call EXCEPT ![c].pc = "counted", ![c].found = Matches[page][Locator(c)]]
  <2> DEFINE f == [call[c] EXCEPT !.pc = "counted", !.found = Matches[page][Locator(c)]]
  <2>1. call[c] \in Frames /\ call' = [call EXCEPT ![c] = f]
    BY <1>2 DEF IInv, TypeOK
  <2>2. Matches[page][Locator(c)] \in Nat
    BY LocatorIsDescriptor, KernelAssumption DEF IInv, TypeOK, Count
  <2>3. /\ f \in Frames /\ f.pc = "counted"
        /\ f.op = call[c].op /\ f.probe = call[c].probe /\ f.captured = call[c].captured
        /\ f.verdict = call[c].verdict
    BY <2>1, <2>2 DEF Frames
  <2> HIDE DEF f
  <2>4. FrameInv(c) /\ call[c].pc = "counting"
    BY DEF IInv, Count
  <2>5. UNCHANGED << lease, page, approvals, invoked, disturbed, aged, uses >>
    BY DEF Count
  <2> QED
    BY <2>1, <2>3, <2>4, <2>5, FrameStep DEF FrameInv, Rejections
<1> QED
  BY <1>1, <1>2 DEF Count

LEMMA DecideStep ==
  ASSUME IInv, NEW c \in Call, Decide(c)
  PROVE  IInv'
<1>1. /\ FrameInv(c) /\ call[c].pc = "counted" /\ call[c] \in Frames
      /\ Locator(c) \in Descriptor
  BY LocatorIsDescriptor DEF IInv, Decide, TypeOK
<1>2. UNCHANGED << lease, page, approvals, disturbed, aged >>
  BY DEF Decide
<1>3. CASE /\ UNCHANGED << invoked, uses >>
           /\ \E v \in {"LOCATOR_AMBIGUOUS", "TARGET_MISSING", "RISK_CONFIRMATION_REQUIRED"} :
                Raise(c, v)
  BY <1>1, <1>2, <1>3, RaiseBeforeActing DEF Rejections
<1>4. CASE /\ UNCHANGED << invoked, uses >>
           /\ call[c].probe < Len(Locators[call[c].op])
           /\ call' = [call EXCEPT ![c].pc = "counting", ![c].probe = @ + 1]
  <2> DEFINE next == call[c].probe + 1
             f == [call[c] EXCEPT !.pc = "counting", !.probe = next]
  <2>1. call' = [call EXCEPT ![c] = f] 
    BY <1>4 DEF IInv, TypeOK
  <2>4. next \in Nat
    BY <1>1 DEF Frames
  <2> HIDE DEF next
  <2>2. /\ f \in Frames /\ f.pc = "counting"
        /\ f.op = call[c].op /\ f.probe = next /\ f.captured = call[c].captured
        /\ f.verdict = call[c].verdict
    BY <1>1, <2>4 DEF Frames
  <2> HIDE DEF f
  <2>3. f.probe \in 1 .. Len(Locators[f.op])
    BY <1>1, <1>4, <2>2, LocatorIsDescriptor DEF FrameInv, next
  <2> QED
    BY <1>1, <1>2, <1>4, <2>1, <2>2, <2>3, FrameStep DEF FrameInv, Rejections
<1>5. CASE Standing(c) /\ GateAndInvoke(c, Locator(c), {})
  <2>1. ~(Risk(call[c].op, Locator(c)) = "consequential_write" /\ call[c].op \notin Approved)
    BY <1>5 DEF Standing, Risk
  <2>2. consumed' = consumed \cup {} /\ UNCHANGED << issued, requests, granted >>
    BY <1>2 DEF approvals
  <2> QED
    BY <1>1, <1>2, <1>5, <2>1, <2>2, GateStep
<1>6. CASE /\ UNCHANGED << invoked, uses >>
           /\ call' = [call EXCEPT ![c].pc = "reading", ![c].target = Locator(c)]
  <2> DEFINE f == [call[c] EXCEPT !.pc = "reading", !.target = Locator(c)]
  <2>1. call' = [call EXCEPT ![c] = f]
    BY <1>6 DEF IInv, TypeOK
  <2>2. /\ f \in Frames /\ f.pc = "reading" /\ f.target = Locator(c)
        /\ f.op = call[c].op /\ f.probe = call[c].probe /\ f.captured = call[c].captured
        /\ f.verdict = call[c].verdict
    BY <1>1 DEF Frames
  <2> HIDE DEF f
  <2> QED
    BY <1>1, <1>2, <1>6, <2>1, <2>2, FrameStep DEF FrameInv, Rejections
<1> QED
  BY <1>3, <1>4, <1>5, <1>6 DEF Decide

LEMMA ReadLandmarkStep ==
  ASSUME IInv, NEW c \in Call, ReadLandmark(c)
  PROVE  IInv'
<1>1. CASE Raise(c, "surface_error")
  BY <1>1, RaiseBeforeActing DEF ReadLandmark
<1>2. CASE call' = [call EXCEPT ![c].pc = "read", ![c].landmark = Landmark[page]]
  <2> DEFINE f == [call[c] EXCEPT !.pc = "read", !.landmark = Landmark[page]]
  <2>1. call[c] \in Frames /\ call' = [call EXCEPT ![c] = f]
    BY <1>2 DEF IInv, TypeOK
  <2>2. /\ f \in Frames /\ f.pc = "read" /\ f.target = call[c].target
        /\ f.op = call[c].op /\ f.probe = call[c].probe /\ f.captured = call[c].captured
        /\ f.verdict = call[c].verdict
    BY <2>1 DEF Frames, IInv, TypeOK
  <2> HIDE DEF f
  <2>3. FrameInv(c) /\ call[c].pc = "reading"
    BY DEF IInv, ReadLandmark
  <2>4. UNCHANGED << lease, page, approvals, invoked, disturbed, aged, uses >>
    BY DEF ReadLandmark
  <2> QED
    BY <2>1, <2>2, <2>3, <2>4, FrameStep DEF FrameInv, Rejections
<1> QED
  BY <1>1, <1>2 DEF ReadLandmark

\* Requests only grow, and with them what a frame may carry.
LEMMA RequestApprovalStep ==
  ASSUME IInv, NEW c \in Call, RequestApproval(c)
  PROVE  IInv'
<1> DEFINE f == Ended("approval_required")
<1>1. f \in Frames /\ f.pc = "idle" /\ f.verdict = "approval_required"
  BY EndedIsFrame DEF Verdicts
<1>2. call' = [call EXCEPT ![c] = f]
  BY DEF RequestApproval, Raise
<1> HIDE DEF f
<1>3. (\A x \in Call : x # c => call'[x] = call[x]) /\ call'[c] = f
  BY <1>2 DEF IInv, TypeOK
<1>4. PICK n \in Nonce \ issued :
        /\ issued' = issued \cup {n}
        /\ requests' = requests \cup
                         {[nonce |-> n, print |-> Current(c), target |-> call[c].target]}
  BY DEF RequestApproval
<1>5. Frames \subseteq Frames'
  BY <1>4 DEF RequestApproval, Frames, Forgeries
<1>6. TypeOK'
  <2>1. call' \in [Call -> Frames']
    BY <1>1, <1>2, <1>5 DEF IInv, TypeOK
  <2>2. \A g \in granted' : \E r \in requests' : g = [nonce |-> r.nonce, print |-> r.print]
    BY <1>4 DEF RequestApproval, IInv, TypeOK
  <2>3. \A r \in requests' : r.nonce \in issued'
    BY <1>4 DEF IInv, TypeOK
  <2> QED
    BY <1>4, <2>1, <2>2, <2>3 DEF RequestApproval, IInv, TypeOK, LeaseTypeOK, lease
<1>7. (\A x \in Call : FrameInv(x))'
  BY <1>1, <1>3 DEF RequestApproval, IInv, FrameInv, lease
<1>8. NonceInv'
  BY DEF RequestApproval, IInv, NonceInv
<1>9. HumanAuthorized'
  BY <1>1, <1>3 DEF RequestApproval, IInv, HumanAuthorized, Granted, Current
<1>10. invoked[c] = "none" /\ invoked' = invoked
  BY DEF RequestApproval, IInv, FrameInv
<1>11. VerdictTruth'
  BY <1>1, <1>3, <1>10 DEF IInv, VerdictTruth
<1> QED
  BY <1>6, <1>7, <1>8, <1>9, <1>11 DEF IInv

\* A grant whose nonce was issued is no forgery, so a human made it.
LEMMA UseApprovalStep ==
  ASSUME IInv, NEW c \in Call, NEW g \in call[c].approval, UseApproval(c, g)
  PROVE  IInv'
<1>1. /\ FrameInv(c) /\ call[c].pc = "read" /\ call[c] \in Frames
      /\ call[c].target \in Descriptor
  BY DEF IInv, UseApproval, TypeOK, FrameInv
<1>2. UNCHANGED << lease, page, issued, requests, granted, disturbed, aged >>
  BY DEF UseApproval
<1>3. CASE /\ UNCHANGED << consumed, invoked, uses >>
           /\ \E v \in {"APPROVAL_INVALID", "APPROVAL_STALE"} : Raise(c, v)
  BY <1>1, <1>2, <1>3, RaiseBeforeActing DEF Rejections, approvals
<1>4. CASE /\ Redeemable(g)
           /\ Covers(c, g)
           /\ consumed' = consumed \cup {g.nonce}
           /\ GateAndInvoke(c, call[c].target, {g.nonce})
  <2>1. g.nonce \in issued \ consumed /\ g.print = Current(c)
    BY <1>4 DEF Redeemable, Covers
  <2>2. g \notin Forgeries
    BY <2>1, KernelAssumption DEF IInv, TypeOK, Forgeries
  <2>3. g \in granted
    BY <1>1, <2>2 DEF Frames
  <2> QED
    BY <1>1, <1>2, <1>4, <2>1, <2>3, GateStep DEF Current
<1> QED
  BY <1>3, <1>4 DEF UseApproval

LEMMA ActStep ==
  ASSUME IInv, NEW c \in Call, Act(c)
  PROVE  IInv'
<1>1. UNCHANGED << lease, page, approvals, invoked, disturbed, aged, uses >>
  BY DEF Act
<1>2. call[c].pc = "acting" /\ invoked[c] \in RiskClass
  BY RiskIsClass DEF Act, IInv, FrameInv
<1>3. \E v \in {"executed", Errs(c)} : Raise(c, v)
  BY DEF Act
<1>4. PICK v \in {"executed", Errs(c)} : Raise(c, v)
  BY <1>3
<1>5. /\ v \in Verdicts
      /\ v \notin Rejections \cup {"approval_required"}
      /\ v = "surface_error" => invoked[c] # "consequential_write"
      /\ v = "uncertain" => invoked[c] = "consequential_write"
  BY <1>2 DEF Errs, Verdicts, Rejections, RiskClass
<1> QED
  BY <1>1, <1>4, <1>5, RaiseStep

LEMMA GrantApprovalStep ==
  ASSUME IInv, NEW r \in requests, GrantApproval(r)
  PROVE  IInv'
<1>1. Frames \subseteq Frames'
  BY DEF GrantApproval, Frames, Forgeries
<1>2. TypeOK'
  BY <1>1 DEF GrantApproval, IInv, TypeOK, LeaseTypeOK, lease
<1>3. (\A x \in Call : FrameInv(x))'
  BY DEF GrantApproval, IInv, FrameInv, lease
<1>4. NonceInv'
  BY DEF GrantApproval, IInv, NonceInv
<1>5. HumanAuthorized'
  BY DEF GrantApproval, IInv, HumanAuthorized, Granted, Current
<1>6. VerdictTruth'
  BY DEF GrantApproval, IInv, VerdictTruth
<1> QED
  BY <1>2, <1>3, <1>4, <1>5, <1>6 DEF IInv

LEMMA TransferStep ==
  ASSUME IInv, Transfer
  PROVE  IInv'
<1>1. owner' \in ControlOwner /\ epoch' = epoch + 1 /\ epoch \in Nat
  BY DEF Transfer, ToHuman, ToAutomation, ControlOwner, IInv, TypeOK, LeaseTypeOK
<1>2. TypeOK'
  BY <1>1 DEF Transfer, IInv, TypeOK, LeaseTypeOK, Running, approvals, Frames, Forgeries
<1>3. (\A x \in Call : FrameInv(x))'
  BY <1>1 DEF Transfer, IInv, FrameInv
<1>4. NonceInv'
  BY DEF Transfer, IInv, NonceInv, approvals
<1>5. HumanAuthorized'
  BY DEF Transfer, IInv, HumanAuthorized, Granted, Current, approvals
<1>6. VerdictTruth'
  BY DEF Transfer, IInv, VerdictTruth
<1> QED
  BY <1>2, <1>3, <1>4, <1>5, <1>6 DEF IInv

LEMMA DriftStep ==
  ASSUME IInv, page' \in Page,
         UNCHANGED << lease, call, approvals, invoked, disturbed, aged, uses >>
  PROVE  IInv'
<1>1. TypeOK'
  BY DEF IInv, TypeOK, LeaseTypeOK, lease, approvals, Frames, Forgeries
<1>2. (\A x \in Call : FrameInv(x))'
  BY DEF IInv, FrameInv, lease
<1>3. NonceInv' /\ HumanAuthorized' /\ VerdictTruth'
  BY DEF IInv, NonceInv, HumanAuthorized, Granted, Current, VerdictTruth, approvals
<1> QED
  BY <1>1, <1>2, <1>3 DEF IInv

LEMMA NextIInv == IInv /\ [Next]_vars => IInv'
<1> SUFFICES ASSUME IInv, [Next]_vars PROVE IInv'
  OBVIOUS
<1>1. CASE UNCHANGED vars
  BY <1>1, DriftStep DEF vars, IInv, TypeOK
<1>2. ASSUME NEW c \in Call, NEW o \in Op,
             \/ Schedule(c, o, {})
             \/ \E g \in granted \cup Forgeries : Schedule(c, o, {g})
      PROVE  IInv'
  <2>1. PICK a \in SUBSET (granted \cup Forgeries) : Schedule(c, o, a)
    BY <1>2
  <2> QED
    BY <2>1, ScheduleStep
<1>3. ASSUME NEW c \in Call, Step(c) PROVE IInv'
  BY <1>3, EnterStep, CountStep, DecideStep, ReadLandmarkStep, RequestApprovalStep,
     UseApprovalStep, ActStep DEF Step
<1>4. ASSUME NEW r \in requests, GrantApproval(r) PROVE IInv'
  BY <1>4, GrantApprovalStep
<1>5. CASE Transfer
  BY <1>5, TransferStep
<1>6. ASSUME NEW p \in Page, Drift(p) PROVE IInv'
  BY <1>6, DriftStep DEF Drift
<1> QED
  BY <1>1, <1>2, <1>3, <1>4, <1>5, <1>6 DEF Next

LEMMA Invariance == Spec => []IInv
<1> QED
  BY InitIInv, NextIInv, PTL DEF Spec

-----------------------------------------------------------------------------
(* The theorems *)

\* Every variable keeps its type, and no approval a call carries comes from
\* elsewhere than a human's grant or a forgery of a raised request.
THEOREM TypeCorrect == Spec => []TypeOK
<1>1. IInv => TypeOK
  BY DEF IInv
<1> QED
  BY <1>1, Invariance, PTL

\* One approval authorizes at most one dispatch, for any number of calls that
\* carry it (_require_one_time_approval's nonce sets).
THEOREM GrantsAreSingleUse == Spec => []GrantSingleUse
<1>1. IInv => GrantSingleUse
  BY DEF IInv, NonceInv, GrantSingleUse
<1> QED
  BY <1>1, Invariance, PTL

\* No consequential write without a standing approval reaches the surface but
\* by a human's spent grant for its fingerprint.
THEOREM WritesAreHumanAuthorized == Spec => []HumanAuthorized
<1>1. IInv => HumanAuthorized
  BY DEF IInv
<1> QED
  BY <1>1, Invariance, PTL

\* What the kernel's verdict lets its caller conclude about the surface is so.
THEOREM VerdictsAreTrue == Spec => []VerdictTruth
<1>1. IInv => VerdictTruth
  BY DEF IInv
<1> QED
  BY <1>1, Invariance, PTL

-----------------------------------------------------------------------------
(* What a step that dispatches has to be *)

\* A step that replaces one frame does not put another call on the surface; nor
\* does one that replaces it by a frame that does not act.
LEMMA OtherFrame ==
  ASSUME IInv, NEW c \in Call, NEW x, NEW f,
         call' = [call EXCEPT ![x] = f], Dispatches(c)
  PROVE  x = c /\ f.pc = "acting"
  BY DEF IInv, TypeOK, Dispatches

LEMMA RaiseIsNoDispatch ==
  ASSUME IInv, NEW c \in Call, NEW x, NEW v, Raise(x, v)
  PROVE  ~Dispatches(c)
<1>1. Ended(v).pc # "acting"
  BY DEF Ended
<1> QED
  BY <1>1, OtherFrame DEF Raise

LEMMA GateIsChecked ==
  ASSUME IInv, NEW c \in Call, NEW x, NEW d, NEW spent,
         GateAndInvoke(x, d, spent), Dispatches(c)
  PROVE  x = c /\ MayAct(call[c].captured)
<1>1. call' = [call EXCEPT ![x].pc = "acting", ![x].target = d] /\ MayAct(call[x].captured)
  BY RaiseIsNoDispatch DEF GateAndInvoke
<1>2. x = c
  BY <1>1 DEF IInv, TypeOK, Dispatches
<1> QED
  BY <1>1, <1>2

\* The two ways to the surface: by a standing confirmation, or by an approval
\* that covers the call.
OnStanding(c) == Standing(c) /\ GateAndInvoke(c, Locator(c), {})

OnApproval(c) ==
  \E g \in call[c].approval :
    /\ Redeemable(g)
    /\ Covers(c, g)
    /\ GateAndInvoke(c, call[c].target, {g.nonce})

LEMMA StepIsGated ==
  ASSUME IInv, NEW c \in Call, NEW x \in Call, Step(x), Dispatches(c)
  PROVE  call[c].pc # "idle" /\ MayAct(call[c].captured) /\ (OnStanding(c) \/ OnApproval(c))
<1>1. CASE Enter(x)
  BY <1>1, RaiseIsNoDispatch DEF Enter, Dispatches, IInv, TypeOK, Frames
<1>2. CASE Count(x)
  BY <1>2, RaiseIsNoDispatch DEF Count, Dispatches, IInv, TypeOK, Frames
<1>3. CASE Decide(x)
  <2>1. ~ \E v : Raise(x, v)
    BY RaiseIsNoDispatch
  <2>2. ~(call' = [call EXCEPT ![x].pc = "counting", ![x].probe = @ + 1])
    BY DEF Dispatches, IInv, TypeOK, Frames
  <2>3. ~(call' = [call EXCEPT ![x].pc = "reading", ![x].target = Locator(x)])
    BY DEF Dispatches, IInv, TypeOK, Frames
  <2>4. OnStanding(x)
    BY <1>3, <2>1, <2>2, <2>3 DEF Decide, OnStanding
  <2>5. x = c /\ MayAct(call[c].captured)
    BY <2>4, GateIsChecked DEF OnStanding
  <2> QED
    BY <1>3, <2>4, <2>5 DEF Decide
<1>4. CASE ReadLandmark(x)
  BY <1>4, RaiseIsNoDispatch DEF ReadLandmark, Dispatches, IInv, TypeOK, Frames
<1>5. CASE RequestApproval(x)
  BY <1>5, RaiseIsNoDispatch DEF RequestApproval
<1>6. CASE \E g \in call[x].approval : UseApproval(x, g)
  <2>1. OnApproval(x)
    BY <1>6, RaiseIsNoDispatch DEF UseApproval, OnApproval
  <2>2. x = c /\ MayAct(call[c].captured)
    BY <2>1, GateIsChecked DEF OnApproval
  <2> QED
    BY <1>6, <2>1, <2>2 DEF UseApproval
<1>7. CASE Act(x)
  BY <1>7, RaiseIsNoDispatch DEF Act
<1> QED
  BY <1>1, <1>2, <1>3, <1>4, <1>5, <1>6, <1>7 DEF Step

LEMMA DispatchIsGated ==
  ASSUME IInv, NEW c \in Call, Dispatches(c), Next
  PROVE  call[c].pc # "idle" /\ MayAct(call[c].captured) /\ (OnStanding(c) \/ OnApproval(c))
<1>1. ASSUME NEW x \in Call, NEW o \in Op, NEW a, Schedule(x, o, a) PROVE FALSE
  <2>1. [Ended("none") EXCEPT !.pc = "scheduled", !.op = o, !.captured = epoch, !.approval = a].pc
          = "scheduled"
    BY DEF Ended
  <2> QED
    BY <1>1, <2>1, OtherFrame DEF Schedule
<1>2. ASSUME call' = call PROVE FALSE
  BY <1>2 DEF Dispatches
<1>3. \E x \in Call : Step(x)
  BY <1>1, <1>2 DEF Next, GrantApproval, Transfer, Drift
<1> QED
  BY <1>3, StepIsGated

\* Work captured before a change of hands is never dispatched after it, in any
\* number of tenures (the two _assert_may_act gates).
THEOREM DispatchIsFenced == Spec => FencedDispatch
<1>1. ASSUME IInv, NEW c \in Call, Dispatches(c), [Next]_vars
      PROVE  owner = "automation" /\ c \notin disturbed
  <2>1. Next
    BY <1>1 DEF Dispatches, vars
  <2>2. call[c].pc # "idle" /\ MayAct(call[c].captured)
    BY <1>1, <2>1, DispatchIsGated
  <2> QED
    BY <1>1, <2>2 DEF MayAct, NoEpoch, IInv, FrameInv
<1>2. IInv /\ [Next]_vars =>
        [\A c \in Call : Dispatches(c) => owner = "automation" /\ c \notin disturbed]_vars
  BY <1>1
<1> QED
  BY <1>2, Invariance, PTL DEF Spec, FencedDispatch

-----------------------------------------------------------------------------
(* A grant and the tenure it was asked for in *)

\* The fingerprint of a request is of a tenure that had begun, and of one that
\* has ended if the lease changed hands after the request; a call carries one
\* approval at most.
AgeInv ==
  /\ \A r \in requests : /\ r.print.epoch \in Nat
                         /\ r.print.epoch <= epoch
                         /\ r.nonce \in aged => r.print.epoch < epoch
  /\ \A c \in Call : \A g, h \in call[c].approval : g = h

\* No step of a call gives it, or another call, an approval.
LEMMA RaiseDropsApproval ==
  ASSUME IInv, NEW c \in Call, NEW x \in Call, NEW v, Raise(x, v)
  PROVE  call'[c].approval \subseteq call[c].approval
  BY DEF Raise, Ended, IInv, TypeOK

LEMMA GateKeepsApproval ==
  ASSUME IInv, NEW c \in Call, NEW x \in Call, NEW d, NEW spent, GateAndInvoke(x, d, spent)
  PROVE  call'[c].approval \subseteq call[c].approval
<1>1. CASE \E v : Raise(x, v)
  BY <1>1, RaiseDropsApproval
<1>2. CASE call' = [call EXCEPT ![x].pc = "acting", ![x].target = d]
  BY <1>2 DEF IInv, TypeOK, Frames
<1> QED
  BY <1>1, <1>2 DEF GateAndInvoke

LEMMA StepKeepsApproval ==
  ASSUME IInv, NEW c \in Call, NEW x \in Call, Step(x)
  PROVE  call'[c].approval \subseteq call[c].approval
<1>1. CASE \E v : Raise(x, v)
  BY <1>1, RaiseDropsApproval
<1>2. CASE \E d, spent : GateAndInvoke(x, d, spent)
  BY <1>2, GateKeepsApproval
<1>3. CASE call' = [call EXCEPT ![x].pc = "counting"]
  BY <1>3 DEF IInv, TypeOK, Frames
<1>4. CASE call' = [call EXCEPT ![x].pc = "counted", ![x].found = Matches[page][Locator(x)]]
  BY <1>4 DEF IInv, TypeOK, Frames
<1>5. CASE call' = [call EXCEPT ![x].pc = "counting", ![x].probe = @ + 1]
  BY <1>5 DEF IInv, TypeOK, Frames
<1>6. CASE call' = [call EXCEPT ![x].pc = "reading", ![x].target = Locator(x)]
  BY <1>6 DEF IInv, TypeOK, Frames
<1>7. CASE call' = [call EXCEPT ![x].pc = "read", ![x].landmark = Landmark[page]]
  BY <1>7 DEF IInv, TypeOK, Frames
<1>8. Enter(x) => (\E v : Raise(x, v)) \/ call' = [call EXCEPT ![x].pc = "counting"]
  BY DEF Enter
<1>9. Decide(x) => \/ \E v : Raise(x, v)
                   \/ \E d, spent : GateAndInvoke(x, d, spent)
                   \/ call' = [call EXCEPT ![x].pc = "counting", ![x].probe = @ + 1]
                   \/ call' = [call EXCEPT ![x].pc = "reading", ![x].target = Locator(x)]
  BY DEF Decide
<1>10. ASSUME NEW g, UseApproval(x, g)
       PROVE  (\E v : Raise(x, v)) \/ (\E d, spent : GateAndInvoke(x, d, spent))
  BY <1>10 DEF UseApproval
<1> QED
  BY <1>1, <1>2, <1>3, <1>4, <1>5, <1>6, <1>7, <1>8, <1>9, <1>10
     DEF Step, Count, ReadLandmark, RequestApproval, Act

LEMMA InitAgeInv == Init => AgeInv
  BY DEF Init, AgeInv, Ended

LEMMA NextAgeInv ==
  ASSUME IInv, AgeInv, [Next]_vars
  PROVE  AgeInv'
<1>1. CASE UNCHANGED vars
  BY <1>1 DEF vars, lease, approvals, AgeInv
<1>2. ASSUME NEW c \in Call, NEW o \in Op, NEW a, Schedule(c, o, a),
             \A g, h \in a : g = h
      PROVE  AgeInv'
  <2>1. call'[c].approval = a /\ \A x \in Call : x # c => call'[x] = call[x]
    BY <1>2 DEF Schedule, Ended, IInv, TypeOK
  <2> QED
    BY <1>2, <2>1 DEF Schedule, AgeInv, lease, approvals
<1>3. ASSUME NEW x \in Call, Step(x) PROVE AgeInv'
  <2>1. \A c \in Call : \A g, h \in call'[c].approval : g = h
    BY <1>3, StepKeepsApproval DEF AgeInv
  <2>2. CASE RequestApproval(x)
    <3>1. PICK n \in Nonce \ issued :
            requests' = requests \cup
              {[nonce |-> n, print |-> Current(x), target |-> call[x].target]}
      BY <2>2 DEF RequestApproval
    <3>2. Current(x).epoch = call[x].captured /\ call[x].captured \in Nat
          /\ call[x].captured <= epoch
      BY <2>2 DEF RequestApproval, Current, Fingerprint, IInv, FrameInv
    <3>3. n \notin aged /\ aged' = aged /\ epoch' = epoch
      BY <2>2 DEF RequestApproval, lease, IInv, TypeOK
    <3> QED
      BY <2>1, <3>1, <3>2, <3>3 DEF AgeInv
  <2>3. CASE ~RequestApproval(x)
    <3>1. UNCHANGED << requests, aged, epoch >>
      BY <1>3, <2>3 DEF Step, Enter, Count, Decide, ReadLandmark, UseApproval, Act,
                        lease, approvals
    <3> QED
      BY <2>1, <3>1 DEF AgeInv
  <2> QED
    BY <2>2, <2>3
<1>4. ASSUME NEW r, GrantApproval(r) PROVE AgeInv'
  BY <1>4 DEF GrantApproval, AgeInv, lease
<1>5. CASE Transfer
  <2>1. epoch' = epoch + 1 /\ epoch \in Nat /\ UNCHANGED << requests, call >>
    BY <1>5 DEF Transfer, ToHuman, ToAutomation, approvals, IInv, TypeOK, LeaseTypeOK
  <2> QED
    BY <2>1 DEF AgeInv
<1>6. ASSUME NEW p, Drift(p) PROVE AgeInv'
  BY <1>6 DEF Drift, AgeInv, lease, approvals
<1>7. ASSUME NEW c \in Call, NEW o \in Op, NEW g, Schedule(c, o, {g}) \/ Schedule(c, o, {})
      PROVE  AgeInv'
  BY <1>2, <1>7
<1> QED
  BY <1>1, <1>2, <1>3, <1>4, <1>5, <1>6, <1>7 DEF Next

LEMMA AgeInvariance == Spec => []AgeInv
<1> QED
  BY InitAgeInv, NextAgeInv, Invariance, PTL DEF Spec

\* A granted write got through by an approval: a standing confirmation covers
\* no write that only a grant may let through.
LEMMA GrantedIsCovered ==
  ASSUME IInv, NEW c \in Call, Dispatches(c), Granted(c)', Next
  PROVE  /\ MayAct(call[c].captured)
         /\ call[c].captured \in Nat
         /\ \E g \in call[c].approval : Redeemable(g) /\ Covers(c, g)
<1>1. call[c].pc # "idle" /\ MayAct(call[c].captured) /\ (OnStanding(c) \/ OnApproval(c))
  BY DispatchIsGated
<1>2. ~OnStanding(c)
  <2>1. SUFFICES ASSUME OnStanding(c) PROVE FALSE
    OBVIOUS
  <2>2. call' = [call EXCEPT ![c].pc = "acting", ![c].target = Locator(c)]
    BY <2>1, RaiseIsNoDispatch DEF OnStanding, GateAndInvoke
  <2>3. call'[c].op = call[c].op /\ call'[c].target = Locator(c)
    BY <2>2 DEF IInv, TypeOK, Frames
  <2> QED
    BY <2>1, <2>3 DEF OnStanding, Standing, Granted, Risk
<1> QED
  BY <1>1, <1>2 DEF OnApproval, IInv, FrameInv

\* Once control has changed hands after the request, its grant lets nothing
\* through (the epoch of OperationFingerprint and the second gate).
THEOREM GrantsDieWithTransfer == Spec => GrantDiesWithTransfer
<1>1. ASSUME IInv, AgeInv, [Next]_vars, NEW c \in Call, Dispatches(c), Granted(c)',
             NEW h \in call[c].approval
      PROVE  h.nonce \notin aged
  <2>1. Next
    BY <1>1 DEF Dispatches, vars
  <2>2. PICK g \in call[c].approval : Redeemable(g) /\ Covers(c, g)
    BY <1>1, <2>1, GrantedIsCovered
  <2>3. h = g
    BY <1>1 DEF AgeInv
  <2>4. g.print.epoch = epoch
    BY <1>1, <2>1, <2>2, GrantedIsCovered DEF Covers, Current, Fingerprint, MayAct, NoEpoch
  <2>5. g \in granted
    BY <1>1, <2>2, KernelAssumption DEF Redeemable, IInv, TypeOK, Frames, Forgeries
  <2>6. PICK r \in requests : g = [nonce |-> r.nonce, print |-> r.print]
    BY <1>1, <2>5 DEF IInv, TypeOK
  <2>7. ~(r.nonce \in aged)
    BY <1>1, <2>4, <2>6 DEF AgeInv, IInv, TypeOK, LeaseTypeOK
  <2> QED
    BY <2>3, <2>6, <2>7
<1>2. IInv /\ AgeInv /\ [Next]_vars =>
        [\A c \in Call : (Dispatches(c) /\ Granted(c)') =>
           \A g \in call[c].approval : g.nonce \notin aged]_vars
  BY <1>1
<1> QED
  BY <1>2, Invariance, AgeInvariance, PTL DEF Spec, GrantDiesWithTransfer

-----------------------------------------------------------------------------
(* What a human's grant is about *)

\* A raised request keeps the control it asked about together with that
\* control's fingerprint (_require_one_time_approval builds both from target).
RequestInv ==
  \A r \in requests : r.target \in Descriptor /\ r.print.identity = Identity[r.target]

LEMMA InitRequestInv == Init => RequestInv
  BY DEF Init, RequestInv

LEMMA NextRequestInv ==
  ASSUME IInv, RequestInv, [Next]_vars
  PROVE  RequestInv'
<1>1. CASE UNCHANGED requests
  BY <1>1 DEF RequestInv
<1>2. ASSUME NEW c \in Call, RequestApproval(c) PROVE RequestInv'
  <2>1. PICK n \in Nonce \ issued :
          requests' = requests \cup
            {[nonce |-> n, print |-> Current(c), target |-> call[c].target]}
    BY <1>2 DEF RequestApproval
  <2>2. call[c].target \in Descriptor /\ Current(c).identity = Identity[call[c].target]
    BY <1>2 DEF RequestApproval, IInv, FrameInv, Current, Fingerprint
  <2> QED
    BY <2>1, <2>2 DEF RequestInv
<1>3. ASSUME NEW c \in Call, Step(c), ~RequestApproval(c) PROVE UNCHANGED requests
  BY <1>3 DEF Step, Enter, Count, Decide, ReadLandmark, UseApproval, Act, approvals
<1> QED
  BY <1>1, <1>2, <1>3
     DEF Next, Schedule, GrantApproval, Transfer, Drift, approvals, vars

LEMMA RequestInvariance == Spec => []RequestInv
<1> QED
  BY InitRequestInv, NextRequestInv, Invariance, PTL DEF Spec

\* A granted write acts on a control that the fingerprint cannot tell from the
\* one the human was asked about, which is all an OperationFingerprint binds.
GrantBindsIdentity ==
  \A c \in Call : Granted(c) =>
    \E r \in requests : /\ [nonce |-> r.nonce, print |-> r.print] \in call[c].approval
                        /\ r.target \in Descriptor
                        /\ Identity[r.target] = Identity[call[c].target]

LEMMA GrantsBindNow == IInv /\ RequestInv => GrantBindsIdentity
<1> SUFFICES ASSUME IInv, RequestInv, NEW c \in Call, Granted(c)
             PROVE  \E r \in requests :
                      /\ [nonce |-> r.nonce, print |-> r.print] \in call[c].approval
                      /\ r.target \in Descriptor
                      /\ Identity[r.target] = Identity[call[c].target]
  BY DEF GrantBindsIdentity
<1>1. PICK g \in call[c].approval \cap granted : g.print = Current(c)
  BY DEF IInv, HumanAuthorized
<1>2. PICK r \in requests : g = [nonce |-> r.nonce, print |-> r.print]
  BY DEF IInv, TypeOK
<1>3. r.print.identity = Identity[call[c].target]
  BY <1>1, <1>2 DEF Current, Fingerprint
<1> QED
  BY <1>1, <1>2, <1>3 DEF RequestInv

\* For every fingerprint, whatever it leaves out: a human's grant lets through
\* only a control of the identity the human saw.
THEOREM GrantsBindTheIdentity == Spec => []GrantBindsIdentity
<1> QED
  BY GrantsBindNow, Invariance, RequestInvariance, PTL

=============================================================================
