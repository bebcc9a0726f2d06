--------------------------- MODULE CompilerProofs ---------------------------
(***************************************************************************)
(* What the compiler guarantees for every application, every goal and      *)
(* traces of any length.  The recording keeps an invariant, RecordInv, on  *)
(* the trace it appends to; what the compiler makes of a trace is then a   *)
(* matter of its operators.                                                *)
(***************************************************************************)
EXTENDS Compiler, FiniteSetTheorems, SequenceTheorems, WellFoundedInduction, TLAPS

-----------------------------------------------------------------------------
(* Sequences *)

IsSeq(s) ==
  /\ Len(s) \in Nat
  /\ s = [i \in 1 .. Len(s) |-> s[i]]

LEMMA MemberIsSeq ==
  ASSUME NEW T, NEW s \in Seq(T)
  PROVE  IsSeq(s)
<1>1. Len(s) \in Nat /\ s \in [1 .. Len(s) -> T]
  OBVIOUS
<1> QED
  BY <1>1 DEF IsSeq

LEMMA AppendIsSeq ==
  ASSUME NEW s, IsSeq(s), NEW e
  PROVE  /\ IsSeq(Append(s, e))
         /\ Len(Append(s, e)) = Len(s) + 1
         /\ \A i \in 1 .. Len(s) : Append(s, e)[i] = s[i]
         /\ Append(s, e)[Len(s) + 1] = e
<1> DEFINE T == {s[i] : i \in 1 .. Len(s)} \cup {e}
<1>1. s \in Seq(T)
  BY DEF IsSeq
<1>2. e \in T
  OBVIOUS
<1> HIDE DEF T
<1>3. Append(s, e) \in Seq(T) /\ Len(Append(s, e)) = Len(s) + 1
  BY <1>1, <1>2
<1>4. IsSeq(Append(s, e))
  BY <1>3, MemberIsSeq
<1> QED
  BY <1>1, <1>2, <1>3, <1>4

-----------------------------------------------------------------------------
(* Recording *)

\* Each entry has the landmark of the page it led to, if any, and the route of
\* the page it was decided on; no output is extracted twice.
RecordInv ==
  /\ IsSeq(trace)
  /\ IsSeq(seen)
  /\ Len(seen) = Len(trace)
  /\ \A i \in 1 .. Len(trace) :
       /\ trace[i].landmark # None => trace[i].landmark = HeadingOf[seen[i]]
       /\ trace[i].route = RouteOf[PageAfter(i - 1)]
       /\ trace[i].action = "extract" => trace[i].output \in Output
  /\ \A i, j \in 1 .. Len(trace) :
       i < j /\ trace[j].action = "extract" => trace[i].output # trace[j].output

LEMMA EmptyIsRecorded == trace = << >> /\ seen = << >> => RecordInv
  BY DEF RecordInv, IsSeq

\* What a step that records adds, and that it keeps the rest.
LEMMA RecordFacts ==
  ASSUME RecordInv, NEW m, Record(m)
  PROVE  /\ IsSeq(trace') /\ IsSeq(seen')
         /\ Len(trace) \in Nat
         /\ Len(trace') = Len(trace) + 1
         /\ Len(seen') = Len(trace) + 1
         /\ \A i \in 1 .. Len(trace) : trace'[i] = trace[i] /\ seen'[i] = seen[i]
         /\ trace'[Len(trace) + 1] =
              [action |-> m.action, target |-> m.target, risk |-> m.risk,
               param |-> m.param, output |-> m.output,
               route |-> RouteOf[Here], landmark |-> LandmarkAfter(m),
               before |-> IF m.action = "click" THEN HeadingOf[Here] ELSE None]
         /\ seen'[Len(trace) + 1] = m.to
<1>1. Len(trace) \in Nat /\ Len(seen) = Len(trace)
  BY DEF RecordInv, IsSeq
<1> QED
  BY <1>1, AppendIsSeq DEF RecordInv, Record

LEMMA RecordStep ==
  ASSUME RecordInv, NEW m, Record(m)
  PROVE  RecordInv'
<1> DEFINE n == Len(trace)
<1>1. /\ IsSeq(trace') /\ IsSeq(seen')
      /\ n \in Nat
      /\ Len(trace') = n + 1
      /\ Len(seen') = n + 1
      /\ \A i \in 1 .. n : trace'[i] = trace[i] /\ seen'[i] = seen[i]
  BY RecordFacts
<1>2. /\ trace'[n + 1].action = m.action
      /\ trace'[n + 1].output = m.output
      /\ trace'[n + 1].route = RouteOf[Here]
      /\ trace'[n + 1].landmark = LandmarkAfter(m)
      /\ seen'[n + 1] = m.to
  <2> HIDE DEF n
  <2>1. /\ trace'[n + 1] =
             [action |-> m.action, target |-> m.target, risk |-> m.risk,
              param |-> m.param, output |-> m.output,
              route |-> RouteOf[Here], landmark |-> LandmarkAfter(m),
              before |-> IF m.action = "click" THEN HeadingOf[Here] ELSE None]
        /\ seen'[n + 1] = m.to
    BY RecordFacts DEF n
  <2> QED
    BY <2>1
<1>3. Here = PageAfter(n)
  BY DEF Here, RecordInv
<1>4. \A i \in 0 .. n : PageAfter(i)' = PageAfter(i)
  BY <1>1 DEF PageAfter
<1>5. m.action = "extract" => m.output \in Output \ Obtained
  BY DEF Record
<1> HIDE DEF n
<1>6. ASSUME NEW i \in 1 .. n + 1
      PROVE  /\ trace'[i].landmark # None => trace'[i].landmark = HeadingOf[seen'[i]]
             /\ trace'[i].route = RouteOf[PageAfter(i - 1)']
             /\ trace'[i].action = "extract" => trace'[i].output \in Output
  <2>1. CASE i \in 1 .. n
    BY <1>1, <1>4, <2>1 DEF RecordInv, n
  <2>2. CASE i = n + 1
    BY <1>1, <1>2, <1>3, <1>4, <1>5, <2>2 DEF LandmarkAfter
  <2> QED
    BY <1>1, <2>1, <2>2
<1>7. ASSUME NEW i \in 1 .. n + 1, NEW j \in 1 .. n + 1, i < j, trace'[j].action = "extract"
      PROVE  trace'[i].output # trace'[j].output
  <2>1. CASE j \in 1 .. n
    BY <1>1, <1>7, <2>1 DEF RecordInv, n
  <2>2. CASE j = n + 1
    <3>1. i \in 1 .. n /\ trace'[j].output \in Output \ Obtained
      BY <1>1, <1>2, <1>5, <1>7, <2>2
    <3>2. i \in DOMAIN trace
      BY <3>1 DEF RecordInv, IsSeq, n
    <3> QED
      BY <1>1, <3>1, <3>2, CompilerAssumption DEF Obtained
  <2> QED
    BY <1>1, <2>1, <2>2
<1> QED
  BY <1>1, <1>6, <1>7 DEF RecordInv

LEMMA RecordInvariance == Spec => []RecordInv
<1>1. Init => RecordInv
  BY EmptyIsRecorded DEF Init
<1>2. RecordInv /\ [Next]_vars => RecordInv'
  BY RecordStep DEF Next, vars, RecordInv, PageAfter
<1> QED
  BY <1>1, <1>2, PTL DEF Spec

-----------------------------------------------------------------------------
(* What the compiler makes of a trace *)

\* Where the write and the confirming extract are, and what lies between them.
LEMMA CompiledFacts ==
  ASSUME RecordInv, WriteCompiled
  PROVE  /\ Len(trace) \in Nat
         /\ DOMAIN trace = 1 .. Len(trace)
         /\ WriteIndex(trace) \in 1 .. Len(trace)
         /\ WriteIndex(trace) \in Writes(trace)
         /\ Terminal(trace) \in WriteIndex(trace) + 1 .. Len(trace)
         /\ IsTerminal(trace[Terminal(trace)])
         /\ PageCondition(trace).of # None
         /\ BaselineReachable(trace)
<1>1. Len(trace) \in Nat /\ DOMAIN trace = 1 .. Len(trace)
  BY DEF RecordInv, IsSeq
<1>2. WriteIndex(trace) \in Writes(trace)
  BY DEF WriteCompiled, HasWrite, WriteIndex
<1>3. Terminals(trace) # {}
  BY FS_EmptySet DEF WriteCompiled, Compiles, Verifiable
<1>4. Terminal(trace) \in Terminals(trace)
  BY <1>3 DEF Terminal
<1> QED
  BY <1>1, <1>2, <1>4 DEF Writes, Terminals, WriteCompiled, Compiles, Verifiable

LEMMA NavigateFacts ==
  ASSUME RecordInv, WriteCompiled
  PROVE  /\ Navigate(trace) \in Seq(Range(trace))
         /\ Len(Navigate(trace)) = Terminal(trace) - WriteIndex(trace) - 1
         /\ \A k \in 1 .. Terminal(trace) - WriteIndex(trace) - 1 :
              Navigate(trace)[k] = trace[WriteIndex(trace) + k]
<1> DEFINE w == WriteIndex(trace) + 1
           m == Terminal(trace) - 1
<1>1. w \in Int /\ m \in Int /\ m - w + 1 = Terminal(trace) - WriteIndex(trace) - 1
      /\ (w > m => Terminal(trace) - WriteIndex(trace) - 1 = 0)
  BY CompiledFacts
<1>2. \A i \in w .. m : trace[i] \in Range(trace)
  BY CompiledFacts DEF Range
<1> HIDE DEF w, m
<1>3. /\ SubSeq(trace, w, m) \in Seq(Range(trace))
      /\ Len(SubSeq(trace, w, m)) = IF w <= m THEN m - w + 1 ELSE 0
      /\ \A i \in 1 .. m - w + 1 : SubSeq(trace, w, m)[i] = trace[w + i - 1]
  BY <1>1, <1>2, SubSeqProperties
<1>4. \A k \in 1 .. m - w + 1 : w + k - 1 = WriteIndex(trace) + k
  BY CompiledFacts, <1>1 DEF w
<1> QED
  BY <1>1, <1>3, <1>4 DEF Navigate, w, m

\* The pages of the trace up to the write, the entry page among them.
BaselineReached ==
  WriteCompiled => \E i \in 0 .. WriteIndex(trace) - 1 : Matches(PageAfter(i), Recipe.page)

\* The recording was on the effect view before it wrote: the check of the
\* compiler on landmarks and routes says so of the pages, which it never sees.
THEOREM EffectViewIsReached == Spec => []BaselineReached
<1>1. ASSUME RecordInv, WriteCompiled
      PROVE  \E i \in 0 .. WriteIndex(trace) - 1 : Matches(PageAfter(i), Recipe.page)
  <2> DEFINE cond == PageCondition(trace)
  <2>1. Recipe.page = cond
    BY DEF Recipe, Verification
  <2>2. PICK i \in 1 .. WriteIndex(trace) - 1 :
          \/ cond.kind = "heading" /\ trace[i].landmark = cond.of
          \/ cond.kind = "route" /\ trace[i].route = cond.of
    BY <1>1, CompiledFacts DEF BaselineReachable
  <2>3. i \in 1 .. Len(trace) /\ i \in 0 .. WriteIndex(trace) - 1
        /\ i - 1 \in 0 .. WriteIndex(trace) - 1 /\ i # 0 /\ cond.of # None
    BY <1>1, CompiledFacts
  <2>4. CASE cond.kind = "heading" /\ trace[i].landmark = cond.of
    <3>1. HeadingOf[PageAfter(i)] = cond.of
      BY <1>1, <2>3, <2>4 DEF RecordInv, PageAfter
    <3> QED
      BY <2>1, <2>3, <2>4, <3>1 DEF Matches
  <2>5. CASE cond.kind = "route" /\ trace[i].route = cond.of
    <3>1. RouteOf[PageAfter(i - 1)] = cond.of
      BY <1>1, <2>3, <2>5 DEF RecordInv
    <3> QED
      BY <2>1, <2>3, <2>5, <3>1 DEF Matches
  <2> QED
    BY <2>2, <2>4, <2>5
<1>2. RecordInv => BaselineReached
  BY <1>1 DEF BaselineReached
<1> QED
  BY <1>2, RecordInvariance, PTL

\* The effect view is a page some step before the write ends on, so replay reads
\* its baseline there, unless all that is known of it is the entry page's route.
THEOREM BaselineIsThere == Spec => []BaselineIsRead
<1>1. ASSUME RecordInv, WriteCompiled,
             Recipe.page.kind = "route" => Recipe.page.of # RouteOf[Entry]
      PROVE  \E p \in BaselinePages : Matches(p, Recipe.page)
  <2> DEFINE cond == PageCondition(trace)
  <2>1. Recipe.page = cond
    BY DEF Recipe, Verification
  <2>2. PICK i \in 1 .. WriteIndex(trace) - 1 :
          \/ cond.kind = "heading" /\ trace[i].landmark = cond.of
          \/ cond.kind = "route" /\ trace[i].route = cond.of
    BY <1>1, CompiledFacts DEF BaselineReachable
  <2>3. i \in 1 .. Len(trace) /\ i # 0 /\ cond.of # None
    BY <1>1, CompiledFacts
  <2>4. CASE cond.kind = "heading" /\ trace[i].landmark = cond.of
    <3>1. HeadingOf[PageAfter(i)] = cond.of
      BY <1>1, <2>3, <2>4 DEF RecordInv, PageAfter
    <3> QED
      BY <2>1, <2>2, <2>4, <3>1 DEF Matches, BaselinePages
  <2>5. CASE cond.kind = "route" /\ trace[i].route = cond.of
    <3>1. RouteOf[PageAfter(i - 1)] = cond.of
      BY <1>1, <2>3, <2>5 DEF RecordInv
    <3>2. i - 1 # 0
      BY <1>1, <2>1, <2>5, <3>1 DEF PageAfter
    <3>3. i - 1 \in 1 .. WriteIndex(trace) - 1
      BY <1>1, <2>2, <3>2, CompiledFacts
    <3> QED
      BY <2>1, <2>5, <3>1, <3>3 DEF Matches, BaselinePages
  <2> QED
    BY <2>2, <2>4, <2>5
<1>2. RecordInv => BaselineIsRead
  BY <1>1 DEF BaselineIsRead
<1> QED
  BY <1>2, RecordInvariance, PTL

\* The success output is read after the write and nowhere before it.
THEOREM ConfirmationFollowsWrite == Spec => []ConfirmedAfterWrite
<1>1. ASSUME RecordInv, WriteCompiled, NEW i \in DOMAIN CompileCapability(trace).steps
      PROVE  CompileCapability(trace).steps[i].output # Success
  <2>1. /\ i \in 1 .. WriteIndex(trace)
        /\ CompileCapability(trace).steps[i] = CompiledStep(trace, i)
    BY <1>1 DEF WriteCompiled, CompileCapability, TopLevel
  <2>2. /\ CompiledStep(trace, i).output = trace[i].output
        /\ CompiledStep(trace, i).action = trace[i].action
    BY DEF CompiledStep, ArtifactStep
  <2>3. i \in 1 .. Len(trace) /\ Terminal(trace) \in 1 .. Len(trace) /\ i < Terminal(trace)
    BY <1>1, <2>1, CompiledFacts
  <2>4. trace[i].output # trace[Terminal(trace)].output
    BY <1>1, <2>3, CompiledFacts DEF RecordInv, IsTerminal
  <2> QED
    BY <1>1, <2>1, <2>2, <2>4, CompiledFacts DEF IsTerminal
<1>2. ASSUME RecordInv, WriteCompiled
      PROVE  /\ Recipe.extract.output = Success
             /\ \E i \in WriteIndex(trace) + 1 .. Len(trace) :
                  Recipe.extract.target = trace[i].target /\ trace[i].output = Success
  <2>1. /\ Recipe.extract.output = trace[Terminal(trace)].output
        /\ Recipe.extract.target = trace[Terminal(trace)].target
    BY DEF Recipe, Verification, ArtifactStep
  <2> QED
    BY <1>2, <2>1, CompiledFacts DEF IsTerminal
<1>3. RecordInv => ConfirmedAfterWrite
  BY <1>1, <1>2 DEF ConfirmedAfterWrite
<1> QED
  BY <1>3, RecordInvariance, PTL

\* The provenance is exact, whatever the lengths of the trace and its parts.
THEOREM ProvenanceIsExact == Spec => []ProvenanceExact
<1> DEFINE provenance == VerificationProvenance(trace)
           From(i, step) == /\ trace[i].action = step.action
                            /\ trace[i].target = step.target
                            /\ trace[i].output = step.output
<1>1. ASSUME RecordInv, WriteCompiled
      PROVE  /\ provenance.write \in Writes(trace)
             /\ DOMAIN provenance.navigate = DOMAIN Recipe.navigate
             /\ \A k \in DOMAIN Recipe.navigate :
                  From(provenance.navigate[k], Recipe.navigate[k])
             /\ From(provenance.extract, Recipe.extract)
  <2> DEFINE n == Terminal(trace) - WriteIndex(trace) - 1
  <2>1. /\ provenance.write = WriteIndex(trace)
        /\ provenance.navigate = [k \in 1 .. n |-> WriteIndex(trace) + k]
        /\ provenance.extract = Terminal(trace)
    <3>1. WriteIndex(trace) \in Nat /\ Terminal(trace) \in Nat
      BY <1>1, CompiledFacts
    <3> QED
      BY <3>1 DEF VerificationProvenance
  <2>2. /\ Recipe.navigate = [k \in 1 .. n |->
             ArtifactStep(Navigate(trace)[k], << "verify_nav", k >>, {}, None)]
        /\ Recipe.extract =
             ArtifactStep(trace[Terminal(trace)], << "verify_extract", 0 >>, {}, None)
    <3>1. DOMAIN Navigate(trace) = 1 .. n
      BY <1>1, NavigateFacts
    <3> QED
      BY <3>1 DEF Recipe, Verification
  <2>3. \A k \in 1 .. n : Navigate(trace)[k] = trace[WriteIndex(trace) + k]
    BY <1>1, NavigateFacts
  <2> HIDE DEF n
  <2> QED
    BY <1>1, <2>1, <2>2, <2>3, CompiledFacts DEF ArtifactStep
<1>2. RecordInv => ProvenanceExact
  BY <1>1 DEF ProvenanceExact
<1> QED
  BY <1>2, RecordInvariance, PTL

-----------------------------------------------------------------------------
(* The effect view *)

\* Step l left the heading as it was: it recorded none, and had one to record if
\* it was a click.
Still(l) ==
  /\ trace[l].landmark = None
  /\ trace[l].action = "click" => seen[l] \notin SlowPages /\ HeadingOf[seen[l]] # None

\* From one landmark to the next the heading stays.
ViewInv ==
  /\ \A i \in 0 .. Len(trace) : PageAfter(i) \in Page
  /\ \A i \in 0 .. Len(trace) : \A j \in 0 .. i :
       (\A l \in j + 1 .. i : Still(l)) => HeadingOf[PageAfter(i)] = HeadingOf[PageAfter(j)]

LEMMA RecordKeepsView ==
  ASSUME RecordInv, ViewInv, NEW m \in Moves[Here], Record(m)
  PROVE  ViewInv'
<1> DEFINE n == Len(trace)
<1>1. /\ n \in Nat
      /\ Len(trace') = n + 1
      /\ \A i \in 1 .. n : trace'[i] = trace[i] /\ seen'[i] = seen[i]
      /\ seen'[n + 1] = m.to
  BY RecordFacts
<1>2. trace'[n + 1].landmark = LandmarkAfter(m) /\ trace'[n + 1].action = m.action
  <2> HIDE DEF n
  <2>1. trace'[n + 1] =
          [action |-> m.action, target |-> m.target, risk |-> m.risk,
           param |-> m.param, output |-> m.output,
           route |-> RouteOf[Here], landmark |-> LandmarkAfter(m),
           before |-> IF m.action = "click" THEN HeadingOf[Here] ELSE None]
    BY RecordFacts DEF n
  <2> QED
    BY <2>1
<1> HIDE DEF n
<1>3. Here = PageAfter(n) /\ PageAfter(n) \in Page
  BY <1>1 DEF Here, RecordInv, ViewInv, n
<1>4. \A i \in 0 .. n : PageAfter(i)' = PageAfter(i)
  BY <1>1 DEF PageAfter
<1>5. /\ \A i \in Nat : i = n + 1 => PageAfter(i)' = m.to
      /\ m.to \in Page
      /\ m.action # "click" => m.to = Here
  <2>1. Moves[Here] = Moves[PageAfter(n)]
    BY <1>3
  <2> QED
    BY <1>1, <1>3, <2>1, CompilerAssumption DEF PageAfter
<1>6. \A l \in Nat : l = n + 1 /\ Still(l)' => HeadingOf[m.to] = HeadingOf[PageAfter(n)]
  BY <1>1, <1>2, <1>3, <1>5 DEF LandmarkAfter, Still
<1>7. ASSUME NEW i \in 0 .. n + 1 PROVE PageAfter(i)' \in Page
  <2>1. i \in 0 .. n \/ i = n + 1
    BY <1>1
  <2> QED
    BY <1>4, <1>5, <2>1 DEF ViewInv, n
<1>8. ASSUME NEW i \in 0 .. n + 1, NEW j \in 0 .. i,
             \A l \in j + 1 .. i : Still(l)'
      PROVE  HeadingOf[PageAfter(i)'] = HeadingOf[PageAfter(j)']
  <2>1. CASE i \in 0 .. n
    <3>1. \A l \in j + 1 .. i : Still(l)
      BY <1>1, <1>8, <2>1 DEF Still
    <3>2. HeadingOf[PageAfter(i)] = HeadingOf[PageAfter(j)]
      BY <2>1, <3>1 DEF ViewInv, n
    <3> QED
      BY <1>1, <1>4, <2>1, <3>2
  <2>2. CASE i = n + 1 /\ j # n + 1
    <3>1. j \in 0 .. n /\ n + 1 \in j + 1 .. i
      BY <1>1, <2>2
    <3>2. HeadingOf[m.to] = HeadingOf[PageAfter(n)]
      BY <1>1, <1>6, <1>8, <3>1
    <3>3. \A l \in j + 1 .. n : Still(l)
      BY <1>1, <1>8, <2>2 DEF Still
    <3>4. HeadingOf[PageAfter(n)] = HeadingOf[PageAfter(j)]
      BY <1>1, <3>1, <3>3 DEF ViewInv, n
    <3> QED
      BY <1>4, <1>5, <2>2, <3>1, <3>2, <3>4
  <2>3. CASE i = n + 1 /\ j = n + 1
    BY <2>3
  <2> QED
    BY <1>1, <2>1, <2>2, <2>3
<1> QED
  BY <1>1, <1>7, <1>8 DEF ViewInv

LEMMA ViewInvariance == Spec => []ViewInv
<1>1. Init => ViewInv
  BY CompilerAssumption DEF Init, ViewInv, PageAfter
<1>2. RecordInv /\ ViewInv /\ [Next]_vars => ViewInv'
  <2> SUFFICES ASSUME RecordInv, ViewInv, [Next]_vars PROVE ViewInv'
    OBVIOUS
  <2>1. CASE Next
    BY <2>1, RecordKeepsView DEF Next
  <2>2. CASE UNCHANGED vars
    BY <2>2 DEF vars, ViewInv, Still, PageAfter
  <2> QED
    BY <2>1, <2>2
<1> QED
  BY <1>1, <1>2, RecordInvariance, PTL DEF Spec

\* A set of indices up to n that is not empty has a last.
LEMMA LastIndex ==
  ASSUME NEW n \in Nat, NEW T \in SUBSET (1 .. n), T # {}
  PROVE  Max(T) \in T /\ \A y \in T : y <= Max(T)
<1> DEFINE Back == {n - x : x \in T}
<1>1. Back \subseteq Nat /\ Back # {}
  <2>1. \A x \in T : n - x \in Nat
    OBVIOUS
  <2> QED
    BY <2>1
<1>2. PICK b \in Back : \A c \in Back : ~ (<< c, b >> \in OpToRel(<, Nat))
  <2> HIDE DEF Back
  <2> QED
    BY <1>1, NatLessThanWellFounded, WFMin
<1>3. PICK x \in T : b = n - x
  OBVIOUS
<1>4. \A y \in T : x >= y
  <2> TAKE y \in T
  <2>1. << n - y, b >> \notin OpToRel(<, Nat)
    BY <1>2
  <2>2. n - y \in Nat /\ b \in Nat /\ x \in Nat /\ y \in Nat
    BY <1>3
  <2> QED
    BY <1>3, <2>1, <2>2 DEF OpToRel
<1>5. Max(T) \in T /\ \A y \in T : Max(T) >= y
  BY <1>4 DEF Max
<1> QED
  BY <1>5

\* The recipe's page condition holds where the effect was read.
LEMMA ConditionHoldsOnView ==
  ASSUME RecordInv, ViewInv, WriteCompiled, NavigationShows
  PROVE  Matches(PageAfter(Terminal(trace) - 1), Recipe.page)
<1> DEFINE w == WriteIndex(trace)
           m == Terminal(trace)
           marks == Landmarks(Navigate(trace))
<1>1. /\ Len(trace) \in Nat /\ w \in 1 .. Len(trace) /\ m \in w + 1 .. Len(trace)
  BY CompiledFacts
<1>2. Recipe.page = PageCondition(trace)
  BY DEF Recipe, Verification
<1>3. /\ DOMAIN Navigate(trace) = 1 .. m - w - 1
      /\ \A k \in 1 .. m - w - 1 : Navigate(trace)[k] = trace[w + k]
  BY NavigateFacts
<1> HIDE DEF w, m
<1>4. m - 1 \in 0 .. Len(trace) /\ m \in 1 .. Len(trace) /\ m - w - 1 \in Nat
  BY <1>1
<1>5. \A l \in w + 1 .. m - 1 :
        trace[l].action = "click" => seen[l] \notin SlowPages /\ HeadingOf[seen[l]] # None
  BY DEF NavigationShows, w, m
<1>6. CASE marks = {}
  <2>1. PageCondition(trace) = RouteIs(trace[m].route)
    BY <1>6 DEF PageCondition, m
  <2>2. trace[m].route = RouteOf[PageAfter(m - 1)]
    BY <1>4 DEF RecordInv
  <2> QED
    BY <1>2, <2>1, <2>2 DEF Matches, RouteIs, m
<1>7. CASE marks # {}
  <2> DEFINE k == Max(marks)
  <2>1. PageCondition(trace) = HeadingIs(Navigate(trace)[k].landmark)
    BY <1>7 DEF PageCondition
  <2>2. marks \in SUBSET (1 .. m - w - 1)
    BY <1>3 DEF Landmarks
  <2>3. k \in marks /\ \A y \in marks : y <= k
    <3> HIDE DEF marks
    <3> QED
      BY <1>4, <1>7, <2>2, LastIndex
  <2>4. k \in 1 .. m - w - 1 /\ Navigate(trace)[k] = trace[w + k]
        /\ trace[w + k].landmark # None
    BY <1>3, <2>3 DEF Landmarks
  <2> HIDE DEF k
  <2>5. \A l \in k + 1 .. m - w - 1 : trace[w + l].landmark = None
    <3> TAKE l \in k + 1 .. m - w - 1
    <3>1. l \in 1 .. m - w - 1 /\ l \notin marks
      <4> HIDE DEF marks
      <4> QED
        BY <1>4, <2>3, <2>4
    <3> QED
      BY <1>3, <3>1 DEF Landmarks
  <2>6. \A l \in (w + k) + 1 .. m - 1 : Still(l)
    <3> TAKE l \in (w + k) + 1 .. m - 1
    <3>1. l - w \in k + 1 .. m - w - 1 /\ w + (l - w) = l /\ l \in w + 1 .. m - 1
      BY <1>1, <1>4, <2>4
    <3> QED
      BY <1>5, <2>5, <3>1 DEF Still
  <2>7. w + k \in 1 .. Len(trace) /\ w + k \in 0 .. m - 1
    BY <1>1, <1>4, <2>4
  <2>8. HeadingOf[PageAfter(m - 1)] = HeadingOf[PageAfter(w + k)]
    BY <1>4, <2>6, <2>7 DEF ViewInv
  <2>9. trace[w + k].landmark = HeadingOf[PageAfter(w + k)]
    BY <2>4, <2>7 DEF RecordInv, PageAfter
  <2> QED
    BY <1>2, <2>1, <2>4, <2>8, <2>9 DEF Matches, HeadingIs, m
<1> QED
  BY <1>6, <1>7

\* In every application, framed or not: what the recipe identifies the effect
\* view by holds where the effect was read.
THEOREM BaselineIsOnTheView == Spec => []BaselineOnEffectView
<1>1. RecordInv /\ ViewInv => BaselineOnEffectView
  BY ConditionHoldsOnView DEF BaselineOnEffectView
<1> QED
  BY <1>1, RecordInvariance, ViewInvariance, PTL

=============================================================================
