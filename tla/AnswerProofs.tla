---------------------------- MODULE AnswerProofs ----------------------------
(***************************************************************************)
(* What a read of the surface returns, for every page, every set of frames  *)
(* and however they navigate between two evaluations: what one pass over    *)
(* documents that were all shown during the call comes to.                  *)
(***************************************************************************)
EXTENDS ConsoleProofs, SequenceLemmas, FiniteSetTheorems

-----------------------------------------------------------------------------
(* A pass *)

\* What the first k frames bring, each showing its document of page a.
PassOver(op, arg, a, k) ==
  [i \in 1 .. k |-> Reading(op, arg, FramesOf(arg)[i], a[FramesOf(arg)[i]])]

\* Everything an evaluation may bring.
Values(op, arg) ==
  UNION {Range(Reading(op, arg, p[1], p[2])) : p \in FrameName \X Document}

\* A read that is asked of the surface with a target is asked with one.
Askable(op, arg) == op \in Op \ {"settle"} /\ (op \in Locating => arg \in Control \cup Cell)

LEMMA ReadingIsSeq ==
  ASSUME NEW op, NEW arg, Askable(op, arg), NEW f \in FrameName, NEW d \in Document
  PROVE  Reading(op, arg, f, d) \in Seq(Values(op, arg))
<1>1. /\ IsSequence(Page[d].listed) /\ IsSequence(Page[d].modal) /\ IsSequence(Page[d].headings)
      /\ \A c \in Cell : IsSequence(Page[d].cells[c])
      /\ \A c \in Control : Page[d].matches[c] \in Nat
  <2>1. /\ Page[d].listed \in Seq(Control \cup {Nameless})
        /\ Page[d].modal \in Seq(Seq(Control \cup {Nameless}))
        /\ IsSequence(Page[d].headings)
        /\ \A c \in Cell : IsSequence(Page[d].cells[c])
        /\ Page[d].matches \in [Control -> Nat]
    BY SurfaceAssumption
  <2>2. IsSequence(Page[d].listed) /\ IsSequence(Page[d].modal)
    BY <2>1, SeqOfRange DEF IsSequence
  <2> QED
    BY <2>1, <2>2
<1>2. /\ IsSequence(<< >>)
      /\ \A x : IsSequence(<< x >>)
      /\ \A n \in Nat : IsSequence([i \in 1 .. n |-> f])
  <2>1. \A n \in Nat : [i \in 1 .. n |-> f] \in Seq({f})
    OBVIOUS
  <2>2. << >> \in Seq({f}) /\ \A x : << x >> \in Seq({x})
    OBVIOUS
  <2>3. \A x : \A s \in Seq({x}) : IsSequence(s)
    BY SeqOfRange DEF IsSequence
  <2> QED
    BY <2>1, <2>2, <2>3
<1>3. IsSequence(Reading(op, arg, f, d))
  <2>1. CASE op \in {"observe", "capture", "blocker"}
    BY <1>1, <2>1 DEF Reading, Locating, Acting
  <2>2. CASE op \in {"heading", "heading_change", "has"}
    BY <1>2, <2>2 DEF Reading, Locating, Acting
  <2>3. CASE op \in Locating
    <3>1. CASE arg \in Cell
      BY <1>1, <2>3, <3>1 DEF Reading, Locating, Acting
    <3>2. CASE arg \notin Cell
      <4>1. arg \in Control
        BY <2>3, <3>2 DEF Askable
      <4> QED
        BY <1>1, <1>2, <2>3, <3>2, <4>1 DEF Reading, Locating, Acting
    <3> QED
      BY <3>1, <3>2
  <2> QED
    BY <2>1, <2>2, <2>3 DEF Askable, Op, Gathering, FirstOf, Locating
<1>4. Range(Reading(op, arg, f, d)) \subseteq Values(op, arg)
  <2>1. << f, d >> \in FrameName \X Document /\ << f, d >>[1] = f /\ << f, d >>[2] = d
    OBVIOUS
  <2>2. Range(Reading(op, arg, f, d)) \in
          {Range(Reading(op, arg, p[1], p[2])) : p \in FrameName \X Document}
    BY <2>1
  <2> QED
    BY <2>2 DEF Values
<1>5. \A S, T : S \subseteq T => Seq(S) \subseteq Seq(T)
  OBVIOUS
<1> QED
  BY <1>3, <1>4, <1>5 DEF IsSequence

LEMMA PassIsSeq ==
  ASSUME NEW op, NEW arg, Askable(op, arg), NEW a \in [FrameName -> Document],
         NEW k \in 0 .. Len(FramesOf(arg))
  PROVE  /\ PassOver(op, arg, a, k) \in Seq(Seq(Values(op, arg)))
         /\ Len(PassOver(op, arg, a, k)) = k
<1>1. \A i \in 1 .. k : FramesOf(arg)[i] \in FrameName
  BY FramesAreFrames
<1>2. \A i \in 1 .. k : Reading(op, arg, FramesOf(arg)[i], a[FramesOf(arg)[i]]) \in Seq(Values(op, arg))
  BY <1>1, ReadingIsSeq
<1> DEFINE r(i) == Reading(op, arg, FramesOf(arg)[i], a[FramesOf(arg)[i]])
<1> HIDE DEF r
<1>3. PassOver(op, arg, a, k) = [i \in 1 .. k |-> r(i)]
  BY DEF PassOver, r
<1>4. \A i \in 1 .. k : r(i) \in Seq(Values(op, arg))
  BY <1>2 DEF r
<1> QED
  BY <1>3, <1>4

\* The frames of a target are distinct.
LEMMA FramesDiffer ==
  ASSUME NEW arg, NEW i \in 1 .. Len(FramesOf(arg)), NEW j \in 1 .. Len(FramesOf(arg)), i # j
  PROVE  FramesOf(arg)[i] # FramesOf(arg)[j]
<1>1. IsInjective(FramesOf(arg)) /\ FramesOf(arg) \in Seq(FrameName)
  BY SurfaceAssumption DEF FramesOf
<1> QED
  BY <1>1 DEF IsInjective

\* What a pass has after one more frame.
With(acc, got) == acc \o got

LEMMA PassGrows ==
  ASSUME NEW op, NEW arg, Askable(op, arg), NEW a \in [FrameName -> Document],
         NEW k \in 1 .. Len(FramesOf(arg)), NEW n, n = k - 1, NEW f, f = FramesOf(arg)[k],
         NEW b \in [FrameName -> Document], \A g \in FrameName \ {f} : b[g] = a[g]
  PROVE  FlattenSeq(PassOver(op, arg, b, k)) =
           With(FlattenSeq(PassOver(op, arg, a, n)), Reading(op, arg, f, b[f]))
<1> DEFINE d == b[f]
<1>1. f \in FrameName /\ n \in 0 .. Len(FramesOf(arg)) /\ n \in Nat /\ k = n + 1
  BY FramesAreFrames
<1>2. b \in [FrameName -> Document] /\ b[f] = d /\ d \in Document
  BY <1>1
<1> HIDE DEF d
<1>3. \A i \in 1 .. n : b[FramesOf(arg)[i]] = a[FramesOf(arg)[i]]
  <2> TAKE i \in 1 .. n
  <2>1. i \in 1 .. Len(FramesOf(arg)) /\ i # k
    BY <1>1
  <2>2. FramesOf(arg)[i] \in FrameName /\ FramesOf(arg)[i] # f
    BY <2>1, FramesAreFrames, FramesDiffer
  <2> QED
    BY <2>2
<1>4. PassOver(op, arg, b, k) = Append(PassOver(op, arg, a, n), Reading(op, arg, f, d))
  <2> DEFINE s == PassOver(op, arg, a, n)
             t == Reading(op, arg, f, d)
             u == PassOver(op, arg, b, k)
  <2>1. s \in Seq(Seq(Values(op, arg))) /\ Len(s) = n
    BY <1>1, PassIsSeq
  <2>2. u \in Seq(Seq(Values(op, arg))) /\ Len(u) = k
    <3>1. k \in 0 .. Len(FramesOf(arg))
      BY <1>1
    <3>2. u \in Seq(Seq(Values(op, arg))) /\ Len(u) = k
      BY <1>2, <3>1, PassIsSeq
    <3> QED
      BY <3>2
  <2>3. t \in Seq(Values(op, arg))
    BY <1>1, <1>2, ReadingIsSeq
  <2>4. \A i \in 1 .. n : u[i] = s[i]
    BY <1>1, <1>3 DEF PassOver
  <2>5. u[k] = t
    BY <1>1, <1>2 DEF PassOver
  <2> DEFINE V == Seq(Values(op, arg))
  <2>6. s \in Seq(V) /\ u \in Seq(V) /\ t \in V
    BY <2>1, <2>2, <2>3
  <2>7. n = Len(s) /\ k = n + 1 /\ Len(u) = k
    BY <1>1, <2>1, <2>2
  <2>8. u = Append(s, t)
    <3> HIDE DEF s, t, u, V
    <3> QED
      BY <2>4, <2>5, <2>6, <2>7, OneMore
  <2> QED
    BY <2>8
<1>5. /\ PassOver(op, arg, a, n) \in Seq(Seq(Values(op, arg)))
      /\ Reading(op, arg, f, d) \in Seq(Values(op, arg))
  BY <1>1, <1>2, PassIsSeq, ReadingIsSeq
<1> QED
  BY <1>2, <1>4, <1>5, FlattenAppend DEF d, With

\* A pass over all the frames is what AnswerOn decides on, and begins with the
\* pass over the first of them.
LEMMA WholePass ==
  ASSUME Askable(call.op, call.arg), NEW a \in [FrameName -> Document]
  PROVE  LET n == Len(FramesOf(call.arg))
             all == FlattenSeq(PassOver(call.op, call.arg, a, n)) IN
         /\ AnswerOn(a) = Decide(call.op, call.arg, all)
         /\ all \in Seq(Values(call.op, call.arg))
         /\ \A k \in 0 .. n :
              /\ FlattenSeq(PassOver(call.op, call.arg, a, k)) \in Seq(Values(call.op, call.arg))
              /\ \E rest \in Seq(Values(call.op, call.arg)) :
                   all = FlattenSeq(PassOver(call.op, call.arg, a, k)) \o rest
<1> DEFINE n == Len(FramesOf(call.arg))
           s == PassOver(call.op, call.arg, a, n)
           V == Values(call.op, call.arg)
<1>1. n \in Nat /\ n \in 0 .. n /\ DOMAIN FramesOf(call.arg) = 1 .. n
  BY FramesAreFrames
<1>2. AnswerOn(a) = Decide(call.op, call.arg, FlattenSeq(s))
  BY <1>1 DEF AnswerOn, PassOver
<1>3. s \in Seq(Seq(V)) /\ Len(s) = n
  BY <1>1, PassIsSeq
<1>4. FlattenSeq(s) \in Seq(V)
  BY <1>3, FlattenIsSeq
<1>5. ASSUME NEW k \in 0 .. n
      PROVE  /\ FlattenSeq(PassOver(call.op, call.arg, a, k)) \in Seq(V)
             /\ \E rest \in Seq(V) :
                  FlattenSeq(s) = FlattenSeq(PassOver(call.op, call.arg, a, k)) \o rest
  <2> DEFINE p == PassOver(call.op, call.arg, a, k)
  <2>1. p \in Seq(Seq(V)) /\ Len(p) = k
    BY PassIsSeq
  <2>2. FlattenSeq(p) \in Seq(V)
    BY <2>1, FlattenIsSeq
  <2>3. p = SubSeq(s, 1, k)
    BY <1>1, <1>3 DEF PassOver
  <2>4. \E rest \in Seq(V) : FlattenSeq(s) = FlattenSeq(SubSeq(s, 1, k)) \o rest
    <3> HIDE DEF s, V
    <3> QED
      BY <1>3, FlattenPrefix
  <2> QED
    BY <2>2, <2>3, <2>4
<1> QED
  BY <1>2, <1>4, <1>5

-----------------------------------------------------------------------------
(* The invariant *)

\* What the pass has so far, the first frames bring that each show one of the
\* documents they have shown during the call; nothing, where the first that
\* brings anything ends the pass.
PassInv ==
  call # None /\ call.op # "settle" /\ call.found = None =>
    /\ Askable(call.op, call.arg)
    /\ call.op \in FirstOf => call.acc = << >>
    /\ \E a \in Assemblies :
         call.acc = FlattenSeq(PassOver(call.op, call.arg, a, call.next - 1))

LEMMA AssembliesTyped == \A a \in Assemblies : a \in [FrameName -> Document]
  BY DEF Assemblies

LEMMA ShownNow == SurfaceInv /\ call # None => shows \in Assemblies
  BY DEF SurfaceInv, FrameInv, Assemblies

LEMMA PassOverNone == \A op, arg, a : FlattenSeq(PassOver(op, arg, a, 0)) = << >>
<1>1. \A op, arg, a : PassOver(op, arg, a, 0) = << >>
  BY DEF PassOver
<1> QED
  BY <1>1, FlattenEmpty

\* A pass begins with nothing.
LEMMA PassBegins ==
  ASSUME SurfaceInv', call' # None, call'.next = 1, call'.acc = << >>,
         call'.op # "settle" => Askable(call'.op, call'.arg)
  PROVE  PassInv'
<1>1. shows' \in Assemblies'
  BY DEF SurfaceInv, FrameInv, Assemblies
<1>2. call'.next - 1 = 0
  OBVIOUS
<1>3. FlattenSeq(PassOver(call'.op, call'.arg, shows', call'.next - 1)) = << >>
  BY <1>2, PassOverNone
<1> QED
  BY <1>1, <1>3 DEF PassInv, PassOver

\* A call that goes on where it was.
LEMMA PassKept ==
  ASSUME PassInv, SurfaceInv, call # None, NEW c, call' = c, c # None,
         c.op = call.op, c.arg = call.arg, c.acc = call.acc, c.next = call.next,
         c.found = call.found, shown' = shown
  PROVE  PassInv'
  BY DEF PassInv, Assemblies, PassOver, Askable

LEMMA PagePass == SurfaceInv /\ PassInv /\ PageStep => PassInv'
<1> SUFFICES ASSUME SurfaceInv, PassInv, PageStep, call # None
             PROVE  PassInv'
  BY PageStepKeeps DEF PassInv
<1>1. call' = call
  BY PageStepKeeps
<1>2. \A f \in FrameName : shown[f] \subseteq shown'[f]
  BY DEF PageStep, StartsLoading, Commits, SurfaceInv, FrameInv
<1>3. \A a \in Assemblies : a \in Assemblies'
  BY <1>2 DEF Assemblies
<1> QED
  BY <1>1, <1>3 DEF PassInv, PassOver, Askable

-----------------------------------------------------------------------------
(* The steps *)

\* Where a pass ends, more frames would not change what it comes to.
LEMMA EndsAlike ==
  ASSUME NEW V, NEW acc \in Seq(V), NEW rest \in Seq(V), NEW op, NEW arg,
         \/ rest = << >>
         \/ op \in FirstOf /\ acc # << >>
         \/ op \in Acting /\ Len(acc) > 1
  PROVE  Decide(op, arg, acc \o rest) = Decide(op, arg, acc)
<1> DEFINE all == acc \o rest
<1>1. /\ all \in Seq(V) /\ Len(all) = Len(acc) + Len(rest) /\ Len(acc) \in Nat /\ Len(rest) \in Nat
      /\ Len(acc) # 0 => all[1] = acc[1]
  BY ConcatProperties
<1>2. CASE rest = << >>
  BY <1>2, ConcatEmptySeq
<1>3. CASE op \in FirstOf /\ acc # << >>
  <2>1. Len(acc) # 0
    BY <1>3, EmptySeq
  <2>2. all # << >> /\ Head(all) = Head(acc)
    <3>1. Len(all) # 0
      BY <1>1, <2>1
    <3>2. Head(all) = all[1] /\ Head(acc) = acc[1]
      BY <1>1, <2>1, <3>1
    <3> HIDE DEF all
    <3> QED
      BY <1>1, <2>1, <3>1, <3>2
  <2> HIDE DEF all
  <2>3. Decide(op, arg, all) = Decide(op, arg, acc)
    BY <1>3, <2>2 DEF Decide, FirstOf, Acting
  <2> QED
    BY <2>3 DEF all
<1>4. CASE op \in Acting /\ Len(acc) > 1
  <2>1. /\ Len(all) > 1 /\ Len(all) # 1 /\ Len(acc) # 1 /\ Len(all) # 0 /\ Len(acc) # 0
    <3> DEFINE m == Len(acc)
               k == Len(rest)
               n == Len(all)
    <3>1. m \in Nat /\ k \in Nat /\ n = m + k /\ m > 1
      BY <1>1, <1>4
    <3> HIDE DEF m, k, n, all
    <3>2. n > 1 /\ n # 1 /\ m # 1 /\ n # 0 /\ m # 0
      BY <3>1
    <3> QED
      BY <3>2 DEF m, n
  <2>2. all # << >> /\ acc # << >>
    BY <2>1, EmptySeq
  <2> HIDE DEF all
  <2>3. Decide(op, arg, all) = Decide(op, arg, acc)
    BY <1>4, <2>1, <2>2 DEF Decide, FirstOf, Acting
  <2> QED
    BY <2>3 DEF all
<1> QED
  BY <1>2, <1>3, <1>4

\* What a pass has when it ends decides as the whole pass over its page would.
LEMMA PassDecides ==
  ASSUME Askable(call.op, call.arg), NEW b \in [FrameName -> Document],
         NEW k \in 1 .. Len(FramesOf(call.arg)),
         NEW acc, acc = FlattenSeq(PassOver(call.op, call.arg, b, k)),
         \/ k = Len(FramesOf(call.arg))
         \/ call.op \in FirstOf /\ acc # << >>
         \/ call.op \in Acting /\ Len(acc) > 1
  PROVE  AnswerOn(b) = Decide(call.op, call.arg, acc)
<1> DEFINE n == Len(FramesOf(call.arg))
           all == FlattenSeq(PassOver(call.op, call.arg, b, n))
           V == Values(call.op, call.arg)
<1>1. AnswerOn(b) = Decide(call.op, call.arg, all)
  BY WholePass
<1>2. CASE k = n
  BY <1>1, <1>2
<1>3. CASE k # n
  <2>1. k \in 0 .. n
    BY FramesAreFrames
  <2>2. acc \in Seq(V) /\ \E rest \in Seq(V) : all = acc \o rest
    BY <2>1, WholePass
  <2>3. PICK rest \in Seq(V) : all = acc \o rest
    BY <2>2
  <2>4. (call.op \in FirstOf /\ acc # << >>) \/ (call.op \in Acting /\ Len(acc) > 1)
    BY <1>3
  <2> HIDE DEF all, V, n
  <2>5. Decide(call.op, call.arg, acc \o rest) = Decide(call.op, call.arg, acc)
    BY <2>2, <2>3, <2>4, EndsAlike
  <2> QED
    BY <1>1, <2>3, <2>5
<1> QED
  BY <1>2, <1>3

\* What AnswerAssembled comes to for a read.
LEMMA AnsweredOnPage ==
  ASSUME NEW a \in Assemblies, answer' = AnswerOn(a),
         call.op = "heading_change" => answer'.value = None \/ answer'.value # call.arg
  PROVE  AnswerAssembled
  BY DEF AnswerAssembled, Gathering, FirstOf, Acting

LEMMA DecideIsAnswer ==
  ASSUME NEW op, NEW arg, NEW all
  PROVE  LET r == Decide(op, arg, all) IN r = [value |-> r.value, error |-> r.error]
  BY DEF Decide, FirstOf, Acting

LEMMA FinishPassKeeps ==
  ASSUME SurfaceInv, SurfaceInv', call # None, Askable(call.op, call.arg),
         NEW c, IsCall(c), c.op = call.op, c.arg = call.arg, c.found = None,
         c.op \in Acting => c.acc \in Seq(FrameName),
         NEW a \in Assemblies, AnswerOn(a) = Decide(c.op, c.arg, c.acc),
         FinishPass(c), UNCHANGED shows
  PROVE  PassInv' /\ AnswerAssembled
<1> DEFINE r == Decide(c.op, c.arg, c.acc)
<1>1. answer = None
  BY DEF SurfaceInv, FrameInv
<1>2. CASE NextPoll(c)
  <2> DEFINE d == [c EXCEPT !.acc = << >>, !.next = 1, !.waits = @ + 1]
  <2>1. call' = d /\ answer' = None
    BY <1>1, <1>2 DEF NextPoll, Continue
  <2>2. d.op = c.op /\ d.arg = c.arg /\ d.next = 1 /\ d.acc = << >>
    BY CallPolled
  <2> HIDE DEF d
  <2>3. PassInv'
    <3>1. CASE call' = None
      BY <3>1 DEF PassInv
    <3>2. CASE call' # None
      BY <2>1, <2>2, <3>2, PassBegins
    <3> QED
      BY <3>1, <3>2
  <2> QED
    BY <2>1, <2>3 DEF AnswerAssembled
<1>3. CASE Return(None, None) /\ c.op = "heading_change"
  <2>1. call' = None /\ answer' = [value |-> None, error |-> None]
    BY <1>3 DEF Return
  <2>2. answer'.value = None
    BY <2>1
  <2> QED
    BY <1>3, <2>1, <2>2 DEF AnswerAssembled, PassInv
<1>4. CASE c.op \in Acting /\ r.error = None /\ Continue([c EXCEPT !.found = r.value])
  <2> DEFINE d == [c EXCEPT !.found = r.value]
  <2>1. r.value # None
    <3>1. c.acc \in Seq(FrameName) /\ Len(c.acc) \in Nat
      BY <1>4
    <3>2. c.acc # << >> /\ ~ (Len(c.acc) > 1) /\ r.value = IF Len(c.acc) = 1 THEN Head(c.acc) ELSE None
      BY <1>4, SurfaceAssumption DEF Decide, Acting, FirstOf
    <3>3. Len(c.acc) = 1
      <4>1. Len(c.acc) # 0
        BY <3>1, <3>2, EmptySeq
      <4>2. \A n \in Nat : n # 0 /\ ~ (n > 1) => n = 1
        OBVIOUS
      <4> QED
        BY <3>1, <3>2, <4>1, <4>2
    <3>4. r.value \in FrameName
      BY <3>1, <3>2, <3>3
    <3> HIDE DEF r
    <3> QED
      BY <3>4, SurfaceAssumption
  <2>2. call' = d /\ answer' = None
    BY <1>1, <1>4 DEF Continue
  <2> HIDE DEF r
  <2>3. d.found = r.value
    BY CallFound
  <2> HIDE DEF d
  <2> QED
    BY <2>1, <2>2, <2>3 DEF AnswerAssembled, PassInv
<1>5. CASE Return(r.value, r.error) /\ (c.op = "heading_change" => Changed(c))
  <2>1. call' = None /\ answer' = r
    BY <1>5, DecideIsAnswer DEF Return
  <2>2. c.op = "heading_change" => r.value = Head(c.acc) /\ Head(c.acc) # c.arg
    <3>1. c.op = "heading_change" => c.acc # << >> /\ Head(c.acc) # c.arg
      BY <1>5 DEF Changed
    <3>2. c.op = "heading_change" /\ c.acc # << >> => r = [value |-> Head(c.acc), error |-> None]
      BY DEF Decide, FirstOf, Acting
    <3> HIDE DEF r
    <3> QED
      BY <3>1, <3>2
  <2> HIDE DEF r
  <2>3. answer' = AnswerOn(a)
    BY <2>1 DEF r
  <2> QED
    BY <2>1, <2>2, <2>3, AnsweredOnPage DEF PassInv
<1> QED
  BY <1>2, <1>3, <1>4, <1>5 DEF FinishPass, Locating, Acting

LEMMA EvaluatePass ==
  ASSUME SurfaceInv, PassInv, Evaluate, SurfaceInv'
  PROVE  PassInv' /\ AnswerAssembled
<1> DEFINE f == FramesOf(call.arg)[call.next]
           got == Reading(call.op, call.arg, f, shows[f])
           c == [call EXCEPT !.acc = @ \o got, !.next = @ + 1, !.tries = 0]
<1> HIDE DEF f, got, c
<1>1. /\ call # None /\ call.found = None /\ call.op # "settle" /\ Askable(call.op, call.arg)
      /\ IsCall(call) /\ CallOK(call)
      /\ UNCHANGED shows
      /\ IF \/ c.next > Len(FramesOf(call.arg))
            \/ c.op \in FirstOf /\ got # << >>
            \/ c.op \in Acting /\ Len(got) > 1
         THEN FinishPass(c)
         ELSE Continue(c)
  BY DEF Evaluate, Scanning, SurfaceInv, CallInv, CallOK, PassInv, f, got, c
<1>2. f \in FrameName /\ shows[f] \in Document /\ call.next \in 1 .. Len(FramesOf(call.arg))
  BY <1>1, FramesAreFrames DEF SurfaceInv, FrameInv, CallOK, f
<1>3. c = [op |-> call.op, arg |-> call.arg, next |-> call.next + 1, acc |-> call.acc \o got,
           tries |-> 0, waits |-> call.waits, found |-> None, hits |-> call.hits]
  <2>1. c = [call EXCEPT !.acc = @ \o got, !.next = @ + 1, !.tries = 0]
    BY DEF c
  <2> QED
    BY <1>1, <2>1 DEF IsCall
<1>4. /\ IsCall(c) /\ c.op = call.op /\ c.arg = call.arg /\ c.next = call.next + 1
      /\ c.acc = call.acc \o got /\ c.found = None
  BY <1>3 DEF IsCall
<1>5. PICK a \in Assemblies :
        call.acc = FlattenSeq(PassOver(call.op, call.arg, a, call.next - 1))
  BY <1>1 DEF PassInv
<1> DEFINE b == [a EXCEPT ![f] = shows[f]]
<1>6. a \in [FrameName -> Document] /\ b \in [FrameName -> Document]
  BY <1>2, <1>5, AssembliesTyped
<1>7. b \in Assemblies
  BY <1>1, <1>2, <1>5, <1>6 DEF Assemblies, SurfaceInv, FrameInv
<1> HIDE DEF b
<1>8. FlattenSeq(PassOver(call.op, call.arg, b, call.next)) = c.acc
  <2> DEFINE k == call.next - 1
  <2>1. /\ f = FramesOf(call.arg)[call.next]
        /\ b[f] = shows[f] /\ \A g \in FrameName \ {f} : b[g] = a[g]
    BY <1>2, <1>6 DEF b, f
  <2>2. k = call.next - 1 /\ call.acc = FlattenSeq(PassOver(call.op, call.arg, a, k))
    BY <1>5
  <2> HIDE DEF k
  <2>3. FlattenSeq(PassOver(call.op, call.arg, b, call.next)) =
          With(FlattenSeq(PassOver(call.op, call.arg, a, k)), Reading(call.op, call.arg, f, b[f]))
    BY <1>1, <1>2, <1>6, <2>1, <2>2, PassGrows
  <2>4. Reading(call.op, call.arg, f, b[f]) = got
    BY <2>1 DEF got
  <2> QED
    BY <1>4, <2>2, <2>3, <2>4 DEF With
<1>9. /\ got \in Seq(Values(call.op, call.arg))
      /\ call.acc \in Seq(Values(call.op, call.arg))
  <2>1. got \in Seq(Values(call.op, call.arg))
    BY <1>1, <1>2, ReadingIsSeq DEF got
  <2> DEFINE k == call.next - 1
  <2>2. k \in 0 .. Len(FramesOf(call.arg))
    BY <1>2, FramesAreFrames
  <2>3. FlattenSeq(PassOver(call.op, call.arg, a, k)) \in Seq(Values(call.op, call.arg))
    BY <1>1, <1>6, <2>2, WholePass
  <2> QED
    BY <1>5, <2>1, <2>3
<1>10. CASE FinishPass(c) /\ (\/ c.next > Len(FramesOf(call.arg))
                              \/ c.op \in FirstOf /\ got # << >>
                              \/ c.op \in Acting /\ Len(got) > 1)
  <2>1. \/ call.next = Len(FramesOf(call.arg))
        \/ call.op \in FirstOf /\ c.acc # << >>
        \/ call.op \in Acting /\ Len(c.acc) > 1
    <3>1. Len(c.acc) = Len(call.acc) + Len(got) /\ Len(call.acc) \in Nat /\ Len(got) \in Nat
      BY <1>4, <1>9, Joined
    <3>2. got # << >> => c.acc # << >>
      <4>1. got # << >> => Len(got) # 0
        BY <1>9, EmptySeq
      <4>2. Len(got) # 0 => Len(c.acc) # 0
        BY <3>1
      <4>3. c.acc = << >> => Len(c.acc) = 0
        OBVIOUS
      <4> QED
        BY <4>1, <4>2, <4>3
    <3>3. Len(got) > 1 => Len(c.acc) > 1
      BY <3>1
    <3>4. c.next > Len(FramesOf(call.arg)) => call.next = Len(FramesOf(call.arg))
      BY <1>2, <1>4, FramesAreFrames
    <3> QED
      BY <1>4, <1>10, <3>2, <3>3, <3>4
  <2>2. AnswerOn(b) = Decide(call.op, call.arg, c.acc)
    BY <1>1, <1>2, <1>6, <1>8, <2>1, PassDecides
  <2>3. c.op \in Acting => c.acc \in Seq(FrameName)
    <3>1. SUFFICES ASSUME call.op \in Acting PROVE c.acc \in Seq(FrameName)
      BY <1>4
    <3>2. call.acc \in Seq(FrameName) /\ call.arg \in Control
      BY <1>1, <3>1 DEF CallOK, PassSoFar
    <3>3. got \in Seq(FrameName)
      BY <1>2, <3>1, <3>2, Matches DEF got
    <3> QED
      BY <1>4, <3>2, <3>3, Joined
  <2> QED
    BY <1>1, <1>4, <1>7, <1>10, <2>2, <2>3, FinishPassKeeps
<1>11. CASE Continue(c) /\ ~ (c.op \in FirstOf /\ got # << >>)
  <2>1. call' = c /\ answer' = None /\ shown' = shown
    BY <1>1, <1>11 DEF Continue, SurfaceInv, FrameInv
  <2>2. c.next - 1 = call.next
    BY <1>2, <1>4
  <2>3. c.op \in FirstOf => c.acc = << >>
    <3>1. call.op \in FirstOf => call.acc = << >>
      BY <1>1 DEF PassInv
    <3> QED
      BY <1>4, <1>9, <1>11, <3>1, ConcatEmptySeq
  <2>4. b \in Assemblies'
    BY <1>7, <2>1 DEF Assemblies
  <2> QED
    BY <1>1, <1>4, <1>8, <2>1, <2>2, <2>3, <2>4 DEF PassInv, AnswerAssembled, PassOver, Askable
<1> QED
  BY <1>1, <1>10, <1>11

\* The other steps of the surface go on with the pass as it is, or end the call
\* with an error, an act that landed, or a page that settled.
LEMMA SurfaceStepPass ==
  ASSUME SurfaceInv, PassInv, SurfaceStep
  PROVE  PassInv' /\ AnswerAssembled
<1>1. SurfaceInv'
  BY SurfaceStepKeeps
<1>2. CASE Evaluate
  BY <1>1, <1>2, EvaluatePass
<1>3. call # None => IsCall(call) /\ CallOK(call) /\ answer = None
  BY DEF SurfaceInv, CallInv, CallOK, FrameInv
<1>4. CASE TransientError
  <2>1. /\ call # None /\ call.found = None
        /\ Return(None, "transient") \/ Continue([call EXCEPT !.tries = @ + 1])
    BY <1>4 DEF TransientError, Scanning
  <2>2. CASE Return(None, "transient")
    BY <2>2 DEF Return, PassInv, AnswerAssembled, Raised
  <2>3. CASE Continue([call EXCEPT !.tries = @ + 1])
    <3> DEFINE c == [call EXCEPT !.tries = @ + 1]
    <3>1. c.op = call.op /\ c.arg = call.arg /\ c.acc = call.acc /\ c.next = call.next
          /\ c.found = call.found
      BY <1>3, <2>1 DEF IsCall
    <3>2. call' = c /\ answer' = None /\ shown' = shown
      BY <1>3, <2>1, <2>3 DEF Continue
    <3> HIDE DEF c
    <3> QED
      BY <2>1, <3>1, <3>2, PassKept DEF PassInv, AnswerAssembled
  <2> QED
    BY <2>1, <2>2, <2>3
<1>5. CASE DriverError
  <2>1. Return(None, IF call.op = "settle" THEN None ELSE "driver")
    BY <1>5 DEF DriverError
  <2> QED
    BY <2>1 DEF Return, PassInv, AnswerAssembled, Raised, Gathering, FirstOf, Acting
<1>6. CASE Land
  <2> DEFINE c == [call EXCEPT !.hits = @ + 1]
  <2>1. call # None /\ call.found # None /\ call' = c /\ answer' = None
    BY <1>3, <1>6 DEF Land, Continue
  <2>2. c.found = call.found
    BY <1>3, <2>1 DEF IsCall
  <2> HIDE DEF c
  <2> QED
    BY <2>1, <2>2 DEF PassInv, AnswerAssembled
<1>7. CASE FinishAct
  <2>1. call # None /\ call.op \in Acting
    BY <1>3, <1>7 DEF FinishAct, CallOK
  <2>2. Return(None, None) \/ Return(None, "transient")
    BY <1>7 DEF FinishAct
  <2> QED
    BY <2>1, <2>2 DEF Return, PassInv, AnswerAssembled, Raised, Gathering, FirstOf, Acting
<1>8. CASE Settle
  <2>1. call # None /\ call.op = "settle"
    BY <1>8 DEF Settle
  <2>2. \/ call' = None
        \/ call' # None /\ call'.op = "settle"
    BY <1>8, <2>1, SurfaceStepKeeps DEF Answers, SurfaceStep
  <2> QED
    BY <2>1, <2>2 DEF PassInv, AnswerAssembled, Gathering, FirstOf, Acting
<1> QED
  BY <1>2, <1>4, <1>5, <1>6, <1>7, <1>8 DEF SurfaceStep

\* Outside the surface a call is left alone, or begun by what may ask for it.
LEMMA ConsoleAsks ==
  ASSUME ConsoleInv, Next, ~OnSurface
  PROVE  \/ call' = call /\ shown' = shown /\ answer' = None
         \/ \E op, arg : Begin(op, arg) /\ (op # "settle" => Askable(op, arg))
<1> DEFINE Begun == \E op, arg : Begin(op, arg) /\ (op # "settle" => Askable(op, arg))
           Left == call' = call /\ shown' = shown /\ answer' = None
<1>1. \A op \in {"capture", "heading", "blocker", "observe", "settle"} :
        \A place, arg : Go(place, op, arg) => Begun
  BY DEF Go, Askable, Op, Gathering, FirstOf, Locating, Acting
<1>2. \A op \in {"click", "type", "submit"} :
        \A place : \A arg \in Control : Go(place, op, arg) => Begun
  BY DEF Go, Askable, Op, Acting
<1>3. \A place : Prompt \/ Uncaught(place) \/ End(place) => Left
  BY DEF Prompt, Uncaught, End
<1>4. SessionCalls => Begun
  <2> SUFFICES ASSUME NEW c \in Call, Go("running", c[1], c[2])
               PROVE  Begun
    BY DEF SessionCalls
  <2>1. Begin(c[1], c[2]) /\ (c[1] # "settle" => Askable(c[1], c[2]))
    BY ConsoleAssumption DEF Go, Askable
  <2> QED
    BY <2>1
<1>5. Perform => Begun \/ Left
  <2>1. Got("settling") => chosen \in Control /\ intent \in {"click", "type", "submit"}
    BY DEF Got, Answered, ConsoleInv, ChoiceInv
  <2> HIDE DEF Begun, Left
  <2> QED
    BY <1>1, <1>2, <1>3, <2>1 DEF Perform
<1> HIDE DEF Begun, Left
<1>6. Pauses \/ BuildFacts \/ ShowControls \/ Inspect \/ Resolve \/ AfterAction => Begun \/ Left
  BY <1>1, <1>3 DEF Pauses, BuildFacts, ShowControls, Inspect, Resolve, Refuse, AfterAction
<1>7. Operator => Begun \/ Left
  BY <1>1, <1>3 DEF Operator, Take, Controls, Select, Resume, Quit
<1> QED
  BY <1>4, <1>5, <1>6, <1>7 DEF Next, ConsoleStep, Begun, Left

LEMMA NextPass ==
  ASSUME ConsoleInv, ConsoleInv', PassInv, Next
  PROVE  PassInv' /\ (call # None => AnswerAssembled)
<1>1. CASE OnSurface
  <2>1. CASE SurfaceStep
    BY <2>1, SurfaceStepPass DEF ConsoleInv
  <2>2. CASE PageStep
    <3>1. call # None => answer' = None
      BY <2>2, PageStepKeeps DEF ConsoleInv, SurfaceInv, FrameInv
    <3> QED
      BY <2>2, <3>1, PagePass DEF ConsoleInv, AnswerAssembled
  <2> QED
    BY <1>1, <2>1, <2>2 DEF OnSurface
<1>2. CASE ~OnSurface
  <2>1. CASE call' = call /\ shown' = shown /\ answer' = None
    BY <2>1 DEF PassInv, Assemblies, PassOver, Askable, AnswerAssembled
  <2>2. ASSUME NEW op, NEW arg, Begin(op, arg), op # "settle" => Askable(op, arg)
        PROVE  PassInv' /\ (call # None => AnswerAssembled)
    <3>1. /\ call = None
          /\ call' = [op |-> op, arg |-> arg, next |-> 1, acc |-> << >>, tries |-> 0,
                      waits |-> 0, found |-> None, hits |-> 0]
      BY <2>2 DEF Begin
    <3>2. call'.op = op /\ call'.arg = arg /\ call'.next = 1 /\ call'.acc = << >>
      BY <3>1
    <3>3. CASE call' = None
      BY <3>1, <3>3 DEF PassInv
    <3>4. CASE call' # None
      BY <2>2, <3>1, <3>2, <3>4, PassBegins DEF ConsoleInv
    <3> QED
      BY <3>3, <3>4
  <2> QED
    BY <1>2, <2>1, <2>2, ConsoleAsks
<1> QED
  BY <1>1, <1>2

LEMMA PassInvariance == Spec => []PassInv
<1>1. Init => PassInv
  BY DEF Init, SurfaceInit, PassInv
<1>2. PassInv /\ UNCHANGED vars => PassInv'
  BY DEF vars, surfaceVars, PassInv, Assemblies, PassOver, Askable
<1>3. ConsoleInv /\ ConsoleInv' /\ PassInv /\ [Next]_vars => PassInv'
  BY <1>2, NextPass
<1> QED
  BY Invariance, <1>1, <1>3, PTL DEF Spec

-----------------------------------------------------------------------------
(* What follows *)

\* Whatever the retries, the polls and the early stops, and however the frames
\* navigate meanwhile, a read of the surface returns what a single pass over one
\* page of documents that were all shown during the call would: for every page
\* and every number of frames.
THEOREM ReadsAreAssembled == Spec => AnswersAssembled
<1>1. ConsoleInv /\ ConsoleInv' /\ PassInv /\ [Next]_vars => [AnswerAssembled]_surfaceVars
  <2>1. call = None => AnswerAssembled
    BY DEF AnswerAssembled
  <2> QED
    BY <2>1, NextPass DEF vars
<1> QED
  BY Invariance, PassInvariance, <1>1, PTL DEF Spec, AnswersAssembled

-----------------------------------------------------------------------------
(* The operator's choice *)

\* The listing of a page, of one document in each frame.
ListingOn(a) == FlattenSeq([i \in DOMAIN FrameOrder |-> Page[a[FrameOrder[i]]].listed])

\* The pages of documents that were shown while the choice was resolved again.
Resolved == {a \in [FrameName -> Document] : \A f \in FrameName : a[f] \in basis[f]}

OnlyNamesake(c) == \E a \in Resolved : Cardinality(Namesakes(a, c)) = 1

\* What the choice is resolved in is a listing of one of those pages; once
\* resolved it is displayed, has no second one alike on one of them, and is what
\* is acted on, the human holding the lease all along.
ResolvedInv ==
  /\ at = "resolve" => chosen \in displayed /\ (call # None => call.arg = None)
  /\ Got("resolve") => \E a \in Resolved : answer.value = ListingOn(a)
  /\ at \in {"settling", "acting"} =>
       owner = "human" /\ chosen \in displayed /\ OnlyNamesake(chosen)
  /\ at = "acting" /\ call # None => call.arg = chosen

\* A page whose listing has one control alike has one: places in the listing are
\* places in the listings of the frames.
LEMMA OneAlikeOneNamesake ==
  ASSUME NEW a \in [FrameName -> Document], NEW c, Cardinality(Alike(c, ListingOn(a))) = 1
  PROVE  Cardinality(Namesakes(a, c)) = 1
<1> DEFINE S == Control \cup {Nameless}
           n == Len(FrameOrder)
           s == [i \in DOMAIN FrameOrder |-> Page[a[FrameOrder[i]]].listed]
           T == {d \in S : d # Nameless /\ Fold[d] = Fold[c]}
           all == FlattenSeq(s)
<1>1. /\ FrameOrder \in Seq(FrameName) /\ n \in Nat /\ DOMAIN FrameOrder = 1 .. n
      /\ \A i \in 1 .. n : FrameOrder[i] \in FrameName
  BY SurfaceAssumption
<1>2. \A f \in FrameName : Page[a[f]].listed \in Seq(S)
  BY SurfaceAssumption
<1>3. s \in Seq(Seq(S)) /\ Len(s) = n /\ \A i \in 1 .. n : s[i] = Page[a[FrameOrder[i]]].listed
  <2>1. \A i \in 1 .. n : Page[a[FrameOrder[i]]].listed \in Seq(S)
    BY <1>1, <1>2
  <2> DEFINE r(i) == Page[a[FrameOrder[i]]].listed
  <2> HIDE DEF r
  <2>2. \A i \in 1 .. n : r(i) \in Seq(S)
    BY <2>1 DEF r
  <2>3. s = [i \in 1 .. n |-> r(i)]
    BY <1>1 DEF r
  <2>4. s \in Seq(Seq(S)) /\ Len(s) = n /\ \A i \in 1 .. n : s[i] = r(i)
    BY <1>1, <2>2, <2>3
  <2> QED
    BY <2>4 DEF r
<1> HIDE DEF s
<1>4. all \in Seq(S) /\ DOMAIN all = 1 .. Len(all) /\ Len(all) \in Nat
  BY <1>3, FlattenIsSeq
<1>5. Alike(c, all) = {i \in 1 .. Len(all) : all[i] \in T}
  BY <1>4 DEF Alike, Named
<1>6. PICK k : Alike(c, all) = {k}
  <2>1. IsFiniteSet(1 .. Len(all))
    BY <1>4, FS_Interval
  <2>2. IsFiniteSet(Alike(c, all))
    BY <1>5, <2>1, FS_Subset
  <2>3. Cardinality(Alike(c, all)) = 1
    BY DEF ListingOn, s
  <2> QED
    BY <2>2, <2>3, FS_Singleton
<1>7. /\ k \in 1 .. Len(all) /\ all[k] \in T
      /\ \A m \in 1 .. Len(all) : all[m] \in T => m = k
  BY <1>5, <1>6
<1>8. PICK i \in 1 .. n : \E j \in 1 .. Len(s[i]) :
        /\ s[i][j] \in T
        /\ \A g \in 1 .. n : \A h \in 1 .. Len(s[g]) : s[g][h] \in T => g = i /\ h = j
  <2>1. s \in Seq(Seq(S)) /\ n = Len(s)
    BY <1>3
  <2> HIDE DEF T, S, n
  <2>2. \E i \in 1 .. Len(s) : \E j \in 1 .. Len(s[i]) :
          /\ s[i][j] \in T
          /\ \A g \in 1 .. Len(s) : \A h \in 1 .. Len(s[g]) : s[g][h] \in T => g = i /\ h = j
    BY <1>7, <2>1, FlattenOnly
  <2> QED
    BY <2>1, <2>2
<1>9. PICK j \in 1 .. Len(s[i]) :
        /\ s[i][j] \in T
        /\ \A g \in 1 .. n : \A h \in 1 .. Len(s[g]) : s[g][h] \in T => g = i /\ h = j
  BY <1>8
<1> DEFINE Of(f) == {<< f, h >> : h \in {h \in DOMAIN Page[a[f]].listed :
                                           LET d == Page[a[f]].listed[h] IN
                                           d # Nameless /\ Fold[d] = Fold[c]}}
<1>10. \A g \in 1 .. n : \A x :
         x \in Of(FrameOrder[g]) <=> g = i /\ x = << FrameOrder[i], j >>
  <2> TAKE g \in 1 .. n
  <2> DEFINE f == FrameOrder[g]
  <2>1. s[g] = Page[a[f]].listed /\ s[g] \in Seq(S) /\ DOMAIN s[g] = 1 .. Len(s[g])
    BY <1>3
  <2>2. \A h \in 1 .. Len(s[g]) : s[g][h] \in S
    BY <2>1
  <2>3. Of(f) = {<< f, h >> : h \in {h \in 1 .. Len(s[g]) : s[g][h] \in T}}
    BY <2>1, <2>2
  <2>4. {h \in 1 .. Len(s[g]) : s[g][h] \in T} = IF g = i THEN {j} ELSE {}
    <3> HIDE DEF T, S
    <3> QED
      BY <1>9
  <2> HIDE DEF Of, T, f
  <2>5. \A x : x \in Of(f) <=> g = i /\ x = << f, j >>
    BY <2>3, <2>4
  <2> QED
    BY <2>5 DEF f
<1>11. Namesakes(a, c) = UNION {Of(f) : f \in FrameName}
  BY DEF Namesakes
<1>12. FrameName = {FrameOrder[g] : g \in 1 .. n}
  BY <1>1 DEF FrameName, Range
<1>13. Namesakes(a, c) = {<< FrameOrder[i], j >>}
  <2> HIDE DEF Of, n
  <2> QED
    BY <1>10, <1>11, <1>12
<1> QED
  BY <1>13, FS_Singleton

LEMMA UpdatesKeepArgument ==
  ASSUME NEW c, IsCall(c), NEW d, NEW x, NEW n, NEW m,
         \/ d = [c EXCEPT !.acc = x, !.next = n, !.tries = m]
         \/ d = [c EXCEPT !.acc = x, !.next = n, !.waits = m]
         \/ d = [c EXCEPT !.acc = x, !.waits = m]
         \/ d = [c EXCEPT !.acc = x]
         \/ d = [c EXCEPT !.found = x]
         \/ d = [c EXCEPT !.tries = m]
         \/ d = [c EXCEPT !.hits = m]
  PROVE  d.arg = c.arg /\ IsCall(d)
<1> DEFINE of(acc, next, tries, waits, found, hits) ==
             [op |-> c.op, arg |-> c.arg, next |-> next, acc |-> acc, tries |-> tries,
              waits |-> waits, found |-> found, hits |-> hits]
<1>1. c = of(c.acc, c.next, c.tries, c.waits, c.found, c.hits)
  BY DEF IsCall
<1>2. \/ d = of(x, n, m, c.waits, c.found, c.hits)
      \/ d = of(x, n, c.tries, m, c.found, c.hits)
      \/ d = of(x, c.next, c.tries, m, c.found, c.hits)
      \/ d = of(x, c.next, c.tries, c.waits, c.found, c.hits)
      \/ d = of(c.acc, c.next, c.tries, c.waits, x, c.hits)
      \/ d = of(c.acc, c.next, m, c.waits, c.found, c.hits)
      \/ d = of(c.acc, c.next, c.tries, c.waits, c.found, m)
  BY <1>1
<1> QED
  BY <1>2 DEF IsCall

LEMMA ArgumentStays ==
  ASSUME SurfaceInv, SurfaceStep, call' # None
  PROVE  call # None /\ call'.arg = call.arg
<1>1. call # None
  BY DEF SurfaceStep, Evaluate, Scanning, TransientError, DriverError, Land, FinishAct, Settle
<1>2. IsCall(call)
  BY <1>1 DEF SurfaceInv, CallInv, CallOK
<1>3. ASSUME NEW c, IsCall(c), c.arg = call.arg, FinishPass(c)
      PROVE  call'.arg = call.arg
  <2>1. \/ call' = [c EXCEPT !.acc = << >>, !.next = 1, !.waits = @ + 1]
        \/ call' = [c EXCEPT !.found = Decide(c.op, c.arg, c.acc).value]
    BY <1>3 DEF FinishPass, NextPoll, Continue, Return
  <2>2. call'.arg = c.arg
    BY <1>3, <2>1, UpdatesKeepArgument
  <2> QED
    BY <1>3, <2>2
<1>4. CASE Evaluate
  <2> DEFINE got == Reading(call.op, call.arg, FramesOf(call.arg)[call.next],
                            shows[FramesOf(call.arg)[call.next]])
             c == [call EXCEPT !.acc = @ \o got, !.next = @ + 1, !.tries = 0]
  <2>1. FinishPass(c) \/ call' = c
    BY <1>4 DEF Evaluate, Continue
  <2> HIDE DEF got
  <2>2. c = [call EXCEPT !.acc = call.acc \o got, !.next = call.next + 1, !.tries = 0]
    OBVIOUS
  <2> HIDE DEF c
  <2>3. IsCall(c) /\ c.arg = call.arg
    BY <1>2, <2>2, UpdatesKeepArgument
  <2>4. CASE FinishPass(c)
    BY <1>1, <1>3, <2>3, <2>4
  <2>5. CASE call' = c
    BY <1>1, <2>3, <2>5
  <2> QED
    BY <2>1, <2>4, <2>5
<1>5. CASE TransientError \/ Land \/ Settle
  <2>1. \/ call' = [call EXCEPT !.tries = call.tries + 1]
        \/ call' = [call EXCEPT !.hits = call.hits + 1]
        \/ call' = [call EXCEPT !.acc = Urls]
        \/ call' = [call EXCEPT !.acc = Urls, !.waits = call.waits + 1]
    BY <1>5 DEF TransientError, Land, Settle, Continue, Return
  <2>2. /\ call' = [call EXCEPT !.tries = call.tries + 1] => call'.arg = call.arg
        /\ call' = [call EXCEPT !.hits = call.hits + 1] => call'.arg = call.arg
    BY <1>2, UpdatesKeepArgument
  <2>3. /\ call' = [call EXCEPT !.acc = Urls] => call'.arg = call.arg
        /\ call' = [call EXCEPT !.acc = Urls, !.waits = call.waits + 1] => call'.arg = call.arg
    BY <1>2, UpdatesKeepArgument
  <2> QED
    BY <1>1, <2>1, <2>2, <2>3
<1>6. CASE DriverError \/ FinishAct
  BY <1>6 DEF DriverError, FinishAct, Return
<1> QED
  BY <1>1, <1>4, <1>5, <1>6 DEF SurfaceStep

\* The surface answers the resolution with a listing of one of the pages.
LEMMA ResolvedOnSurface ==
  ASSUME ConsoleInv, ConsoleInv', PassInv, ResolvedInv, OnSurface
  PROVE  ResolvedInv'
<1>1. UNCHANGED << owner, at, displayed, chosen >>
  BY DEF OnSurface, lease
<1>2. call' # None => call # None /\ call'.arg = call.arg
  <2>1. CASE SurfaceStep
    BY <2>1, ArgumentStays DEF ConsoleInv
  <2>2. CASE PageStep
    BY <2>2, PageStepKeeps DEF ConsoleInv
  <2> QED
    BY <2>1, <2>2 DEF OnSurface
<1>3. at # "resolve" => basis' = basis
  BY DEF OnSurface
<1>4. at \in {"settling", "acting"} =>
        owner' = "human" /\ chosen' \in displayed' /\ OnlyNamesake(chosen)'
  BY <1>1, <1>3 DEF ResolvedInv, OnlyNamesake, Resolved
<1>5. ASSUME Got("resolve")'
      PROVE  (\E a \in Resolved : answer.value = ListingOn(a))'
  <2>1. at = "resolve" /\ answer' # None /\ answer'.error = None /\ call' = None
    BY <1>1, <1>5 DEF Got, Answered, ConsoleInv, SurfaceInv, FrameInv
  <2>2. CASE call = None
    <3>1. ~SurfaceStep
      BY <2>2 DEF SurfaceStep, Evaluate, Scanning, TransientError, DriverError, Land, FinishAct,
                  Settle
    <3>2. answer' = answer
      BY <3>1, PageStepKeeps DEF OnSurface, ConsoleInv
    <3>3. basis' = basis
      BY <2>2 DEF OnSurface
    <3> QED
      BY <2>1, <3>2, <3>3 DEF ResolvedInv, Got, Answered, Resolved
  <2>3. CASE call # None
    <3>1. call.op = "observe" /\ call.arg = None /\ basis' = shown
      BY <2>1, <2>3 DEF ConsoleInv, PlaceInv, Awaits, ResolvedInv, OnSurface
    <3>2. SurfaceStep
      BY <2>1, <2>3, PageStepKeeps DEF OnSurface, ConsoleInv
    <3>3. AnswerAssembled
      BY <3>2, SurfaceStepPass DEF ConsoleInv
    <3>4. answer'.error \notin Raised
      BY <2>1, SurfaceAssumption DEF Raised
    <3>5. PICK a \in Assemblies : answer' = AnswerOn(a)
      BY <2>1, <2>3, <3>1, <3>3, <3>4 DEF AnswerAssembled, Gathering, FirstOf, Acting
    <3>6. FramesOf(call.arg) = FrameOrder
      BY <3>1, SurfaceAssumption DEF FramesOf
    <3>7. AnswerOn(a) = [value |-> ListingOn(a), error |-> None]
      BY <3>1, <3>6 DEF AnswerOn, Decide, Reading, ListingOn, FirstOf, Acting, Locating
    <3>8. a \in Resolved'
      BY <3>1 DEF Assemblies, Resolved
    <3> QED
      BY <3>5, <3>7, <3>8
  <2> QED
    BY <2>2, <2>3
<1> QED
  BY <1>1, <1>2, <1>4, <1>5 DEF ResolvedInv

LEMMA ResolvedByConsole ==
  ASSUME ConsoleInv, ResolvedInv, Next, ~OnSurface
  PROVE  ResolvedInv'
<1>1. CASE at' \notin {"resolve", "settling", "acting"}
  BY <1>1 DEF ResolvedInv, Got, Answered
<1>2. CASE Select
  BY <1>2 DEF Select, Go, Begin, ResolvedInv, Got, Answered
<1>3. CASE /\ Got("resolve") /\ Cardinality(Alike(chosen, answer.value)) = 1 /\ owner = "human"
           /\ Go("settling", "settle", None)
           /\ UNCHANGED << displayed, chosen, intent, basis, lease >>
  <2>1. PICK a \in Resolved : answer.value = ListingOn(a)
    BY <1>3 DEF ResolvedInv
  <2>2. Cardinality(Namesakes(a, chosen)) = 1
    BY <1>3, <2>1, OneAlikeOneNamesake DEF Resolved
  <2>3. OnlyNamesake(chosen) /\ chosen \in displayed
    BY <1>3, <2>1, <2>2 DEF OnlyNamesake, ResolvedInv, Got, Answered
  <2>4. OnlyNamesake(chosen)' /\ chosen' \in displayed' /\ owner' = "human" /\ at' = "settling"
    BY <1>3, <2>3 DEF OnlyNamesake, Resolved, Go, lease
  <2> QED
    BY <2>4 DEF ResolvedInv, Got, Answered
<1>4. CASE Got("settling") /\ Go("acting", intent, chosen) /\ KeepChoice /\ UNCHANGED lease
  <2>1. OnlyNamesake(chosen) /\ chosen \in displayed /\ owner = "human"
    BY <1>4 DEF ResolvedInv, Got, Answered
  <2>2. OnlyNamesake(chosen)' /\ chosen' \in displayed' /\ owner' = "human" /\ at' = "acting"
    BY <1>4, <2>1 DEF OnlyNamesake, Resolved, Go, lease, KeepChoice
  <2>3. call'.arg = chosen'
    BY <1>4 DEF Go, Begin, KeepChoice
  <2> QED
    BY <2>2, <2>3 DEF ResolvedInv, Got, Answered
<1>5. CASE Resolve \/ Perform
  BY <1>1, <1>3, <1>4, <1>5 DEF Resolve, Perform, Refuse, Prompt, Uncaught, End, Go
<1>6. CASE SessionCalls \/ Pauses \/ BuildFacts \/ ShowControls \/ Inspect \/ AfterAction
  BY <1>1, <1>6 DEF SessionCalls, Pauses, BuildFacts, ShowControls, Inspect, AfterAction, Prompt,
                    Uncaught, End, Go
<1>7. CASE Take \/ Controls \/ Resume \/ Quit
  BY <1>1, <1>7 DEF Take, Controls, Resume, Quit, Prompt, End, Go
<1> QED
  BY <1>2, <1>5, <1>6, <1>7 DEF Next, ConsoleStep, Operator

LEMMA ResolvedInvariance == Spec => []ResolvedInv
<1>1. Init => ResolvedInv
  BY DEF Init, ResolvedInv, Got, Answered
<1>2. ResolvedInv /\ UNCHANGED vars => ResolvedInv'
  BY DEF vars, surfaceVars, consoleVars, lease, ResolvedInv, Got, Answered, Resolved,
         OnlyNamesake
<1>3. ConsoleInv /\ ConsoleInv' /\ PassInv /\ ResolvedInv /\ [Next]_vars => ResolvedInv'
  BY <1>2, ResolvedOnSurface, ResolvedByConsole
<1> QED
  BY Invariance, PassInvariance, <1>1, <1>3, PTL DEF Spec

\* What the operator's act hits, while nobody but the operator holds the lease,
\* is a control on display, and some page of documents shown while it was
\* resolved again had no second one alike: for every page, every number of
\* frames and however they navigate between the choice, its resolution and the
\* act.
THEOREM ActsAreOnDisplay == Spec => ActsOnDisplayed
<1>1. ConsoleInv /\ ResolvedInv /\ [Next]_vars =>
        [(at = "acting" /\ Hits(call') > Hits(call)) =>
           /\ owner = "human"
           /\ call.arg \in displayed
           /\ \E a \in [FrameName -> Document] :
                /\ \A f \in FrameName : a[f] \in basis[f]
                /\ Cardinality(Namesakes(a, call.arg)) = 1]_vars
  <2> SUFFICES ASSUME ConsoleInv, ResolvedInv, Next, at = "acting", Hits(call') > Hits(call)
               PROVE  /\ owner = "human"
                      /\ call.arg \in displayed
                      /\ \E a \in [FrameName -> Document] :
                           /\ \A f \in FrameName : a[f] \in basis[f]
                           /\ Cardinality(Namesakes(a, call.arg)) = 1
    OBVIOUS
  <2>1. call # None
    BY OnlyLandHits DEF Land
  <2>2. call.arg = chosen /\ owner = "human" /\ chosen \in displayed /\ OnlyNamesake(chosen)
    BY <2>1 DEF ResolvedInv
  <2> QED
    BY <2>2 DEF OnlyNamesake, Resolved
<1> QED
  BY Invariance, ResolvedInvariance, <1>1, PTL DEF Spec, ActsOnDisplayed

=============================================================================
