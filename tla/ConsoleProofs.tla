---------------------------- MODULE ConsoleProofs ----------------------------
(***************************************************************************)
(* Where an act lands, for every page, every set of frames and every way    *)
(* the console and the session use the surface.                             *)
(***************************************************************************)
EXTENDS OperatorConsole, SequenceTheorems, TLAPS

-----------------------------------------------------------------------------
(* The invariant *)

\* A frame shows, during a call, one of the documents it has shown during it.
FrameInv ==
  /\ shows \in [FrameName -> Document]
  /\ shown \in [FrameName -> SUBSET Document]
  /\ call # None => \A f \in FrameName : shows[f] \in shown[f]
  /\ call = None \/ answer = None

\* A frame of the target was seen without it during the call.
Without(c, f) == \E d \in shown[f] : Page[d].matches[c.arg] = 0

\* What a locator's pass has found so far: nothing yet, one element in one
\* frame, or several.
PassSoFar(c) ==
  LET frames == FramesOf(c.arg) IN
  /\ c.acc \in Seq(FrameName)
  /\ Len(c.acc) = 0 => \A k \in 1 .. c.next - 1 : Without(c, frames[k])
  /\ Len(c.acc) = 1 => \A k \in 1 .. c.next - 1 : frames[k] # c.acc[1] => Without(c, frames[k])

IsCall(c) ==
  c = [op |-> c.op, arg |-> c.arg, next |-> c.next, acc |-> c.acc, tries |-> c.tries,
       waits |-> c.waits, found |-> c.found, hits |-> c.hits]

CallOK(c) ==
  /\ IsCall(c)
  /\ c.op \in Op
  /\ c.hits \in Nat
  /\ c.op \in Acting => c.arg \in Control
  /\ c.op = "observe" => c.acc \in Seq(Control \cup {Nameless})
  /\ c.op = "blocker" => c.acc \in Seq(Seq(Control \cup {Nameless}))
  /\ c.found = None => c.next \in 1 .. Len(FramesOf(c.arg))
  /\ c.op \in Acting /\ c.found = None => PassSoFar(c)
  /\ c.found # None =>
       /\ c.op \in Acting
       /\ \A f \in Range(Scoped[c.arg]) \ {c.found} : Without(c, f)

CallInv == call # None => CallOK(call)

\* What a call returned is a listing where a listing was asked for.
Listed(op, a) ==
  a # None /\ a.error = None =>
    /\ op = "observe" => a.value \in Seq(Control \cup {Nameless})
    /\ op = "blocker" => a.value = None \/ a.value \in Seq(Control \cup {Nameless})

\* The call in progress is one the console's place awaits.
PlaceInv ==
  /\ call # None => at \in DOMAIN Awaits /\ call.op \in Awaits[at]
  /\ at \in {"list", "resolve"} => Listed("observe", answer)
  /\ at \in {"show", "after"} => Listed("blocker", answer)

\* What is displayed, chosen and acted on are controls, an act's by name.
ChoiceInv ==
  /\ displayed \subseteq Control \cup {Nameless}
  /\ at = "resolve" => chosen \in Control \cup {Nameless} /\ intent \in {"click", "type", "submit"}
  /\ at = "settling" => chosen \in Control /\ intent \in {"click", "type", "submit"}

SurfaceInv == FrameInv /\ CallInv

ConsoleInv == SurfaceInv /\ PlaceInv /\ ChoiceInv

-----------------------------------------------------------------------------
(* The frames of a target *)

LEMMA FramesAreFrames ==
  ASSUME NEW arg
  PROVE  /\ FramesOf(arg) \in Seq(FrameName)
         /\ Len(FramesOf(arg)) \in Nat \ {0}
         /\ \A k \in 1 .. Len(FramesOf(arg)) : FramesOf(arg)[k] \in FrameName
<1>1. FramesOf(arg) \in Seq(FrameName) \ {<< >>}
  BY SurfaceAssumption DEF FramesOf
<1> QED
  BY <1>1

LEMMA ControlFrames ==
  ASSUME NEW c \in Control
  PROVE  /\ FramesOf(c) = Scoped[c]
         /\ Range(Scoped[c]) = {FramesOf(c)[k] : k \in 1 .. Len(FramesOf(c))}
<1>1. FramesOf(c) = Scoped[c] /\ Scoped[c] \in Seq(FrameName)
  BY SurfaceAssumption DEF FramesOf
<1>2. DOMAIN Scoped[c] = 1 .. Len(Scoped[c])
  BY <1>1
<1> QED
  BY <1>1, <1>2 DEF Range

\* One frame's matches of a control, each an occurrence of the frame.
LEMMA Matches ==
  ASSUME NEW op \in Acting, NEW c \in Control, NEW f \in FrameName, NEW d \in Document
  PROVE  /\ Page[d].matches[c] \in Nat
         /\ Reading(op, c, f, d) \in Seq(FrameName)
         /\ Len(Reading(op, c, f, d)) = Page[d].matches[c]
         /\ Page[d].matches[c] = 1 => Reading(op, c, f, d)[1] = f
<1>1. Page[d].matches[c] \in Nat /\ c \notin Cell
  BY SurfaceAssumption
<1>2. Reading(op, c, f, d) = [i \in 1 .. Page[d].matches[c] |-> f]
  BY <1>1 DEF Reading, Locating, Acting
<1>3. \A n \in Nat : /\ [i \in 1 .. n |-> f] \in Seq(FrameName)
                     /\ Len([i \in 1 .. n |-> f]) = n
                     /\ n = 1 => [i \in 1 .. n |-> f][1] = f
  OBVIOUS
<1> QED
  BY <1>1, <1>2, <1>3

-----------------------------------------------------------------------------
(* The steps of the surface *)

\* A step goes on with the call, or ends it; only Land adds a hit.
Answers ==
  /\ call' # None => call'.op = call.op /\ answer' = None /\ (call'.hits = call.hits \/ Land)
  /\ Listed(call.op, answer')

LEMMA BeginKeeps ==
  ASSUME SurfaceInv, NEW op \in Op, NEW arg, op \in Acting => arg \in Control, Begin(op, arg)
  PROVE  SurfaceInv' /\ call'.op = op
<1> DEFINE c == [op |-> op, arg |-> arg, next |-> 1, acc |-> << >>, tries |-> 0, waits |-> 0,
                 found |-> None, hits |-> 0]
<1>1. call' = c /\ shown' = [f \in FrameName |-> {shows[f]}] /\ shows' = shows /\ answer' = None
  BY DEF Begin
<1>2. FrameInv'
  BY <1>1 DEF SurfaceInv, FrameInv
<1>3. 1 \in 1 .. Len(FramesOf(arg))
  BY FramesAreFrames
<1>4. PassSoFar(c)
  BY FramesAreFrames DEF PassSoFar
<1>5. c.op = op /\ c.arg = arg /\ c.next = 1 /\ c.acc = << >> /\ c.found = None /\ c.hits = 0
  OBVIOUS
<1>6. PassSoFar(c)'
  BY FramesAreFrames, <1>5 DEF PassSoFar
<1>7. CallOK(c)'
  BY <1>3, <1>5, <1>6 DEF CallOK, IsCall
<1> QED
  BY <1>1, <1>2, <1>7 DEF SurfaceInv, CallInv

LEMMA ReturnKeeps ==
  ASSUME SurfaceInv, NEW value, NEW error, Return(value, error), UNCHANGED shows
  PROVE  SurfaceInv' /\ call' = None /\ answer' = [value |-> value, error |-> error]
  BY DEF SurfaceInv, FrameInv, CallInv, Return

LEMMA ContinueKeeps ==
  ASSUME SurfaceInv, call # None, NEW c, CallOK(c), Continue(c), UNCHANGED shows,
         c.op = call.op, c.hits = call.hits \/ Land
  PROVE  SurfaceInv' /\ Answers
<1>1. call' = c /\ shown' = shown /\ answer' = answer /\ shows' = shows
  BY DEF Continue
<1>2. CallOK(call)'
  BY <1>1 DEF CallOK, IsCall, PassSoFar, Without
<1>3. FrameInv'
  BY <1>1 DEF SurfaceInv, FrameInv
<1>4. answer' = None
  BY <1>1 DEF SurfaceInv, FrameInv
<1> QED
  BY <1>1, <1>2, <1>3, <1>4 DEF SurfaceInv, CallInv, Answers, Listed

\* What each update of a call keeps.
LEMMA CallPolled ==
  ASSUME NEW c, IsCall(c), NEW d, d = [c EXCEPT !.acc = << >>, !.next = 1, !.waits = @ + 1]
  PROVE  /\ IsCall(d)
         /\ d.op = c.op /\ d.arg = c.arg /\ d.next = 1 /\ d.acc = << >>
         /\ d.found = c.found /\ d.hits = c.hits
  BY DEF IsCall

LEMMA CallFound ==
  ASSUME NEW c, IsCall(c), NEW f, NEW d, d = [c EXCEPT !.found = f]
  PROVE  /\ IsCall(d)
         /\ d.op = c.op /\ d.arg = c.arg /\ d.next = c.next /\ d.acc = c.acc
         /\ d.found = f /\ d.hits = c.hits
  BY DEF IsCall

\* A pass that has one element has it from one frame.
LEMMA Joined ==
  ASSUME NEW S, NEW s \in Seq(S), NEW t \in Seq(S), NEW u, u = s \o t
  PROVE  /\ u \in Seq(S)
         /\ Len(s) \in Nat /\ Len(t) \in Nat
         /\ Len(u) = Len(s) + Len(t)
         /\ Len(s) = 0 /\ Len(t) = 1 => u[1] = t[1]
         /\ Len(s) = 1 /\ Len(t) = 0 => u[1] = s[1]
  BY ConcatProperties

LEMMA SumIsOne == \A a, b \in Nat : a + b = 1 => (a = 1 /\ b = 0) \/ (a = 0 /\ b = 1)
  OBVIOUS

\* What one more frame adds to a locator's pass.
LEMMA PassGoesOn ==
  ASSUME SurfaceInv, Scanning, call.op \in Acting,
         NEW got \in Seq(FrameName),
         Len(got) = 0 => Without(call, FramesOf(call.arg)[call.next]),
         Len(got) = 1 => got[1] = FramesOf(call.arg)[call.next],
         NEW c, c.acc = call.acc \o got, c.next = call.next + 1, c.arg = call.arg
  PROVE  PassSoFar(c) /\ Len(call.acc) \in Nat /\ Len(c.acc) = Len(call.acc) + Len(got)
<1> DEFINE frames == FramesOf(call.arg)
           f == frames[call.next]
<1>1. /\ CallOK(call)
      /\ call.arg \in Control
      /\ call.next \in 1 .. Len(frames)
      /\ PassSoFar(call)
  BY DEF SurfaceInv, CallInv, CallOK, Scanning
<1>6. call.acc \in Seq(FrameName) /\ Len(call.acc) \in Nat /\ Len(got) \in Nat
  BY <1>1 DEF PassSoFar
<1>7. /\ c.acc \in Seq(FrameName)
      /\ Len(c.acc) = Len(call.acc) + Len(got)
      /\ Len(call.acc) = 0 /\ Len(got) = 1 => c.acc[1] = got[1]
      /\ Len(call.acc) = 1 /\ Len(got) = 0 => c.acc[1] = call.acc[1]
  BY <1>6, Joined
<1>8. \A k \in 1 .. c.next - 1 : k \in 1 .. call.next - 1 \/ k = call.next
  BY <1>1
<1>9. Len(got) = 0 => Without(c, f)
  BY DEF Without
<1>10. \A g : Without(call, g) => Without(c, g)
  BY DEF Without
<1>11. Len(c.acc) = 0 => \A k \in 1 .. c.next - 1 : Without(c, frames[k])
  <2>1. Len(c.acc) = 0 => Len(call.acc) = 0 /\ Len(got) = 0
    BY <1>6, <1>7
  <2> QED
    BY <1>1, <1>8, <1>9, <1>10, <2>1 DEF PassSoFar
<1>12. ASSUME Len(c.acc) = 1, NEW k \in 1 .. c.next - 1, frames[k] # c.acc[1]
       PROVE  Without(c, frames[k])
  <2>1. CASE Len(call.acc) = 1 /\ Len(got) = 0
    <3>1. c.acc[1] = call.acc[1]
      BY <2>1, <1>7
    <3> QED
      BY <2>1, <3>1, <1>1, <1>8, <1>9, <1>10, <1>12 DEF PassSoFar
  <2>2. CASE Len(call.acc) = 0 /\ Len(got) = 1
    <3>1. c.acc[1] = f
      BY <2>2, <1>7
    <3> QED
      BY <2>2, <3>1, <1>1, <1>8, <1>10, <1>12 DEF PassSoFar
  <2> QED
    BY <2>1, <2>2, SumIsOne, <1>6, <1>7, <1>12
<1> QED
  BY <1>7, <1>11, <1>12 DEF PassSoFar

LEMMA EvaluateStep == SurfaceInv /\ Evaluate => SurfaceInv' /\ Answers
<1> SUFFICES ASSUME SurfaceInv, Evaluate
             PROVE  SurfaceInv' /\ Answers
  OBVIOUS
<1> DEFINE frames == FramesOf(call.arg)
           f == frames[call.next]
<1> DEFINE got == Reading(call.op, call.arg, f, shows[f])
<1> DEFINE c == [call EXCEPT !.acc = @ \o got, !.next = @ + 1, !.tries = 0]
<1>1. /\ Scanning /\ call # None /\ call.found = None
      /\ UNCHANGED shows
      /\ IF \/ c.next > Len(frames)
            \/ c.op \in FirstOf /\ got # << >>
            \/ c.op \in Acting /\ Len(got) > 1
         THEN FinishPass(c)
         ELSE Continue(c)
  BY DEF Evaluate, Scanning
<1>2. CallOK(call)
  BY <1>1 DEF SurfaceInv, CallInv
<1>3. IsCall(call)
  BY <1>2 DEF CallOK
<1>5. f \in FrameName /\ shows[f] \in Document /\ call.next \in 1 .. Len(frames)
  BY <1>1, <1>2, FramesAreFrames DEF SurfaceInv, FrameInv, CallOK
<1> HIDE DEF f
<1> HIDE DEF got
<1> HIDE DEF c
<1>13. c = [call EXCEPT !.acc = @ \o got, !.next = @ + 1, !.tries = 0]
  BY DEF c
<1>14. call.found = None
  BY <1>1
<1>15. c = [op |-> call.op, arg |-> call.arg, next |-> call.next + 1, acc |-> call.acc \o got,
            tries |-> 0, waits |-> call.waits, found |-> call.found, hits |-> call.hits]
  BY <1>3, <1>13 DEF IsCall
<1>4. /\ IsCall(c)
      /\ c.op = call.op /\ c.arg = call.arg /\ c.next = call.next + 1 /\ c.acc = call.acc \o got
      /\ c.found = None /\ c.hits = call.hits
  BY <1>15, <1>14 DEF IsCall
<1>6. call.op = "observe" => c.acc \in Seq(Control \cup {Nameless})
  <2>1. Page[shows[f]].listed \in Seq(Control \cup {Nameless})
    BY <1>5, SurfaceAssumption
  <2>2. call.op = "observe" => got \in Seq(Control \cup {Nameless})
    BY <2>1 DEF Reading, got, Locating, Acting
  <2> QED
    BY <1>2, <1>4, <2>2, ConcatProperties DEF CallOK
<1>7. call.op = "blocker" => c.acc \in Seq(Seq(Control \cup {Nameless}))
  <2>1. Page[shows[f]].modal \in Seq(Seq(Control \cup {Nameless}))
    BY <1>5, SurfaceAssumption
  <2>2. call.op = "blocker" => got \in Seq(Seq(Control \cup {Nameless}))
    BY <2>1 DEF Reading, got, Locating, Acting
  <2> QED
    BY <1>2, <1>4, <2>2, ConcatProperties DEF CallOK
<1>8. call.op \in Acting =>
        /\ PassSoFar(c) /\ Len(got) \in Nat /\ Len(call.acc) \in Nat
        /\ Len(c.acc) = Len(call.acc) + Len(got)
        /\ call.arg \in Control
  <2>1. call.op \in Acting => call.acc \in Seq(FrameName) /\ call.arg \in Control
    BY <1>1, <1>2 DEF CallOK, PassSoFar
  <2>2. call.op \in Acting =>
          /\ got \in Seq(FrameName) /\ Len(got) \in Nat
          /\ Len(got) = 0 => Without(call, f)
          /\ Len(got) = 1 => got[1] = f
    <3> SUFFICES ASSUME call.op \in Acting
                 PROVE  /\ got \in Seq(FrameName) /\ Len(got) \in Nat
                        /\ Len(got) = 0 => Without(call, f)
                        /\ Len(got) = 1 => got[1] = f
      OBVIOUS
    <3> DEFINE n == Page[shows[f]].matches[call.arg]
    <3>1. /\ n \in Nat /\ got \in Seq(FrameName) /\ Len(got) = n
          /\ n = 1 => got[1] = f
      BY <1>5, <2>1, Matches DEF got
    <3>2. n = 0 => Without(call, f)
      BY <1>1, <1>5 DEF Without, SurfaceInv, FrameInv
    <3> HIDE DEF n
    <3> QED
      BY <3>1, <3>2
  <2> QED
    BY <1>1, <1>4, <2>1, <2>2, PassGoesOn DEF f
<1>9. CASE Continue(c) /\ c.next <= Len(frames)
  <2>1. c.next \in 1 .. Len(FramesOf(c.arg))
    BY <1>4, <1>5, <1>9, FramesAreFrames
  <2>2. CallOK(c)
    BY <1>2, <1>4, <1>6, <1>7, <1>8, <2>1 DEF CallOK
  <2> QED
    BY <1>1, <1>4, <1>9, <2>2, ContinueKeeps
<1>10. CASE FinishPass(c) /\ (c.op \in Acting => c.next > Len(frames) \/ Len(got) > 1)
  <2> DEFINE r == Decide(c.op, c.arg, c.acc)
  <2>1. CASE NextPoll(c) /\ c.op \notin Acting
    <3> DEFINE d == [c EXCEPT !.acc = << >>, !.next = 1, !.waits = @ + 1]
    <3>1. /\ IsCall(d)
          /\ d.op = c.op /\ d.arg = c.arg /\ d.next = 1 /\ d.acc = << >>
          /\ d.found = None /\ d.hits = c.hits
      BY <1>4, CallPolled
    <3>2. << >> \in Seq(Control \cup {Nameless}) /\ << >> \in Seq(Seq(Control \cup {Nameless}))
      OBVIOUS
    <3>3. Continue(d)
      BY <2>1 DEF NextPoll
    <3> HIDE DEF d
    <3>4. 1 \in 1 .. Len(FramesOf(d.arg))
      BY FramesAreFrames
    <3>5. CallOK(d)
      BY <1>2, <1>4, <2>1, <3>1, <3>2, <3>4 DEF CallOK
    <3> QED
      BY <1>1, <1>4, <3>1, <3>3, <3>5, ContinueKeeps
  <2>2. CASE c.op \in Acting /\ r.error = None /\ Continue([c EXCEPT !.found = r.value])
    <3> DEFINE d == [c EXCEPT !.found = r.value]
    <3>1. c.acc \in Seq(FrameName) /\ Len(c.acc) \in Nat
      BY <1>4, <1>8, <2>2 DEF PassSoFar
    <3>2. c.acc # << >> /\ ~ (Len(c.acc) > 1) /\ r.value = IF Len(c.acc) = 1 THEN Head(c.acc) ELSE None
      BY <2>2, SurfaceAssumption DEF Decide, Acting, FirstOf
    <3>3. Len(c.acc) = 1
      <4>1. Len(c.acc) # 0
        BY <3>1, <3>2, EmptySeq
      <4>2. \A n \in Nat : n # 0 /\ ~ (n > 1) => n = 1
        OBVIOUS
      <4> QED
        BY <3>1, <3>2, <4>1, <4>2
    <3>4. r.value = c.acc[1] /\ r.value \in FrameName
      BY <3>1, <3>2, <3>3
    <3>5. c.next > Len(frames)
      BY <1>4, <1>8, <1>10, <2>2, <3>3
    <3>6. c.arg \in Control
      BY <1>4, <1>8, <2>2
    <3>7. \A g \in Range(Scoped[c.arg]) \ {r.value} : Without(c, g)
      <4>1. \A k \in 1 .. Len(FramesOf(c.arg)) : k \in 1 .. c.next - 1
        BY <1>4, <1>5, <3>5, FramesAreFrames
      <4>2. \A k \in 1 .. c.next - 1 : FramesOf(c.arg)[k] # c.acc[1] => Without(c, FramesOf(c.arg)[k])
        BY <1>4, <1>8, <2>2, <3>3 DEF PassSoFar
      <4>3. Range(Scoped[c.arg]) = {FramesOf(c.arg)[k] : k \in 1 .. Len(FramesOf(c.arg))}
        BY <3>6, ControlFrames
      <4>4. r.value = c.acc[1]
        BY <3>4
      <4> HIDE DEF r
      <4> QED
        BY <4>1, <4>2, <4>3, <4>4
    <3> HIDE DEF r, d
    <3>13. d = [c EXCEPT !.found = r.value]
      BY DEF d
    <3>14. IsCall(c)
      BY <1>4
    <3>8. /\ IsCall(d)
          /\ d.op = c.op /\ d.arg = c.arg /\ d.acc = c.acc
          /\ d.found = r.value /\ d.hits = c.hits
      BY <3>14, <3>13, CallFound
    <3>9. d.found # None /\ d.op # "observe" /\ d.op # "blocker"
      BY <2>2, <3>4, <3>8, SurfaceAssumption DEF Acting
    <3>10. \A g \in Range(Scoped[d.arg]) \ {d.found} : Without(d, g)
      BY <3>7, <3>8 DEF Without
    <3>11. CallOK(d)
      BY <1>2, <1>4, <2>2, <3>6, <3>8, <3>9, <3>10 DEF CallOK
    <3>12. Continue(d)
      BY <2>2 DEF d
    <3> QED
      BY <1>1, <1>4, <3>8, <3>11, <3>12, ContinueKeeps
  <2>3. CASE Return(r.value, r.error)
    <3>1. Listed(call.op, [value |-> r.value, error |-> r.error])
      <4>1. CASE call.op = "observe"
        <5>1. r.value = c.acc
          BY <1>4, <4>1 DEF Decide, FirstOf, Acting
        <5> HIDE DEF r
        <5> QED
          BY <1>6, <4>1, <5>1 DEF Listed
      <4>2. CASE call.op = "blocker"
        <5>1. r.value = IF c.acc = << >> THEN None ELSE Head(c.acc)
          BY <1>4, <4>2 DEF Decide, FirstOf, Acting
        <5>2. c.acc # << >> => Head(c.acc) \in Seq(Control \cup {Nameless})
          BY <1>7, <4>2
        <5> HIDE DEF r
        <5> QED
          BY <4>2, <5>1, <5>2 DEF Listed
      <4> QED
        BY <4>1, <4>2 DEF Listed
    <3> HIDE DEF r
    <3> QED
      BY <1>1, <2>3, <3>1, ReturnKeeps DEF Answers
  <2>5. CASE Return(None, None) /\ c.op = "heading_change"
    BY <1>1, <1>4, <2>5, ReturnKeeps DEF Answers, Listed
  <2>4. c.arg \in Cell => c.op \notin Acting
    BY <1>4, <1>8, SurfaceAssumption
  <2> QED
    BY <1>10, <2>1, <2>2, <2>3, <2>4, <2>5 DEF FinishPass, Acting
<1>11. Len(frames) \in Nat /\ c.next \in Nat
  BY <1>4, <1>5, FramesAreFrames
<1>12. c.op \in FirstOf => c.op \notin Acting
  BY DEF FirstOf, Acting
<1> QED
  BY <1>1, <1>9, <1>10, <1>11, <1>12

LEMMA SurfaceStepKeeps == SurfaceInv /\ SurfaceStep => SurfaceInv' /\ Answers
<1> SUFFICES ASSUME SurfaceInv, SurfaceStep
             PROVE  SurfaceInv' /\ Answers
  OBVIOUS
<1>1. CASE Evaluate
  BY <1>1, EvaluateStep
<1>2. call # None => IsCall(call) /\ CallOK(call)
  BY DEF SurfaceInv, CallInv, CallOK
<1>3. CASE TransientError
  <2>1. /\ call # None /\ call.found = None /\ UNCHANGED shows
        /\ Return(None, "transient") \/ Continue([call EXCEPT !.tries = @ + 1])
    BY <1>3 DEF TransientError, Scanning
  <2>2. CASE Return(None, "transient")
    BY <2>1, <2>2, ReturnKeeps, SurfaceAssumption DEF Answers, Listed
  <2>3. CASE Continue([call EXCEPT !.tries = @ + 1])
    <3> DEFINE c == [call EXCEPT !.tries = @ + 1]
    <3>1. c = [op |-> call.op, arg |-> call.arg, next |-> call.next, acc |-> call.acc,
               tries |-> call.tries + 1, waits |-> call.waits, found |-> call.found,
               hits |-> call.hits]
      BY <1>2, <2>1 DEF IsCall
    <3>2. Continue(c)
      BY <2>3
    <3> HIDE DEF c
    <3>3. CallOK(c) /\ c.op = call.op /\ c.hits = call.hits
      BY <1>2, <2>1, <3>1 DEF CallOK, IsCall, PassSoFar, Without
    <3> QED
      BY <2>1, <3>2, <3>3, ContinueKeeps
  <2> QED
    BY <2>1, <2>2, <2>3
<1>4. CASE DriverError
  <2>1. UNCHANGED shows /\ Return(None, IF call.op = "settle" THEN None ELSE "driver")
    BY <1>4 DEF DriverError
  <2> QED
    BY <2>1, ReturnKeeps, SurfaceAssumption DEF Answers, Listed
<1>5. CASE Land
  <2> DEFINE c == [call EXCEPT !.hits = @ + 1]
  <2>1. call # None /\ call.found # None /\ UNCHANGED shows /\ Continue(c)
    BY <1>5 DEF Land
  <2>2. c = [op |-> call.op, arg |-> call.arg, next |-> call.next, acc |-> call.acc,
             tries |-> call.tries, waits |-> call.waits, found |-> call.found,
             hits |-> call.hits + 1]
    BY <1>2, <2>1 DEF IsCall
  <2> HIDE DEF c
  <2>3. CallOK(c) /\ c.op = call.op
    BY <1>2, <2>1, <2>2 DEF CallOK, IsCall, Without
  <2> QED
    BY <1>5, <2>1, <2>3, ContinueKeeps
<1>6. CASE FinishAct
  <2>1. /\ call # None /\ call.found # None /\ UNCHANGED shows
        /\ \E error : Return(None, error)
    BY <1>6 DEF FinishAct
  <2>2. call.op \in Acting
    BY <1>2, <2>1 DEF CallOK
  <2> QED
    BY <2>1, <2>2, ReturnKeeps DEF Answers, Listed, Acting
<1>7. CASE Settle
  <2>1. call # None /\ call.op = "settle" /\ UNCHANGED shows
    BY <1>7 DEF Settle
  <2>2. \/ Return(None, None)
        \/ Continue([call EXCEPT !.acc = Urls])
        \/ Continue([call EXCEPT !.acc = Urls, !.waits = @ + 1])
    BY <1>7 DEF Settle
  <2>3. CASE Return(None, None)
    BY <2>1, <2>3, ReturnKeeps DEF Answers, Listed
  <2>4. ASSUME NEW c, Continue(c),
               \/ c = [call EXCEPT !.acc = Urls]
               \/ c = [call EXCEPT !.acc = Urls, !.waits = @ + 1]
        PROVE  SurfaceInv' /\ Answers
    <3> IsCall(call)
      BY <1>2, <2>1
    <3>1. /\ IsCall(c)
          /\ c.op = call.op /\ c.arg = call.arg /\ c.next = call.next
          /\ c.found = call.found /\ c.hits = call.hits
      <4>1. CASE c = [call EXCEPT !.acc = Urls]
        BY <4>1 DEF IsCall
      <4>2. CASE c = [call EXCEPT !.acc = Urls, !.waits = @ + 1]
        BY <4>2 DEF IsCall
      <4> QED
        BY <2>4, <4>1, <4>2
    <3>2. CallOK(c)
      BY <1>2, <2>1, <3>1 DEF CallOK, Acting
    <3> QED
      BY <2>1, <2>4, <3>1, <3>2, ContinueKeeps
  <2> QED
    BY <2>2, <2>3, <2>4
<1> QED
  BY <1>1, <1>3, <1>4, <1>5, <1>6, <1>7 DEF SurfaceStep

\* Whatever the page does meanwhile, what a frame has shown it has shown.
LEMMA PageStepKeeps == SurfaceInv /\ PageStep => SurfaceInv' /\ UNCHANGED << call, answer >>
<1> SUFFICES ASSUME SurfaceInv, NEW f \in FrameName, StartsLoading(f) \/ Commits(f)
             PROVE  SurfaceInv' /\ UNCHANGED << call, answer >>
  BY DEF PageStep
<1>1. CASE StartsLoading(f)
  BY <1>1 DEF StartsLoading, SurfaceInv, FrameInv, CallInv, CallOK, PassSoFar, Without
<1>2. CASE Commits(f)
  <2>1. PICK d \in Goes[f] :
          /\ shows' = [shows EXCEPT ![f] = d]
          /\ shown' = IF call = None THEN shown ELSE [shown EXCEPT ![f] = @ \cup {d}]
          /\ UNCHANGED << call, answer >>
    BY <1>2 DEF Commits
  <2>2. d \in Document
    BY <2>1, SurfaceAssumption
  <2>3. FrameInv'
    BY <2>1, <2>2 DEF SurfaceInv, FrameInv
  <2>4. \A c, g : g \in FrameName /\ Without(c, g) => Without(c, g)'
    BY <2>1 DEF SurfaceInv, FrameInv, Without
  <2>5. call # None => CallOK(call)'
    <3> SUFFICES ASSUME call # None
                 PROVE  CallOK(call)'
      OBVIOUS
    <3>1. CallOK(call) /\ call' = call
      BY <2>1 DEF SurfaceInv, CallInv
    <3>2. call.op \in Acting /\ call.found = None => PassSoFar(call)'
      BY <2>4, <3>1, FramesAreFrames DEF CallOK, PassSoFar
    <3>3. call.op \in Acting => Range(Scoped[call.arg]) \subseteq FrameName
      <4> SUFFICES ASSUME call.op \in Acting
                   PROVE  Range(Scoped[call.arg]) \subseteq FrameName
        OBVIOUS
      <4>1. call.arg \in Control
        BY <3>1 DEF CallOK
      <4>2. \A k \in 1 .. Len(FramesOf(call.arg)) : FramesOf(call.arg)[k] \in FrameName
        BY FramesAreFrames
      <4>3. Range(Scoped[call.arg]) = {FramesOf(call.arg)[k] : k \in 1 .. Len(FramesOf(call.arg))}
        BY <4>1, ControlFrames
      <4> QED
        BY <4>2, <4>3
    <3> QED
      BY <2>4, <3>1, <3>2, <3>3 DEF CallOK, IsCall
  <2> QED
    BY <2>1, <2>3, <2>5 DEF SurfaceInv, CallInv
<1> QED
  BY <1>1, <1>2

-----------------------------------------------------------------------------
(* The steps of the console *)

Asks(place, op) == place \in DOMAIN Awaits /\ op \in Awaits[place] /\ op \in Op

LEMMA Asked ==
  /\ Asks("evidence", "capture") /\ Asks("facts", "heading") /\ Asks("facts_blocker", "blocker")
  /\ Asks("show", "blocker") /\ Asks("list", "observe") /\ Asks("inspect", "heading")
  /\ Asks("inspect_blocker", "blocker") /\ Asks("resolve", "observe")
  /\ Asks("settling", "settle") /\ Asks("settled", "settle") /\ Asks("after", "blocker")
  /\ Asks("after_heading", "heading")
  /\ \A op \in {"click", "type", "submit"} : Asks("acting", op)
  /\ \A op \in Op : Asks("running", op)
  BY DEF Asks, Awaits, Op, Gathering, FirstOf, Acting

LEMMA GoKeeps ==
  ASSUME SurfaceInv, NEW place, NEW op, NEW arg, Asks(place, op),
         op \in Acting => arg \in Control, Go(place, op, arg)
  PROVE  SurfaceInv' /\ PlaceInv' /\ at' = place
<1>1. Begin(op, arg) /\ at' = place /\ op \in Op
  BY DEF Go, Asks
<1>2. answer' = None
  BY <1>1 DEF Begin
<1>3. SurfaceInv' /\ call'.op = op
  BY <1>1, BeginKeeps
<1> QED
  BY <1>1, <1>2, <1>3 DEF Asks, PlaceInv, Listed, Awaits

\* A command or the console ends with no call in progress.
LEMMA QuietKeeps ==
  ASSUME SurfaceInv, call = None, answer' = None, UNCHANGED << shows, call, shown >>
  PROVE  SurfaceInv' /\ PlaceInv'
  BY DEF SurfaceInv, FrameInv, CallInv, PlaceInv, Listed

LEMMA PromptKeeps ==
  ASSUME ConsoleInv, call = None, Prompt, displayed' \subseteq Control \cup {Nameless}
  PROVE  ConsoleInv'
<1>1. SurfaceInv' /\ PlaceInv'
  BY QuietKeeps DEF Prompt, ConsoleInv
<1> QED
  BY <1>1 DEF Prompt, ConsoleInv, ChoiceInv

LEMMA EndKeeps ==
  ASSUME ConsoleInv, call = None, NEW place \in Ended, End(place)
  PROVE  ConsoleInv'
<1>1. SurfaceInv' /\ PlaceInv'
  BY QuietKeeps DEF End, ConsoleInv
<1> QED
  BY <1>1 DEF End, Ended, ConsoleInv, ChoiceInv

\* A read goes to a place where nothing has been chosen.
LEMMA ReadKeeps ==
  ASSUME ConsoleInv, NEW place, place \notin {"resolve", "settling"}, NEW op, NEW arg,
         Asks(place, op), op \in Acting => arg \in Control, Go(place, op, arg),
         UNCHANGED displayed
  PROVE  ConsoleInv'
<1>1. SurfaceInv' /\ PlaceInv' /\ at' = place
  BY GoKeeps DEF ConsoleInv
<1> QED
  BY <1>1 DEF ConsoleInv, ChoiceInv

LEMMA AnsweredIsQuiet == ConsoleInv /\ answer # None => call = None
  BY DEF ConsoleInv, SurfaceInv, FrameInv

LEMMA ReadsAreReads ==
  /\ "capture" \notin Acting /\ "heading" \notin Acting /\ "blocker" \notin Acting
  /\ "observe" \notin Acting /\ "settle" \notin Acting
  BY DEF Acting

\* A listing is displayed: the blocker's controls, or the named ones of the page.
LEMMA DisplayedIsTyped ==
  ASSUME ConsoleInv
  PROVE  /\ Got("show") /\ HasControls(answer.value) =>
              Range(answer.value) \subseteq Control \cup {Nameless}
         /\ Got("after") /\ HasControls(answer.value) =>
              Range(answer.value) \subseteq Control \cup {Nameless}
         /\ Got("list") => Range(answer.value) \ {Nameless} \subseteq Control \cup {Nameless}
<1>1. \A s \in Seq(Control \cup {Nameless}) : Range(s) \subseteq Control \cup {Nameless}
  BY DEF Range
<1>2. /\ (Got("show") \/ Got("after")) /\ HasControls(answer.value) =>
           answer.value \in Seq(Control \cup {Nameless})
      /\ Got("list") => answer.value \in Seq(Control \cup {Nameless})
  BY DEF Got, Answered, HasControls, ConsoleInv, PlaceInv, Listed
<1> QED
  BY <1>1, <1>2

LEMMA InitKeeps == Init => ConsoleInv
<1> SUFFICES ASSUME Init
             PROVE  ConsoleInv
  OBVIOUS
<1>1. FrameInv /\ CallInv
  BY SurfaceAssumption DEF Init, SurfaceInit, FrameInv, CallInv
<1> QED
  BY <1>1 DEF Init, SurfaceInit, ConsoleInv, SurfaceInv, PlaceInv, ChoiceInv, Listed

LEMMA OnSurfaceStep == ConsoleInv /\ OnSurface => ConsoleInv'
<1> SUFFICES ASSUME ConsoleInv, OnSurface
             PROVE  ConsoleInv'
  OBVIOUS
<1>1. UNCHANGED << at, displayed, chosen, intent >>
  BY DEF OnSurface
<1>2. CASE SurfaceStep
  <2>1. SurfaceInv' /\ Answers
    BY <1>2, SurfaceStepKeeps DEF ConsoleInv
  <2>2. call # None
    BY <1>2 DEF SurfaceStep, Evaluate, Scanning, TransientError, DriverError, Land, FinishAct,
                Settle
  <2>3. at \in DOMAIN Awaits /\ call.op \in Awaits[at]
    BY <2>2 DEF ConsoleInv, PlaceInv
  <2>4. /\ at \in {"list", "resolve"} => call.op = "observe"
        /\ at \in {"show", "after"} => call.op = "blocker"
    BY <2>3 DEF Awaits
  <2>5. PlaceInv'
    BY <1>1, <2>1, <2>3, <2>4 DEF PlaceInv, Answers
  <2> QED
    BY <1>1, <2>1, <2>5 DEF ConsoleInv, ChoiceInv
<1>3. CASE PageStep
  BY <1>1, <1>3, PageStepKeeps DEF ConsoleInv, PlaceInv, ChoiceInv
<1> QED
  BY <1>2, <1>3 DEF OnSurface

LEMMA SessionStep == ConsoleInv /\ (SessionCalls \/ Pauses) => ConsoleInv'
<1> SUFFICES ASSUME ConsoleInv, SessionCalls \/ Pauses
             PROVE  ConsoleInv'
  OBVIOUS
<1>1. CASE SessionCalls
  <2>1. PICK c \in Call : Go("running", c[1], c[2]) /\ UNCHANGED displayed
    BY <1>1 DEF SessionCalls, KeepChoice
  <2>2. Asks("running", c[1]) /\ (c[1] \in Acting => c[2] \in Control)
    BY Asked, ConsoleAssumption
  <2> QED
    BY <2>1, <2>2, ReadKeeps
<1>2. CASE Pauses
  <2>1. CASE Go("evidence", "capture", None) /\ UNCHANGED displayed
    BY <2>1, Asked, ReadsAreReads, ReadKeeps
  <2>2. CASE End("returned") /\ call = None
    BY <2>2, EndKeeps DEF Ended
  <2> QED
    BY <1>2, <2>1, <2>2 DEF Pauses, KeepChoice
<1> QED
  BY <1>1, <1>2

LEMMA UncaughtKeeps ==
  ASSUME ConsoleInv, NEW place, Uncaught(place)
  PROVE  ConsoleInv'
<1>1. call = None /\ End("raised")
  BY AnsweredIsQuiet DEF Uncaught, Answered
<1> QED
  BY <1>1, EndKeeps DEF Ended

LEMMA RefuseKeeps ==
  ASSUME ConsoleInv, call = None, Prompt, UNCHANGED displayed
  PROVE  ConsoleInv'
<1>1. displayed' \subseteq Control \cup {Nameless}
  BY DEF ConsoleInv, ChoiceInv
<1> QED
  BY <1>1, PromptKeeps

LEMMA BuildFactsStep == ConsoleInv /\ BuildFacts => ConsoleInv'
<1> SUFFICES ASSUME ConsoleInv, BuildFacts
             PROVE  ConsoleInv'
  OBVIOUS
<1>1. CASE Got("evidence") /\ Go("facts", "heading", None) /\ KeepChoice
  BY <1>1, Asked, ReadsAreReads, ReadKeeps DEF KeepChoice
<1>2. CASE Got("facts") /\ Go("facts_blocker", "blocker", None) /\ KeepChoice
  BY <1>2, Asked, ReadsAreReads, ReadKeeps DEF KeepChoice
<1>3. CASE Got("facts_blocker") /\ Prompt /\ UNCHANGED displayed
  BY <1>3, AnsweredIsQuiet, RefuseKeeps DEF Got, Answered
<1>4. CASE \E place \in {"evidence", "facts", "facts_blocker"} : Uncaught(place)
  BY <1>4, UncaughtKeeps
<1> QED
  BY <1>1, <1>2, <1>3, <1>4 DEF BuildFacts

LEMMA ShowControlsStep == ConsoleInv /\ ShowControls => ConsoleInv'
<1> SUFFICES ASSUME ConsoleInv, ShowControls
             PROVE  ConsoleInv'
  OBVIOUS
<1>1. CASE /\ Got("show") /\ HasControls(answer.value)
           /\ displayed' = Range(answer.value) /\ Prompt
  BY <1>1, AnsweredIsQuiet, DisplayedIsTyped, PromptKeeps DEF Got, Answered
<1>2. CASE Go("list", "observe", None) /\ KeepChoice
  BY <1>2, Asked, ReadsAreReads, ReadKeeps DEF KeepChoice
<1>3. CASE Got("list") /\ displayed' = Range(answer.value) \ {Nameless} /\ Prompt
  BY <1>3, AnsweredIsQuiet, DisplayedIsTyped, PromptKeeps DEF Got, Answered
<1>4. CASE Uncaught("show") \/ Uncaught("list")
  BY <1>4, UncaughtKeeps
<1> QED
  BY <1>1, <1>2, <1>3, <1>4 DEF ShowControls

LEMMA InspectStep == ConsoleInv /\ Inspect => ConsoleInv'
<1> SUFFICES ASSUME ConsoleInv, Inspect
             PROVE  ConsoleInv'
  OBVIOUS
<1>1. CASE Go("inspect", "heading", None) /\ KeepChoice
  BY <1>1, Asked, ReadsAreReads, ReadKeeps DEF KeepChoice
<1>2. CASE Go("inspect_blocker", "blocker", None) /\ KeepChoice
  BY <1>2, Asked, ReadsAreReads, ReadKeeps DEF KeepChoice
<1>3. CASE Got("inspect_blocker") /\ Prompt /\ UNCHANGED displayed
  BY <1>3, AnsweredIsQuiet, RefuseKeeps DEF Got, Answered
<1>4. CASE Uncaught("inspect") \/ Uncaught("inspect_blocker")
  BY <1>4, UncaughtKeeps
<1> QED
  BY <1>1, <1>2, <1>3, <1>4 DEF Inspect

LEMMA AfterActionStep == ConsoleInv /\ AfterAction => ConsoleInv'
<1> SUFFICES ASSUME ConsoleInv, AfterAction
             PROVE  ConsoleInv'
  OBVIOUS
<1>1. CASE /\ Got("after") /\ HasControls(answer.value)
           /\ displayed' = Range(answer.value) /\ Prompt
  BY <1>1, AnsweredIsQuiet, DisplayedIsTyped, PromptKeeps DEF Got, Answered
<1>2. CASE Go("after_heading", "heading", None) /\ KeepChoice
  BY <1>2, Asked, ReadsAreReads, ReadKeeps DEF KeepChoice
<1>3. CASE Got("after_heading") /\ displayed' = {} /\ Prompt
  BY <1>3, AnsweredIsQuiet, PromptKeeps DEF Got, Answered
<1>4. CASE Uncaught("after") \/ Uncaught("after_heading")
  BY <1>4, UncaughtKeeps
<1> QED
  BY <1>1, <1>2, <1>3, <1>4 DEF AfterAction

\* The choice is resolved again, then acted on: it is a control by then, not a
\* nameless one.
LEMMA ResolveStep == ConsoleInv /\ Resolve => ConsoleInv'
<1> SUFFICES ASSUME ConsoleInv, Resolve
             PROVE  ConsoleInv'
  OBVIOUS
<1>1. CASE /\ Got("resolve") /\ chosen # Nameless
           /\ Go("settling", "settle", None)
           /\ UNCHANGED << displayed, chosen, intent, basis >>
  <2>1. SurfaceInv' /\ PlaceInv' /\ at' = "settling"
    BY <1>1, Asked, ReadsAreReads, GoKeeps DEF ConsoleInv
  <2>2. chosen \in Control /\ intent \in {"click", "type", "submit"}
    BY <1>1 DEF Got, Answered, ConsoleInv, ChoiceInv
  <2> QED
    BY <1>1, <2>1, <2>2 DEF ConsoleInv, ChoiceInv
<1>2. CASE Got("resolve") /\ Refuse
  BY <1>2, AnsweredIsQuiet, RefuseKeeps DEF Got, Answered, Refuse
<1>3. CASE Uncaught("resolve")
  BY <1>3, UncaughtKeeps
<1> QED
  BY <1>1, <1>2, <1>3 DEF Resolve

LEMMA PerformStep == ConsoleInv /\ Perform => ConsoleInv'
<1> SUFFICES ASSUME ConsoleInv, Perform
             PROVE  ConsoleInv'
  OBVIOUS
<1>1. CASE Got("settling") /\ Go("acting", intent, chosen) /\ KeepChoice
  <2>1. chosen \in Control /\ Asks("acting", intent)
    BY <1>1, Asked DEF Got, Answered, ConsoleInv, ChoiceInv
  <2> QED
    BY <1>1, <2>1, ReadKeeps DEF KeepChoice
<1>2. CASE Go("settled", "settle", None) /\ UNCHANGED displayed
  BY <1>2, Asked, ReadsAreReads, ReadKeeps
<1>3. CASE (Answered("acting") \/ Got("settled")) /\ Prompt /\ UNCHANGED displayed
  BY <1>3, AnsweredIsQuiet, RefuseKeeps DEF Got, Answered
<1>4. CASE Go("after", "blocker", None) /\ KeepChoice
  BY <1>4, Asked, ReadsAreReads, ReadKeeps DEF KeepChoice
<1> QED
  BY <1>1, <1>2, <1>3, <1>4 DEF Perform

LEMMA OperatorStep == ConsoleInv /\ Operator => ConsoleInv'
<1> SUFFICES ASSUME ConsoleInv, Operator
             PROVE  ConsoleInv'
  OBVIOUS
<1>1. CASE Take \/ Controls
  <2>1. CASE Go("show", "blocker", None) /\ KeepChoice
    BY <2>1, Asked, ReadsAreReads, ReadKeeps DEF KeepChoice
  <2>2. CASE Go("list", "observe", None) /\ KeepChoice
    BY <2>2, Asked, ReadsAreReads, ReadKeeps DEF KeepChoice
  <2> QED
    BY <1>1, <2>1, <2>2 DEF Take, Controls
<1>2. CASE Select
  <2>1. /\ chosen' \in displayed /\ intent' \in {"click", "type", "submit"}
        /\ displayed' = displayed /\ Go("resolve", "observe", None)
    BY <1>2 DEF Select
  <2>2. SurfaceInv' /\ PlaceInv' /\ at' = "resolve"
    BY <2>1, Asked, ReadsAreReads, GoKeeps DEF ConsoleInv
  <2> QED
    BY <2>1, <2>2 DEF ConsoleInv, ChoiceInv
<1>3. CASE Resume
  <2>1. /\ call = None
        /\ \/ Prompt /\ UNCHANGED displayed
           \/ End("returned") \/ End("raised")
    BY <1>3 DEF Resume, Command
  <2> QED
    BY <2>1, RefuseKeeps, EndKeeps DEF Ended
<1>4. CASE Quit
  BY <1>4, EndKeeps DEF Quit, Command, Ended
<1> QED
  BY <1>1, <1>2, <1>3, <1>4 DEF Operator

-----------------------------------------------------------------------------
(* What follows *)

LEMMA Invariance == Spec => []ConsoleInv
<1>1. ConsoleInv /\ Next => ConsoleInv'
  BY OnSurfaceStep, SessionStep, BuildFactsStep, ShowControlsStep, InspectStep, ResolveStep,
     PerformStep, AfterActionStep, OperatorStep DEF Next, ConsoleStep
<1>2. ConsoleInv /\ UNCHANGED vars => ConsoleInv'
  BY DEF vars, surfaceVars, consoleVars, ConsoleInv, SurfaceInv, FrameInv, CallInv, CallOK, IsCall,
         PassSoFar, Without, PlaceInv, Listed, ChoiceInv
<1> QED
  BY InitKeeps, <1>1, <1>2, PTL DEF Spec

LEMMA HitsAreCounted == ConsoleInv => Hits(call) \in Nat
  BY DEF Hits, ConsoleInv, SurfaceInv, CallInv, CallOK

\* Outside the surface a call is left alone or begun.
LEMMA ConsoleOnlyBegins ==
  ASSUME ConsoleInv, Next, ~OnSurface
  PROVE  call' = call \/ (call' # None => call'.hits = 0)
<1>1. \A place, op, arg : Go(place, op, arg) => call'.hits = 0
  BY DEF Go, Begin
<1>2. SessionCalls \/ Pauses => call' = call \/ call'.hits = 0
  BY <1>1 DEF SessionCalls, Pauses, End
<1>3. BuildFacts \/ ShowControls \/ Inspect => call' = call \/ call'.hits = 0
  BY <1>1 DEF BuildFacts, ShowControls, Inspect, Prompt, Uncaught, End
<1>4. Resolve \/ Perform \/ AfterAction => call' = call \/ call'.hits = 0
  BY <1>1 DEF Resolve, Refuse, Perform, AfterAction, Prompt, Uncaught, End
<1>5. Operator => call' = call \/ call'.hits = 0
  BY <1>1 DEF Operator, Take, Controls, Select, Resume, Quit, Prompt, End
<1> QED
  BY <1>2, <1>3, <1>4, <1>5 DEF Next, ConsoleStep

LEMMA OnlyLandHits ==
  ASSUME ConsoleInv, Next, Hits(call') > Hits(call)
  PROVE  Land
<1>1. Hits(call) \in Nat /\ call' # call /\ call' # None /\ call'.hits # 0
  <2>1. Hits(call) \in Nat
    BY HitsAreCounted
  <2>2. \A n \in Nat : ~ (n > n) /\ ~ (0 > n)
    OBVIOUS
  <2>3. Hits(call') # Hits(call) /\ Hits(call') # 0
    BY <2>1, <2>2
  <2> QED
    BY <2>1, <2>3 DEF Hits
<1>2. CASE ~OnSurface
  BY <1>1, <1>2, ConsoleOnlyBegins
<1>3. CASE OnSurface
  <2>1. SurfaceStep
    BY <1>1, <1>3, PageStepKeeps DEF OnSurface, ConsoleInv
  <2>2. call # None
    BY <2>1 DEF SurfaceStep, Evaluate, Scanning, TransientError, DriverError, Land, FinishAct,
                Settle
  <2>3. call'.hits = call.hits \/ Land
    BY <1>1, <2>1, SurfaceStepKeeps DEF ConsoleInv, Answers
  <2>4. call'.hits # call.hits
    BY <1>1, <2>2 DEF Hits
  <2> QED
    BY <2>3, <2>4
<1> QED
  BY <1>2, <1>3

\* An act lands only where its target is the one element of its frame, every
\* other frame of the target having been seen without one during the call: for
\* every page, every number of frames and however they navigate meanwhile.
THEOREM ActsLandOnTheOne == Spec => ClickUnique
<1>1. ConsoleInv /\ [Next]_vars =>
        [Hits(call') > Hits(call) =>
           /\ Page[shows[call.found]].matches[call.arg] = 1
           /\ \A f \in Range(Scoped[call.arg]) \ {call.found} :
                \E d \in shown[f] : Page[d].matches[call.arg] = 0]_surfaceVars
  <2> SUFFICES ASSUME ConsoleInv, Next, Hits(call') > Hits(call)
               PROVE  /\ Page[shows[call.found]].matches[call.arg] = 1
                      /\ \A f \in Range(Scoped[call.arg]) \ {call.found} :
                           \E d \in shown[f] : Page[d].matches[call.arg] = 0
    BY DEF vars, surfaceVars
  <2>1. Land
    BY OnlyLandHits
  <2>2. call # None /\ call.found # None
    BY <2>1 DEF Land
  <2>3. CallOK(call)
    BY <2>2 DEF ConsoleInv, SurfaceInv, CallInv
  <2> QED
    BY <2>1, <2>2, <2>3 DEF Land, CallOK, Without
<1> QED
  BY Invariance, <1>1, PTL DEF Spec, ClickUnique

=============================================================================
