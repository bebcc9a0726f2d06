------------------------------- MODULE Surface -------------------------------
(***************************************************************************)
(* The browser session behind every read and every act                     *)
(* (surface/playwright_surface.py): one page whose frames are read one      *)
(* await after the other, while each of them may be navigating.             *)
(*                                                                         *)
(* A document is known by what the surface's scripts return on it.  The     *)
(* frames stay attached: the workspace is replaced inside its frame, and    *)
(* the top page is opened before the first call.                            *)
(***************************************************************************)
EXTENDS Naturals, SequencesExt

CONSTANTS
  FrameOrder,   \* page.frames: the names of the frames, the main frame first
  Document,     \* what a frame may show
  Page,         \* document -> [listed, modal, matches, cells, headings, texts, url]
  FirstDoc,     \* frame -> what it shows at the start
  Goes,         \* frame -> the documents it may navigate to
  Control,      \* targets of a role and a name; a control of an empty name is Nameless
  Cell,         \* targets of a table cell
  Nameless,
  Scoped,       \* target -> its frames, in order: all of them unless target.frame names one
  None,
  EvalRetries,  \* _EVAL_RETRIES
  MaxPolls      \* bound: _CELL_POLL_MS and the timeouts, in polls

FrameName == Range(FrameOrder)

IsSequence(s) == s \in Seq(Range(s))

ASSUME SurfaceAssumption ==
  /\ EvalRetries \in Nat \ {0}
  /\ MaxPolls \in Nat \ {0}
  /\ FrameOrder \in Seq(FrameName) \ {<< >>}
  /\ Control \cap Cell = {}
  /\ Scoped \in [Control \cup Cell -> Seq(FrameName) \ {<< >>}]
  /\ IsInjective(FrameOrder) /\ \A c \in Control \cup Cell : IsInjective(Scoped[c])
  /\ FirstDoc \in [FrameName -> Document]
  /\ Goes \in [FrameName -> SUBSET Document]
  /\ \A d \in Document :
       /\ Page[d].listed \in Seq(Control \cup {Nameless})
       /\ Page[d].modal \in Seq(Seq(Control \cup {Nameless})) /\ Len(Page[d].modal) <= 1
       /\ Page[d].matches \in [Control -> Nat]
       /\ IsSequence(Page[d].headings)
       /\ \A c \in Cell : IsSequence(Page[d].cells[c])
  /\ Nameless \notin Control
  /\ None \notin Control \cup Cell
  /\ None \notin FrameName \cup {"not_found", "ambiguous", "transient", "driver"}

VARIABLES
  shows,    \* frame -> the document in it
  loading,  \* frames with a navigation in flight
  call,     \* the call in progress, or None
  answer,   \* what the last call returned or raised, until its caller goes on
  shown     \* history: frame -> the documents it has shown during the call

surfaceVars == << shows, loading, call, answer, shown >>

Gathering == {"observe", "capture", "count", "extract"}
FirstOf == {"blocker", "heading", "has", "heading_change"}
Acting == {"click", "commit", "type", "submit"}
Locating == {"count", "extract"} \cup Acting
Op == Gathering \cup FirstOf \cup Acting \cup {"settle"}

\* _frames; every frame for what takes no target.
FramesOf(arg) == IF arg \in Control \cup Cell THEN Scoped[arg] ELSE FrameOrder

\* What one evaluation in frame f brings when it shows document d.
Reading(op, arg, f, d) ==
  CASE op = "observe" -> Page[d].listed
    [] op = "capture" -> Page[d].headings
    [] op \in {"heading", "heading_change"} ->
         IF Page[d].headings = << >> THEN << >> ELSE << Head(Page[d].headings) >>
    [] op = "blocker" -> Page[d].modal
    [] op = "has" ->
         IF arg \in Page[d].texts \/ (arg = "dialog" /\ Page[d].modal # << >>)
         THEN << TRUE >> ELSE << >>
    [] op \in Locating /\ arg \in Cell -> Page[d].cells[arg]
    [] op \in Locating /\ arg \notin Cell ->
         [i \in 1 .. Page[d].matches[arg] |-> f]

\* get_by_role(...).count() goes through _act, which does not retry.
ByLocator(op, arg) == op \in Acting \/ arg \in Control

Urls == [i \in DOMAIN FrameOrder |-> Page[shows[FrameOrder[i]]].url]

-----------------------------------------------------------------------------
(* Calls *)

Begin(op, arg) ==
  /\ call = None
  /\ call' = [op |-> op, arg |-> arg, next |-> 1, acc |-> << >>, tries |-> 0, waits |-> 0,
              found |-> None, hits |-> 0]
  /\ answer' = None
  /\ shown' = [f \in FrameName |-> {shows[f]}]
  /\ UNCHANGED << shows, loading >>

Return(value, error) ==
  /\ call' = None
  /\ answer' = [value |-> value, error |-> error]
  /\ shown' = [f \in FrameName |-> {}]

Continue(c) == call' = c /\ UNCHANGED << answer, shown >>

\* Mutant: the first of several matches is taken.
DecideFirst(op, arg, all) ==
  IF all = << >> THEN [value |-> None, error |-> "not_found"]
                 ELSE [value |-> Head(all), error |-> None]

\* What the call makes of a whole pass over its frames.
Decide(op, arg, all) ==
  CASE op = "count" -> [value |-> Len(all), error |-> None]
    [] op \in FirstOf ->
         [value |-> IF all = << >> THEN None ELSE Head(all), error |-> None]
    [] op \in {"extract"} \cup Acting ->
         [value |-> IF Len(all) = 1 THEN Head(all) ELSE None,
          error |-> IF all = << >> THEN "not_found"
                    ELSE IF Len(all) > 1 THEN "ambiguous" ELSE None]
    [] OTHER -> [value |-> all, error |-> None]

\* Mutants: the heading of the last poll is returned on timeout; the time waited
\* is not added up.
ChangedOrLast(c) ==
  c.acc # << >> /\ (Head(c.acc) # c.arg \/ c.waits + 1 = MaxPolls)
NextPollUncounted(c) == Continue([c EXCEPT !.acc = << >>, !.next = 1])

Changed(c) == c.acc # << >> /\ Head(c.acc) # c.arg

NextPoll(c) == Continue([c EXCEPT !.acc = << >>, !.next = 1, !.waits = @ + 1])

\* The end of a pass: a table cell and a heading are polled for, what acts goes
\* on to its locator, the rest returns.
FinishPass(c) ==
  LET r == Decide(c.op, c.arg, c.acc) IN
  CASE c.op \in Locating /\ c.arg \in Cell /\ c.acc = << >> /\ c.waits < MaxPolls ->
         NextPoll(c)
    [] c.op = "heading_change" /\ ~Changed(c) ->
         IF c.waits + 1 < MaxPolls THEN NextPoll(c) ELSE Return(None, None)
    [] c.op \in Acting /\ r.error = None -> Continue([c EXCEPT !.found = r.value])
    [] OTHER -> Return(r.value, r.error)

Scanning == call # None /\ call.op # "settle" /\ call.found = None

\* One frame is evaluated: has_*, blocker and heading stop at the first frame
\* that has any, _unique_locator at the first that has two.
Evaluate ==
  /\ Scanning
  /\ LET frames == FramesOf(call.arg)
         f == frames[call.next]
         got == Reading(call.op, call.arg, f, shows[f])
         c == [call EXCEPT !.acc = @ \o got, !.next = @ + 1, !.tries = 0] IN
     IF \/ c.next > Len(frames)
        \/ c.op \in FirstOf /\ got # << >>
        \/ c.op \in Acting /\ Len(got) > 1
     THEN FinishPass(c)
     ELSE Continue(c)
  /\ UNCHANGED << shows, loading >>

\* Mutant: a retry starts the pass again and keeps what it had.
RetryFromStart ==
  /\ Scanning
  /\ FramesOf(call.arg)[call.next] \in loading
  /\ IF call.tries + 1 = EvalRetries THEN Return(None, "transient")
     ELSE Continue([call EXCEPT !.tries = @ + 1, !.next = 1])
  /\ UNCHANGED << shows, loading >>

\* The context of a navigating frame is destroyed under the evaluation.
TransientError ==
  /\ Scanning
  /\ FramesOf(call.arg)[call.next] \in loading
  /\ IF ByLocator(call.op, call.arg) \/ call.tries + 1 = EvalRetries
     THEN Return(None, "transient")
     ELSE Continue([call EXCEPT !.tries = @ + 1])
  /\ UNCHANGED << shows, loading >>

\* Any other provider error, the timeouts of an act among them; wait_settled
\* swallows it.
DriverError ==
  /\ call # None
  /\ Return(None, IF call.op = "settle" THEN None ELSE "driver")
  /\ UNCHANGED << shows, loading >>

\* The locator is resolved again where it acts, and must match one element
\* then: none is waited for and several are refused, until DriverError.
Land ==
  /\ call # None /\ call.found # None
  /\ call.hits = 0 \/ (call.op = "submit" /\ call.hits = 1)
  /\ Page[shows[call.found]].matches[call.arg] = 1
  /\ Continue([call EXCEPT !.hits = @ + 1])
  /\ UNCHANGED << shows, loading >>

\* After the last hit; a commit may see its completion withheld.
FinishAct ==
  /\ call # None /\ call.found # None
  /\ call.hits = IF call.op = "submit" THEN 2 ELSE 1
  /\ \/ Return(None, None)
     \/ call.op = "commit" /\ Return(None, "transient")
  /\ UNCHANGED << shows, loading >>

\* _wait_frames_stable, after a networkidle that says nothing of the subframe.
Settle ==
  /\ call # None /\ call.op = "settle"
  /\ IF call.acc = << >> THEN Continue([call EXCEPT !.acc = Urls])
     ELSE IF Urls = call.acc \/ call.waits + 1 >= MaxPolls THEN Return(None, None)
     ELSE Continue([call EXCEPT !.acc = Urls, !.waits = @ + 1])
  /\ UNCHANGED << shows, loading >>

SurfaceStep ==
  Evaluate \/ TransientError \/ DriverError \/ Land \/ FinishAct \/ Settle

-----------------------------------------------------------------------------
(* The page *)

\* A link, a submit, a script or the person at the window.
StartsLoading(f) ==
  /\ f \notin loading
  /\ Goes[f] # {}
  /\ loading' = loading \cup {f}
  /\ UNCHANGED << shows, call, answer, shown >>

Commits(f) ==
  /\ f \in loading
  /\ loading' = loading \ {f}
  /\ \E d \in Goes[f] :
       /\ shows' = [shows EXCEPT ![f] = d]
       /\ shown' = IF call = None THEN shown ELSE [shown EXCEPT ![f] = @ \cup {d}]
  /\ UNCHANGED << call, answer >>

PageStep == \E f \in FrameName : StartsLoading(f) \/ Commits(f)

SurfaceInit ==
  /\ shows = FirstDoc
  /\ loading = {}
  /\ call = None
  /\ answer = None
  /\ shown = [f \in FrameName |-> {}]

-----------------------------------------------------------------------------

\* The pages the call may have read: one document of each frame, all of them
\* shown while it ran, though perhaps never together.
Assemblies == {a \in [FrameName -> Document] : \A f \in FrameName : a[f] \in shown[f]}

\* What one pass over such a page comes to.
AnswerOn(a) ==
  LET frames == FramesOf(call.arg) IN
  Decide(call.op, call.arg,
         FlattenSeq([i \in DOMAIN frames |->
                       Reading(call.op, call.arg, frames[i], a[frames[i]])]))

Raised == {"transient", "driver"}

\* A call that ends without raising has answered with one pass over such a page.
AnswerAssembled ==
  call # None /\ answer' # None /\ answer'.error \notin Raised =>
    CASE call.op = "heading_change" ->
           answer'.value # None =>
             answer'.value # call.arg /\ \E a \in Assemblies : answer' = AnswerOn(a)
      [] call.op \in Acting ->
           answer'.error # None => \E a \in Assemblies : answer' = AnswerOn(a)
      [] call.op \in (Gathering \cup FirstOf) \ {"heading_change"} ->
           \E a \in Assemblies : answer' = AnswerOn(a)
      [] OTHER -> TRUE

\* Whatever the retries, the polls and the early stops, and however the frames
\* navigate meanwhile, a read returns what a single pass over one such page
\* would: nothing is counted twice or taken from two polls, and a heading said
\* to have changed is a heading of that page and not the previous one.
AnswersAssembled == [][AnswerAssembled]_surfaceVars

Hits(c) == IF c = None THEN 0 ELSE c.hits

\* An act lands only where its target is the one element of its frame, and after
\* every other frame of the target has been seen without one during the call,
\* although the locator is resolved again when it acts.
ClickUnique ==
  [][Hits(call') > Hits(call) =>
       /\ Page[shows[call.found]].matches[call.arg] = 1
       /\ \A f \in Range(Scoped[call.arg]) \ {call.found} :
            \E d \in shown[f] : Page[d].matches[call.arg] = 0]_surfaceVars

\* Every call comes to an end: retries and polls are budgeted even while the
\* page never stops navigating.
CallsReturn == (call # None) ~> (call = None)

=============================================================================
