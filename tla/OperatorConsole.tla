--------------------------- MODULE OperatorConsole ---------------------------
(***************************************************************************)
(* The handoff demo and its operator console (cli.py) on the live surface:  *)
(* a run pauses, the pause is presented, and one loop carries out what the  *)
(* operator types, one await after the other, while the page goes on.       *)
(*                                                                         *)
(* The replay session is known by its calls of the surface and by the ways  *)
(* OperatorController.resume ends; ReplaySession models both.               *)
(***************************************************************************)
EXTENDS Surface, ControlLease

CONSTANTS
  Fold,      \* control -> what it has in common with its namesakes: role, name.lower()
  Allowed,   \* urls within the navigation scope
  Call,      \* << op, arg >>: what the session may ask of the surface before it pauses
  MaxEpoch   \* bound: transfers

\* What the session acts on has a role and a name; what it counts or extracts is
\* that or a cell.
ASSUME ConsoleAssumption ==
  \A c \in Call :
    /\ c[1] \in Op
    /\ c[1] \in Acting => c[2] \in Control
    /\ c[1] \in Locating => c[2] \in Control \cup Cell

VARIABLES
  at,         \* where the console is: a place below
  displayed,  \* the candidates last shown, each under an id
  chosen,     \* the one a command is about, or None
  intent,     \* what the command does with it, or None
  basis       \* history: what each frame showed while the choice was resolved again

consoleVars == << at, displayed, chosen, intent, basis >>
vars == << surfaceVars, lease, consoleVars >>

Ended == {"returned", "aborted", "raised"}

\* Places that await an answer of the surface, with what they asked.
Awaits ==
  [running |-> Op, evidence |-> {"capture"}, facts |-> {"heading"}, facts_blocker |-> {"blocker"},
   show |-> {"blocker"}, list |-> {"observe"}, inspect |-> {"heading"},
   inspect_blocker |-> {"blocker"}, resolve |-> {"observe"}, settling |-> {"settle"},
   acting |-> {"click", "type", "submit"}, settled |-> {"settle"}, after |-> {"blocker"},
   after_heading |-> {"heading"}]

Place == DOMAIN Awaits \cup Ended \cup {"prompt"}

Init ==
  /\ SurfaceInit
  /\ LeaseInit
  /\ at = "running"
  /\ displayed = {}
  /\ chosen = None
  /\ intent = None
  /\ basis = {}

Go(place, op, arg) ==
  /\ at' = place
  /\ Begin(op, arg)

\* The command is over; the caller says what is on display.
Prompt ==
  /\ at' = "prompt"
  /\ chosen' = None
  /\ intent' = None
  /\ basis' = {}
  /\ answer' = None
  /\ UNCHANGED << shows, loading, call, shown >>

End(place) ==
  /\ at' = place
  /\ answer' = None
  /\ UNCHANGED << shows, loading, call, shown, displayed, chosen, intent, basis >>

Answered(place) == at = place /\ answer # None

\* A SurfaceError the console does not catch leaves _operator_console and
\* _run_handoff_demo, which closes the surface.
Uncaught(place) == Answered(place) /\ answer.error # None /\ End("raised")

Got(place) == Answered(place) /\ answer.error = None

KeepChoice == UNCHANGED << displayed, chosen, intent, basis >>

-----------------------------------------------------------------------------
(* The run, its pause, and the facts presented *)

SessionCalls ==
  /\ at = "running"
  /\ \E c \in Call : Go("running", c[1], c[2])
  /\ KeepChoice /\ UNCHANGED lease

\* advance ends: with an escalation, whose intervention is raised, or for good.
Pauses ==
  /\ at = "running"
  /\ call = None
  /\ \/ Go("evidence", "capture", None) /\ KeepChoice
     \/ End("returned")
  /\ UNCHANGED lease

\* raise_intervention, then _build_facts.
BuildFacts ==
  /\ \/ Got("evidence") /\ Go("facts", "heading", None) /\ KeepChoice
     \/ Got("facts") /\ Go("facts_blocker", "blocker", None) /\ KeepChoice
     \/ Got("facts_blocker") /\ Prompt /\ UNCHANGED displayed
     \/ \E place \in {"evidence", "facts", "facts_blocker"} : Uncaught(place)
  /\ UNCHANGED lease

-----------------------------------------------------------------------------
(* Commands *)

Command == at = "prompt" /\ call = None

\* take: take_control, then the controls of what blocks.  Out of turn it only
\* prints an error, as every command does that is not listed here.
Take ==
  /\ Command
  /\ epoch < MaxEpoch
  /\ ToHuman
  /\ Go("show", "blocker", None)
  /\ KeepChoice

\* controls, controls --all
Controls ==
  /\ Command
  /\ Go("show", "blocker", None) \/ Go("list", "observe", None)
  /\ KeepChoice /\ UNCHANGED lease

\* blocker is not None and blocker.controls
HasControls(blocker) == blocker \notin {None, << >>}

\* _show_controls: the blocker's own controls if it has any, else those of the page.
ShowControls ==
  /\ \/ /\ Got("show")
        /\ IF HasControls(answer.value)
           THEN displayed' = Range(answer.value) /\ Prompt
           ELSE Go("list", "observe", None) /\ KeepChoice
     \/ Got("list") /\ displayed' = Range(answer.value) \ {Nameless} /\ Prompt
     \/ Uncaught("show") \/ Uncaught("list")
  /\ UNCHANGED lease

Inspect ==
  /\ \/ Command /\ Go("inspect", "heading", None) /\ KeepChoice
     \/ Got("inspect") /\ Go("inspect_blocker", "blocker", None) /\ KeepChoice
     \/ Got("inspect_blocker") /\ Prompt /\ UNCHANGED displayed
     \/ Uncaught("inspect") \/ Uncaught("inspect_blocker")
  /\ UNCHANGED lease

\* click, ack, type, submit: _select_candidate finds a displayed control by its
\* id; by its label it finds the same or none.
Select ==
  /\ Command
  /\ chosen' \in displayed
  /\ intent' \in {"click", "type", "submit"}
  /\ Go("resolve", "observe", None)
  /\ UNCHANGED << displayed, basis, lease >>

\* Where a listing has a candidate, a control with a name.
Named(listing) == {i \in DOMAIN listing : listing[i] # Nameless}

\* Mutant: names are compared as they are written.
AlikeExactly(c, listing) == {i \in Named(listing) : listing[i] = c}

Alike(c, listing) == {i \in Named(listing) : Fold[listing[i]] = Fold[c]}

\* Mutant: the page is asked again instead.
RefuseLater == Go("resolve", "observe", None) /\ KeepChoice

\* Stale or ambiguous by now, or out of turn: a note, and the prompt.
Refuse == Prompt /\ UNCHANGED displayed

\* _resolve_live_target, then perform: the owner is looked at, and the page
\* settles before the act.
Resolve ==
  /\ \/ /\ Got("resolve")
        /\ IF chosen # Nameless /\ Cardinality(Alike(chosen, answer.value)) = 1 /\ owner = "human"
           THEN /\ Go("settling", "settle", None)
                /\ UNCHANGED << displayed, chosen, intent, basis >>
           ELSE Refuse
     \/ Uncaught("resolve")
  /\ UNCHANGED lease

\* perform catches nothing, its caller everything: the command ends with a note
\* and what was displayed stays.
Perform ==
  /\ \/ Got("settling") /\ Go("acting", intent, chosen) /\ KeepChoice
     \/ /\ Answered("acting")
        /\ IF answer.error = None
           THEN /\ Go("settled", "settle", None)
                /\ chosen' = None /\ intent' = None /\ basis' = {}
                /\ UNCHANGED displayed
           ELSE Prompt /\ UNCHANGED displayed
     \/ /\ Got("settled")
        /\ IF Range(Urls) \subseteq Allowed
           THEN Go("after", "blocker", None) /\ KeepChoice
           ELSE Prompt /\ UNCHANGED displayed
  /\ UNCHANGED lease

\* _after_action: the blocker's controls if it is still there, else none.
AfterAction ==
  /\ \/ /\ Got("after")
        /\ IF HasControls(answer.value)
           THEN displayed' = Range(answer.value) /\ Prompt
           ELSE Go("after_heading", "heading", None) /\ KeepChoice
     \/ Got("after_heading") /\ displayed' = {} /\ Prompt
     \/ Uncaught("after") \/ Uncaught("after_heading")
  /\ UNCHANGED lease

\* resume: still blocked, the human keeps or regains control; paused again
\* further on, automation has it, and what is displayed stays in both; a final
\* result ends the console; an error of the surface is not caught.
Resume ==
  /\ Command
  /\ owner = "human"
  /\ epoch + 1 < MaxEpoch
  /\ \/ UNCHANGED lease /\ Prompt /\ UNCHANGED displayed
     \/ owner' = owner /\ epoch' = epoch + 2 /\ Prompt /\ UNCHANGED displayed
     \/ ToAutomation /\ Prompt /\ UNCHANGED displayed
     \/ ToAutomation /\ (End("returned") \/ End("raised"))
     \/ UNCHANGED lease /\ End("raised")

\* quit, abort, and the end of the input.
Quit ==
  /\ Command
  /\ End("aborted")
  /\ UNCHANGED lease

-----------------------------------------------------------------------------

ConsoleStep == BuildFacts \/ ShowControls \/ Inspect \/ Resolve \/ Perform \/ AfterAction

Operator == Take \/ Controls \/ Select \/ Resume \/ Quit

OnSurface ==
  /\ SurfaceStep \/ PageStep
  /\ at \notin Ended
  /\ basis' = IF at = "resolve" /\ call # None /\ call' = None THEN shown ELSE basis
  /\ UNCHANGED << lease, at, displayed, chosen, intent >>

Next == OnSurface \/ SessionCalls \/ Pauses \/ ConsoleStep \/ Operator

\* The surface's awaits come to their timeouts and the console's loop runs on;
\* nothing makes the operator type, or the session pause.
Spec ==
  /\ Init /\ [][Next]_vars
  /\ WF_vars(OnSurface /\ SurfaceStep)
  /\ WF_vars(ConsoleStep /\ ~Command)

-----------------------------------------------------------------------------

\* Where a page, of one document in each frame, lists a control alike.
Namesakes(a, c) ==
  UNION {{<< f, i >> : i \in {j \in DOMAIN Page[a[f]].listed :
                                LET d == Page[a[f]].listed[j] IN
                                d # Nameless /\ Fold[d] = Fold[c]}} : f \in FrameName}

\* What the operator's act hits, while nobody but the operator holds the lease,
\* is a control by its exact role and name that is on display, and some page the
\* surface read after it was chosen had no second one alike.  So an id is never
\* taken for a position on a page that has changed since it was given.
ActsOnDisplayed ==
  [][(at = "acting" /\ Hits(call') > Hits(call)) =>
       /\ owner = "human"
       /\ call.arg \in displayed
       /\ \E a \in [FrameName -> Document] :
            /\ \A f \in FrameName : a[f] \in basis[f]
            /\ Cardinality(Namesakes(a, call.arg)) = 1]_vars

\* Every command comes back to the prompt or ends the console, whatever the page
\* does meanwhile.
CommandsEnd == (at \notin {"running", "prompt"}) ~> (at \in {"prompt"} \cup Ended)

=============================================================================
