------------------------------ MODULE Compiler ------------------------------
(***************************************************************************)
(* From a discovery trace to a capability (discovery/compiler.py).  The    *)
(* behaviour is the recording of a trace, one executed step at a time, as  *)
(* the discovery loop appends it (discovery/agent.py); what the compiler   *)
(* makes of the trace at hand is a set of operators on it, and the         *)
(* properties relate the artifact to the pages the trace went through,     *)
(* which the compiler does not see.                                        *)
(***************************************************************************)
EXTENDS Artifact, SequencesExt

CONSTANTS
  Page,       \* the pages of the application
  Entry,      \* the page of the target url
  HeadingOf,  \* their primary headings, None where there is none
  RouteOf,    \* the allowed-route pattern of their paths
  Moves,      \* per page, the steps the kernel would execute on it
  SlowPages,  \* pages that show later than wait_for_heading_change waits
  Effect,     \* per target, the text _effect_condition keeps, None without one
  Bindings,   \* the spec's outcome bindings: [action, target, code]
  Success,    \* the spec's success_output
  MaxTrace    \* bound on the length of a trace

ASSUME CompilerAssumption ==
  /\ Entry \in Page
  /\ SlowPages \subseteq Page
  /\ None \notin Output
  /\ Success \in Output
  /\ MaxTrace \in Nat
  /\ \A p \in Page : \A m \in Moves[p] :
       m.to \in Page /\ (m.action # "click" => m.to = p)

VARIABLES
  trace,  \* DiscoveryTrace.steps
  seen    \* the page each step left the browser on

vars == << trace, seen >>

PageAfter(i) == IF i = 0 THEN Entry ELSE seen[i]
Here == PageAfter(Len(seen))

-----------------------------------------------------------------------------
(* The compiler: operators on a trace t *)

\* The kinds of condition the compiler writes.
HeadingIs(h) == [kind |-> "heading", of |-> h]
RouteIs(r) == [kind |-> "route", of |-> r]

\* Whether page p satisfies such a condition (_matches of the session).
Matches(p, condition) ==
  \/ condition.kind = "heading" /\ HeadingOf[p] = condition.of
  \/ condition.kind = "route" /\ RouteOf[p] = condition.of

\* Only a heading that changed is a checkpoint.
SynthesizedPostcondition(s) ==
  IF s.landmark # None /\ s.landmark # s.before THEN HeadingIs(s.landmark) ELSE None

ArtifactStep(s, id, outcomes, recipe) ==
  [id |-> id, action |-> s.action, target |-> s.target, risk |-> s.risk,
   param |-> s.param, output |-> s.output, post |-> SynthesizedPostcondition(s),
   outcomes |-> outcomes, recipe |-> recipe]

Writes(t) == {i \in DOMAIN t : t[i].risk # "read_only"}
HasWrite(t) == Writes(t) # {}

\* _consequential_index, from 1; a trace with several writes does not compile.
WriteIndex(t) == CHOOSE i \in Writes(t) : TRUE

IsTerminal(s) == s.action = "extract" /\ s.output = Success

\* Mutant: an extract from before the write will do as well.
TerminalsAnywhere(t) == {i \in DOMAIN t : IsTerminal(t[i])}

\* The extracts of the success output that follow the write.
Terminals(t) == {i \in WriteIndex(t) + 1 .. Len(t) : IsTerminal(t[i])}
Terminal(t) == CHOOSE i \in Terminals(t) : TRUE

Navigate(t) == SubSeq(t, WriteIndex(t) + 1, Terminal(t) - 1)

Landmarks(steps) == {i \in DOMAIN steps : steps[i].landmark # None}

\* Mutant: the first landmark of the navigation.
FirstLandmark(t) ==
  LET marks == Landmarks(Navigate(t)) IN
    IF marks # {} THEN HeadingIs(Navigate(t)[Min(marks)].landmark)
    ELSE RouteIs(t[Terminal(t)].route)

\* _page_condition: the last landmark of the navigation, or else the route the
\* extract was decided on.
PageCondition(t) ==
  LET marks == Landmarks(Navigate(t)) IN
    IF marks # {} THEN HeadingIs(Navigate(t)[Max(marks)].landmark)
    ELSE RouteIs(t[Terminal(t)].route)

\* _build_verification
Verification(t) ==
  [navigate |-> [k \in DOMAIN Navigate(t) |->
                   ArtifactStep(Navigate(t)[k], << "verify_nav", k >>, {}, None)],
   page |-> PageCondition(t),
   effect |-> [kind |-> "text", of |-> Effect[t[Terminal(t)].target]],
   extract |-> ArtifactStep(t[Terminal(t)], << "verify_extract", 0 >>, {}, None)]

\* ... and where it gives up; that every step after the write is read-only
\* follows from there being one write.
Verifiable(t) ==
  /\ Cardinality(Terminals(t)) = 1
  /\ Effect[t[Terminal(t)].target] # None
  /\ PageCondition(t).of # None

\* Mutant: the write's own page, and what came after it, count as well.
ReachedEver(t) ==
  \E s \in Range(t) :
    \/ PageCondition(t).kind = "heading" /\ s.landmark = PageCondition(t).of
    \/ PageCondition(t).kind = "route" /\ s.route = PageCondition(t).of

\* _baseline_reachable
BaselineReachable(t) ==
  \E i \in 1 .. WriteIndex(t) - 1 :
    \/ PageCondition(t).kind = "heading" /\ t[i].landmark = PageCondition(t).of
    \/ PageCondition(t).kind = "route" /\ t[i].route = PageCondition(t).of

\* _resolve_outcome_bindings; targets are equal up to their frame.
BindingMatches(t, b) == {i \in DOMAIN t : t[i].action = b.action /\ t[i].target = b.target}

\* compile_capability
TopLevel(t) == IF HasWrite(t) THEN WriteIndex(t) ELSE Len(t)

CompiledStep(t, i) ==
  ArtifactStep(t[i], << "step", i >>,
               {b.code : b \in {c \in Bindings : BindingMatches(t, c) = {i}}},
               IF i \in Writes(t) THEN Verification(t) ELSE None)

CompileCapability(t) ==
  [steps |-> [i \in 1 .. TopLevel(t) |-> CompiledStep(t, i)],
   success |-> [kind |-> "output", of |-> Success]]

Compiles(t) ==
  /\ \A b \in Bindings : Cardinality(BindingMatches(t, b)) = 1
  /\ Cardinality(Writes(t)) <= 1
  /\ HasWrite(t) => Verifiable(t) /\ BaselineReachable(t)
  /\ Valid(CompileCapability(t))

\* Mutant: the navigation counted from the write itself.
ShiftedProvenance(t) ==
  LET write == WriteIndex(t) - 1
      terminal == Terminal(t) - WriteIndex(t) - 1
  IN  [write |-> write + 1,
       navigate |-> [k \in 1 .. terminal |-> write + 1 + (k - 1)],
       extract |-> write + 2 + terminal]

\* verification_provenance: write and terminal are the code's indices from 0,
\* into the trace and into the steps after the write.
VerificationProvenance(t) ==
  LET write == WriteIndex(t) - 1
      terminal == Terminal(t) - WriteIndex(t) - 1
  IN  [write |-> write + 1,
       navigate |-> [k \in 1 .. terminal |-> write + 2 + (k - 1)],
       extract |-> write + 2 + terminal]

-----------------------------------------------------------------------------
(* Recording *)

Init ==
  /\ trace = << >>
  /\ seen = << >>

Obtained == {trace[i].output : i \in DOMAIN trace} \ {None}

\* wait_for_heading_change after a click: a new heading, if it shows in time.
LandmarkAfter(m) ==
  IF /\ m.action = "click"
     /\ HeadingOf[m.to] # HeadingOf[Here]
     /\ m.to \notin SlowPages
  THEN HeadingOf[m.to]
  ELSE None

\* An executed step is appended to the trace.  Declared outputs are extracted
\* once each.
Record(m) ==
  /\ Len(trace) < MaxTrace
  /\ m.action = "extract" => m.output \in Output \ Obtained
  /\ trace' = Append(trace,
                [action |-> m.action, target |-> m.target, risk |-> m.risk,
                 param |-> m.param, output |-> m.output,
                 route |-> RouteOf[Here], landmark |-> LandmarkAfter(m),
                 before |-> IF m.action = "click" THEN HeadingOf[Here] ELSE None])
  /\ seen' = Append(seen, m.to)

Next == \E m \in Moves[Here] : Record(m)

Spec == Init /\ [][Next]_vars

-----------------------------------------------------------------------------
(* Properties *)

\* A trace with a write, ended by the model's successful declaration, that the
\* compiler accepts.
WriteCompiled == HasWrite(trace) /\ Success \in Obtained /\ Compiles(trace)

Recipe == Verification(trace)

\* The pages a replay reads for the baseline: those its steps before the write
\* end on, the last of them being the form of the write.
BaselinePages == {PageAfter(i) : i \in 1 .. WriteIndex(trace) - 1}

\* A capability with a write compiles only if its replay reads a baseline on
\* the way to the write ("otherwise a good commit would replay as
\* MUTATION_AMBIGUOUS", compiler.py:289-292), unless its effect view is known by
\* the route of the entry page.  The compiler looks at the route a step was
\* decided on, replay at the page a step ended on, so the entry's route may be
\* met by the first step alone, before which no baseline is read.
BaselineIsRead ==
  WriteCompiled /\ (Recipe.page.kind = "route" => Recipe.page.of # RouteOf[Entry]) =>
    \E p \in BaselinePages : Matches(p, Recipe.page)

\* Every page a click of the navigation led to has a heading, and showed it
\* while the recording waited for one.
NavigationShows ==
  \A i \in WriteIndex(trace) + 1 .. Terminal(trace) - 1 :
    trace[i].action = "click" => seen[i] \notin SlowPages /\ HeadingOf[seen[i]] # None

\* Where the navigation showed every page it led to, the page condition of the
\* recipe holds on the page the effect was read on, so a baseline that goes by a
\* heading is read under that page's heading and no other ("Identify the effect
\* view so a baseline can be evaluated on it (never on the commit form)",
\* compiler.py:197-202).  By a route the view is not told from the commit form
\* where one top document holds them both; and the heading of a page that came up
\* too late, or has none, is missing from the trace: the recipe then goes by the
\* one before.
BaselineOnEffectView ==
  WriteCompiled /\ NavigationShows => Matches(PageAfter(Terminal(trace) - 1), Recipe.page)

\* The success output of a capability with a write comes from the read that
\* followed the write, and from no step before it: nothing read earlier can
\* stand in for the confirmation.
ConfirmedAfterWrite ==
  WriteCompiled =>
    LET compiled == CompileCapability(trace) IN
      /\ \A i \in DOMAIN compiled.steps : compiled.steps[i].output # Success
      /\ Recipe.extract.output = Success
      /\ \E i \in WriteIndex(trace) + 1 .. Len(trace) :
           Recipe.extract.target = trace[i].target /\ trace[i].output = Success

\* The provenance shown to a reviewer names the very steps of the trace the
\* recipe was compiled from ("so the mapping is exact, not inferred").
ProvenanceExact ==
  WriteCompiled =>
    LET provenance == VerificationProvenance(trace)
        From(i, step) == /\ trace[i].action = step.action
                         /\ trace[i].target = step.target
                         /\ trace[i].output = step.output
    IN  /\ provenance.write \in Writes(trace)
        /\ DOMAIN provenance.navigate = DOMAIN Recipe.navigate
        /\ \A k \in DOMAIN Recipe.navigate :
             From(provenance.navigate[k], Recipe.navigate[k])
        /\ From(provenance.extract, Recipe.extract)

\* An outcome bound to a transition of the trace is in the artifact, on the
\* step compiled from that transition ("authored business outcomes attach to
\* the specific transition declared to produce them").
OutcomesKept ==
  Success \in Obtained /\ Compiles(trace) =>
    \A b \in Bindings :
      \E i \in DOMAIN CompileCapability(trace).steps :
        /\ BindingMatches(trace, b) = {i}
        /\ b.code \in CompileCapability(trace).steps[i].outcomes

=============================================================================
