------------------------------ MODULE Artifact ------------------------------
(***************************************************************************)
(* The capability artifact and the validators every construction and every *)
(* load of one passes through (model/artifact.py), as operators on         *)
(* records.  The compiler builds artifacts with them and the session runs  *)
(* what they accept.                                                       *)
(*                                                                         *)
(*   condition   [kind, of]: one matcher and what it looks for             *)
(*   step        [id, action, target, risk, param, output, post, outcomes, *)
(*               recipe]: param is the ParameterRef of a typed value       *)
(*   recipe      [navigate, page, effect, extract]                         *)
(*   capability  [steps, success]: success is success_checkpoint           *)
(***************************************************************************)
EXTENDS Naturals, Sequences, FiniteSets

CONSTANTS
  Input,    \* the declared inputs
  Output,   \* the declared outputs
  Cell,     \* the targets that are table cells
  None      \* Python's None

\* Conditions of steps and recipes are live; output_present is not.
StepMatchers == {"text", "heading", "route"}
SuccessMatchers == StepMatchers \cup {"output"}

-----------------------------------------------------------------------------
(* Validators *)

\* Step._structural_rules
StepRules(s) ==
  /\ s.target # None
  /\ s.action = "extract" <=> s.output # None
  /\ s.target \in Cell => s.action = "extract"
  /\ s.outcomes # {} => s.post # None
  /\ s.recipe # None => s.risk # "read_only"

\* The steps of a recipe, in the order they run.
RecipeSteps(r) == r.navigate \o (IF r.extract = None THEN << >> ELSE << r.extract >>)

\* MutationVerification._flat_and_read_only, and the rules of its steps.
RecipeRules(r) ==
  /\ RecipeSteps(r) # << >>
  /\ \A k \in DOMAIN RecipeSteps(r) :
       LET member == RecipeSteps(r)[k] IN
         /\ StepRules(member)
         /\ member.risk = "read_only"
         /\ member.recipe = None
  /\ r.extract # None => r.extract.action = "extract"
  /\ {r.page.kind, r.effect.kind} \subseteq StepMatchers

\* The steps one step stands for: itself and those of its recipe.
Members(s) ==
  {s} \cup IF s.recipe = None THEN {}
           ELSE {RecipeSteps(s.recipe)[k] : k \in DOMAIN RecipeSteps(s.recipe)}

AllMembers(c) == UNION {Members(c.steps[i]) : i \in DOMAIN c.steps}

\* The outputs some extract step of the artifact reads.
Produced(c) == {m.output : m \in {n \in AllMembers(c) : n.action = "extract"}}

\* That a parameter is declared; whether its value is passed shows at run time.
ParamsDeclared(c) == \A m \in AllMembers(c) : m.param \in Input \cup {None}

\* Capability._semantic_consistency
SemanticRules(c) ==
  /\ ParamsDeclared(c)
  /\ Produced(c) \subseteq Output
  /\ \A i \in DOMAIN c.steps : c.steps[i].post # None => c.steps[i].post.kind \in StepMatchers
  /\ c.success.kind \in SuccessMatchers
  /\ c.success.kind = "output" => c.success.of \in Output \cap Produced(c)

Verified(c) == {i \in DOMAIN c.steps : c.steps[i].recipe # None}

\* Capability._single_final_verification
SingleFinalVerification(c) ==
  /\ Cardinality(Verified(c)) <= 1
  /\ Verified(c) \subseteq {Len(c.steps)}

UniqueIds(c) == \A i, j \in DOMAIN c.steps : c.steps[i].id = c.steps[j].id => i = j

\* The validators of every part, then those of the whole.
Valid(c) ==
  /\ c.steps # << >>
  /\ \A i \in DOMAIN c.steps :
       /\ StepRules(c.steps[i])
       /\ c.steps[i].recipe # None => RecipeRules(c.steps[i].recipe)
  /\ UniqueIds(c)
  /\ SemanticRules(c)
  /\ SingleFinalVerification(c)

=============================================================================
