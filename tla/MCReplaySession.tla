--------------------------- MODULE MCReplaySession ---------------------------
(***************************************************************************)
(* Small capabilities replayed.  "Create" is the demo application's        *)
(* sub-account creation: look the member up, on whose page the new         *)
(* sub-account would show, open the form, submit it, verify by looking the *)
(* member up again.  "Brief" has the look-up as the only step before the   *)
(* submit.  "PlainWrite" is the creation with no recipe, as hand-written   *)
(* artifacts may have it: a plain write, then a read.                      *)
(***************************************************************************)
EXTENDS ReplaySession

\* The member's page, the form, the page of a rejection, and one out of scope.
Pages == {"member", "form", "rejected", "outside"}
Allowed == Pages \ {"outside"}

Create ==
  [kind |-> << "read", "read", "verified" >>, approved |-> {3}, checked |-> {1, 2},
   post |-> << {"member"}, {"form"}, {} >>, outcome |-> << {}, {}, {"rejected"} >>,
   success |-> {"member"}, output |-> 4,
   navLen |-> 1, navWrites |-> {}, extract |-> TRUE, view |-> {"member"}]

Brief ==
  [Create EXCEPT !.kind = << "read", "verified" >>, !.approved = {2}, !.checked = {1},
                 !.post = << {"member"}, {} >>, !.outcome = << {}, {"rejected"} >>,
                 !.output = 3]

PlainWrite ==
  [Create EXCEPT !.kind = << "read", "write", "read" >>, !.approved = {2},
                 !.post = << {"form"}, {"member"}, {} >>,
                 !.outcome = << {"rejected"}, {}, {} >>, !.output = 3,
                 !.navLen = 0, !.extract = FALSE]

\* A write without a recipe before the one that has it.
Mixed ==
  [Brief EXCEPT !.kind = << "write", "verified" >>, !.approved = {1, 2}]

BriefOnly == {Brief}
PlainOnly == {PlainWrite}
All == {Create, Brief, PlainWrite, Mixed}

=============================================================================
