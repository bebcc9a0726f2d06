-------------------------- MODULE MCDiscoveryLoop ---------------------------
(***************************************************************************)
(* A member view with a link out of scope, to a page much like it; a form  *)
(* with a consequential button, and a list whose cells have text and no    *)
(* name.                                                                   *)
(***************************************************************************)
EXTENDS DiscoveryLoop

Pages == {"member", "form", "outside"}
Headings == [p \in Pages |-> p]

Controls == {"open", "reload", "leave", "create", "row", "status"}

Shown == [p \in Pages |-> CASE p = "member" -> {"open", "reload", "leave", "row", "status"}
                            [] p = "form" -> {"create", "leave"}
                            [] p = "outside" -> {"reload", "status"}]

Leads == [c \in Controls |-> CASE c = "open" -> "form"
                               [] c = "leave" -> "outside"
                               [] OTHER -> "member"]

Described == [c \in Controls |-> IF c \in {"row", "status"} THEN "element" ELSE c]

Decision(action, control, output) == [action |-> action, control |-> control, output |-> output]

Plain(action) == Decision(action, None, None)
Click(control) == Decision("click", control, None)
Extract(control, output) == Decision("extract", control, output)

\* Everything a model may answer, on one page and a form.
Proposals ==
  {Plain("invalid"), Plain("declare_success"), Plain("observe"), Plain("scroll"),
   Plain("request_human"), Click("open"), Click("reload"), Click("leave"), Click("create"),
   Extract("row", "rate"), Extract("status", "status")}

ClickProposals == {Click("leave"), Click("reload"), Click("open"), Click("create")}

=============================================================================
