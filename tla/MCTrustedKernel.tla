--------------------------- MODULE MCTrustedKernel ---------------------------
(***************************************************************************)
(* Small instances of the kernel.  The operations are those of the demo    *)
(* application: a lookup's safe click, a typed field, two consequential    *)
(* clicks, one of them also in the form a compiled step has, with a        *)
(* fallback locator, and a proposal to scroll, which the kernel does not   *)
(* execute.                                                                *)
(***************************************************************************)
EXTENDS TrustedKernel, TLC

Descriptors == {"search", "field", "create", "createAlt", "transfer"}

Pages == {"form", "other"}

MCAction ==
  [o \in Op |-> CASE o \in {"fill", "fillMissing"} -> "type" [] o = "lookup" -> "extract" [] OTHER -> "click"]

MCLocators ==
  [o \in Op |-> CASE o = "search"     -> << "search" >>
                  [] o \in {"fill", "fillMissing"} -> << "field" >>
                  [] o = "lookup"     -> << "field" >>
                  [] o = "create"     -> << "create" >>
                  [] o = "createStep" -> << "create", "createAlt" >>
                  [] OTHER            -> << "transfer" >>]

\* A fingerprint keeps role, name and table cell: targets known by their text
\* alone share one, so a grant for "create" also fits "transfer".
TextOnly == [d \in Descriptors |-> "no role, name or cell"]

\* The pages have headings of their own, or one heading.
OwnHeadings == [p \in Pages |-> p]
OneHeading == [p \in Pages |-> "Open Sub-Account"]

\* Off the form the primary of createStep is gone and its fallback is there,
\* and the search control is there twice.
MCMatches ==
  [form  |-> [search |-> 1, field |-> 1, create |-> 1, createAlt |-> 0, transfer |-> 1],
   other |-> [search |-> 2, field |-> 0, create |-> 0, createAlt |-> 1, transfer |-> 1]]

\* Calls and nonces are interchangeable; no liveness is checked under it.
Symmetry == Permutations(Call) \cup Permutations(Nonce)

=============================================================================
