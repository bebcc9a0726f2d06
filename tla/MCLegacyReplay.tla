---------------------------- MODULE MCLegacyReplay ----------------------------
(***************************************************************************)
(* One capability or both of evidence/capability on the demo application.  *)
(***************************************************************************)
EXTENDS LegacyReplay

Both == {Lookup, Open}
LookupOnly == {Lookup}

=============================================================================
