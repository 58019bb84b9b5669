--------------------------- MODULE MCEntryDecision ---------------------------
(* Small instances of EntryDecision.                                       *)
EXTENDS EntryDecision

CONSTANTS s1, s2

=============================================================================
