-------------------------- MODULE MCKisCredentials --------------------------
(* Small instances of KisCredentials.                                      *)
EXTENDS KisCredentials

CONSTANTS p1, p2, p3

=============================================================================
