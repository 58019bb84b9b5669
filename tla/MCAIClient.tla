----------------------------- MODULE MCAIClient -----------------------------
(* Small instances of AIClient.                                            *)
EXTENDS AIClient

CONSTANTS w1, w2

=============================================================================
