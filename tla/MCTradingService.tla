-------------------------- MODULE MCTradingService --------------------------
(* Small instances of TradingService.                                      *)
EXTENDS TradingService, TLC

CONSTANTS p1, p2

\* p1 trades two symbols; p2 only takes the lease and repairs the switch.
P1Trades == [p \in Procs |-> IF p = p1 THEN 2 ELSE 0]

=============================================================================
