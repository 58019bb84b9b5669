---------------------------- MODULE MCOrderFlow ----------------------------
(* Small instances of OrderFlow: one symbol, entries of one or two shares. *)
EXTENDS OrderFlow, TLC

CONSTANTS s1, b1, b2, x1, x2

AllOnS1 == [b \in Buys |-> s1]
OfB1 == [s \in Sells |-> b1]
TwoShares == [b \in Buys |-> 2]
OneShare == [b \in Buys |-> 1]

\* Orders on one symbol with equal lots are interchangeable: at most one
\* position is open at a time, so no CHOOSE tells them apart.
SwapBuys == Permutations({b1, b2})
SwapSells == Permutations({x1, x2})

\* The service starts with n shares of b1 filled and applied on an earlier run:
\* a state of Spec after a clean pass and a crash, the market open.
Holding(n) ==
    LET lot == LotSize[b1]
        Of(f, row) == [o \in Orders |-> IF o = b1 THEN row ELSE f[o]]
        Zero == [o \in Orders |-> 0]
    IN  /\ orders = Of(NoRows, [status |-> IF n = lot THEN "FILLED" ELSE "PARTIALLY_FILLED",
                                bid |-> TRUE, req |-> lot, filled |-> n])
        /\ fillIds = {<<b1, "cum", n>>}
        /\ booked = Of(Zero, n)
        /\ applied = Of(Zero, n)
        /\ positions = [b \in Buys |-> [st |-> "OPEN", qty |-> n]]
        /\ marker = [o \in Orders |-> "none"]
        /\ meta = [block |-> FALSE, review |-> FALSE, cancelReq |-> FALSE,
                   supOk |-> TRUE, gate |-> TRUE]
        /\ broker = Of(NoSnap, [st |-> IF n = lot THEN "FILLED" ELSE "OPEN", filled |-> n])
        /\ held = [sym \in Symbols |-> n]
        /\ sent = Of(Zero, 1)
        /\ cancels = {}
        /\ market = "entry"
        /\ TraderInit
        /\ SupInit
        /\ upsets = 0

HoldingSpec == Holding(LotSize[b1]) /\ [][Next]_vars

=============================================================================
