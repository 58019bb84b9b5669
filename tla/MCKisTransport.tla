--------------------------- MODULE MCKisTransport ---------------------------
(***************************************************************************)
(* Two threads, the trading cycle and the supervisor, one call each of any *)
(* kind.  Prices are tenths of a won: all of 2 to 2100 won, and 30 won     *)
(* either side of a band.                                                  *)
(***************************************************************************)
EXTENDS KisAnswers

Bands == {2000, 5000, 20000, 50000, 200000, 500000}
MCPrices == (20..21000) \cup UNION {(10 * b - 300)..(10 * b + 300) : b \in Bands}

\* Up to three fills of two symbols, or four of one.  Shares are bought for 1
\* or 3 and sold for 2.
Fills(symbols) ==
    [symbol: symbols, side: {"BUY"}, qty: 1..2, price: {1, 3}] \cup
    [symbol: symbols, side: {"SELL"}, qty: 1..2, price: {2}]
MCHistories ==
    UNION {[1..n -> Fills(Symbols)] : n \in 0..3} \cup
    [1..4 -> Fills({"a"})]
=============================================================================
