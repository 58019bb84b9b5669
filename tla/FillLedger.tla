----------------------------- MODULE FillLedger -----------------------------
(***************************************************************************)
(* What the risk gate learns from broker_fills: today's realised result    *)
(* (calculate_local_daily_realized_pnl) and the current run of losses      *)
(* (_consecutive_losses on the outcomes of build_performance_report), both *)
(* by matching SELLs with the oldest open lots.                            *)
(*                                                                         *)
(* Fills are in the order of the query.  A fill is [symbol, side, qty,     *)
(* price, today]; money is in ten-thousandths of a price unit, so that the *)
(* costs in basis points are integers.  An answer is Figure(n) or None,    *)
(* unknown, which blocks entries (fail_closed).                            *)
(***************************************************************************)
EXTENDS Integers, FiniteSets, Sequences, SequencesExt, Functions

None == <<>>
Figure(n) == <<n>>

\* cost_bps_from_env: the defaults.
BuyCostBps == 15
SellCostBps == 15

Lesser(a, b) == IF a < b THEN a ELSE b

\* Net result of selling n shares of a lot.
Net(n, bought, sold) ==
    n * (10000 * (sold - bought) - BuyCostBps * bought - SellCostBps * sold)

\* Mutant of MatchLot: the lot is taken off the queue though shares are left.
MatchLotDropsRest(m, lot) ==
    LET n == Lesser(m.remaining, lot.qty)
    IN  [m EXCEPT !.remaining = @ - n,
                  !.outcomes = IF n = 0 THEN @ ELSE Append(@, Net(n, lot.price, m.price)),
                  !.lots = IF n > 0 THEN @ ELSE Append(@, lot)]

\* One round of the while loop, for the next lot of the queue.
MatchLot(m, lot) ==
    LET n == Lesser(m.remaining, lot.qty)
    IN  [m EXCEPT !.remaining = @ - n,
                  !.outcomes = IF n = 0 THEN @ ELSE Append(@, Net(n, lot.price, m.price)),
                  !.lots = IF n = lot.qty THEN @ ELSE Append(@, [lot EXCEPT !.qty = @ - n])]

\* The rows of one SELL or BUY against the open lots of its symbol.  A SELL
\* of more than was bought ends the computation without an answer.
Apply(book, f) ==
    LET lots == book.lots[f.symbol]
        m == FoldLeft(MatchLot, [remaining |-> f.qty, price |-> f.price,
                                 outcomes |-> <<>>, lots |-> <<>>], lots)
    IN  CASE ~book.ok -> book
          [] book.ok /\ f.side = "BUY" ->
               [book EXCEPT !.lots[f.symbol] = Append(lots, [qty |-> f.qty, price |-> f.price])]
          [] OTHER ->
               [lots |-> [book.lots EXCEPT ![f.symbol] = m.lots],
                outcomes |-> book.outcomes \o m.outcomes,
                today |-> book.today + IF f.today THEN FoldLeft(+, 0, m.outcomes) ELSE 0,
                ok |-> m.remaining = 0]

Book(fills, symbols) ==
    FoldLeft(Apply, [lots |-> [s \in symbols |-> <<>>], outcomes |-> <<>>,
                     today |-> 0, ok |-> TRUE], fills)

\* calculate_local_daily_realized_pnl: both flags of the reconciliation are
\* down since today, and no fill is later than the older of them (through is
\* the number of fills up to it).
DayResult(fills, symbols, flagsDown, through) ==
    LET book == Book(fills, symbols)
    IN  IF flagsDown /\ through >= Len(fills) /\ book.ok THEN Figure(book.today) ELSE None

\* _consecutive_losses: every matched lot is an outcome of its own.
LossRun(fills, symbols) ==
    LET book == Book(fills, symbols)
        last == SelectLastInSeq(book.outcomes, LAMBDA o : o >= 0)
    IN  IF book.ok THEN Figure(Len(book.outcomes) - last) ELSE None

-----------------------------------------------------------------------------
(* Reference: shares one by one.  The k-th share sold of a symbol is the   *)
(* k-th share bought of it.                                                *)

Shares(fills, symbol, side) ==
    FlattenSeq([i \in 1..Len(fills) |->
        IF fills[i].symbol = symbol /\ fills[i].side = side
        THEN [k \in 1..fills[i].qty |-> [at |-> i, price |-> fills[i].price, today |-> fills[i].today]]
        ELSE <<>>])

Oversold(fills, symbols) ==
    \E s \in symbols, i \in 1..Len(fills) :
        LET upTo == SubSeq(fills, 1, i)
        IN  Len(Shares(upTo, s, "SELL")) > Len(Shares(upTo, s, "BUY"))

\* The shares sold: which fill sold and which bought each, and its result.
Sales(fills, symbols) ==
    UNION {LET sold == Shares(fills, s, "SELL")
               bought == Shares(fills, s, "BUY")
           IN  {[sell |-> sold[k].at, buy |-> bought[k].at, share |-> k, today |-> sold[k].today,
                 net |-> Net(1, bought[k].price, sold[k].price)] : k \in 1..Len(sold)} :
           s \in symbols}

ResultToday(fills, symbols) ==
    FoldFunction(+, 0, [x \in Sales(fills, symbols) |-> IF x.today THEN x.net ELSE 0])

\* Lots sold at a loss after the last one that was not.
LostSince(fills, symbols) ==
    LET pieces == {[sell |-> x.sell, buy |-> x.buy, net |-> x.net] : x \in Sales(fills, symbols)}
        Later(p, q) == q.sell < p.sell \/ (q.sell = p.sell /\ q.buy < p.buy)
    IN  Cardinality({q \in pieces :
            q.net < 0 /\ \A p \in pieces : p.net >= 0 => ~Later(p, q)})
=============================================================================
