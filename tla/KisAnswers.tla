----------------------------- MODULE KisAnswers -----------------------------
(***************************************************************************)
(* KisTransport, and beside it the pure computations on what its calls     *)
(* return: input is a price, a row or a history of fills to work on, and   *)
(* each of them is an initial state of its own, from which no call is made.*)
(***************************************************************************)
EXTENDS KisTransport, KisRows, KrxRules, FillLedger

CONSTANTS
    Decimals,   \* prices are fractions with this denominator, and
    Prices,     \* these are their numerators
    Symbols,    \* what is traded
    Histories   \* sequences of fills: symbol, side, qty, price

\* Prices of two won or more: an entry of one won has no stop below it.
ASSUME PricesAssumption ==
    /\ Decimals \in Nat \ {0}
    /\ \A p \in Prices : p \in Nat /\ p >= 2 * Decimals

\* Fills that neither computation refuses as a row (quantity <= 0, price <= 0).
ASSUME HistoriesAssumption ==
    \A h \in Histories : h \in Seq([symbol: Symbols, side: {"BUY", "SELL"},
                                    qty: Nat \ {0}, price: Nat \ {0}])

VARIABLE input

\* The fills from one position on are of today.
Dated(fills, first) == [i \in DOMAIN fills |->
    [symbol |-> fills[i].symbol, side |-> fills[i].side, qty |-> fills[i].qty,
     price |-> fills[i].price, today |-> i >= first]]

PriceInput == input \in [price: Prices]

\* A field is there, missing, or no number.
RowInput ==
    \E row \in Rows, m \in SUBSET Fields, word \in Words, flag \in BOOLEAN, named \in BOOLEAN :
        \E g \in SUBSET (Fields \ m) :
            input = [row |-> row, missing |-> m, garbled |-> g,
                     word |-> word, flag |-> flag, named |-> named]

FillsInput ==
    \E h \in Histories, down \in BOOLEAN, behind \in 0..1 :
        \E first \in 1..(Len(h) + 1) :
            input = [fills |-> Dated(h, first), down |-> down, through |-> Len(h) - behind]

AnswersInit ==
    /\ TransportInit
    /\ input = <<>> \/ PriceInput \/ RowInput \/ FillsInput

AnswersNext ==
    /\ input = <<>>
    /\ TransportNext
    /\ UNCHANGED input

AnswersSpec ==
    /\ AnswersInit /\ [][AnswersNext]_<<vars, input>>
    /\ TransportFairness

-----------------------------------------------------------------------------
(***************************************************************************)
(* Every plan the AI step derives from an entry price of two won or more   *)
(* survives the trading cycle: its prices are on the exchange's ladder     *)
(* also where stop, entry and target lie in different bands, the cycle's   *)
(* second normalisation (auto_trade.py:360-414) leaves them as they are,   *)
(* and validate_risk_reward does not refuse them.                          *)
(***************************************************************************)
PlansSurvive ==
    "price" \in DOMAIN input => PlanSurvives(input.price, Decimals)

(***************************************************************************)
(* A protective SELL is never priced out by the policy's own slippage      *)
(* limit: at any last price of 200 won or more the limit rounded down to   *)
(* the ladder is accepted, so no position is left without its exit because *)
(* of rounding ("exit_price_policy_blocked").                              *)
(***************************************************************************)
ExitsAreNotPricedOut ==
    "price" \in DOMAIN input =>
        (input.price >= 200 * Decimals =>
            /\ SellPlanned(input.price, Decimals)
            /\ OnLadder(SellLimit(input.price, Decimals)))

(***************************************************************************)
(* Reading a row errs on the safe side.  An order with shares still        *)
(* working is read as filled, cancelled or rejected (which would let the   *)
(* program forget the order and replace it) only where KIS itself says so  *)
(* in the row's status word or its flag, which _parse_status believes      *)
(* before any quantity; missing and garbled quantities never do it.  And   *)
(* no row is taken for another order's state: a named row with all its     *)
(* quantities, and a word and a flag that are true if they are there, says *)
(* exactly what became of the order, and only a row without its number or  *)
(* symbol is left out.                                                     *)
(***************************************************************************)
WorkingIsNotTerminal ==
    "row" \in DOMAIN input =>
        LET row == input.row
            status == StatusOf(row, input.missing, input.garbled,
                               input.word, input.flag, input.named)
        IN  /\ (row.rmn > 0 /\ status \in {"FILLED", "CANCELLED", "REJECTED"}) =>
                   \/ status = input.word
                   \/ input.word = NoWord /\ input.flag /\ status = "REJECTED"
            /\ input.named => status # "IGNORED"
            /\ (/\ input.named
                /\ input.missing \cup input.garbled = {}
                /\ input.word \in {NoWord, Meant(row)}
                /\ input.flag => row.rjct > 0) => status = Meant(row)

(***************************************************************************)
(* The two figures that stop trading on a bad day are those of the shares  *)
(* themselves, however the exchange cuts orders into fills: today's result *)
(* is that of the shares sold today, first bought first sold, the run of   *)
(* losses that of the lots sold since the last gain, and where the fills   *)
(* are not all reconciled, or do not add up, there is no figure at all.    *)
(***************************************************************************)
RiskFiguresAreTrue ==
    "fills" \in DOMAIN input =>
        LET f == input.fills
            s == Symbols
        IN  IF Oversold(f, s)
            THEN DayResult(f, s, input.down, input.through) = None /\ LossRun(f, s) = None
            ELSE /\ DayResult(f, s, input.down, input.through) =
                        IF input.down /\ input.through = Len(f) THEN Figure(ResultToday(f, s)) ELSE None
                 /\ LossRun(f, s) = Figure(LostSince(f, s))
=============================================================================
