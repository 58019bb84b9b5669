----------------------------- MODULE KisBroker -----------------------------
(***************************************************************************)
(* The KIS brokerage and the exchange, as the code under src/ uses them    *)
(* (external).  An accepted order is OPEN until it is filled, cancelled or *)
(* rejected; fills come one share at a time; a cancel request only lets    *)
(* the broker cancel later (its HTTP success is not a confirmation).       *)
(*                                                                         *)
(* sent is a history variable that saturates at 2: how often the program   *)
(* asked the broker to submit an order.                                    *)
(***************************************************************************)
EXTENDS OrderLedger

VARIABLES
    broker,   \* the broker's record of each order
    held,     \* shares held in the account, per symbol
    sent,     \* submit requests made for an order: 0, 1, 2 (= several)
    cancels,  \* orders the broker was asked to cancel
    market    \* KRX session: new entries allowed, exits only, closed

brokerVars == <<broker, held, sent, cancels, market>>

BrokerRow == [st: {"NONE", "OPEN", "FILLED", "CANCELLED", "REJECTED"}, filled: Nat]

BrokerInit ==
    /\ broker = [o \in Orders |-> [st |-> "NONE", filled |-> 0]]
    /\ held = [sym \in Symbols |-> 0]
    /\ sent = [o \in Orders |-> 0]
    /\ cancels = {}
    /\ market = "entry"

BrokerTypeOK ==
    /\ broker \in [Orders -> BrokerRow]
    /\ held \in [Symbols -> Int]
    /\ sent \in [Orders -> 0..2]
    /\ cancels \subseteq Orders
    /\ market \in {"entry", "exit", "closed"}

Again(n) == IF n = 2 THEN 2 ELSE n + 1

\* KisOrderStatus of an order in the broker's answer, in the ledger's words.
LocalStatusForBroker(r) ==
    IF r.st = "OPEN"
    THEN IF r.filled = 0 THEN "ACKNOWLEDGED" ELSE "PARTIALLY_FILLED"
    ELSE r.st

\* KIS does not sell more shares than the account holds.
Acceptable(o) == o \in Sells => orders[o].req <= held[Sym(o)]

\* One share of an open order trades.
BrokerFill(o) ==
    /\ market # "closed"
    /\ broker[o].st = "OPEN"
    /\ LET n == broker[o].filled + 1
       IN  broker' = [broker EXCEPT ![o] =
                        [st |-> IF n = orders[o].req THEN "FILLED" ELSE "OPEN",
                         filled |-> n]]
    /\ held' = [held EXCEPT ![Sym(o)] = IF o \in Buys THEN @ + 1 ELSE @ - 1]
    /\ UNCHANGED <<ledgerVars, sent, cancels, market>>

\* A requested cancellation takes effect, or the session end expires the order.
BrokerCancel(o) ==
    /\ broker[o].st = "OPEN"
    /\ o \in cancels \/ market = "closed"
    /\ broker' = [broker EXCEPT ![o].st = "CANCELLED"]
    /\ UNCHANGED <<ledgerVars, held, sent, cancels, market>>

\* The exchange rejects an order the broker had numbered.
BrokerReject(o) ==
    /\ broker[o].st = "OPEN"
    /\ broker[o].filled = 0
    /\ broker' = [broker EXCEPT ![o].st = "REJECTED"]
    /\ UNCHANGED <<ledgerVars, held, sent, cancels, market>>

\* The KRX session moves on (market/schedule.py).
SessionAdvances ==
    /\ market # "closed"
    /\ market' = IF market = "entry" THEN "exit" ELSE "closed"
    /\ UNCHANGED <<ledgerVars, broker, held, sent, cancels>>

BrokerStep ==
    \/ \E o \in Orders : BrokerFill(o) \/ BrokerCancel(o) \/ BrokerReject(o)
    \/ SessionAdvances

=============================================================================
