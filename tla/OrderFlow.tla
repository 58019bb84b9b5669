----------------------------- MODULE OrderFlow -----------------------------
(***************************************************************************)
(* The order life cycle of the trading service in its default, REST-only   *)
(* mode: the trading thread, the order supervisor, the operator and the    *)
(* broker acting on one ledger, and the process crashing and restarting    *)
(* between any two steps (the ledger persists, the threads do not).        *)
(***************************************************************************)
EXTENDS Trader, Supervisor, Functions

CONSTANT MaxUpsets   \* bound on crashes and operator commands, together

ASSUME UpsetsAssumption == MaxUpsets \in Nat

VARIABLE upsets      \* how many there were

vars == <<ledgerVars, brokerVars, trader, supVars, upsets>>

Init ==
    /\ LedgerInit
    /\ BrokerInit
    /\ TraderInit
    /\ SupInit
    /\ upsets = 0

-----------------------------------------------------------------------------
(* The operator, through Telegram, and crashes                             *)

Upset == upsets < MaxUpsets /\ upsets' = upsets + 1

\* _request_open_buy_cancellation: set when some BUY is unresolved, else cleared.
RequestCancelBuys ==
    /\ Upset
    /\ meta' = [meta EXCEPT !.cancelReq =
                  \E b \in Buys : orders[b].status \in Unresolved]
    /\ UNCHANGED <<orders, fillIds, booked, applied, positions, marker,
                   brokerVars, trader, supVars>>

\* Pause or resume, an emergency stop or its end, the lease lost or regained.
GateChanges ==
    /\ Upset
    /\ meta' = [meta EXCEPT !.gate = ~@]
    /\ UNCHANGED <<orders, fillIds, booked, applied, positions, marker,
                   brokerVars, trader, supVars>>

\* The process dies and is started again: both threads begin anew.
Crash ==
    /\ Upset
    /\ trader' = TraderIdle
    /\ SupReset
    /\ UNCHANGED <<ledgerVars, brokerVars>>

\* Every step but a crash.
Step ==
    \/ TraderStep /\ UNCHANGED <<supVars, upsets>>
    \/ SupervisorStep /\ UNCHANGED <<trader, upsets>>
    \/ BrokerStep /\ UNCHANGED <<trader, supVars, upsets>>
    \/ RequestCancelBuys
    \/ GateChanges

Next == Step \/ Crash

Spec == Init /\ [][Next]_vars

-----------------------------------------------------------------------------
(* Properties                                                              *)

\* Every variable keeps its type: ledger rows, broker records and the private
\* state of the two threads.
TypeOK ==
    /\ LedgerTypeOK
    /\ BrokerTypeOK
    /\ TraderTypeOK
    /\ SupTypeOK
    /\ upsets \in 0..MaxUpsets

\* A client_order_id reaches the broker at most once, whatever crashes, lost
\* answers and repeated signals happen: claim_order_intent is the only way in.
SubmittedAtMostOnce == \A o \in Orders : sent[o] <= 1

\* The ledger never gives up on an order that is still working at the broker:
\* its row exists and is not terminal.
LiveIsUnresolved ==
    \A o \in Orders : broker[o].st = "OPEN" => orders[o].status \in Active

\* Two entries never work at the broker at the same time, the one just accepted
\* and not yet recorded included; the guard leaves out only a row that a crash
\* has orphaned in SUBMITTING (its list of statuses does not have it).
Recorded(b) ==
    \/ orders[b].status # "SUBMITTING"
    \/ trader.pc \in {"acked", "failed"} /\ trader.o = b

BuyExclusion ==
    \A a, b \in {o \in Buys : broker[o].st = "OPEN" /\ Recorded(o)} : a = b

\* Two exits of one symbol are never both working at the broker.
SellExclusion ==
    \A s, t \in Sells :
        broker[s].st = "OPEN" /\ broker[t].st = "OPEN" /\ Sym(s) = Sym(t) => s = t

\* The ledger is never ahead of the broker: no share is booked, or counted as
\* filled, that did not trade.
LedgerNeverAhead ==
    \A o \in Orders : booked[o] <= broker[o].filled /\ orders[o].filled <= broker[o].filled

\* Open positions are exactly what the applied fills add up to, so no crash or
\* interleaving applies a fill twice or loses one half-applied.
BoughtShares(sym) == SumFunctionOnSet(applied, {b \in Buys : Sym(b) = sym})
SoldShares(sym) == SumFunctionOnSet(applied, {s \in Sells : Sym(s) = sym})

PositionsMatchFills ==
    \A sym \in Symbols : OpenQty(sym) = BoughtShares(sym) - SoldShares(sym)

\* A pass that ends without a problem (the status "reconciled", which opens the
\* next trading cycle) has left no stored fill unapplied.
CleanPassAppliesFills ==
    supPc = "end" /\ ~pass.problem => \A o \in Orders : ~Unapplied(o)

\* Where OrderLife has an order whose record at the broker is r.
PlaceOf(r) == CASE r.st = "NONE" -> "unsent"
                [] r.st = "OPEN" -> "working"
                [] OTHER -> "ended"

\* The orders as OrderLife sees them: what the exchange and the ledger say,
\* with the threads' private state and the other tables hidden.
Life == INSTANCE OrderLife WITH
    asked <- [o \in Orders |-> orders[o].req],
    place <- [o \in Orders |-> PlaceOf(broker[o])],
    traded <- [o \in Orders |-> broker[o].filled],
    known <- [o \in Orders |-> orders[o].filled],
    closed <- {o \in Orders : orders[o].status \in Terminal}

\* OrderFlow implements OrderLife: no step of a thread with an old read, no
\* lost answer and no crash places an order again, moves the ledger ahead of
\* the exchange or back, resolves a working order or reopens a resolved one.
ImplementsOrderLife == Life!LifeSpec

-----------------------------------------------------------------------------
(* Liveness                                                                *)

\* The supervisor thread keeps running (service_loop starts it again whenever
\* it has ended), the trading day ends, and the exchange carries out or
\* expires what it was asked to.
FairSpec ==
    /\ Spec
    /\ WF_vars(SupervisorStep /\ UNCHANGED <<trader, upsets>>)
    /\ WF_vars(SessionAdvances /\ UNCHANGED <<trader, supVars, upsets>>)
    /\ WF_vars(\E o \in Orders : BrokerCancel(o) /\ UNCHANGED <<trader, supVars, upsets>>)

\* A pass that KIS, the database or the lease does not let finish.
Outage == SupFetchFails \/ SupException \/ SupLeaseInvalid

\* If outages end, every order the broker numbered is resolved in the ledger:
\* no row stays ACKNOWLEDGED, PARTIALLY_FILLED, CANCEL_PENDING or UNKNOWN.
KnownOrdersResolve ==
    <>[][~Outage]_vars =>
        \A o \in Orders : orders[o].bid ~> orders[o].status \in Terminal

-----------------------------------------------------------------------------
(* The inductive invariant behind the safety properties                    *)

\* The order in the trading thread's hands, at each of its steps.
InHand ==
    /\ trader.pc \notin {"idle", "cycle"} => trader.o \in Orders
    /\ trader.pc = "claimed" => orders[trader.o].status = "INTENT"
    /\ trader.pc \in {"submitting", "checked", "cleared"} =>
          orders[trader.o].status = "SUBMITTING" /\ sent[trader.o] = 0
    /\ trader.pc \in {"acked", "failed"} => orders[trader.o].status = "SUBMITTING"
    /\ trader.pc \in {"claimed", "submitting", "checked", "cleared"} =>
          orders[trader.o].req = trader.q
    /\ trader.pc \in {"checked", "cleared"} => trader.q > 0
    /\ trader.pc = "acked" => broker[trader.o].st # "NONE"

\* What a ledger row says about the broker.
RowsTellTruth ==
    \A o \in Orders :
        /\ orders[o].status \in {"NONE", "INTENT"} => sent[o] = 0
        /\ orders[o].status \in {"NONE", "INTENT", "SUBMITTING"} => ~orders[o].bid
        /\ orders[o].status \notin {"NONE", "INTENT", "SUBMITTING", "UNKNOWN"} => orders[o].bid
        /\ orders[o].bid => broker[o].st # "NONE"
        /\ broker[o].st # "NONE" => sent[o] = 1
        /\ broker[o].st = "NONE" => broker[o].filled = 0
        /\ broker[o].st = "OPEN" => broker[o].filled < orders[o].req
        /\ orders[o].status \in Terminal => broker[o].st # "OPEN"
        /\ booked[o] <= orders[o].filled
        /\ orders[o].filled <= broker[o].filled
        /\ applied[o] <= booked[o]
        /\ ~orders[o].bid => orders[o].filled = 0

\* A pass holds an order list that is old but true, and no ledger row is
\* ahead of it.
Reading == {"account", "rows", "reconcile", "status", "matread", "matwrite",
            "cancel", "manage", "rowloop", "send", "store"}

SnapshotTrue ==
    supPc \in Reading =>
        \A o \in Orders :
            /\ snap[o].st # "NONE" => broker[o].st # "NONE"
            /\ snap[o].st \in Terminal => broker[o].st = snap[o].st
            /\ snap[o].filled <= broker[o].filled
            /\ orders[o].filled <= snap[o].filled

\* The rows a loop selected are as old as the loop, but a broker id stays, and
\* only this thread changes the filled quantity of a row still to be handled.
RowsStillTrue ==
    /\ \A o \in Orders : local[o].bid => orders[o].bid
    /\ supPc = "reconcile" => \A o \in todo : local[o].filled = orders[o].filled
    /\ supPc \in {"status", "matread", "matwrite"} =>
          /\ cur \in Orders \ todo /\ local[cur].bid /\ snap[cur].st # "NONE"
          /\ \A o \in todo : local[o].filled = orders[o].filled
    /\ supPc \in {"send", "store"} => cur \in Orders /\ orders[cur].bid
    /\ (supPc \in {"rowloop", "send", "store"} /\ pass.stage = "operator") =>
          \A o \in todo : orders[o].bid
    /\ mat.from <= mat.upto
    /\ supPc = "matwrite" => mat.upto <= booked[cur]

\* BuyExclusion without the entry in the trading thread's hands.
SettledEntryAlone ==
    \A a, b \in {o \in Buys : /\ broker[o].st = "OPEN"
                             /\ orders[o].status # "SUBMITTING"} : a = b

\* An entry that may still be sent, or was just accepted, finds no other one
\* working but those a crash orphaned in SUBMITTING.
EntryAlone ==
    trader.o \in Buys =>
        /\ trader.pc \in {"checked", "cleared"} =>
             \A b \in Buys : broker[b].st = "OPEN" => orders[b].status = "SUBMITTING"
        /\ trader.pc \in {"acked", "failed"} /\ broker[trader.o].st = "OPEN" =>
             \A b \in Buys : broker[b].st = "OPEN" => orders[b].status = "SUBMITTING"

\* An exit in preparation finds no other exit of its symbol working.
ExitAlone ==
    (/\ trader.o \in Sells
     /\ trader.pc \in {"deciding", "quoting", "claimed", "submitting", "checked", "cleared"}) =>
        \A s \in Sells : Sym(s) = Sym(trader.o) => broker[s].st # "OPEN"

IInv ==
    /\ TypeOK
    /\ InHand
    /\ RowsTellTruth
    /\ SubmittedAtMostOnce
    /\ SnapshotTrue
    /\ RowsStillTrue
    /\ EntryAlone
    /\ ExitAlone
    /\ SettledEntryAlone
    /\ SellExclusion

-----------------------------------------------------------------------------
(* What the documentation says and the code does not do                    *)

\* A resolved order keeps every share it traded: the partial fill of a
\* cancelled order is in broker_fills before its status says so.
ResolvedIsBooked ==
    \A o \in Orders :
        orders[o].status \in Terminal => booked[o] = broker[o].filled

\* database.py: "Apply unmaterialized broker fills to live positions exactly
\* once."  A stored BUY fill can still be applied: it joins an open position
\* of its symbol, or opens its own, which was not opened and closed before.
FillsCanBeApplied ==
    \A b \in Buys :
        Unapplied(b) /\ OpenPosition(Sym(b)) = None => positions[b].st = "NONE"

\* README.md: in review "new BUYs are blocked ... the runtime is not paused".
\* A service that is not paused may then still start a cycle to exit a position.
ReviewStillExits ==
    (/\ At("idle") /\ supPc = "idle"
     /\ meta.review /\ meta.gate /\ ~meta.cancelReq /\ market # "closed"
     /\ \E sym \in Symbols : OpenPosition(sym) # None)
    => CycleOpen

=============================================================================
