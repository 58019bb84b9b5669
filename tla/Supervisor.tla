----------------------------- MODULE Supervisor -----------------------------
(***************************************************************************)
(* The order-supervisor thread (ops/order_supervisor.py, one_iteration):   *)
(* read the day's orders and the account from KIS, reconcile the ledger    *)
(* with them (pipeline/broker_reconciliation.py), carry out an operator's  *)
(* "cancel open BUYs", cancel stale orders (pipeline/order_management.py)  *)
(* and publish the outcome.                                                *)
(*                                                                         *)
(* The two broker answers and the ledger rows are read once and used for   *)
(* the rest of the pass; every write is an action of its own, so the other *)
(* threads, and a crash, come between any two of them.  Rows are handled   *)
(* in any order.  KIS rows are taken to be well formed and to carry the    *)
(* identity the order was submitted with.                                  *)
(***************************************************************************)
EXTENDS KisBroker

VARIABLES
    supPc,  \* program counter of the pass
    snap,   \* get_today_orders(), NONE for an order it does not list
    acct,   \* get_snapshot(): whether it answered, and the holdings
    local,  \* the ledger rows as the current loop selected them
    todo,   \* the rows the current loop still has to handle
    cur,    \* the row in hand
    mat,    \* what materialize_order_fills read
    pass    \* running totals of the pass

supVars == <<supPc, snap, acct, local, todo, cur, mat, pass>>

NoSnap == [o \in Orders |-> [st |-> "NONE", filled |-> 0]]
NoAcct == [ok |-> FALSE, held |-> [sym \in Symbols |-> 0]]
NoRows == [o \in Orders |->
             [status |-> "NONE", bid |-> FALSE, req |-> 0, filled |-> 0]]

\* problem: a reason for review was found; pending: a cancel is outstanding;
\* matched: broker orders that belong to a ledger row; stage: who cancels.
NewPass == [problem |-> FALSE, pending |-> FALSE, matched |-> {}, stage |-> "none"]

SupPcs == {"idle", "account", "rows", "reconcile", "status", "matread",
           "matwrite", "cancel", "manage", "rowloop", "send", "store", "end"}

SupTypeOK ==
    /\ supPc \in SupPcs
    /\ snap \in [Orders -> BrokerRow]
    /\ acct \in [ok: BOOLEAN, held: [Symbols -> Int]]
    /\ local \in [Orders -> OrderRow]
    /\ todo \subseteq Orders
    /\ cur \in Orders \cup {None}
    /\ mat \in MaterializeReads
    /\ pass \in [problem: BOOLEAN, pending: BOOLEAN, matched: SUBSET Orders,
                 stage: {"none", "operator", "stale"}]

SupInit ==
    /\ supPc = "idle"
    /\ snap = NoSnap
    /\ acct = NoAcct
    /\ local = NoRows
    /\ todo = {}
    /\ cur = None
    /\ mat = NoRead
    /\ pass = NewPass

SupReset ==
    /\ supPc' = "idle"
    /\ snap' = NoSnap
    /\ acct' = NoAcct
    /\ local' = NoRows
    /\ todo' = {}
    /\ cur' = None
    /\ mat' = NoRead
    /\ pass' = NewPass

Listed(o) == snap[o].st # "NONE"

\* by_broker_id.get(local broker id)
Found(o) == local[o].bid /\ Listed(o)

Flag(review, block) == meta' = [meta EXCEPT !.review = review, !.block = block]

-----------------------------------------------------------------------------
(* Reading the broker                                                      *)

\* _write_status: cycles start only on "reconciled" (see Trader).
WriteStatus(m, reconciled) == [m EXCEPT !.supOk = reconciled]

\* _mark_exception
MarkException(m) == WriteStatus([m EXCEPT !.review = TRUE, !.block = TRUE], FALSE)

\* _lease_is_valid: one of the conditions meta.gate stands for.
LeaseIsValid == meta.gate

SupFetchOrders ==
    /\ supPc = "idle"
    /\ snap' = broker
    /\ supPc' = "account"
    /\ UNCHANGED <<ledgerVars, brokerVars, acct, local, todo, cur, mat, pass>>

\* No order list: reconciliation, the operator's request (consumed) and the
\* stale-order pass all fail closed, and the pass ends.
SupFetchFails ==
    /\ supPc = "idle"
    /\ meta' = [meta EXCEPT !.review = TRUE, !.block = TRUE, !.supOk = FALSE,
                            !.cancelReq = FALSE]
    /\ UNCHANGED <<orders, fillIds, booked, applied, positions, marker,
                   brokerVars, supVars>>

\* An exception escapes the pass: the clients cannot be built, or a database
\* call fails anywhere in it (broker calls are caught where they are made).
\* Only the flags and the status change.
SupException ==
    /\ supPc \notin {"account", "send"}
    /\ meta' = MarkException(meta)
    /\ SupReset
    /\ UNCHANGED <<orders, fillIds, booked, applied, positions, marker, brokerVars>>

\* The lease is not ours: the status says so and the thread returns;
\* service_loop starts it again.
SupLeaseInvalid ==
    /\ supPc = "idle"
    /\ ~LeaseIsValid
    /\ meta' = WriteStatus(meta, FALSE)
    /\ UNCHANGED <<orders, fillIds, booked, applied, positions, marker,
                   brokerVars, supVars>>

\* The account is read after the orders; fills may come in between.
SupFetchAccount ==
    /\ supPc = "account"
    /\ \/ acct' = [ok |-> TRUE, held |-> held]
       \/ acct' = NoAcct
    /\ supPc' = "rows"
    /\ UNCHANGED <<ledgerVars, brokerVars, snap, local, todo, cur, mat, pass>>

-----------------------------------------------------------------------------
(* reconcile_broker_state                                                  *)

\* Mutant of RecReadRows: UNKNOWN rows are left to the operator.
RecReadRowsNoUnknown ==
    /\ supPc = "rows"
    /\ local' = orders
    /\ todo' = {o \in Orders : orders[o].status \in Active \ {"UNKNOWN"} \/ Unapplied(o)}
    /\ supPc' = "reconcile"
    /\ UNCHANGED <<ledgerVars, brokerVars, snap, acct, cur, mat, pass>>

\* Rows that are not resolved, or have fills not yet applied.
RecReadRows ==
    /\ supPc = "rows"
    /\ local' = orders
    /\ todo' = {o \in Orders : orders[o].status \in Active \/ Unapplied(o)}
    /\ supPc' = "reconcile"
    /\ UNCHANGED <<ledgerVars, brokerVars, snap, acct, cur, mat, pass>>

\* A row the broker's answer cannot settle: no broker id yet, not listed, or
\* fewer shares filled than the ledger already has.
RecUnsettled(o) == ~Found(o) \/ snap[o].filled < local[o].filled

RecSkip(o) ==
    /\ supPc = "reconcile" /\ o \in todo
    /\ RecUnsettled(o)
    /\ todo' = todo \ {o}
    /\ pass' = [pass EXCEPT !.problem = TRUE,
                            !.matched = IF Found(o) THEN @ \cup {o} ELSE @]
    /\ UNCHANGED <<ledgerVars, brokerVars, supPc, snap, acct, local, cur, mat>>

\* Mutant of RecDelta: what is missing to the requested quantity.
RecRemaining(o) == local[o].req - local[o].filled

\* The difference between the broker's and the selected row's cumulative
\* quantity is one new fill.
RecDelta(o) == snap[o].filled - local[o].filled

RecFillId(o) == <<o, "cum", snap[o].filled>>

RecBook(o) ==
    /\ supPc = "reconcile" /\ o \in todo
    /\ ~RecUnsettled(o)
    /\ IF RecDelta(o) > 0
       THEN ApplyBrokerFill(o, RecFillId(o), RecDelta(o))
       ELSE UNCHANGED <<orders, fillIds, booked>>
    /\ LET raised == RecDelta(o) > 0 /\ ApplyRaises(o, RecFillId(o), RecDelta(o))
       IN  /\ pass' = [pass EXCEPT
                          !.problem = @ \/ raised \/ local[o].status = "UNKNOWN",
                          !.matched = @ \cup {o}]
           /\ supPc' = IF raised THEN "reconcile" ELSE "status"
           /\ cur' = IF raised THEN None ELSE o
           /\ todo' = todo \ {o}
    /\ UNCHANGED <<applied, positions, marker, meta, brokerVars, snap, acct,
                   local, mat>>

\* Mutant of RecStatusFor: a pending cancel stays pending for ever.
RecStatusSticky(o) ==
    IF local[o].status = "CANCEL_PENDING"
    THEN "CANCEL_PENDING" ELSE LocalStatusForBroker(snap[o])

\* A pending cancel stays pending until the broker's status is terminal.
RecStatusFor(o) ==
    LET st == LocalStatusForBroker(snap[o])
    IN  IF local[o].status = "CANCEL_PENDING" /\ st \notin Terminal
        THEN "CANCEL_PENDING" ELSE st

RecStatus ==
    /\ supPc = "status"
    /\ UpdateBrokerOrderStatus(cur, RecStatusFor(cur), snap[cur].filled)
    /\ supPc' = "matread"
    /\ UNCHANGED <<fillIds, booked, applied, positions, marker, meta,
                   brokerVars, snap, acct, local, todo, cur, mat, pass>>

RecMaterializeRead ==
    /\ supPc = "matread"
    /\ mat' = MaterializeRead(cur)
    /\ supPc' = "matwrite"
    /\ UNCHANGED <<ledgerVars, brokerVars, snap, acct, local, todo, cur, pass>>

\* The write of materialize_order_fills; its ValueError is a reason for review.
RecMaterialize ==
    /\ supPc = "matwrite"
    /\ MaterializeOrderFills(cur, mat)
    /\ pass' = [pass EXCEPT !.problem = @ \/ MaterializeRaises(cur, mat)]
    /\ supPc' = "reconcile"
    /\ cur' = None
    /\ mat' = NoRead
    /\ UNCHANGED <<orders, fillIds, booked, marker, meta, brokerVars, snap,
                   acct, local, todo>>

\* Open at the broker without a ledger row that could be matched.
BrokerOnly == {o \in Orders : snap[o].st = "OPEN" /\ o \notin pass.matched}

PositionMismatch == \E sym \in Symbols : OpenQty(sym) # acct.held[sym]

\* Mutant of RecFinish: the reasons do not reach the report.
RecFinishForgets ==
    /\ supPc = "reconcile" /\ todo = {}
    /\ pass' = NewPass
    /\ Flag(FALSE, FALSE)
    /\ acct' = NoAcct
    /\ local' = NoRows
    /\ supPc' = "cancel"
    /\ UNCHANGED <<orders, fillIds, booked, applied, positions, marker,
                   brokerVars, snap, todo, cur, mat>>

\* The last checks and _finish, which overwrites both flags.
RecFinish ==
    /\ supPc = "reconcile" /\ todo = {}
    /\ LET problem == \/ pass.problem
                      \/ BrokerOnly # {}
                      \/ ~acct.ok
                      \/ PositionMismatch
       IN  /\ pass' = [NewPass EXCEPT !.problem = problem]
           /\ Flag(problem, problem)
    /\ acct' = NoAcct
    /\ local' = NoRows
    /\ supPc' = "cancel"
    /\ UNCHANGED <<orders, fillIds, booked, applied, positions, marker,
                   brokerVars, snap, todo, cur, mat>>

-----------------------------------------------------------------------------
(* _cancel_requested_buys and manage_stale_orders                          *)

CancelBuysStart ==
    /\ supPc = "cancel"
    /\ IF meta.cancelReq
       THEN /\ meta' = [meta EXCEPT !.cancelReq = FALSE]
            /\ local' = orders
            /\ todo' = {b \in Buys : orders[b].status \in
                                       {"ACKNOWLEDGED", "PARTIALLY_FILLED"}}
            /\ pass' = [pass EXCEPT !.stage = "operator"]
            /\ supPc' = "rowloop"
       ELSE /\ supPc' = "manage"
            /\ UNCHANGED <<meta, local, todo, pass>>
    /\ UNCHANGED <<orders, fillIds, booked, applied, positions, marker,
                   brokerVars, snap, acct, cur, mat>>

ManageStart ==
    /\ supPc = "manage"
    /\ local' = orders
    /\ todo' = {o \in Orders : orders[o].status \in Active}
    /\ pass' = [pass EXCEPT !.stage = "stale"]
    /\ supPc' = "rowloop"
    /\ UNCHANGED <<ledgerVars, brokerVars, snap, acct, cur, mat>>

Row(o) == supPc = "rowloop" /\ o \in todo

\* An open BUY the operator wants cancelled is not in the broker's answer.
CancelUnlisted(o) ==
    /\ Row(o) /\ pass.stage = "operator"
    /\ ~Found(o)
    /\ MarkOrderUnknown(o)
    /\ Flag(TRUE, TRUE)
    /\ todo' = todo \ {o}
    /\ pass' = [pass EXCEPT !.problem = TRUE]
    /\ UNCHANGED <<fillIds, booked, applied, positions, marker, brokerVars,
                   supPc, snap, acct, local, cur, mat>>

\* _reconcile_pending_marker: an earlier cancel request of this program is
\* settled by a terminal broker status, and kept pending otherwise.
ManageMarked(o) ==
    /\ Row(o) /\ pass.stage = "stale"
    /\ marker[o] # "none"
    /\ LET waits == marker[o] = "confirmed" \/ ~Found(o)
           terminal == snap[o].st \in Terminal
       IN  /\ IF waits
              THEN UNCHANGED <<orders, marker>>
              ELSE /\ UpdateBrokerOrderStatus(o,
                         IF terminal THEN snap[o].st ELSE "CANCEL_PENDING",
                         snap[o].filled)
                   /\ marker' = [marker EXCEPT ![o] =
                                   IF terminal THEN "confirmed" ELSE @]
           /\ pass' = [pass EXCEPT !.pending = @ \/ waits \/ ~terminal]
    /\ todo' = todo \ {o}
    /\ UNCHANGED <<fillIds, booked, applied, positions, meta, brokerVars,
                   supPc, snap, acct, local, cur, mat>>

\* _is_stale: past its TTL (any age is possible in market hours), or a BUY
\* that outlived the entry window; nothing is stale when the market is closed.
MayBeStale(o) == market # "closed"
MustBeStale(o) == market = "exit" /\ o \in Buys

Cancellable(o) ==
    /\ Found(o) /\ snap[o].st = "OPEN"
    /\ pass.stage = "stale" =>
         /\ marker[o] = "none"
         /\ local[o].status \in {"ACKNOWLEDGED", "PARTIALLY_FILLED"}
         /\ MayBeStale(o)

\* Nothing to do for this row now.
LeaveRow(o) ==
    /\ Row(o)
    /\ IF pass.stage = "operator"
       THEN Found(o) /\ snap[o].st # "OPEN"
       ELSE marker[o] = "none" /\ (Cancellable(o) => ~MustBeStale(o))
    /\ todo' = todo \ {o}
    /\ pass' = [pass EXCEPT !.pending =
                  @ \/ (pass.stage = "stale" /\ local[o].status = "CANCEL_PENDING")]
    /\ UNCHANGED <<ledgerVars, brokerVars, supPc, snap, acct, local, cur, mat>>

\* Mutant of CancelMark: the request is taken for its confirmation.
CancelMarkDone(o) ==
    /\ Row(o)
    /\ Cancellable(o)
    /\ UpdateBrokerOrderStatus(o, "CANCELLED", snap[o].filled)
    /\ cur' = o
    /\ todo' = todo \ {o}
    /\ supPc' = "send"
    /\ UNCHANGED <<fillIds, booked, applied, positions, marker, meta,
                   brokerVars, snap, acct, local, mat, pass>>

\* CANCEL_PENDING is stored before the request is sent.
CancelMark(o) ==
    /\ Row(o)
    /\ Cancellable(o)
    /\ UpdateBrokerOrderStatus(o, "CANCEL_PENDING", snap[o].filled)
    /\ cur' = o
    /\ todo' = todo \ {o}
    /\ supPc' = "send"
    /\ UNCHANGED <<fillIds, booked, applied, positions, marker, meta,
                   brokerVars, snap, acct, local, mat, pass>>

\* cancel_order answers; the cancellation itself is the broker's to make.
CancelSent ==
    /\ supPc = "send"
    /\ cancels' = cancels \cup {cur}
    /\ supPc' = "store"
    /\ UNCHANGED <<ledgerVars, broker, held, sent, market, snap, acct, local,
                   todo, cur, mat, pass>>

\* cancel_order raises; the request may have reached the broker.
CancelAmbiguous ==
    /\ supPc = "send"
    /\ cancels' = cancels \cup {cur}
    /\ MarkOrderUnknown(cur)
    /\ Flag(TRUE, TRUE)
    /\ pass' = [pass EXCEPT !.problem = TRUE]
    /\ supPc' = "rowloop"
    /\ cur' = None
    /\ UNCHANGED <<fillIds, booked, applied, positions, marker, broker, held,
                   sent, market, snap, acct, local, todo, mat>>

StoreMarker ==
    /\ supPc = "store"
    /\ marker' = [marker EXCEPT ![cur] = "pending"]
    /\ pass' = [pass EXCEPT !.pending = @ \/ pass.stage = "stale"]
    /\ supPc' = "rowloop"
    /\ cur' = None
    /\ UNCHANGED <<orders, fillIds, booked, applied, positions, meta,
                   brokerVars, snap, acct, local, todo, mat>>

\* A problem found in the stale-order loop raises both flags once more at its
\* end (one found earlier in the pass has raised them already).
RowLoopEnd ==
    /\ supPc = "rowloop" /\ todo = {}
    /\ IF pass.stage = "operator"
       THEN supPc' = "manage" /\ UNCHANGED <<snap, meta>>
       ELSE /\ supPc' = "end"
            /\ snap' = NoSnap
            /\ IF pass.problem THEN Flag(TRUE, TRUE) ELSE UNCHANGED meta
    /\ local' = NoRows
    /\ UNCHANGED <<orders, fillIds, booked, applied, positions, marker,
                   brokerVars, acct, todo, cur, mat, pass>>

\* Both flags and the published status are overwritten with this pass's result.
SupEnd ==
    /\ supPc = "end"
    /\ meta' = WriteStatus([meta EXCEPT !.review = pass.problem,
                                        !.block = pass.problem \/ pass.pending],
                           ~pass.problem)
    /\ SupReset
    /\ UNCHANGED <<orders, fillIds, booked, applied, positions, marker, brokerVars>>

SupervisorStep ==
    \/ SupFetchOrders \/ SupFetchFails \/ SupException \/ SupLeaseInvalid
    \/ SupFetchAccount
    \/ RecReadRows
    \/ \E o \in Orders : RecSkip(o) \/ RecBook(o)
    \/ RecStatus \/ RecMaterializeRead \/ RecMaterialize \/ RecFinish
    \/ CancelBuysStart \/ ManageStart
    \/ \E o \in Orders : \/ CancelUnlisted(o) \/ ManageMarked(o)
                         \/ LeaveRow(o) \/ CancelMark(o)
    \/ CancelSent \/ CancelAmbiguous \/ StoreMarker
    \/ RowLoopEnd \/ SupEnd

=============================================================================
