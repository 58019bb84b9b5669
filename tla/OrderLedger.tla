---------------------------- MODULE OrderLedger ----------------------------
(***************************************************************************)
(* The broker ledger that every thread of the trading service shares: the  *)
(* SQLite tables broker_orders, broker_fills, live_position_fill_applica-  *)
(* tions, live_positions and runtime_metadata of storage/database.py.      *)
(*                                                                         *)
(* One operator per Database method that writes them.  Each method runs in *)
(* one SQLite write transaction, so an operator is one atomic change; the  *)
(* threads (modules Trader, Supervisor, FillNotices) are sequences of such *)
(* changes.  The one method whose reads come before its transaction,       *)
(* materialize_order_fills, is split into its read and its write.          *)
(*                                                                         *)
(* Prices and timestamps are abstracted away: a client_order_id is an      *)
(* element of Buys or Sells, a live position is named by the BUY whose     *)
(* decision opened it (position_id = live-position:<signal_id>), and a     *)
(* BUY in OffLadder is one whose fill price lies outside its stop/take     *)
(* prices.                                                                 *)
(***************************************************************************)
EXTENDS Integers, FiniteSets

CONSTANTS
    Symbols,     \* the traded symbols
    Buys,        \* client_order_ids of entries, one per symbol and bar
    Sells,       \* client_order_ids of exits, several per position
    SymbolOf,    \* the symbol of each BUY
    PositionOf,  \* the BUY whose position a SELL exits
    LotSize,     \* the requested quantity of each BUY
    OffLadder,   \* BUYs filled outside their stop/take ladder
    None         \* "no order" / "no position"

Orders == Buys \cup Sells

ASSUME OrdersAssumption ==
    /\ IsFiniteSet(Orders)
    /\ Buys \cap Sells = {}
    /\ None \notin Orders
    /\ OffLadder \subseteq Buys

ASSUME AttributesAssumption ==
    /\ SymbolOf \in [Buys -> Symbols]
    /\ PositionOf \in [Sells -> Buys]
    /\ LotSize \in [Buys -> Nat \ {0}]

Sym(o) == IF o \in Buys THEN SymbolOf[o] ELSE SymbolOf[PositionOf[o]]

VARIABLES
    orders,     \* broker_orders: status, broker id known, requested, filled
    fillIds,    \* primary keys of broker_fills
    booked,     \* quantity of the fills inserted for an order
    applied,    \* quantity of those already applied to live_positions
    positions,  \* live_positions, one row per opening BUY
    marker,     \* runtime_metadata order_management.pending.<id>
    meta        \* runtime_metadata / runtime_control switches

ledgerVars == <<orders, fillIds, booked, applied, positions, marker, meta>>

-----------------------------------------------------------------------------
(* Statuses (BROKER_ORDER_STATUSES).  NONE is the absence of a row.        *)

Terminal == {"FILLED", "CANCELLED", "REJECTED"}
Unresolved == {"ACKNOWLEDGED", "PARTIALLY_FILLED", "CANCEL_PENDING", "UNKNOWN"}
Active == {"INTENT", "SUBMITTING"} \cup Unresolved
Statuses == {"NONE"} \cup Active \cup Terminal

OrderRow == [status: Statuses, bid: BOOLEAN, req: Nat, filled: Nat]
PositionRow == [st: {"NONE", "OPEN", "CLOSED"}, qty: Nat]
FillId == Orders \X {"cum", "kis"} \X Nat

\* block, review: block_new_entries and operator_review; cancelReq:
\* operator.cancel_open_buys_requested; supOk: the supervisor's last status is
\* "reconciled"; gate: _check_runtime_state would not raise (not paused, the
\* configured environment, no emergency stop, lease held).
Meta == [block: BOOLEAN, review: BOOLEAN, cancelReq: BOOLEAN,
         supOk: BOOLEAN, gate: BOOLEAN]

LedgerInit ==
    /\ orders = [o \in Orders |->
                   [status |-> "NONE", bid |-> FALSE, req |-> 0, filled |-> 0]]
    /\ fillIds = {}
    /\ booked = [o \in Orders |-> 0]
    /\ applied = [o \in Orders |-> 0]
    /\ positions = [b \in Buys |-> [st |-> "NONE", qty |-> 0]]
    /\ marker = [o \in Orders |-> "none"]
    /\ meta = [block |-> FALSE, review |-> FALSE, cancelReq |-> FALSE,
               supOk |-> FALSE, gate |-> TRUE]

LedgerTypeOK ==
    /\ orders \in [Orders -> OrderRow]
    /\ fillIds \subseteq FillId
    /\ booked \in [Orders -> Nat]
    /\ applied \in [Orders -> Nat]
    /\ positions \in [Buys -> PositionRow]
    /\ marker \in [Orders -> {"none", "pending", "confirmed"}]
    /\ meta \in Meta

-----------------------------------------------------------------------------
(* broker_orders                                                           *)

\* Mutant of Claimable: the id of a resolved order may be claimed again.
ClaimableWhenResolved(o) == orders[o].status \in {"NONE"} \cup Terminal

\* The INSERT OR IGNORE of claim_order_intent inserts.
Claimable(o) == orders[o].status = "NONE"

ClaimOrderIntent(o, q) ==
    orders' = [orders EXCEPT ![o] =
                 [status |-> "INTENT", bid |-> FALSE, req |-> q, filled |-> 0]]

MarkOrderSubmitting(o) ==
    orders' = [orders EXCEPT ![o].status = "SUBMITTING"]

RecordOrderSubmission(o) ==
    orders' = [orders EXCEPT ![o].status = "ACKNOWLEDGED", ![o].bid = TRUE]

MarkOrderUnknown(o) ==
    orders' = [orders EXCEPT ![o].status = "UNKNOWN"]

\* update_broker_order_status as the REST threads call it, with the broker's
\* order number and cumulative quantity f.  It overwrites any status.
UpdateBrokerOrderStatus(o, st, f) ==
    orders' = IF f <= orders[o].req
              THEN [orders EXCEPT ![o].status = st, ![o].bid = TRUE, ![o].filled = f]
              ELSE orders

\* The same call with every broker field omitted.
UpdateStatusOnly(o, st) ==
    orders' = [orders EXCEPT ![o].status = st]

-----------------------------------------------------------------------------
(* broker_fills                                                            *)

\* The WHERE clause of apply_broker_fill's UPDATE.
FillFits(o, q) == orders[o].filled + q <= orders[o].req

\* apply_broker_fill, the fill id being new and the quantity fitting.
InsertFill(o, id, q) ==
    LET total == orders[o].filled + q
    IN  /\ fillIds' = fillIds \cup {id}
        /\ booked' = [booked EXCEPT ![o] = @ + q]
        /\ orders' = [orders EXCEPT
                        ![o].filled = total,
                        ![o].bid = TRUE,
                        ![o].status = IF total = orders[o].req
                                      THEN "FILLED" ELSE "PARTIALLY_FILLED"]

\* apply_broker_fill returns False (known id) or raises (quantity too large).
ApplyBrokerFill(o, id, q) ==
    IF id \notin fillIds /\ FillFits(o, q)
    THEN InsertFill(o, id, q)
    ELSE UNCHANGED <<orders, fillIds, booked>>

ApplyRaises(o, id, q) == id \notin fillIds /\ ~FillFits(o, q)

-----------------------------------------------------------------------------
(* live_positions                                                          *)

OpenPositions(sym) == {b \in Buys : SymbolOf[b] = sym /\ positions[b].st = "OPEN"}

OpenPosition(sym) ==
    IF OpenPositions(sym) = {} THEN None ELSE CHOOSE b \in OpenPositions(sym) : TRUE

OpenQty(sym) ==
    IF OpenPosition(sym) = None THEN 0 ELSE positions[OpenPosition(sym)].qty

Unapplied(o) == booked[o] > applied[o]

\* The SELECTs of materialize_order_fills run before its transaction begins:
\* the unapplied fills are those booked beyond applied.
MaterializeRead(o) ==
    [from |-> applied[o], upto |-> booked[o],
     pos |-> OpenPosition(Sym(o)), qty |-> OpenQty(Sym(o))]

MaterializeReads == [from: Nat, upto: Nat, pos: Buys \cup {None}, qty: Nat]

NoRead == [from |-> 0, upto |-> 0, pos |-> None, qty |-> 0]

\* The write raises and is rolled back: a fill was applied since the read
\* (primary key of live_position_fill_applications), a first BUY fill has no
\* valid ladder or its position_id already exists, a SELL has no position or
\* exceeds it.
MaterializeRaises(o, rd) ==
    /\ rd.upto > rd.from
    /\ \/ applied[o] # rd.from
       \/ /\ o \in Buys
          /\ rd.pos = None
          /\ o \in OffLadder \/ positions[o].st # "NONE"
       \/ /\ o \in Sells
          /\ rd.pos = None \/ rd.upto - rd.from > rd.qty

\* The rows after the write; an UPDATE touches a row that is still OPEN.
PositionsAfter(o, rd) ==
    LET q == rd.upto - rd.from
        total == IF o \in Buys THEN rd.qty + q ELSE rd.qty - q
    IN  IF o \in Buys /\ rd.pos = None
        THEN [positions EXCEPT ![o] = [st |-> "OPEN", qty |-> q]]
        ELSE IF positions[rd.pos].st = "OPEN"
        THEN [positions EXCEPT ![rd.pos] =
                [st |-> IF total = 0 THEN "CLOSED" ELSE "OPEN", qty |-> total]]
        ELSE positions

\* Mutant of MaterializeOrderFills: the application is not recorded.
MaterializeUnrecorded(o, rd) ==
    IF rd.upto = rd.from \/ MaterializeRaises(o, rd)
    THEN UNCHANGED <<positions, applied>>
    ELSE positions' = PositionsAfter(o, rd) /\ UNCHANGED applied

\* Mutant of MaterializeOrderFills: applications are INSERT OR IGNORE and the
\* quantity is added to the row as it is at the write.
MaterializeRelative(o, rd) ==
    LET q == IF o \in Buys THEN rd.upto - rd.from ELSE rd.from - rd.upto
    IN  IF \/ rd.upto = rd.from
           \/ rd.pos = None /\ (o \in Sells \/ positions[o].st # "NONE")
        THEN UNCHANGED <<positions, applied>>
        ELSE /\ positions' = IF rd.pos = None THEN PositionsAfter(o, rd)
                             ELSE [positions EXCEPT ![rd.pos].qty = @ + q]
             /\ applied' = [applied EXCEPT ![o] = rd.upto]

\* materialize_order_fills; nothing changes when it raises or finds no fill.
MaterializeOrderFills(o, rd) ==
    IF rd.upto = rd.from \/ MaterializeRaises(o, rd)
    THEN UNCHANGED <<positions, applied>>
    ELSE /\ positions' = PositionsAfter(o, rd)
         /\ applied' = [applied EXCEPT ![o] = rd.upto]

=============================================================================
