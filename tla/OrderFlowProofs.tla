-------------------------- MODULE OrderFlowProofs --------------------------
(***************************************************************************)
(* Proofs that the safety properties of OrderFlow hold for every set of    *)
(* symbols and orders, every lot size and any number of crashes: IInv is   *)
(* inductive, and implies them; and that OrderFlow implements OrderLife.   *)
(* The last part is about FillNotices, where the fill-notice worker writes *)
(* the same ledger: what of the above survives a third thread.             *)
(***************************************************************************)
EXTENDS FillNotices, FiniteSetTheorems, TLAPS

-----------------------------------------------------------------------------
(* Types of the helpers                                                    *)

\* Every order has a symbol.
LEMMA SymType == \A o \in Orders : Sym(o) \in Symbols
  BY AttributesAssumption DEF Sym, Orders

\* The open position of a symbol is the one of a BUY, or None; its quantity is
\* a natural number.
LEMMA OpenPositionType ==
    ASSUME LedgerTypeOK, NEW sym
    PROVE  /\ OpenPosition(sym) \in Buys \cup {None}
           /\ OpenPosition(sym) # None =>
                /\ OpenPosition(sym) \in Buys
                /\ positions[OpenPosition(sym)].st = "OPEN"
           /\ OpenQty(sym) \in Nat
  <1>1. OpenPositions(sym) # {} =>
          (CHOOSE b \in OpenPositions(sym) : TRUE) \in OpenPositions(sym)
    OBVIOUS
  <1>2. OpenPositions(sym) \subseteq Buys
    BY DEF OpenPositions
  <1>3. /\ OpenPosition(sym) \in Buys \cup {None}
        /\ OpenPosition(sym) # None => OpenPosition(sym) \in OpenPositions(sym)
    BY <1>1, <1>2 DEF OpenPosition
  <1>4. OpenPosition(sym) # None => OpenPosition(sym) \in Buys
                                    /\ positions[OpenPosition(sym)].st = "OPEN"
    BY <1>3 DEF OpenPositions
  <1>5. OpenQty(sym) \in Nat
    BY <1>4 DEF OpenQty, LedgerTypeOK, PositionRow
  <1> QED BY <1>3, <1>4, <1>5

\* What materialize_order_fills reads is well typed, and so is what it writes.
LEMMA MaterializeReadType ==
    ASSUME LedgerTypeOK, NEW o \in Orders
    PROVE  MaterializeRead(o) \in MaterializeReads
  BY OpenPositionType DEF MaterializeRead, MaterializeReads, LedgerTypeOK

\* materialize_order_fills, read and write, keeps the types of the position
\* rows and of the applied quantities.
LEMMA MaterializeType ==
    ASSUME LedgerTypeOK, NEW o \in Orders, NEW rd \in MaterializeReads,
           rd.from <= rd.upto, MaterializeOrderFills(o, rd)
    PROVE  /\ positions' \in [Buys -> PositionRow]
           /\ applied' \in [Orders -> Nat]
           /\ applied' = applied \/ applied' = [applied EXCEPT ![o] = rd.upto]
  <1>1. CASE rd.upto = rd.from \/ MaterializeRaises(o, rd)
    BY <1>1 DEF MaterializeOrderFills, LedgerTypeOK
  <1>2. CASE ~(rd.upto = rd.from \/ MaterializeRaises(o, rd))
    <2>1. /\ positions' = PositionsAfter(o, rd)
          /\ applied' = [applied EXCEPT ![o] = rd.upto]
      BY <1>2 DEF MaterializeOrderFills
    <2>2. /\ rd.from \in Nat /\ rd.upto \in Nat /\ rd.qty \in Nat
          /\ rd.pos \in Buys \cup {None} /\ rd.upto > rd.from
      BY <1>2 DEF MaterializeReads
    <2>3. o \in Sells => rd.pos # None /\ rd.upto - rd.from <= rd.qty
      BY <1>2, <2>2 DEF MaterializeRaises
    <2>4. rd.upto - rd.from \in Nat /\ rd.qty + (rd.upto - rd.from) \in Nat
      BY <2>2
    <2>5. CASE o \in Buys /\ rd.pos = None
      <3>1. PositionsAfter(o, rd) =
              [positions EXCEPT ![o] = [st |-> "OPEN", qty |-> rd.upto - rd.from]]
        BY <2>5 DEF PositionsAfter
      <3> QED BY <2>1, <2>2, <2>4, <2>5, <3>1 DEF LedgerTypeOK, PositionRow
    <2>6. CASE rd.pos # None
      <3> DEFINE total == IF o \in Buys THEN rd.qty + (rd.upto - rd.from)
                                        ELSE rd.qty - (rd.upto - rd.from)
                 row == [st |-> IF total = 0 THEN "CLOSED" ELSE "OPEN", qty |-> total]
      <3>1. total \in Nat
        BY <2>2, <2>3, <2>4 DEF Orders
      <3>2. row \in PositionRow
        BY <3>1 DEF PositionRow
      <3>3. \/ PositionsAfter(o, rd) = [positions EXCEPT ![rd.pos] = row]
            \/ PositionsAfter(o, rd) = positions
        BY <2>6 DEF PositionsAfter
      <3> HIDE DEF row
      <3> QED BY <2>1, <2>2, <3>2, <3>3 DEF LedgerTypeOK
    <2> QED BY <2>3, <2>5, <2>6 DEF Orders
  <1> QED BY <1>1, <1>2

-----------------------------------------------------------------------------
(* The parts of IInv that a step leaves alone                              *)

Core == <<orders, sent, broker, booked, applied>>

\* A step that leaves the order rows, the fills and the broker alone.
LEMMA CoreFrame ==
    ASSUME IInv, UNCHANGED Core
    PROVE  /\ RowsTellTruth' /\ SubmittedAtMostOnce'
           /\ SettledEntryAlone' /\ SellExclusion'
  BY DEF IInv, Core, RowsTellTruth, SubmittedAtMostOnce, SettledEntryAlone, SellExclusion

\* ... and the trading thread too.
LEMMA TraderFrame ==
    ASSUME IInv, UNCHANGED Core, UNCHANGED trader
    PROVE  InHand' /\ EntryAlone' /\ ExitAlone'
  BY DEF IInv, Core, InHand, EntryAlone, ExitAlone

\* A step outside the supervisor that leaves rows, fills and broker alone.
LEMMA SupervisorFrame ==
    ASSUME IInv, UNCHANGED Core, UNCHANGED supVars
    PROVE  SnapshotTrue' /\ RowsStillTrue'
  BY DEF IInv, Core, supVars, SnapshotTrue, RowsStillTrue

\* The ledger never gives up on a working order: what a row says excludes it.
LEMMA OpenIsActive ==
    ASSUME IInv, NEW o \in Orders, broker[o].st = "OPEN"
    PROVE  /\ sent[o] = 1
           /\ orders[o].status \in Active \ {"INTENT"}
  <1>1. orders[o].status \in Statuses
    BY DEF IInv, TypeOK, LedgerTypeOK, OrderRow
  <1>2. /\ orders[o].status \in {"NONE", "INTENT"} => sent[o] = 0
        /\ broker[o].st # "NONE" => sent[o] = 1
        /\ orders[o].status \in Terminal => broker[o].st # "OPEN"
    BY DEF IInv, RowsTellTruth
  <1> QED BY <1>1, <1>2 DEF Statuses, Active, Terminal

-----------------------------------------------------------------------------
(* Rewriting the row of a numbered order                                   *)

\* What the supervisor may write into a row that has a broker number.
RowUpdate(o, r) ==
    /\ orders' = [orders EXCEPT ![o] = r]
    /\ r \in OrderRow
    /\ r.bid
    /\ r.status \in Unresolved \cup Terminal
    /\ r.req = orders[o].req
    /\ orders[o].filled <= r.filled
    /\ r.filled <= broker[o].filled
    /\ r.status \in Terminal => broker[o].st # "OPEN"

\* Such a row is never the one the trading thread works on, and the update
\* preserves everything that does not concern the supervisor's own state.
LEMMA NumberedRowUpdate ==
    ASSUME IInv, NEW o \in Orders, NEW r, orders[o].bid, RowUpdate(o, r),
           UNCHANGED <<sent, broker, applied, trader>>,
           booked' \in [Orders -> Nat],
           \A x \in Orders : booked[x] <= booked'[x],
           \A x \in Orders \ {o} : booked'[x] = booked[x],
           booked'[o] <= r.filled
    PROVE  /\ RowsTellTruth' /\ SubmittedAtMostOnce'
           /\ SettledEntryAlone' /\ SellExclusion'
           /\ InHand' /\ EntryAlone' /\ ExitAlone'
  <1>1. /\ orders \in [Orders -> OrderRow] /\ broker \in [Orders -> BrokerRow]
        /\ booked \in [Orders -> Nat] /\ applied \in [Orders -> Nat]
    BY DEF IInv, TypeOK, LedgerTypeOK, BrokerTypeOK
  <1>2. orders[o].status \notin {"NONE", "INTENT", "SUBMITTING"}
    BY DEF IInv, RowsTellTruth
  <1>3. /\ orders'[o] = r
        /\ \A x \in Orders \ {o} : orders'[x] = orders[x]
    BY <1>1 DEF RowUpdate
  <1>4. RowsTellTruth'
    <2> SUFFICES ASSUME NEW x \in Orders
                 PROVE  /\ orders'[x].status \in {"NONE", "INTENT"} => sent'[x] = 0
                        /\ orders'[x].status \in {"NONE", "INTENT", "SUBMITTING"} => ~orders'[x].bid
                        /\ orders'[x].status \notin {"NONE", "INTENT", "SUBMITTING", "UNKNOWN"} => orders'[x].bid
                        /\ orders'[x].bid => broker'[x].st # "NONE"
                        /\ broker'[x].st # "NONE" => sent'[x] = 1
                        /\ broker'[x].st = "NONE" => broker'[x].filled = 0
                        /\ broker'[x].st = "OPEN" => broker'[x].filled < orders'[x].req
                        /\ orders'[x].status \in Terminal => broker'[x].st # "OPEN"
                        /\ booked'[x] <= orders'[x].filled
                        /\ orders'[x].filled <= broker'[x].filled
                        /\ applied'[x] <= booked'[x]
                        /\ ~orders'[x].bid => orders'[x].filled = 0
      BY DEF RowsTellTruth
    <2>1. CASE x = o
      BY <1>1, <1>2, <1>3, <2>1 DEF IInv, RowsTellTruth, RowUpdate, Unresolved, Terminal, OrderRow, BrokerRow
    <2>2. CASE x # o
      BY <1>1, <1>3, <2>2 DEF IInv, RowsTellTruth
    <2> QED BY <2>1, <2>2
  <1>5. trader.pc \in {"claimed", "submitting", "checked", "cleared", "acked", "failed"}
          => trader.o # o
    BY <1>2 DEF IInv, InHand
  <1>6. InHand'
    BY <1>3, <1>5 DEF IInv, InHand
  <1>7. r.status # "SUBMITTING"
    BY DEF RowUpdate, Unresolved, Terminal
  <1>8. SettledEntryAlone' /\ SellExclusion' /\ SubmittedAtMostOnce'
    BY <1>2, <1>3, <1>7 DEF IInv, SettledEntryAlone, SellExclusion, SubmittedAtMostOnce, Orders
  <1>9. EntryAlone'
    BY <1>2, <1>3 DEF IInv, EntryAlone, Orders
  <1>10. ExitAlone'
    BY DEF IInv, ExitAlone
  <1> QED BY <1>4, <1>6, <1>8, <1>9, <1>10

-----------------------------------------------------------------------------
(* The trading thread                                                      *)

\* Ending an attempt leaves no order in hand.
LEMMA DoneIdle ==
    ASSUME TypeOK, Done
    PROVE  TraderTypeOK' /\ trader'.pc \in {"idle", "cycle"}
  BY DEF TypeOK, Done, TraderIdle, TraderTypeOK, TraderPcs

\* With no order in hand there is nothing to require of the thread.
LEMMA IdleHand ==
    ASSUME trader'.pc \in {"idle", "cycle"}
    PROVE  InHand' /\ EntryAlone' /\ ExitAlone'
  BY DEF InHand, EntryAlone, ExitAlone

\* Steps of the thread that write no row and send nothing.
LEMMA TraderQuietInv ==
    ASSUME IInv, UNCHANGED <<supVars, upsets>>,
           \/ CycleStart \/ CycleEnd \/ Decline
           \/ \E b \in Buys : EnterStart(b) \/ ExitExhausted(b)
           \/ \E s \in Sells : ExitStart(s)
           \/ GuardCheck \/ GuardRecheck
    PROVE  IInv'
  <1> USE DEF IInv
  <1>1. UNCHANGED Core /\ UNCHANGED <<fillIds, positions, marker, brokerVars>> /\ meta' \in Meta
    BY DEF Core, CycleStart, CycleEnd, Decline, EnterStart, ExitExhausted, ExitStart,
           GuardCheck, GuardRecheck, ledgerVars, brokerVars, TypeOK, LedgerTypeOK, Meta
  <1>2. LedgerTypeOK' /\ BrokerTypeOK' /\ SupTypeOK' /\ upsets' \in 0..MaxUpsets
    BY <1>1 DEF TypeOK, Core, LedgerTypeOK, BrokerTypeOK, brokerVars, SupTypeOK, supVars
  <1>3. /\ RowsTellTruth' /\ SubmittedAtMostOnce' /\ SettledEntryAlone' /\ SellExclusion'
        /\ SnapshotTrue' /\ RowsStillTrue'
    BY <1>1, CoreFrame, SupervisorFrame
  <1>4. TraderTypeOK' /\ InHand' /\ EntryAlone' /\ ExitAlone'
    <2>1. CASE CycleStart \/ CycleEnd
      <3>1. trader' = TraderIdle
            \/ trader' = [pc |-> "cycle", o |-> None, q |-> 0, left |-> Symbols]
        BY <2>1 DEF CycleStart, CycleEnd, TraderIdle
      <3>2. TraderTypeOK' /\ trader'.pc \in {"idle", "cycle"}
        BY <3>1 DEF TraderIdle, TraderTypeOK, TraderPcs
      <3> QED BY <3>2, IdleHand
    <2>2. CASE Decline
      BY <2>2, DoneIdle, IdleHand DEF Decline
    <2>3. ASSUME NEW b \in Buys, EnterStart(b)
          PROVE  TraderTypeOK' /\ InHand' /\ EntryAlone' /\ ExitAlone'
      <3>1. /\ trader'.pc = "deciding" /\ trader'.o = b
            /\ TraderTypeOK'
        BY <2>3, AttributesAssumption
           DEF EnterStart, Attempt, TypeOK, TraderTypeOK, TraderPcs, Orders
      <3> QED BY <3>1, OrdersAssumption DEF InHand, EntryAlone, ExitAlone, Orders
    <2>4. ASSUME NEW b \in Buys, ExitExhausted(b)
          PROVE  TraderTypeOK' /\ InHand' /\ EntryAlone' /\ ExitAlone'
      <3>1. TraderTypeOK' /\ trader'.pc \in {"idle", "cycle"}
        BY <2>4 DEF ExitExhausted, Turn, At, TypeOK, TraderIdle, TraderTypeOK, TraderPcs
      <3> QED BY <3>1, IdleHand
    <2>5. ASSUME NEW s \in Sells, ExitStart(s)
          PROVE  TraderTypeOK' /\ InHand' /\ EntryAlone' /\ ExitAlone'
      <3>1. PositionOf[s] \in Buys /\ s \in Orders
        BY AttributesAssumption DEF Orders
      <3>2. positions[PositionOf[s]].qty \in Nat
        BY <3>1 DEF TypeOK, LedgerTypeOK, PositionRow
      <3>3. trader'.pc = "quoting" /\ trader'.o = s /\ TraderTypeOK'
        BY <2>5, <3>1, <3>2 DEF ExitStart, Attempt, TypeOK, TraderTypeOK, TraderPcs
      <3>4. \A t \in Sells : Sym(t) = Sym(s) => broker[t].st # "OPEN"
        BY <2>5, OpenIsActive DEF ExitStart, HasUnresolvedSell, Orders
      <3>5. s \notin Buys
        BY OrdersAssumption
      <3> QED BY <1>1, <3>1, <3>3, <3>4, <3>5 DEF InHand, EntryAlone, ExitAlone, Core
    <2>6. CASE GuardCheck
      <3>1. /\ trader.pc = "submitting" /\ trader'.o = trader.o /\ trader'.q = trader.q
            /\ trader'.pc \in {"checked", "failed"} /\ TraderTypeOK'
            /\ trader'.pc = "checked" => GuardPasses
        BY <2>6 DEF GuardCheck, At, Goto, TypeOK, TraderTypeOK, TraderPcs
      <3>2. /\ trader.o \in Orders /\ orders[trader.o].status = "SUBMITTING"
            /\ sent[trader.o] = 0 /\ orders[trader.o].req = trader.q
            /\ broker[trader.o].st = "NONE"
        BY <3>1 DEF InHand, RowsTellTruth
      <3>3. InHand'
        BY <1>1, <3>1, <3>2 DEF InHand, Core, GuardPasses
      <3>4. ExitAlone'
        BY <1>1, <3>1 DEF ExitAlone, Core
      <3>5. trader.o \in Buys /\ GuardPasses =>
              \A b \in Buys : broker[b].st = "OPEN" => orders[b].status = "SUBMITTING"
        BY OpenIsActive DEF GuardPasses, BuyGuard, Active, Orders
      <3>6. EntryAlone'
        BY <1>1, <3>1, <3>2, <3>5 DEF EntryAlone, Core
      <3> QED BY <3>1, <3>3, <3>4, <3>6
    <2>7. CASE GuardRecheck
      <3>1. /\ trader.pc = "checked" /\ trader'.o = trader.o /\ trader'.q = trader.q
            /\ trader'.pc \in {"cleared", "failed"} /\ TraderTypeOK'
        BY <2>7 DEF GuardRecheck, At, Goto, TypeOK, TraderTypeOK, TraderPcs
      <3>2. InHand'
        BY <1>1, <3>1 DEF InHand, Core
      <3>3. broker[trader.o].st = "NONE"
        BY <3>1 DEF InHand, RowsTellTruth
      <3>4. EntryAlone' /\ ExitAlone'
        BY <1>1, <3>1, <3>3 DEF EntryAlone, ExitAlone, Core
      <3> QED BY <3>1, <3>2, <3>4
    <2> QED BY <2>1, <2>2, <2>3, <2>4, <2>5, <2>6, <2>7
  <1> QED BY <1>2, <1>3, <1>4 DEF TypeOK

\* Steps of the thread that write the row it has in hand: claim_order_intent,
\* mark_order_submitting, record_order_submission, mark_order_unknown.
LEMMA TraderWritesInv ==
    ASSUME IInv, UNCHANGED <<supVars, upsets>>,
           Claim \/ Submitting \/ RecordSubmission \/ RecordFailure
    PROVE  IInv'
  <1> USE DEF IInv
  <1> DEFINE o == trader.o
  <1>1. UNCHANGED <<fillIds, booked, applied, positions, marker, meta, broker, held,
                    sent, cancels, market>>
    BY DEF Claim, Submitting, RecordSubmission, RecordFailure, brokerVars
  <1>2. /\ o \in Orders
        /\ trader.pc \in {"deciding", "quoting", "claimed", "acked", "failed"}
    BY DEF Claim, Submitting, RecordSubmission, RecordFailure, At, InHand
  <1>3. /\ orders \in [Orders -> OrderRow] /\ trader \in [pc: TraderPcs, o: Orders \cup {None}, q: Nat, left: SUBSET Symbols]
        /\ broker \in [Orders -> BrokerRow] /\ booked \in [Orders -> Nat]
    BY DEF TypeOK, LedgerTypeOK, TraderTypeOK, BrokerTypeOK
  <1>4. \A x \in Orders \ {o} : orders'[x] = orders[x]
    BY <1>2, <1>3 DEF Claim, Submitting, RecordSubmission, RecordFailure, ClaimOrderIntent,
       MarkOrderSubmitting, RecordOrderSubmission, MarkOrderUnknown
  \* How the row and the thread change.
  <1> DEFINE Row2(st, bid, req, filled) ==
               /\ orders'[o].status = st /\ orders'[o].bid = bid
               /\ orders'[o].req = req /\ orders'[o].filled = filled
  <1>5. \/ /\ trader'.pc \in {"idle", "cycle"} /\ orders' = orders
        \/ /\ trader.pc \in {"deciding", "quoting"} /\ orders[o].status = "NONE"
           /\ Row2("INTENT", FALSE, trader.q, 0)
           /\ trader'.pc = "claimed" /\ trader'.o = o /\ trader'.q = trader.q
        \/ /\ trader.pc = "claimed"
           /\ Row2("SUBMITTING", orders[o].bid, orders[o].req, orders[o].filled)
           /\ trader'.pc = "submitting" /\ trader'.o = o /\ trader'.q = trader.q
        \/ /\ trader.pc = "acked" /\ trader'.pc \in {"idle", "cycle"}
           /\ Row2("ACKNOWLEDGED", TRUE, orders[o].req, orders[o].filled)
        \/ /\ trader.pc = "failed" /\ trader'.pc \in {"idle", "cycle"}
           /\ Row2("UNKNOWN", orders[o].bid, orders[o].req, orders[o].filled)
    <2>1. CASE Claim
      BY <1>2, <1>3, <2>1, DoneIdle DEF Claim, At, Goto, Claimable, ClaimOrderIntent
    <2>2. CASE Submitting
      BY <1>2, <1>3, <2>2 DEF Submitting, At, Goto, MarkOrderSubmitting
    <2>3. CASE RecordSubmission
      BY <1>2, <1>3, <2>3, DoneIdle DEF RecordSubmission, At, RecordOrderSubmission
    <2>4. CASE RecordFailure
      BY <1>2, <1>3, <2>4, DoneIdle DEF RecordFailure, At, MarkOrderUnknown
    <2> QED BY <2>1, <2>2, <2>3, <2>4
  <1>6. TraderTypeOK'
    BY <1>3, DoneIdle DEF Claim, Submitting, RecordSubmission, RecordFailure, Goto,
       TraderTypeOK, TraderPcs
  <1>7. orders' \in [Orders -> OrderRow]
    <2>0. {"INTENT", "SUBMITTING", "ACKNOWLEDGED", "UNKNOWN"} \subseteq Statuses
      BY DEF Statuses, Active, Unresolved
    <2>1. CASE Claim
      <3>1. [status |-> "INTENT", bid |-> FALSE, req |-> trader.q, filled |-> 0] \in OrderRow
        BY <1>3, <2>0 DEF OrderRow
      <3> QED BY <1>2, <1>3, <2>1, <3>1 DEF Claim, ClaimOrderIntent
    <2>2. CASE Submitting
      BY <1>2, <1>3, <2>0, <2>2 DEF Submitting, MarkOrderSubmitting, OrderRow
    <2>3. CASE RecordSubmission
      BY <1>2, <1>3, <2>0, <2>3 DEF RecordSubmission, RecordOrderSubmission, OrderRow
    <2>4. CASE RecordFailure
      BY <1>2, <1>3, <2>0, <2>4 DEF RecordFailure, MarkOrderUnknown, OrderRow
    <2> QED BY <2>1, <2>2, <2>3, <2>4
  <1>8. TypeOK'
    BY <1>1, <1>6, <1>7 DEF TypeOK, LedgerTypeOK, BrokerTypeOK, SupTypeOK, supVars
  \* What was known of the row before.
  <1>9. /\ orders[o].status \in {"NONE", "INTENT"} => sent[o] = 0
        /\ orders[o].status \in {"NONE", "INTENT", "SUBMITTING"} =>
              ~orders[o].bid /\ orders[o].filled = 0 /\ booked[o] <= 0
        /\ sent[o] = 0 => broker[o].st = "NONE" /\ broker[o].filled = 0
        /\ trader.pc = "claimed" => orders[o].status = "INTENT" /\ orders[o].req = trader.q
        /\ trader.pc \in {"acked", "failed"} => orders[o].status = "SUBMITTING"
        /\ trader.pc = "acked" => broker[o].st # "NONE"
    BY <1>2, <1>3 DEF RowsTellTruth, InHand
  <1>10. RowsTellTruth'
    <2> SUFFICES ASSUME NEW x \in Orders
                 PROVE  /\ orders'[x].status \in {"NONE", "INTENT"} => sent'[x] = 0
                        /\ orders'[x].status \in {"NONE", "INTENT", "SUBMITTING"} => ~orders'[x].bid
                        /\ orders'[x].status \notin {"NONE", "INTENT", "SUBMITTING", "UNKNOWN"} => orders'[x].bid
                        /\ orders'[x].bid => broker'[x].st # "NONE"
                        /\ broker'[x].st # "NONE" => sent'[x] = 1
                        /\ broker'[x].st = "NONE" => broker'[x].filled = 0
                        /\ broker'[x].st = "OPEN" => broker'[x].filled < orders'[x].req
                        /\ orders'[x].status \in Terminal => broker'[x].st # "OPEN"
                        /\ booked'[x] <= orders'[x].filled
                        /\ orders'[x].filled <= broker'[x].filled
                        /\ applied'[x] <= booked'[x]
                        /\ ~orders'[x].bid => orders'[x].filled = 0
      BY DEF RowsTellTruth
    <2>1. CASE x = o
      BY <1>1, <1>2, <1>3, <1>5, <1>9, <2>1 DEF RowsTellTruth, OrderRow, BrokerRow, Terminal
    <2>2. CASE x # o
      BY <1>1, <1>4, <2>2 DEF RowsTellTruth
    <2> QED BY <2>1, <2>2
  <1>11. InHand'
    BY <1>1, <1>2, <1>5, <1>9 DEF InHand
  <1>12. ExitAlone'
    BY <1>1, <1>2, <1>5 DEF ExitAlone
  <1>13. EntryAlone'
    BY <1>2, <1>3, <1>5 DEF EntryAlone
  <1>14. SubmittedAtMostOnce' /\ SellExclusion'
    BY <1>1 DEF SubmittedAtMostOnce, SellExclusion
  <1>15. SettledEntryAlone'
    <2> SUFFICES ASSUME NEW a \in Buys, NEW b \in Buys,
                        broker[a].st = "OPEN", orders'[a].status # "SUBMITTING",
                        broker[b].st = "OPEN", orders'[b].status # "SUBMITTING"
                 PROVE  a = b
      BY <1>1 DEF SettledEntryAlone
    <2>1. CASE orders[a].status # "SUBMITTING" /\ orders[b].status # "SUBMITTING"
      BY <2>1 DEF SettledEntryAlone
    <2>2. CASE orders[a].status = "SUBMITTING"
      <3>1. a = o /\ trader.pc \in {"acked", "failed"}
        BY <1>4, <1>5, <2>2 DEF Orders
      <3> QED BY <1>4, <3>1 DEF EntryAlone, Orders
    <2>3. CASE orders[b].status = "SUBMITTING"
      <3>1. b = o /\ trader.pc \in {"acked", "failed"}
        BY <1>4, <1>5, <2>3 DEF Orders
      <3> QED BY <1>4, <3>1 DEF EntryAlone, Orders
    <2> QED BY <2>1, <2>2, <2>3
  <1>16. \A x \in Orders : orders'[x].filled = orders[x].filled /\ (orders[x].bid => orders'[x].bid)
    BY <1>2, <1>3, <1>4, <1>5, <1>9 DEF OrderRow
  <1>17. SnapshotTrue'
    BY <1>1, <1>16 DEF SnapshotTrue, supVars
  <1>18. RowsStillTrue'
    BY <1>1, <1>16 DEF RowsStillTrue, supVars, TypeOK, SupTypeOK
  <1> QED BY <1>8, <1>10, <1>11, <1>12, <1>13, <1>14, <1>15, <1>17, <1>18

\* The submission itself: the order in hand was never sent, so the broker
\* opens it at most once, and finds no rival.
LEMMA SubmitInv ==
    ASSUME IInv, UNCHANGED <<supVars, upsets>>, SubmitAccepted \/ SubmitRefused
    PROVE  IInv'
  <1> USE DEF IInv
  <1> DEFINE o == trader.o
  <1>1. /\ UNCHANGED <<ledgerVars, held, cancels, market>>
        /\ trader.pc = "cleared" /\ trader'.o = o /\ trader'.q = trader.q
        /\ trader'.pc \in {"acked", "failed"}
        /\ trader'.pc = "acked" => SubmitAccepted
        /\ TraderTypeOK'
    BY DEF SubmitAccepted, SubmitRefused, At, Goto, TypeOK, TraderTypeOK, TraderPcs
  <1>2. /\ broker \in [Orders -> BrokerRow] /\ sent \in [Orders -> 0..2]
        /\ orders \in [Orders -> OrderRow] /\ booked \in [Orders -> Nat]
        /\ snap \in [Orders -> BrokerRow]
    BY DEF TypeOK, LedgerTypeOK, BrokerTypeOK, SupTypeOK
  <1>3. /\ o \in Orders /\ orders[o].status = "SUBMITTING" /\ sent[o] = 0
        /\ orders[o].req = trader.q /\ trader.q > 0 /\ trader.q \in Nat
        /\ ~orders[o].bid /\ orders[o].filled = 0
        /\ broker[o].st = "NONE" /\ broker[o].filled = 0
    BY <1>1 DEF InHand, RowsTellTruth, TypeOK, TraderTypeOK
  <1>4. sent' = [sent EXCEPT ![o] = 1]
    BY <1>2, <1>3 DEF SubmitAccepted, SubmitRefused, Again
  <1>5. /\ broker'[o] = IF SubmitAccepted THEN [st |-> "OPEN", filled |-> 0] ELSE broker[o]
        /\ broker' \in [Orders -> BrokerRow]
        /\ \A x \in Orders \ {o} : broker'[x] = broker[x]
    <2>1. CASE SubmitAccepted
      <3>1. broker' = [broker EXCEPT ![o] = [st |-> "OPEN", filled |-> 0]]
        BY <2>1 DEF SubmitAccepted
      <3>2. [st |-> "OPEN", filled |-> 0] \in BrokerRow
        BY DEF BrokerRow
      <3> QED BY <1>2, <1>3, <2>1, <3>1, <3>2
    <2>2. CASE ~SubmitAccepted
      BY <1>2, <2>2 DEF SubmitRefused
    <2> QED BY <2>1, <2>2
  <1>6. TypeOK'
    <2>1. sent' \in [Orders -> 0..2]
      BY <1>2, <1>3, <1>4
    <2>2. BrokerTypeOK'
      BY <1>1, <1>5, <2>1 DEF TypeOK, BrokerTypeOK
    <2> QED BY <1>1, <2>2 DEF TypeOK, ledgerVars, LedgerTypeOK, SupTypeOK, supVars
  <1>7. /\ broker'[o].filled = 0
        /\ broker'[o].st \in {"NONE", "OPEN"}
        /\ SubmitAccepted => broker'[o].st = "OPEN"
    BY <1>3, <1>5
  <1>8. RowsTellTruth'
    <2> SUFFICES ASSUME NEW x \in Orders
                 PROVE  /\ orders[x].status \in {"NONE", "INTENT"} => sent'[x] = 0
                        /\ orders[x].status \in {"NONE", "INTENT", "SUBMITTING"} => ~orders[x].bid
                        /\ orders[x].status \notin {"NONE", "INTENT", "SUBMITTING", "UNKNOWN"} => orders[x].bid
                        /\ orders[x].bid => broker'[x].st # "NONE"
                        /\ broker'[x].st # "NONE" => sent'[x] = 1
                        /\ broker'[x].st = "NONE" => broker'[x].filled = 0
                        /\ broker'[x].st = "OPEN" => broker'[x].filled < orders[x].req
                        /\ orders[x].status \in Terminal => broker'[x].st # "OPEN"
                        /\ booked[x] <= orders[x].filled
                        /\ orders[x].filled <= broker'[x].filled
                        /\ applied[x] <= booked[x]
                        /\ ~orders[x].bid => orders[x].filled = 0
      BY <1>1 DEF RowsTellTruth, ledgerVars
    <2>1. CASE x = o
      BY <1>2, <1>3, <1>4, <1>7, <2>1 DEF RowsTellTruth, Terminal
    <2>2. CASE x # o
      BY <1>2, <1>4, <1>5, <2>2 DEF RowsTellTruth
    <2> QED BY <2>1, <2>2
  <1>9. InHand'
    BY <1>1, <1>3, <1>7 DEF InHand, ledgerVars
  <1>10. SubmittedAtMostOnce'
    BY <1>2, <1>4 DEF SubmittedAtMostOnce
  <1>11. SnapshotTrue'
    BY <1>1, <1>2, <1>3, <1>5, <1>7 DEF SnapshotTrue, supVars, ledgerVars, Terminal, BrokerRow
  <1>12. RowsStillTrue'
    BY <1>1 DEF RowsStillTrue, supVars, ledgerVars
  <1>13. EntryAlone'
    BY <1>1, <1>3, <1>5 DEF EntryAlone, ledgerVars, Orders
  <1>14. ExitAlone'
    BY <1>1 DEF ExitAlone
  <1>15. SettledEntryAlone'
    BY <1>1, <1>3, <1>5 DEF SettledEntryAlone, ledgerVars, Orders
  <1>16. SellExclusion'
    BY <1>1, <1>5, OrdersAssumption DEF SellExclusion, ExitAlone, Orders
  <1> QED BY <1>6, <1>8, <1>9, <1>10, <1>11, <1>12, <1>13, <1>14, <1>15, <1>16

\* Every step of the trading thread preserves the invariant.
LEMMA TraderInv ==
    ASSUME IInv, TraderStep, UNCHANGED <<supVars, upsets>>
    PROVE  IInv'
  BY TraderQuietInv, TraderWritesInv, SubmitInv DEF TraderStep

-----------------------------------------------------------------------------
(* The broker, the operator and crashes                                    *)

\* The broker moves on: an order only leaves OPEN, and fills only grow.
LEMMA BrokerInv ==
    ASSUME IInv, BrokerStep, UNCHANGED <<trader, supVars, upsets>>
    PROVE  IInv'
  <1> USE DEF IInv
  <1>1. UNCHANGED <<ledgerVars, sent, cancels>>
    BY DEF BrokerStep, BrokerFill, BrokerCancel, BrokerReject, SessionAdvances
  <1>2. /\ broker \in [Orders -> BrokerRow] /\ orders \in [Orders -> OrderRow]
        /\ snap \in [Orders -> BrokerRow]
    BY DEF TypeOK, LedgerTypeOK, BrokerTypeOK, SupTypeOK
  <1> DEFINE Moved ==
        /\ broker' \in [Orders -> BrokerRow]
        /\ held' \in [Symbols -> Int] /\ market' \in {"entry", "exit", "closed"}
        /\ \A x \in Orders :
             \/ broker'[x] = broker[x]
             \/ /\ broker[x].st = "OPEN" /\ broker'[x].st # "NONE"
                /\ broker[x].filled <= broker'[x].filled
                /\ broker'[x].st = "OPEN" => broker'[x].filled < orders[x].req
  <1>3. Moved
    <2>1. ASSUME NEW o \in Orders, BrokerFill(o)
          PROVE  Moved
      <3> DEFINE n == broker[o].filled + 1
                 r == [st |-> IF n = orders[o].req THEN "FILLED" ELSE "OPEN", filled |-> n]
      <3>1. broker[o].st = "OPEN" /\ broker' = [broker EXCEPT ![o] = r] /\ market' = market
        BY <2>1 DEF BrokerFill
      <3>2. broker[o].filled \in Nat /\ orders[o].req \in Nat /\ broker[o].filled < orders[o].req
        BY <1>2, <3>1 DEF BrokerRow, OrderRow, RowsTellTruth
      <3>3. r \in BrokerRow /\ r.filled = n /\ r.st # "NONE" /\ (r.st = "OPEN" => n < orders[o].req)
        BY <3>2 DEF BrokerRow
      <3>4. held' \in [Symbols -> Int]
        BY <2>1, SymType DEF BrokerFill, TypeOK, BrokerTypeOK
      <3> HIDE DEF r
      <3>5. broker' \in [Orders -> BrokerRow] /\ broker'[o] = r
            /\ \A x \in Orders \ {o} : broker'[x] = broker[x]
        BY <1>2, <3>1, <3>3
      <3> QED BY <3>1, <3>2, <3>3, <3>4, <3>5 DEF TypeOK, BrokerTypeOK
    <2>2. ASSUME NEW o \in Orders, BrokerCancel(o) \/ BrokerReject(o)
          PROVE  Moved
      <3>1. PICK st \in {"CANCELLED", "REJECTED"} :
              /\ broker[o].st = "OPEN" /\ broker' = [broker EXCEPT ![o].st = st]
              /\ UNCHANGED <<held, market>>
        BY <2>2 DEF BrokerCancel, BrokerReject
      <3>2. /\ broker' \in [Orders -> BrokerRow]
            /\ broker'[o].st = st /\ broker'[o].filled = broker[o].filled
            /\ broker[o].filled \in Nat
            /\ \A x \in Orders \ {o} : broker'[x] = broker[x]
        BY <1>2, <3>1 DEF BrokerRow
      <3> QED BY <3>1, <3>2 DEF TypeOK, BrokerTypeOK
    <2>3. CASE SessionAdvances
      BY <1>2, <2>3 DEF SessionAdvances, TypeOK, BrokerTypeOK
    <2> QED BY <2>1, <2>2, <2>3 DEF BrokerStep
  <1>4. TypeOK'
    BY <1>1, <1>3 DEF TypeOK, ledgerVars, LedgerTypeOK, BrokerTypeOK, TraderTypeOK, SupTypeOK, supVars
  <1>5. \A x \in Orders :
          /\ broker'[x].st = "OPEN" => broker[x].st = "OPEN"
          /\ broker'[x].st = "NONE" <=> broker[x].st = "NONE"
          /\ broker[x].filled <= broker'[x].filled
          /\ broker[x].st # "OPEN" => broker'[x] = broker[x]
          /\ broker[x].filled \in Nat /\ broker'[x].filled \in Nat
          /\ orders[x].filled \in Nat /\ snap[x].filled \in Nat
    BY <1>2, <1>3 DEF BrokerRow, OrderRow
  <1>6. RowsTellTruth'
    BY <1>1, <1>3, <1>5 DEF RowsTellTruth, ledgerVars
  <1>7. SnapshotTrue'
    BY <1>1, <1>5 DEF SnapshotTrue, ledgerVars, supVars, Terminal
  <1>8. RowsStillTrue'
    BY <1>1 DEF RowsStillTrue, ledgerVars, supVars
  <1>9. InHand'
    BY <1>1, <1>5 DEF InHand, ledgerVars
  <1>10. EntryAlone' /\ ExitAlone'
    BY <1>1, <1>5 DEF EntryAlone, ExitAlone, ledgerVars, Orders
  <1>11. SettledEntryAlone' /\ SellExclusion' /\ SubmittedAtMostOnce'
    BY <1>1, <1>5 DEF SettledEntryAlone, SellExclusion, SubmittedAtMostOnce, ledgerVars, Orders
  <1> QED BY <1>4, <1>6, <1>7, <1>8, <1>9, <1>10, <1>11

\* A supervisor that starts over holds nothing that could be out of date.
LEMMA ResetInv ==
    ASSUME IInv, SupReset, UNCHANGED Core, LedgerTypeOK', BrokerTypeOK',
           upsets' \in 0..MaxUpsets,
           trader' = trader \/ trader' = TraderIdle
    PROVE  IInv'
  <1> USE DEF IInv
  <1>1. SupTypeOK' /\ supPc' = "idle"
    BY DEF SupReset, SupTypeOK, SupPcs, NoSnap, NoAcct, NoRows, NoRead, NewPass, BrokerRow,
           OrderRow, Statuses, MaterializeReads
  <1>2. SnapshotTrue'
    BY <1>1 DEF SnapshotTrue, Reading
  <1>3. RowsStillTrue'
    <2>1. \A o \in Orders : ~local'[o].bid
      BY DEF SupReset, NoRows
    <2>2. mat'.from <= mat'.upto
      BY DEF SupReset, NoRead
    <2> QED BY <1>1, <2>1, <2>2 DEF RowsStillTrue
  <1>4. TraderTypeOK' /\ InHand' /\ EntryAlone' /\ ExitAlone'
    <2>1. CASE trader' = trader
      BY <2>1, TraderFrame DEF TypeOK, TraderTypeOK
    <2>2. CASE trader' = TraderIdle
      BY <2>2, IdleHand DEF TraderIdle, TraderTypeOK, TraderPcs
    <2> QED BY <2>1, <2>2
  <1> QED BY <1>1, <1>2, <1>3, <1>4, CoreFrame DEF TypeOK

\* Operator commands and a crash of the whole process preserve the invariant.
LEMMA UpsetInv ==
    ASSUME IInv, RequestCancelBuys \/ GateChanges \/ Crash
    PROVE  IInv'
  <1>1. UNCHANGED Core /\ UNCHANGED <<fillIds, positions, marker, brokerVars>>
    BY DEF RequestCancelBuys, GateChanges, Crash, Core, ledgerVars, brokerVars
  <1>2. meta' \in Meta
    <2>1. meta \in Meta
      BY DEF IInv, TypeOK, LedgerTypeOK
    <2>2. CASE RequestCancelBuys
      <3>1. (\E b \in Buys : orders[b].status \in Unresolved) \in BOOLEAN
        OBVIOUS
      <3> QED BY <2>1, <2>2, <3>1 DEF RequestCancelBuys, Meta
    <2>3. CASE GateChanges
      BY <2>1, <2>3 DEF GateChanges, Meta
    <2>4. CASE Crash
      BY <2>1, <2>4 DEF Crash, ledgerVars
    <2> QED BY <2>2, <2>3, <2>4
  <1>3. upsets' \in 0..MaxUpsets
    BY UpsetsAssumption DEF RequestCancelBuys, GateChanges, Crash, Upset, IInv, TypeOK
  <1>4. /\ UNCHANGED Core /\ UNCHANGED <<fillIds, positions, marker, brokerVars>>
        /\ meta' \in Meta /\ upsets' \in 0..MaxUpsets
    BY <1>1, <1>2, <1>3
  <1>5. LedgerTypeOK' /\ BrokerTypeOK'
    BY <1>4 DEF IInv, TypeOK, LedgerTypeOK, BrokerTypeOK, Core, brokerVars
  <1>6. CASE Crash
    BY <1>4, <1>5, <1>6, ResetInv DEF Crash
  <1>7. CASE RequestCancelBuys \/ GateChanges
    <2>1. UNCHANGED <<trader, supVars>>
      BY <1>7 DEF RequestCancelBuys, GateChanges
    <2>2. TraderTypeOK' /\ SupTypeOK'
      BY <2>1 DEF IInv, TypeOK, TraderTypeOK, SupTypeOK, supVars
    <2> QED BY <1>4, <1>5, <2>1, <2>2, CoreFrame, TraderFrame, SupervisorFrame DEF IInv, TypeOK
  <1> QED BY <1>6, <1>7

-----------------------------------------------------------------------------
(* The supervisor: steps that write no row                                 *)

\* A record of flags stays one when some of them are overwritten.
LEMMA FlagType ==
    ASSUME LedgerTypeOK, NEW r \in BOOLEAN, NEW b \in BOOLEAN,
           UNCHANGED <<orders, fillIds, booked, applied, positions, marker>>,
           Flag(r, b)
    PROVE  LedgerTypeOK'
  BY DEF LedgerTypeOK, Flag, Meta

\* The values the supervisor's variables are reset to are well typed.
LEMMA NothingHeldType ==
    /\ NoAcct \in [ok: BOOLEAN, held: [Symbols -> Int]]
    /\ NoRows \in [Orders -> OrderRow]
    /\ NoSnap \in [Orders -> BrokerRow]
    /\ NoRead \in MaterializeReads
    /\ NewPass \in [problem: BOOLEAN, pending: BOOLEAN, matched: SUBSET Orders,
                    stage: {"none", "operator", "stale"}]
  BY DEF NoAcct, NoRows, NoSnap, NoRead, NewPass, OrderRow, Statuses, BrokerRow, MaterializeReads

\* The steps before reconciliation, and those that end a pass.
LEMMA SupOuterInv ==
    ASSUME IInv, UNCHANGED <<trader, upsets>>,
           \/ SupFetchOrders \/ SupFetchFails \/ SupException \/ SupLeaseInvalid
           \/ SupFetchAccount \/ RecReadRows \/ SupEnd
    PROVE  IInv'
  <1> USE DEF IInv
  <1>1. UNCHANGED Core /\ UNCHANGED <<fillIds, positions, marker, brokerVars>>
    BY DEF Core, SupFetchOrders, SupFetchFails, SupException, SupLeaseInvalid,
           SupFetchAccount, RecReadRows, SupEnd, ledgerVars, brokerVars
  <1>2. meta \in Meta /\ SupTypeOK
    BY DEF TypeOK, LedgerTypeOK
  <1>3. meta' \in Meta
    BY <1>2 DEF SupFetchOrders, SupFetchFails, SupException, SupLeaseInvalid,
           SupFetchAccount, RecReadRows, SupEnd, WriteStatus, MarkException, ledgerVars,
           Meta, SupTypeOK
  <1>4. LedgerTypeOK' /\ BrokerTypeOK' /\ TraderTypeOK' /\ upsets' \in 0..MaxUpsets
    BY <1>1, <1>3 DEF TypeOK, Core, LedgerTypeOK, BrokerTypeOK, brokerVars, TraderTypeOK
  <1>5. CASE SupException \/ SupEnd
    BY <1>1, <1>4, <1>5, ResetInv DEF SupException, SupEnd
  <1>6. CASE SupFetchFails \/ SupLeaseInvalid
    <2>1. UNCHANGED supVars
      BY <1>6 DEF SupFetchFails, SupLeaseInvalid
    <2> QED BY <1>1, <1>4, <2>1, CoreFrame, TraderFrame, SupervisorFrame
            DEF TypeOK, SupTypeOK, supVars
  <1>7. CASE SupFetchOrders
    <2>1. supPc = "idle" /\ supPc' = "account" /\ snap' = broker
          /\ UNCHANGED <<acct, local, todo, cur, mat, pass>>
      BY <1>7 DEF SupFetchOrders
    <2>2. SupTypeOK'
      BY <2>1 DEF TypeOK, BrokerTypeOK, SupTypeOK, SupPcs
    <2>3. SnapshotTrue'
      BY <1>1, <2>1 DEF SnapshotTrue, Core, RowsTellTruth, TypeOK, BrokerTypeOK, BrokerRow
    <2>4. RowsStillTrue'
      BY <1>1, <2>1 DEF RowsStillTrue, Core
    <2> QED BY <1>1, <1>4, <2>2, <2>3, <2>4, CoreFrame, TraderFrame DEF TypeOK
  <1>8. CASE SupFetchAccount
    <2>1. supPc = "account" /\ supPc' = "rows" /\ UNCHANGED <<snap, local, todo, cur, mat, pass>>
      BY <1>8 DEF SupFetchAccount
    <2>2. acct' \in [ok: BOOLEAN, held: [Symbols -> Int]]
      <3>1. CASE acct' = NoAcct
        BY <3>1, NothingHeldType
      <3>2. CASE acct' = [ok |-> TRUE, held |-> held]
        BY <3>2 DEF TypeOK, BrokerTypeOK
      <3> QED BY <1>8, <3>1, <3>2 DEF SupFetchAccount
    <2>3. SupTypeOK'
      BY <2>1, <2>2 DEF TypeOK, SupTypeOK, SupPcs
    <2>4. SnapshotTrue'
      BY <1>1, <2>1 DEF SnapshotTrue, Core, Reading
    <2>5. RowsStillTrue'
      BY <1>1, <2>1 DEF RowsStillTrue, Core
    <2> QED BY <1>1, <1>4, <2>3, <2>4, <2>5, CoreFrame, TraderFrame DEF TypeOK
  <1>9. CASE RecReadRows
    <2>1. supPc = "rows" /\ supPc' = "reconcile" /\ local' = orders /\ todo' \subseteq Orders
          /\ UNCHANGED <<snap, acct, cur, mat, pass>>
      BY <1>9 DEF RecReadRows
    <2>2. SupTypeOK'
      BY <2>1 DEF TypeOK, LedgerTypeOK, SupTypeOK, SupPcs
    <2>3. SnapshotTrue'
      BY <1>1, <2>1 DEF SnapshotTrue, Core, Reading
    <2>4. RowsStillTrue'
      BY <1>1, <2>1 DEF RowsStillTrue, Core
    <2> QED BY <1>1, <1>4, <2>2, <2>3, <2>4, CoreFrame, TraderFrame DEF TypeOK
  <1> QED BY <1>5, <1>6, <1>7, <1>8, <1>9

\* Steps of reconciliation that write no row.
LEMMA SupReconcileInv ==
    ASSUME IInv, UNCHANGED <<trader, upsets>>,
           \/ \E o \in Orders : RecSkip(o)
           \/ RecMaterializeRead \/ RecFinish
    PROVE  IInv'
  <1> USE DEF IInv
  <1>1. UNCHANGED Core /\ UNCHANGED <<fillIds, positions, marker, brokerVars>>
    BY DEF Core, RecSkip, RecMaterializeRead, RecFinish, ledgerVars, brokerVars
  <1>2. meta \in Meta /\ SupTypeOK /\ LedgerTypeOK
    BY DEF TypeOK, LedgerTypeOK
  <1>3. ASSUME NEW o \in Orders, RecSkip(o)
        PROVE  LedgerTypeOK' /\ SupTypeOK' /\ SnapshotTrue' /\ RowsStillTrue'
    <2>1. supPc = "reconcile" /\ todo' = todo \ {o}
          /\ UNCHANGED <<ledgerVars, supPc, snap, acct, local, cur, mat>>
      BY <1>3 DEF RecSkip
    <2>2. pass' \in [problem: BOOLEAN, pending: BOOLEAN, matched: SUBSET Orders,
                     stage: {"none", "operator", "stale"}]
      BY <1>2, <1>3 DEF RecSkip, SupTypeOK
    <2>3. LedgerTypeOK' /\ SupTypeOK'
      BY <1>2, <2>1, <2>2 DEF SupTypeOK, LedgerTypeOK, ledgerVars
    <2>4. SnapshotTrue'
      BY <1>1, <2>1 DEF SnapshotTrue, Core
    <2>5. RowsStillTrue'
      BY <1>1, <2>1 DEF RowsStillTrue, Core
    <2> QED BY <2>3, <2>4, <2>5
  <1>4. ASSUME RecMaterializeRead
        PROVE  LedgerTypeOK' /\ SupTypeOK' /\ SnapshotTrue' /\ RowsStillTrue'
    <2>1. supPc = "matread" /\ supPc' = "matwrite" /\ mat' = MaterializeRead(cur)
          /\ UNCHANGED <<ledgerVars, snap, acct, local, todo, cur, pass>>
      BY <1>4 DEF RecMaterializeRead
    <2>2. cur \in Orders
      BY <2>1 DEF RowsStillTrue
    <2>3. mat' \in MaterializeReads
      BY <1>2, <2>1, <2>2, MaterializeReadType
    <2>4. mat'.from = applied[cur] /\ mat'.upto = booked[cur]
      BY <2>1 DEF MaterializeRead
    <2>5. /\ mat'.from <= mat'.upto
          /\ mat'.upto <= booked[cur]
      BY <1>2, <2>2, <2>4 DEF RowsTellTruth, LedgerTypeOK
    <2>6. LedgerTypeOK' /\ SupTypeOK'
      BY <1>2, <2>1, <2>3 DEF SupTypeOK, LedgerTypeOK, ledgerVars, SupPcs
    <2>7. SnapshotTrue'
      BY <1>1, <2>1 DEF SnapshotTrue, Core, Reading
    <2>8. RowsStillTrue'
      BY <1>1, <2>1, <2>5 DEF RowsStillTrue, Core
    <2> QED BY <2>6, <2>7, <2>8
  <1>5. ASSUME RecFinish
        PROVE  LedgerTypeOK' /\ SupTypeOK' /\ SnapshotTrue' /\ RowsStillTrue'
    <2>1. PICK problem \in BOOLEAN : /\ pass' = [NewPass EXCEPT !.problem = problem]
                                     /\ Flag(problem, problem)
      <3> DEFINE pb == \/ pass.problem
                       \/ BrokerOnly # {}
                       \/ ~acct.ok
                       \/ PositionMismatch
      <3>1. pb \in BOOLEAN
        BY <1>2 DEF SupTypeOK
      <3> QED BY <1>5, <3>1 DEF RecFinish
    <2>2. /\ supPc = "reconcile" /\ supPc' = "cancel" /\ acct' = NoAcct /\ local' = NoRows
          /\ UNCHANGED <<snap, todo, cur, mat>>
      BY <1>5 DEF RecFinish
    <2>3. LedgerTypeOK'
      BY <1>1, <1>2, <2>1, FlagType DEF Core
    <2>4. SupTypeOK'
      <3>1. pass' \in [problem: BOOLEAN, pending: BOOLEAN, matched: SUBSET Orders,
                       stage: {"none", "operator", "stale"}]
        BY <2>1, NothingHeldType
      <3> QED BY <1>2, <2>2, <3>1, NothingHeldType DEF SupTypeOK, SupPcs
    <2>5. SnapshotTrue'
      BY <1>1, <2>2 DEF SnapshotTrue, Core, Reading
    <2>6. RowsStillTrue'
      <3>1. \A o \in Orders : ~local'[o].bid
        BY <2>2 DEF NoRows
      <3> QED BY <1>1, <2>2, <3>1 DEF RowsStillTrue, Core
    <2> QED BY <2>3, <2>4, <2>5, <2>6
  <1>6. LedgerTypeOK' /\ SupTypeOK' /\ SnapshotTrue' /\ RowsStillTrue'
    BY <1>3, <1>4, <1>5
  <1>7. BrokerTypeOK' /\ TraderTypeOK' /\ upsets' \in 0..MaxUpsets
    BY <1>1 DEF TypeOK, BrokerTypeOK, brokerVars, TraderTypeOK
  <1> QED BY <1>1, <1>6, <1>7, CoreFrame, TraderFrame DEF TypeOK

PassType == [problem: BOOLEAN, pending: BOOLEAN, matched: SUBSET Orders,
             stage: {"none", "operator", "stale"}]

\* Steps of the two cancellation loops that write no row.
LEMMA SupLoopInv ==
    ASSUME IInv, UNCHANGED <<trader, upsets>>,
           \/ CancelBuysStart \/ ManageStart \/ RowLoopEnd
           \/ \E o \in Orders : LeaveRow(o)
           \/ CancelSent \/ StoreMarker
    PROVE  IInv'
  <1> USE DEF IInv
  <1>1. UNCHANGED Core /\ UNCHANGED <<fillIds, positions, held, market>>
    BY DEF Core, CancelBuysStart, ManageStart, RowLoopEnd, LeaveRow, CancelSent, StoreMarker,
           ledgerVars, brokerVars
  <1>2. SupTypeOK /\ LedgerTypeOK /\ BrokerTypeOK
    BY DEF TypeOK
  <1>3. /\ supPc \in Reading /\ pass \in PassType
        /\ orders \in [Orders -> OrderRow] /\ meta \in Meta
    BY <1>2 DEF CancelBuysStart, ManageStart, RowLoopEnd, LeaveRow, CancelSent, StoreMarker,
           Row, Reading, SupTypeOK, PassType, LedgerTypeOK
  \* Rows selected as ACKNOWLEDGED or PARTIALLY_FILLED have a broker number.
  <1>4. \A o \in Orders : orders[o].status \in {"ACKNOWLEDGED", "PARTIALLY_FILLED"} => orders[o].bid
    BY DEF RowsTellTruth
  <1>5. CASE CancelBuysStart
    <2>1. CASE meta.cancelReq
      <3>1. /\ meta' = [meta EXCEPT !.cancelReq = FALSE] /\ local' = orders
            /\ todo' = {b \in Buys : orders[b].status \in {"ACKNOWLEDGED", "PARTIALLY_FILLED"}}
            /\ pass' = [pass EXCEPT !.stage = "operator"] /\ supPc' = "rowloop"
            /\ UNCHANGED <<marker, brokerVars, snap, acct, cur, mat>>
        BY <1>5, <2>1 DEF CancelBuysStart
      <3>2. LedgerTypeOK' /\ BrokerTypeOK'
        BY <1>1, <1>2, <3>1 DEF LedgerTypeOK, BrokerTypeOK, brokerVars, Core, Meta
      <3>3. pass' \in PassType /\ todo' \subseteq Orders
        BY <1>3, <3>1 DEF PassType, Orders
      <3>4. SupTypeOK'
        BY <1>2, <1>3, <3>1, <3>3 DEF SupTypeOK, SupPcs, PassType
      <3>5. SnapshotTrue'
        BY <1>1, <1>3, <3>1 DEF SnapshotTrue, Core
      <3>6. RowsStillTrue'
        BY <1>1, <1>4, <3>1 DEF RowsStillTrue, Core, Orders
      <3> QED BY <1>1, <3>2, <3>4, <3>5, <3>6, CoreFrame, TraderFrame DEF TypeOK, TraderTypeOK
    <2>2. CASE ~meta.cancelReq
      <3>1. supPc = "cancel" /\ supPc' = "manage"
            /\ UNCHANGED <<meta, marker, brokerVars, snap, acct, local, todo, cur, mat, pass>>
        BY <1>5, <2>2 DEF CancelBuysStart
      <3>2. LedgerTypeOK' /\ BrokerTypeOK' /\ SupTypeOK'
        BY <1>1, <1>2, <3>1 DEF LedgerTypeOK, BrokerTypeOK, brokerVars, Core, SupTypeOK, SupPcs
      <3>3. SnapshotTrue'
        BY <1>1, <1>3, <3>1 DEF SnapshotTrue, Core
      <3>4. RowsStillTrue'
        BY <1>1, <3>1 DEF RowsStillTrue, Core
      <3> QED BY <1>1, <3>2, <3>3, <3>4, CoreFrame, TraderFrame DEF TypeOK, TraderTypeOK
    <2> QED BY <2>1, <2>2
  <1>6. CASE ManageStart
    <2>1. /\ local' = orders /\ todo' \subseteq Orders
          /\ pass' = [pass EXCEPT !.stage = "stale"] /\ supPc' = "rowloop"
          /\ UNCHANGED <<ledgerVars, brokerVars, snap, acct, cur, mat>>
      BY <1>6 DEF ManageStart
    <2>2. pass' \in PassType /\ pass'.stage = "stale"
      BY <1>3, <2>1 DEF PassType
    <2>3. LedgerTypeOK' /\ BrokerTypeOK' /\ SupTypeOK'
      BY <1>2, <1>3, <2>1, <2>2
         DEF LedgerTypeOK, BrokerTypeOK, ledgerVars, brokerVars, SupTypeOK, SupPcs, PassType
    <2>4. SnapshotTrue'
      BY <1>1, <1>3, <2>1 DEF SnapshotTrue, Core
    <2>5. RowsStillTrue'
      BY <1>1, <2>1, <2>2 DEF RowsStillTrue, Core
    <2> QED BY <1>1, <2>3, <2>4, <2>5, CoreFrame, TraderFrame DEF TypeOK, TraderTypeOK
  <1>7. CASE RowLoopEnd
    <2>1. /\ \/ supPc' = "manage" /\ snap' = snap
             \/ supPc' = "end" /\ snap' = NoSnap
          /\ local' = NoRows
          /\ UNCHANGED <<orders, fillIds, booked, applied, positions, marker, brokerVars,
                         acct, todo, cur, mat, pass>>
      BY <1>7 DEF RowLoopEnd
    <2>a. meta' \in Meta
      BY <1>3, <1>7 DEF RowLoopEnd, Flag, Meta
    <2>2. LedgerTypeOK' /\ BrokerTypeOK'
      BY <1>2, <2>1, <2>a DEF LedgerTypeOK, BrokerTypeOK, brokerVars
    <2>3. SupTypeOK'
      BY <1>2, <2>1, NothingHeldType DEF SupTypeOK, SupPcs
    <2>4. SnapshotTrue'
      BY <1>1, <1>3, <2>1 DEF SnapshotTrue, Core, Reading
    <2>5. \A o \in Orders : ~local'[o].bid
      BY <2>1 DEF NoRows
    <2>6. RowsStillTrue'
      BY <1>1, <2>1, <2>5 DEF RowsStillTrue, Core
    <2> QED BY <1>1, <2>2, <2>3, <2>4, <2>6, CoreFrame, TraderFrame DEF TypeOK, TraderTypeOK
  <1>8. ASSUME NEW o \in Orders, LeaveRow(o)
        PROVE  IInv'
    <2>1. /\ supPc = "rowloop" /\ todo' = todo \ {o}
          /\ UNCHANGED <<ledgerVars, brokerVars, supPc, snap, acct, local, cur, mat>>
      BY <1>8 DEF LeaveRow, Row
    <2>2. pass' \in PassType /\ pass'.stage = pass.stage
      BY <1>3, <1>8 DEF LeaveRow, PassType
    <2>3. LedgerTypeOK' /\ BrokerTypeOK' /\ SupTypeOK'
      BY <1>2, <2>1, <2>2
         DEF LedgerTypeOK, BrokerTypeOK, ledgerVars, brokerVars, SupTypeOK, PassType
    <2>4. SnapshotTrue'
      BY <1>1, <2>1 DEF SnapshotTrue, Core
    <2>5. RowsStillTrue'
      BY <1>1, <2>1, <2>2 DEF RowsStillTrue, Core
    <2> QED BY <1>1, <2>3, <2>4, <2>5, CoreFrame, TraderFrame DEF TypeOK, TraderTypeOK
  <1>9. CASE CancelSent
    <2>1. /\ supPc = "send" /\ supPc' = "store" /\ cancels' = cancels \cup {cur}
          /\ UNCHANGED <<ledgerVars, snap, acct, local, todo, cur, mat, pass>>
      BY <1>9 DEF CancelSent
    <2>2. cancels' \subseteq Orders
      BY <1>1, <1>2, <2>1 DEF BrokerTypeOK, RowsStillTrue
    <2>3. LedgerTypeOK' /\ BrokerTypeOK' /\ SupTypeOK'
      BY <1>1, <1>2, <2>1, <2>2
         DEF LedgerTypeOK, BrokerTypeOK, ledgerVars, Core, SupTypeOK, SupPcs
    <2>4. SnapshotTrue'
      BY <1>1, <1>3, <2>1 DEF SnapshotTrue, Core
    <2>5. RowsStillTrue'
      BY <1>1, <2>1 DEF RowsStillTrue, Core
    <2> QED BY <1>1, <2>3, <2>4, <2>5, CoreFrame, TraderFrame DEF TypeOK, TraderTypeOK
  <1>10. CASE StoreMarker
    <2>1. /\ supPc = "store" /\ supPc' = "rowloop" /\ cur' = None
          /\ marker' = [marker EXCEPT ![cur] = "pending"]
          /\ UNCHANGED <<meta, brokerVars, snap, acct, local, todo, mat>>
      BY <1>10 DEF StoreMarker
    <2>2. pass' \in PassType /\ pass'.stage = pass.stage
      BY <1>3, <1>10 DEF StoreMarker, PassType
    <2>3. LedgerTypeOK' /\ BrokerTypeOK' /\ SupTypeOK'
      BY <1>1, <1>2, <2>1, <2>2
         DEF LedgerTypeOK, BrokerTypeOK, brokerVars, Core, SupTypeOK, SupPcs, PassType
    <2>4. SnapshotTrue'
      BY <1>1, <1>3, <2>1 DEF SnapshotTrue, Core
    <2>5. RowsStillTrue'
      BY <1>1, <2>1, <2>2 DEF RowsStillTrue, Core
    <2> QED BY <1>1, <2>3, <2>4, <2>5, CoreFrame, TraderFrame DEF TypeOK, TraderTypeOK
  <1> QED BY <1>5, <1>6, <1>7, <1>8, <1>9, <1>10

\* materialize_order_fills: positions follow the fills, no row changes.
LEMMA MaterializeInv ==
    ASSUME IInv, UNCHANGED <<trader, upsets>>, RecMaterialize
    PROVE  IInv'
  <1> USE DEF IInv
  <1>1. /\ supPc = "matwrite" /\ supPc' = "reconcile" /\ cur' = None /\ mat' = NoRead
        /\ MaterializeOrderFills(cur, mat)
        /\ UNCHANGED <<orders, fillIds, booked, marker, meta, brokerVars, snap, acct, local, todo>>
    BY DEF RecMaterialize
  <1>2. SupTypeOK /\ LedgerTypeOK /\ cur \in Orders /\ mat \in MaterializeReads
        /\ mat.from <= mat.upto /\ mat.upto <= booked[cur]
    BY <1>1 DEF TypeOK, SupTypeOK, RowsStillTrue
  <1>3. /\ positions' \in [Buys -> PositionRow] /\ applied' \in [Orders -> Nat]
        /\ applied' = applied \/ applied' = [applied EXCEPT ![cur] = mat.upto]
    BY <1>1, <1>2, MaterializeType
  <1>4. \A o \in Orders : applied'[o] <= booked[o]
    BY <1>2, <1>3 DEF RowsTellTruth, LedgerTypeOK
  <1>5. pass' \in PassType
    BY <1>2 DEF RecMaterialize, SupTypeOK, PassType, MaterializeRaises
  <1>6. LedgerTypeOK' /\ BrokerTypeOK'
    BY <1>1, <1>2, <1>3 DEF TypeOK, LedgerTypeOK, BrokerTypeOK, brokerVars
  <1>7. SupTypeOK'
    BY <1>1, <1>2, <1>5, NothingHeldType DEF SupTypeOK, SupPcs, PassType
  <1>8. RowsTellTruth'
    BY <1>1, <1>4 DEF RowsTellTruth, brokerVars
  <1>9. SubmittedAtMostOnce' /\ SettledEntryAlone' /\ SellExclusion'
    BY <1>1 DEF SubmittedAtMostOnce, SettledEntryAlone, SellExclusion, brokerVars
  <1>10. InHand' /\ EntryAlone' /\ ExitAlone'
    BY <1>1 DEF InHand, EntryAlone, ExitAlone, brokerVars
  <1>11. SnapshotTrue'
    BY <1>1 DEF SnapshotTrue, Reading, brokerVars
  <1>12. RowsStillTrue'
    BY <1>1 DEF RowsStillTrue, NoRead
  <1> QED BY <1>6, <1>7, <1>8, <1>9, <1>10, <1>11, <1>12 DEF TypeOK, TraderTypeOK

-----------------------------------------------------------------------------
(* The supervisor: steps that write a row                                  *)

\* update_broker_order_status with the order number and the quantity of the
\* pass's order list is a row update, or (quantity too large) no change.
LEMMA StatusUpdate ==
    ASSUME IInv, supPc \in Reading, NEW o \in Orders, orders[o].bid,
           NEW st \in Unresolved \cup Terminal,
           st \in Terminal => snap[o].st = st,
           UpdateBrokerOrderStatus(o, st, snap[o].filled)
    PROVE  \E r : /\ RowUpdate(o, r)
                  /\ orders[o].filled <= r.filled /\ r.filled <= snap[o].filled
  <1> USE DEF IInv
  <1>1. /\ orders \in [Orders -> OrderRow] /\ snap \in [Orders -> BrokerRow]
        /\ broker \in [Orders -> BrokerRow]
    BY DEF TypeOK, LedgerTypeOK, BrokerTypeOK, SupTypeOK
  <1>2. /\ snap[o].filled \in Nat /\ orders[o].filled \in Nat /\ orders[o].req \in Nat
        /\ broker[o].filled \in Nat /\ orders[o].status \in Statuses
    BY <1>1 DEF OrderRow, BrokerRow
  <1>3. /\ orders[o].filled <= snap[o].filled /\ snap[o].filled <= broker[o].filled
        /\ snap[o].st \in Terminal => broker[o].st = snap[o].st
    BY DEF SnapshotTrue
  <1>4. /\ orders[o].status \notin {"NONE", "INTENT", "SUBMITTING"}
        /\ orders[o].status \in Terminal => broker[o].st # "OPEN"
        /\ broker[o].st = "OPEN" => broker[o].filled < orders[o].req
    BY DEF RowsTellTruth
  <1>5. orders[o].status \in Unresolved \cup Terminal
    BY <1>2, <1>4 DEF Statuses, Active
  <1>6. CASE snap[o].filled <= orders[o].req
    <2> DEFINE r == [orders[o] EXCEPT !.status = st, !.bid = TRUE, !.filled = snap[o].filled]
    <2>1. orders' = [orders EXCEPT ![o] = r]
      BY <1>1, <1>6 DEF UpdateBrokerOrderStatus, OrderRow
    <2>2. /\ r \in OrderRow /\ r.bid /\ r.status = st /\ r.req = orders[o].req
          /\ r.filled = snap[o].filled
      BY <1>1, <1>2 DEF OrderRow, Statuses, Active
    <2>3. st \in Terminal => broker[o].st # "OPEN"
      BY <1>2, <1>3, <1>4 DEF Terminal
    <2> HIDE DEF r
    <2>4. RowUpdate(o, r) /\ orders[o].filled <= r.filled /\ r.filled <= snap[o].filled
      BY <1>2, <1>3, <2>1, <2>2, <2>3 DEF RowUpdate
    <2> QED BY <2>4
  <1>7. CASE ~(snap[o].filled <= orders[o].req)
    <2>1. orders' = [orders EXCEPT ![o] = orders[o]]
      BY <1>1, <1>7 DEF UpdateBrokerOrderStatus
    <2>2. RowUpdate(o, orders[o]) /\ orders[o].filled <= snap[o].filled
      BY <1>1, <1>2, <1>3, <1>4, <1>5, <2>1 DEF RowUpdate
    <2> QED BY <1>2, <2>2
  <1> QED BY <1>6, <1>7

\* mark_order_unknown of a numbered order is a row update too.
LEMMA UnknownUpdate ==
    ASSUME IInv, NEW o \in Orders, orders[o].bid, MarkOrderUnknown(o)
    PROVE  \E r : RowUpdate(o, r) /\ r.filled = orders[o].filled
  <1> USE DEF IInv
  <1> DEFINE r == [orders[o] EXCEPT !.status = "UNKNOWN"]
  <1>1. orders \in [Orders -> OrderRow] /\ broker \in [Orders -> BrokerRow]
    BY DEF TypeOK, LedgerTypeOK, BrokerTypeOK
  <1>2. orders' = [orders EXCEPT ![o] = r]
    BY <1>1 DEF MarkOrderUnknown
  <1>3. /\ r \in OrderRow /\ r.bid /\ r.status = "UNKNOWN" /\ r.req = orders[o].req
        /\ r.filled = orders[o].filled /\ orders[o].filled \in Nat
    BY <1>1 DEF OrderRow, Statuses, Active, Unresolved
  <1>4. orders[o].filled <= broker[o].filled
    BY DEF RowsTellTruth
  <1> HIDE DEF r
  <1>5. RowUpdate(o, r)
    BY <1>2, <1>3, <1>4 DEF RowUpdate, Unresolved, Terminal
  <1> QED BY <1>3, <1>5

\* The effect of a row update on what the supervisor itself holds.
LEMMA RowUpdateSupervisor ==
    ASSUME IInv, supPc \in Reading, NEW o \in Orders, NEW r, orders[o].bid,
           RowUpdate(o, r), r.filled <= snap[o].filled, UNCHANGED <<snap, broker>>
    PROVE  /\ orders' \in [Orders -> OrderRow]
           /\ SnapshotTrue'
           /\ \A x \in Orders : orders[x].bid => orders'[x].bid
           /\ \A x \in Orders \ {o} : orders'[x] = orders[x]
  <1> USE DEF IInv
  <1>1. orders \in [Orders -> OrderRow] /\ snap \in [Orders -> BrokerRow]
    BY DEF TypeOK, LedgerTypeOK, SupTypeOK
  <1>2. /\ orders' \in [Orders -> OrderRow] /\ orders'[o] = r
        /\ \A x \in Orders \ {o} : orders'[x] = orders[x]
    BY <1>1 DEF RowUpdate
  <1>3. \A x \in Orders : orders[x].bid => orders'[x].bid
    BY <1>2 DEF RowUpdate
  <1>4. SnapshotTrue'
    BY <1>2 DEF SnapshotTrue
  <1> QED BY <1>2, <1>3, <1>4

\* apply_broker_fill as reconciliation calls it: the selected row is still
\* the current one, so the fill makes the row agree with the order list.
LEMMA BookInv ==
    ASSUME IInv, UNCHANGED <<trader, upsets>>, NEW o \in Orders, RecBook(o)
    PROVE  IInv'
  <1> USE DEF IInv
  <1>1. /\ supPc = "reconcile" /\ o \in todo /\ ~RecUnsettled(o)
        /\ todo' = todo \ {o}
        /\ UNCHANGED <<applied, positions, marker, meta, brokerVars, snap, acct, local, mat>>
        /\ \/ supPc' = "reconcile" /\ cur' = None
           \/ supPc' = "status" /\ cur' = o
    BY DEF RecBook
  <1>2. /\ SupTypeOK /\ LedgerTypeOK /\ BrokerTypeOK /\ supPc \in Reading
        /\ local[o].bid /\ orders[o].bid /\ snap[o].st # "NONE"
        /\ local[o].filled = orders[o].filled
    BY <1>1 DEF TypeOK, Reading, RecUnsettled, Found, Listed, RowsStillTrue
  <1>3. /\ orders[o].filled \in Nat /\ snap[o].filled \in Nat /\ orders[o].req \in Nat
        /\ broker[o].filled \in Nat /\ booked[o] \in Nat /\ orders \in [Orders -> OrderRow]
        /\ booked \in [Orders -> Nat]
    BY <1>2 DEF SupTypeOK, LedgerTypeOK, BrokerTypeOK, OrderRow, BrokerRow
  <1>4. /\ orders[o].filled <= snap[o].filled /\ snap[o].filled <= broker[o].filled
        /\ booked[o] <= orders[o].filled
        /\ broker[o].st = "OPEN" => broker[o].filled < orders[o].req
    BY <1>2 DEF SnapshotTrue, RowsTellTruth
  <1>5. \/ UNCHANGED <<orders, fillIds, booked>>
        \/ /\ RecDelta(o) > 0 /\ FillFits(o, RecDelta(o))
           /\ InsertFill(o, RecFillId(o), RecDelta(o))
    BY DEF RecBook, ApplyBrokerFill
  <1>6. pass' \in PassType
    <2>1. pass \in PassType
      BY <1>2 DEF SupTypeOK, PassType
    <2>2. \E p \in BOOLEAN : pass' = [pass EXCEPT !.problem = p, !.matched = @ \cup {o}]
      <3> DEFINE p == pass.problem
                   \/ (RecDelta(o) > 0 /\ ApplyRaises(o, RecFillId(o), RecDelta(o)))
                   \/ local[o].status = "UNKNOWN"
      <3>1. p \in BOOLEAN
        BY <2>1 DEF PassType
      <3>2. pass' = [pass EXCEPT !.problem = p, !.matched = @ \cup {o}]
        BY DEF RecBook
      <3> QED BY <3>1, <3>2
    <2>3. PICK p \in BOOLEAN : pass' = [pass EXCEPT !.problem = p, !.matched = @ \cup {o}]
      BY <2>2
    <2> DEFINE a == [pass EXCEPT !.problem = p]
    <2>4. a \in PassType /\ a.matched = pass.matched
      BY <2>1 DEF PassType
    <2>5. pass' = [a EXCEPT !.matched = pass.matched \cup {o}]
      BY <2>1, <2>3 DEF PassType
    <2> HIDE DEF a
    <2> QED BY <2>1, <2>4, <2>5 DEF PassType
  <1>7. SupTypeOK'
    BY <1>1, <1>2, <1>6 DEF SupTypeOK, SupPcs, PassType
  <1>8. CASE UNCHANGED <<orders, fillIds, booked>>
    <2>1. UNCHANGED Core
      BY <1>1, <1>8 DEF Core, brokerVars
    <2>2. LedgerTypeOK' /\ BrokerTypeOK' /\ TraderTypeOK'
      BY <1>1, <1>2, <1>8 DEF TypeOK, LedgerTypeOK, BrokerTypeOK, brokerVars, TraderTypeOK
    <2>3. SnapshotTrue'
      BY <1>1, <1>2, <2>1 DEF SnapshotTrue, Core
    <2>4. RowsStillTrue'
      BY <1>1, <1>2, <2>1 DEF RowsStillTrue, Core
    <2> QED BY <1>7, <2>1, <2>2, <2>3, <2>4, CoreFrame, TraderFrame DEF TypeOK
  <1>9. CASE /\ RecDelta(o) > 0 /\ FillFits(o, RecDelta(o))
             /\ InsertFill(o, RecFillId(o), RecDelta(o))
    <2> DEFINE total == snap[o].filled
               st == IF total = orders[o].req THEN "FILLED" ELSE "PARTIALLY_FILLED"
               r == [orders[o] EXCEPT !.filled = total, !.bid = TRUE, !.status = st]
    <2>1. orders[o].filled + RecDelta(o) = total /\ RecDelta(o) \in Nat
      BY <1>2, <1>3, <1>4, <1>9 DEF RecDelta
    <2>2. /\ fillIds' = fillIds \cup {RecFillId(o)}
          /\ booked' = [booked EXCEPT ![o] = booked[o] + RecDelta(o)]
          /\ orders' = [orders EXCEPT ![o] = r]
      BY <1>3, <1>9, <2>1 DEF InsertFill
    <2>3. /\ r \in OrderRow /\ r.bid /\ r.status = st /\ r.req = orders[o].req /\ r.filled = total
          /\ st \in Unresolved \cup Terminal
      BY <1>3 DEF OrderRow, Statuses, Active, Unresolved, Terminal
    <2>4. st \in Terminal => broker[o].st # "OPEN"
      BY <1>3, <1>4 DEF Terminal
    <2> HIDE DEF r, st
    <2>5. RowUpdate(o, r)
      BY <1>3, <1>4, <2>2, <2>3, <2>4 DEF RowUpdate
    <2>6. /\ booked' \in [Orders -> Nat]
          /\ \A x \in Orders : booked[x] <= booked'[x]
          /\ \A x \in Orders \ {o} : booked'[x] = booked[x]
          /\ booked'[o] <= r.filled
      BY <1>3, <1>4, <2>1, <2>2, <2>3
    <2>7. /\ RowsTellTruth' /\ SubmittedAtMostOnce' /\ SettledEntryAlone' /\ SellExclusion'
          /\ InHand' /\ EntryAlone' /\ ExitAlone'
      BY <1>1, <1>2, <2>5, <2>6, NumberedRowUpdate DEF brokerVars
    <2>8. /\ orders' \in [Orders -> OrderRow] /\ SnapshotTrue'
          /\ \A x \in Orders : orders[x].bid => orders'[x].bid
          /\ \A x \in Orders \ {o} : orders'[x] = orders[x]
      <3>1. r.filled <= snap[o].filled
        BY <1>3, <2>3
      <3> QED BY <1>1, <1>2, <2>5, <3>1, RowUpdateSupervisor DEF brokerVars
    <2>9. RecFillId(o) \in FillId
      BY <1>3 DEF RecFillId, FillId
    <2>10. LedgerTypeOK' /\ BrokerTypeOK' /\ TraderTypeOK'
      BY <1>1, <1>2, <2>2, <2>6, <2>8, <2>9
         DEF TypeOK, LedgerTypeOK, BrokerTypeOK, brokerVars, TraderTypeOK
    <2>11. RowsStillTrue'
      BY <1>1, <1>2, <2>8 DEF RowsStillTrue, SupTypeOK
    <2> QED BY <1>7, <2>7, <2>8, <2>10, <2>11 DEF TypeOK
  <1> QED BY <1>5, <1>8, <1>9

\* A step of the supervisor whose only ledger write is a row update.
LEMMA RowStepInv ==
    ASSUME IInv, supPc \in Reading, NEW o \in Orders, NEW r, orders[o].bid,
           RowUpdate(o, r), r.filled <= snap[o].filled,
           UNCHANGED <<sent, broker, applied, booked, snap, trader, upsets>>,
           orders' \in [Orders -> OrderRow] => LedgerTypeOK',
           BrokerTypeOK', SupTypeOK', RowsStillTrue'
    PROVE  IInv'
  <1> USE DEF IInv
  <1>1. /\ orders' \in [Orders -> OrderRow] /\ SnapshotTrue'
    BY RowUpdateSupervisor
  <1>2. /\ booked \in [Orders -> Nat] /\ orders \in [Orders -> OrderRow] /\ r \in OrderRow
        /\ booked[o] <= orders[o].filled /\ orders[o].filled <= r.filled
    BY DEF TypeOK, LedgerTypeOK, RowsTellTruth, RowUpdate
  <1>3. booked'[o] <= r.filled
    BY <1>2 DEF OrderRow
  <1>4. /\ RowsTellTruth' /\ SubmittedAtMostOnce' /\ SettledEntryAlone' /\ SellExclusion'
        /\ InHand' /\ EntryAlone' /\ ExitAlone'
    BY <1>2, <1>3, NumberedRowUpdate
  <1> QED BY <1>1, <1>4 DEF TypeOK, TraderTypeOK

\* The status of the order list is written into the row.
LEMMA StatusInv ==
    ASSUME IInv, UNCHANGED <<trader, upsets>>, RecStatus
    PROVE  IInv'
  <1> USE DEF IInv
  <1> DEFINE st == RecStatusFor(cur)
  <1>1. /\ supPc = "status" /\ supPc' = "matread"
        /\ UpdateBrokerOrderStatus(cur, st, snap[cur].filled)
        /\ UNCHANGED <<fillIds, booked, applied, positions, marker, meta, brokerVars,
                       snap, acct, local, todo, cur, mat, pass>>
    BY DEF RecStatus
  <1>2. /\ SupTypeOK /\ LedgerTypeOK /\ BrokerTypeOK /\ supPc \in Reading
        /\ cur \in Orders \ todo /\ local[cur].bid /\ orders[cur].bid /\ snap[cur].st # "NONE"
    BY <1>1 DEF TypeOK, Reading, RowsStillTrue
  <1>3. /\ st \in Unresolved \cup Terminal
        /\ st \in Terminal => snap[cur].st = st
    <2>1. snap[cur].st \in {"OPEN", "FILLED", "CANCELLED", "REJECTED"}
      BY <1>2 DEF SupTypeOK, BrokerRow
    <2> QED BY <2>1 DEF RecStatusFor, LocalStatusForBroker, Unresolved, Terminal
  <1> HIDE DEF st
  <1>4. PICK r : RowUpdate(cur, r) /\ r.filled <= snap[cur].filled
    BY <1>1, <1>2, <1>3, StatusUpdate
  <1>5. /\ \A x \in Orders : orders[x].bid => orders'[x].bid
        /\ \A x \in Orders \ {cur} : orders'[x] = orders[x]
    BY <1>1, <1>2, <1>4, RowUpdateSupervisor DEF brokerVars
  <1>6. BrokerTypeOK' /\ SupTypeOK' /\ (orders' \in [Orders -> OrderRow] => LedgerTypeOK')
    BY <1>1, <1>2 DEF BrokerTypeOK, brokerVars, SupTypeOK, SupPcs, LedgerTypeOK
  <1>7. RowsStillTrue'
    BY <1>1, <1>2, <1>5 DEF RowsStillTrue, SupTypeOK
  <1> QED BY <1>1, <1>2, <1>4, <1>6, <1>7, RowStepInv DEF brokerVars

\* Steps of the cancellation loops that write a row.
LEMMA CancelRowInv ==
    ASSUME IInv, UNCHANGED <<trader, upsets>>, NEW o \in Orders,
           CancelUnlisted(o) \/ ManageMarked(o) \/ CancelMark(o)
    PROVE  IInv'
  <1> USE DEF IInv
  <1>1. /\ supPc = "rowloop" /\ o \in todo /\ todo' = todo \ {o}
        /\ UNCHANGED <<fillIds, booked, applied, positions, brokerVars, snap, acct, local, mat>>
        /\ \/ supPc' = "rowloop" /\ cur' = cur
           \/ supPc' = "send" /\ cur' = o
    BY DEF CancelUnlisted, ManageMarked, CancelMark, Row
  <1>2. /\ SupTypeOK /\ LedgerTypeOK /\ BrokerTypeOK /\ supPc \in Reading
        /\ pass \in PassType /\ meta \in Meta
        /\ snap[o].st \in {"NONE", "OPEN", "FILLED", "CANCELLED", "REJECTED"}
    BY <1>1 DEF TypeOK, Reading, SupTypeOK, PassType, LedgerTypeOK, BrokerRow
  <1>3. pass' \in PassType /\ pass'.stage = pass.stage
    BY <1>2 DEF CancelUnlisted, ManageMarked, CancelMark, PassType
  <1>4. SupTypeOK'
    BY <1>1, <1>2, <1>3 DEF SupTypeOK, SupPcs, PassType
  <1>5. meta' \in Meta
    BY <1>2 DEF CancelUnlisted, ManageMarked, CancelMark, Flag, Meta
  <1>6. marker' \in [Orders -> {"none", "pending", "confirmed"}]
    BY <1>2 DEF CancelUnlisted, ManageMarked, CancelMark, LedgerTypeOK
  <1>7. BrokerTypeOK' /\ (orders' \in [Orders -> OrderRow] => LedgerTypeOK')
    BY <1>1, <1>2, <1>5, <1>6 DEF BrokerTypeOK, brokerVars, LedgerTypeOK
  \* The row is left alone, or updated; a row that is updated is numbered.
  <1>8. \/ orders' = orders
        \/ orders[o].bid /\ \E r : RowUpdate(o, r) /\ r.filled <= snap[o].filled
    <2>1. CASE CancelUnlisted(o)
      <3>1. orders[o].bid
        BY <1>1, <2>1 DEF CancelUnlisted, RowsStillTrue
      <3>2. PICK r : RowUpdate(o, r) /\ r.filled = orders[o].filled
        BY <2>1, <3>1, UnknownUpdate DEF CancelUnlisted
      <3>3. orders[o].filled <= snap[o].filled
        BY <1>2 DEF SnapshotTrue
      <3> QED BY <3>1, <3>2, <3>3
    <2>2. CASE ManageMarked(o)
      <3> DEFINE st == IF snap[o].st \in Terminal THEN snap[o].st ELSE "CANCEL_PENDING"
      <3>1. \/ orders' = orders
            \/ Found(o) /\ UpdateBrokerOrderStatus(o, st, snap[o].filled)
        BY <2>2 DEF ManageMarked
      <3>2. Found(o) => orders[o].bid
        BY DEF Found, RowsStillTrue
      <3>3. st \in Unresolved \cup Terminal /\ (st \in Terminal => snap[o].st = st)
        BY DEF Unresolved, Terminal
      <3> HIDE DEF st
      <3> QED BY <1>2, <3>1, <3>2, <3>3, StatusUpdate
    <2>3. CASE CancelMark(o)
      <3>1. UpdateBrokerOrderStatus(o, "CANCEL_PENDING", snap[o].filled) /\ orders[o].bid
        BY <2>3 DEF CancelMark, Cancellable, Found, RowsStillTrue
      <3>2. "CANCEL_PENDING" \in Unresolved \cup Terminal /\ "CANCEL_PENDING" \notin Terminal
        BY DEF Unresolved, Terminal
      <3> QED BY <1>2, <3>1, <3>2, StatusUpdate
    <2> QED BY <2>1, <2>2, <2>3
  <1>9. supPc' = "send" => orders[o].bid
    BY <1>1 DEF CancelUnlisted, ManageMarked, CancelMark, Cancellable, Found, RowsStillTrue
  <1>10. CASE orders' = orders
    <2>1. UNCHANGED Core
      BY <1>1, <1>10 DEF Core, brokerVars
    <2>2. SnapshotTrue'
      BY <1>1, <1>2, <2>1 DEF SnapshotTrue, Core, Reading
    <2>3. RowsStillTrue'
      BY <1>1, <1>3, <1>9, <2>1 DEF RowsStillTrue, Core
    <2>4. LedgerTypeOK'
      BY <1>2, <1>7, <1>10 DEF LedgerTypeOK
    <2> QED BY <1>4, <1>7, <2>1, <2>2, <2>3, <2>4, CoreFrame, TraderFrame DEF TypeOK, TraderTypeOK
  <1>11. ASSUME NEW r, orders[o].bid, RowUpdate(o, r), r.filled <= snap[o].filled
         PROVE  IInv'
    <2>1. \A x \in Orders : orders[x].bid => orders'[x].bid
      BY <1>1, <1>2, <1>11, RowUpdateSupervisor DEF brokerVars
    <2>2. RowsStillTrue'
      BY <1>1, <1>2, <1>3, <1>11, <2>1 DEF RowsStillTrue, SupTypeOK
    <2> QED BY <1>1, <1>2, <1>4, <1>7, <1>11, <2>2, RowStepInv DEF brokerVars
  <1> QED BY <1>8, <1>10, <1>11

\* A cancel request whose answer is lost: the row becomes UNKNOWN.
LEMMA AmbiguousInv ==
    ASSUME IInv, UNCHANGED <<trader, upsets>>, CancelAmbiguous
    PROVE  IInv'
  <1> USE DEF IInv
  <1>1. /\ supPc = "send" /\ supPc' = "rowloop" /\ cur' = None
        /\ cancels' = cancels \cup {cur}
        /\ MarkOrderUnknown(cur)
        /\ pass' = [pass EXCEPT !.problem = TRUE]
        /\ UNCHANGED <<fillIds, booked, applied, positions, marker, broker, held,
                       sent, market, snap, acct, local, todo, mat>>
    BY DEF CancelAmbiguous
  <1>a. meta' \in Meta
    BY DEF CancelAmbiguous, Flag, TypeOK, LedgerTypeOK, Meta
  <1>2. /\ SupTypeOK /\ LedgerTypeOK /\ BrokerTypeOK /\ supPc \in Reading
        /\ cur \in Orders /\ orders[cur].bid /\ pass \in PassType
    BY <1>1 DEF TypeOK, Reading, RowsStillTrue, SupTypeOK, PassType
  <1>3. PICK r : RowUpdate(cur, r) /\ r.filled = orders[cur].filled
    BY <1>1, <1>2, UnknownUpdate
  <1>4. r.filled <= snap[cur].filled
    BY <1>2, <1>3 DEF SnapshotTrue
  <1>5. pass' \in PassType /\ pass'.stage = pass.stage
    BY <1>1, <1>2 DEF PassType
  <1>6. BrokerTypeOK'
    <2>1. cancels' \subseteq Orders
      BY <1>1, <1>2 DEF BrokerTypeOK
    <2> QED BY <1>1, <1>2, <2>1 DEF BrokerTypeOK
  <1>7. SupTypeOK' /\ (orders' \in [Orders -> OrderRow] => LedgerTypeOK')
    BY <1>1, <1>2, <1>5, <1>a DEF SupTypeOK, SupPcs, PassType, LedgerTypeOK
  <1>8. \A x \in Orders : orders[x].bid => orders'[x].bid
    BY <1>1, <1>2, <1>3, <1>4, RowUpdateSupervisor
  <1>9. RowsStillTrue'
    BY <1>1, <1>2, <1>5, <1>8 DEF RowsStillTrue, SupTypeOK
  <1> QED BY <1>1, <1>2, <1>3, <1>4, <1>6, <1>7, <1>9, RowStepInv

\* Every step of a supervisor pass preserves the invariant.
LEMMA SupervisorInv ==
    ASSUME IInv, SupervisorStep, UNCHANGED <<trader, upsets>>
    PROVE  IInv'
  BY SupOuterInv, SupReconcileInv, SupLoopInv, MaterializeInv, BookInv, StatusInv,
     CancelRowInv, AmbiguousInv DEF SupervisorStep

-----------------------------------------------------------------------------
(* The theorems                                                            *)

\* The empty ledger satisfies the invariant.
LEMMA InitInv == Init => IInv
  <1> SUFFICES ASSUME Init PROVE IInv
    OBVIOUS
  <1> USE DEF Init
  <1>1. LedgerTypeOK
    BY DEF LedgerInit, LedgerTypeOK, OrderRow, Statuses, PositionRow, FillId, Meta
  <1>2. BrokerTypeOK
    BY DEF BrokerInit, BrokerTypeOK, BrokerRow
  <1>3. TraderTypeOK
    BY DEF TraderInit, TraderIdle, TraderTypeOK, TraderPcs
  <1>4. SupTypeOK
    BY NothingHeldType DEF SupInit, SupTypeOK, SupPcs
  <1>5. TypeOK
    BY <1>1, <1>2, <1>3, <1>4, UpsetsAssumption DEF TypeOK
  <1>6. InHand /\ EntryAlone /\ ExitAlone
    BY DEF TraderInit, TraderIdle, InHand, EntryAlone, ExitAlone
  <1>7. RowsTellTruth /\ SubmittedAtMostOnce
    BY DEF LedgerInit, BrokerInit, RowsTellTruth, SubmittedAtMostOnce, Terminal
  <1>8. SettledEntryAlone /\ SellExclusion
    BY DEF BrokerInit, SettledEntryAlone, SellExclusion, Orders
  <1>9. SnapshotTrue
    BY DEF SupInit, SnapshotTrue, Reading
  <1>10. RowsStillTrue
    BY DEF SupInit, NoRows, NoRead, RowsStillTrue
  <1> QED BY <1>5, <1>6, <1>7, <1>8, <1>9, <1>10 DEF IInv

\* Every step of the system, a crash included, preserves the invariant.
LEMMA NextInv == IInv /\ [Next]_vars => IInv'
  <1> SUFFICES ASSUME IInv, [Next]_vars PROVE IInv'
    OBVIOUS
  <1>1. CASE Next
    BY <1>1, TraderInv, SupervisorInv, BrokerInv, UpsetInv DEF Next, Step
  <1>2. CASE UNCHANGED vars
    <2>1. UNCHANGED Core /\ UNCHANGED <<trader, supVars, upsets, fillIds, positions, marker, meta, brokerVars>>
      BY <1>2 DEF vars, Core, ledgerVars, brokerVars
    <2>2. TypeOK'
      BY <2>1 DEF IInv, TypeOK, LedgerTypeOK, BrokerTypeOK, TraderTypeOK, SupTypeOK, Core,
                  supVars, brokerVars
    <2> QED BY <2>1, <2>2, CoreFrame, TraderFrame, SupervisorFrame DEF IInv
  <1> QED BY <1>1, <1>2

\* Whatever the threads, the broker, the operator and crashes do, the ledger,
\* the broker and the two threads stay in the states IInv describes.
THEOREM Invariance == Spec => []IInv
  BY InitInv, NextInv, PTL DEF Spec

\* Every variable keeps its type.
THEOREM TypeCorrect == Spec => []TypeOK
  <1>1. IInv => TypeOK
    BY DEF IInv
  <1> QED BY <1>1, Invariance, PTL

\* claim_order_intent lets a client_order_id reach the broker at most once.
THEOREM NeverSubmittedTwice == Spec => []SubmittedAtMostOnce
  <1>1. IInv => SubmittedAtMostOnce
    BY DEF IInv
  <1> QED BY <1>1, Invariance, PTL

\* No order that works at the broker is forgotten or resolved by the ledger.
THEOREM NoLiveOrderForgotten == Spec => []LiveIsUnresolved
  <1>1. IInv => LiveIsUnresolved
    BY OpenIsActive DEF LiveIsUnresolved
  <1> QED BY <1>1, Invariance, PTL

\* Two entries never work at once, but next to one orphaned in SUBMITTING.
THEOREM OneEntryAtATime == Spec => []BuyExclusion
  <1>1. IInv => BuyExclusion
    <2> SUFFICES ASSUME IInv, NEW a \in Buys, NEW b \in Buys,
                        broker[a].st = "OPEN", broker[b].st = "OPEN",
                        Recorded(a), Recorded(b)
                 PROVE  a = b
      BY DEF BuyExclusion
    <2>1. CASE orders[a].status # "SUBMITTING" /\ orders[b].status # "SUBMITTING"
      BY <2>1 DEF IInv, SettledEntryAlone
    <2>2. CASE orders[a].status = "SUBMITTING" \/ orders[b].status = "SUBMITTING"
      BY <2>2 DEF IInv, EntryAlone, Recorded
    <2> QED BY <2>1, <2>2
  <1> QED BY <1>1, Invariance, PTL

\* Two exits of one symbol never work at once.
THEOREM OneExitAtATime == Spec => []SellExclusion
  <1>1. IInv => SellExclusion
    BY DEF IInv
  <1> QED BY <1>1, Invariance, PTL

\* In REST-only mode no share is booked that did not trade.
THEOREM NeverAheadOfBroker == Spec => []LedgerNeverAhead
  <1>1. IInv => LedgerNeverAhead
    <2> SUFFICES ASSUME IInv, NEW o \in Orders
                 PROVE  booked[o] <= broker[o].filled /\ orders[o].filled <= broker[o].filled
      BY DEF LedgerNeverAhead
    <2>1. /\ booked[o] \in Nat /\ orders[o].filled \in Nat /\ broker[o].filled \in Nat
          /\ booked[o] <= orders[o].filled /\ orders[o].filled <= broker[o].filled
      BY DEF IInv, TypeOK, LedgerTypeOK, BrokerTypeOK, OrderRow, BrokerRow, RowsTellTruth
    <2> QED BY <2>1
  <1> QED BY <1>1, Invariance, PTL

-----------------------------------------------------------------------------
(* A clean pass has applied every fill                                     *)

\* Nothing but the rows in X has fills that are not applied.
AppliedBut(X) == \A o \in Orders : Unapplied(o) => o \in X

\* While no problem was found, what is not applied is still to be handled by
\* the pass, and what materialize_order_fills read is still so.
AppliedSoFar ==
    /\ ~pass.problem =>
         /\ supPc = "reconcile" => AppliedBut(todo)
         /\ supPc \in {"status", "matread", "matwrite"} => AppliedBut(todo \cup {cur})
         /\ supPc \in {"cancel", "manage", "rowloop", "send", "store", "end"} => AppliedBut({})
    /\ supPc = "matwrite" => mat.from = applied[cur] /\ mat.upto = booked[cur]

\* Only the supervisor books and applies fills in this mode.
LEMMA OthersBookNothing ==
    ASSUME \/ TraderStep \/ BrokerStep \/ RequestCancelBuys \/ GateChanges \/ Crash
    PROVE  UNCHANGED <<booked, applied>>
  BY DEF TraderStep, CycleStart, CycleEnd, EnterStart, ExitExhausted, ExitStart, Decline, Claim,
         Submitting, GuardCheck, GuardRecheck, SubmitAccepted, SubmitRefused,
         RecordSubmission, RecordFailure, BrokerStep, BrokerFill, BrokerCancel,
         BrokerReject, SessionAdvances, RequestCancelBuys, GateChanges, Crash, ledgerVars

\* A pass keeps count of what it has applied.
LEMMA AppliedSoFarStep ==
    ASSUME IInv, AppliedSoFar, SupervisorStep
    PROVE  AppliedSoFar'
  <1>0. /\ pass \in PassType /\ booked \in [Orders -> Nat] /\ applied \in [Orders -> Nat]
        /\ \A o \in Orders : applied[o] <= booked[o]
    BY DEF IInv, TypeOK, SupTypeOK, PassType, LedgerTypeOK, RowsTellTruth
  <1>1. CASE SupFetchOrders \/ SupFetchFails \/ SupException \/ SupLeaseInvalid
             \/ SupFetchAccount \/ SupEnd
    <2>1. supPc' \in {"idle", "account", "rows"}
      BY <1>1 DEF SupFetchOrders, SupFetchFails, SupException, SupLeaseInvalid, SupReset,
                  SupFetchAccount, SupEnd, supVars
    <2> QED BY <2>1 DEF AppliedSoFar
  <1>2. CASE RecReadRows
    BY <1>2 DEF RecReadRows, AppliedSoFar, AppliedBut, Unapplied, ledgerVars
  <1>3. ASSUME NEW o \in Orders, RecSkip(o) PROVE AppliedSoFar'
    <2>1. supPc' = "reconcile" /\ pass'.problem
      BY <1>0, <1>3 DEF RecSkip, PassType
    <2> QED BY <2>1 DEF AppliedSoFar
  <1>4. ASSUME NEW o \in Orders, RecBook(o) PROVE AppliedSoFar'
    <2> DEFINE raised == RecDelta(o) > 0 /\ ApplyRaises(o, RecFillId(o), RecDelta(o))
    <2>1. /\ supPc = "reconcile" /\ applied' = applied /\ todo' = todo \ {o}
          /\ supPc' = IF raised THEN "reconcile" ELSE "status"
          /\ cur' = IF raised THEN None ELSE o
          /\ pass' = [pass EXCEPT !.problem = pass.problem \/ raised \/ local[o].status = "UNKNOWN",
                                  !.matched = pass.matched \cup {o}]
      BY <1>4 DEF RecBook
    <2>2. pass'.problem = (pass.problem \/ raised \/ local[o].status = "UNKNOWN")
      BY <1>0, <2>1, Zenon DEF PassType
    <2>3. \A x \in Orders \ {o} : booked'[x] = booked[x]
      BY <1>0, <1>4 DEF RecBook, ApplyBrokerFill, InsertFill
    <2> HIDE DEF raised
    <2>4. CASE pass'.problem
      BY <2>1, <2>4 DEF AppliedSoFar
    <2>5. CASE ~pass'.problem
      <3>1. ~pass.problem /\ supPc' = "status" /\ cur' = o
        BY <2>1, <2>2, <2>5
      <3>2. AppliedBut(todo)
        BY <2>1, <3>1 DEF AppliedSoFar
      <3>3. AppliedBut(todo \cup {cur})'
        BY <2>1, <2>3, <3>1, <3>2 DEF AppliedBut, Unapplied
      <3> QED BY <3>1, <3>3 DEF AppliedSoFar
    <2> QED BY <2>4, <2>5
  <1>5. CASE RecStatus
    BY <1>5 DEF RecStatus, AppliedSoFar, AppliedBut, Unapplied
  <1>6. CASE RecMaterializeRead
    <2>1. mat'.from = applied[cur] /\ mat'.upto = booked[cur]
      BY <1>6 DEF RecMaterializeRead, MaterializeRead
    <2> QED BY <1>6, <2>1 DEF RecMaterializeRead, AppliedSoFar, AppliedBut, Unapplied, ledgerVars
  <1>7. CASE RecMaterialize
    <2>1. /\ supPc = "matwrite" /\ supPc' = "reconcile" /\ todo' = todo /\ booked' = booked
          /\ MaterializeOrderFills(cur, mat) /\ cur \in Orders
          /\ mat.from = applied[cur] /\ mat.upto = booked[cur]
          /\ pass' = [pass EXCEPT !.problem = pass.problem \/ MaterializeRaises(cur, mat)]
      BY <1>7 DEF RecMaterialize, AppliedSoFar, IInv, RowsStillTrue
    <2>2. pass'.problem = (pass.problem \/ MaterializeRaises(cur, mat))
      BY <1>0, <2>1, Zenon DEF PassType
    <2>3. ASSUME ~pass'.problem
          PROVE  AppliedBut(todo)'
      <3>1. AppliedBut(todo \cup {cur})
        BY <2>1, <2>2, <2>3 DEF AppliedSoFar
      <3>2. applied'[cur] = booked[cur] /\ \A x \in Orders \ {cur} : applied'[x] = applied[x]
        BY <1>0, <2>1, <2>2, <2>3 DEF MaterializeOrderFills
      <3> QED BY <1>0, <2>1, <3>1, <3>2 DEF AppliedBut, Unapplied
    <2> QED BY <2>1, <2>3 DEF AppliedSoFar
  <1>8. CASE RecFinish
    <2>1. /\ supPc = "reconcile" /\ supPc' = "cancel" /\ todo = {}
          /\ UNCHANGED <<booked, applied>>
      BY <1>8 DEF RecFinish
    <2>2. ~pass'.problem => ~pass.problem
      BY <1>8 DEF RecFinish, NewPass
    <2> QED BY <2>1, <2>2 DEF AppliedSoFar, AppliedBut, Unapplied
  <1>9. CASE \/ CancelBuysStart \/ ManageStart
             \/ \E o \in Orders : \/ CancelUnlisted(o) \/ ManageMarked(o)
                                  \/ LeaveRow(o) \/ CancelMark(o)
             \/ CancelSent \/ CancelAmbiguous \/ StoreMarker \/ RowLoopEnd
    <2>1. /\ supPc \in {"cancel", "manage", "rowloop", "send", "store"}
          /\ supPc' \in {"manage", "rowloop", "send", "store", "end"}
          /\ UNCHANGED <<booked, applied>>
      BY <1>9 DEF CancelBuysStart, ManageStart, CancelUnlisted, ManageMarked, LeaveRow,
           CancelMark, CancelSent, CancelAmbiguous, StoreMarker, RowLoopEnd, Row, ledgerVars
    <2>2. pass'.problem \/ pass'.problem = pass.problem
      BY <1>0, <1>9 DEF CancelBuysStart, ManageStart, CancelUnlisted, ManageMarked, LeaveRow,
           CancelMark, CancelSent, CancelAmbiguous, StoreMarker, RowLoopEnd, PassType
    <2> QED BY <2>1, <2>2 DEF AppliedSoFar, AppliedBut, Unapplied
  <1> QED BY <1>1, <1>2, <1>3, <1>4, <1>5, <1>6, <1>7, <1>8, <1>9 DEF SupervisorStep

\* The status "reconciled" is published only when every stored fill is in the
\* positions: what the next trading cycle reads is complete.
THEOREM CleanPassIsComplete == Spec => []CleanPassAppliesFills
  <1>1. Init => AppliedSoFar
    BY DEF Init, SupInit, AppliedSoFar
  <1>2. IInv /\ AppliedSoFar /\ [Next]_vars => AppliedSoFar'
    <2> SUFFICES ASSUME IInv, AppliedSoFar, [Next]_vars PROVE AppliedSoFar'
      OBVIOUS
    <2>1. CASE SupervisorStep
      BY <2>1, AppliedSoFarStep
    <2>2. CASE UNCHANGED <<supVars, booked, applied>>
      BY <2>2 DEF supVars, AppliedSoFar, AppliedBut, Unapplied
    <2>3. CASE Crash
      BY <2>3 DEF Crash, SupReset, AppliedSoFar
    <2> QED BY <2>1, <2>2, <2>3, OthersBookNothing
            DEF Next, Step, vars, ledgerVars, RequestCancelBuys, GateChanges
  <1>3. AppliedSoFar => CleanPassAppliesFills
    BY DEF AppliedSoFar, AppliedBut, CleanPassAppliesFills
  <1> QED BY <1>1, <1>2, <1>3, Invariance, PTL DEF Spec

-----------------------------------------------------------------------------
(* Sums over finite sets                                                   *)

\* A set of natural numbers that is not empty has a least element.
LEMMA LeastElement ==
    ASSUME NEW S \in SUBSET Nat, S # {}
    PROVE  \E i \in S : \A j \in S : i <= j
<1> DEFINE R == {ss \in Nat \X Nat : ss[1] < ss[2]}
<1>1. R = OpToRel(<, Nat)
  BY DEF OpToRel
<1>2. IsWellFoundedOn(R, Nat)
  BY <1>1, NatLessThanWellFounded
<1>3. PICK i \in S : \A j \in S : ~(<<j, i>> \in R)
  <2> HIDE DEF R
  <2>1. QED BY <1>2, WFMin
<1>4. ASSUME NEW j \in S PROVE i <= j
  <2>1. i \in Nat /\ j \in Nat OBVIOUS
  <2>2. j < i => <<j, i>> \in R BY <2>1
  <2>3. ~(j < i)
    <3> HIDE DEF R
    <3>1. QED BY <1>3, <2>2
  <2>4. QED BY <2>1, <2>3
<1>5. QED BY <1>4

\* The element that a fold takes off a set next.
One(s) == CHOOSE x \in s : TRUE

\* g[s] is the sum of f over s, for every part s of S.
SumOf(f, g, s) == IF s = {} THEN 0 ELSE f[One(s)] + g[s \ {One(s)}]
IsSum(f, S, g) == g = [s \in SUBSET S |-> SumOf(f, g, s)]

\* SumFunctionOnSet is such a function's value, if there is one.
LEMMA SumIsChosen ==
    ASSUME NEW f, NEW S
    PROVE  SumFunctionOnSet(f, S) = (CHOOSE g : IsSum(f, S, g))[S]
BY DEF SumFunctionOnSet, FoldFunctionOnSet, MapThenFoldSet, IsSum, SumOf, One

\* What is left of a finite set is smaller by one.
LEMMA TakeOne ==
    ASSUME NEW S, IsFiniteSet(S), NEW s \in SUBSET S, s # {}
    PROVE  /\ One(s) \in s /\ One(s) \in S
           /\ s \ {One(s)} \in SUBSET S
           /\ Cardinality(s) \in Nat \ {0}
           /\ Cardinality(s \ {One(s)}) = Cardinality(s) - 1
<1>1. One(s) \in s
  BY DEF One
<1>2. IsFiniteSet(s)
  BY FS_Subset
<1>3. Cardinality(s) \in Nat /\ Cardinality(s) # 0
  BY <1>2, FS_CardinalityType, FS_EmptySet
<1>4. Cardinality(s \ {One(s)}) = Cardinality(s) - 1
  BY <1>1, <1>2, FS_RemoveElement
<1>5. QED BY <1>1, <1>3, <1>4

\* There is such a function for a finite set: by induction on the size of the
\* parts, as the absence of a least size at which there is none.
LEMMA SumExists ==
    ASSUME NEW S, IsFiniteSet(S), NEW f, \A x \in S : f[x] \in Nat
    PROVE  \E g \in [SUBSET S -> Nat] : IsSum(f, S, g)
<1> DEFINE Upto(g, n) == \A s \in SUBSET S : Cardinality(s) <= n => g[s] = SumOf(f, g, s)
           Bad == {n \in Nat : ~\E g \in [SUBSET S -> Nat] : Upto(g, n)}
<1>1. \A s \in SUBSET S : IsFiniteSet(s) /\ Cardinality(s) \in Nat
                          /\ (Cardinality(s) = 0 <=> s = {})
  BY FS_Subset, FS_CardinalityType, FS_EmptySet
<1>2. 0 \notin Bad
  <2> DEFINE g == [s \in SUBSET S |-> 0]
  <2>1. g \in [SUBSET S -> Nat]
    OBVIOUS
  <2>2. ASSUME NEW s \in SUBSET S, Cardinality(s) <= 0 PROVE g[s] = SumOf(f, g, s)
    <3>1. s = {} BY <1>1, <2>2
    <3>2. QED BY <3>1 DEF SumOf
  <2>3. QED BY <2>1, <2>2
<1>3. ASSUME NEW n \in Nat, n \notin Bad PROVE n + 1 \notin Bad
  <2>1. PICK g \in [SUBSET S -> Nat] : Upto(g, n)
    BY <1>3
  <2> DEFINE h == [s \in SUBSET S |-> IF Cardinality(s) <= n THEN g[s] ELSE SumOf(f, g, s)]
  <2>2. ASSUME NEW s \in SUBSET S PROVE SumOf(f, g, s) \in Nat
    <3>1. CASE s = {} BY <3>1 DEF SumOf
    <3>2. CASE s # {}
      <4>1. One(s) \in S /\ s \ {One(s)} \in SUBSET S BY <3>2, TakeOne
      <4>2. f[One(s)] \in Nat /\ g[s \ {One(s)}] \in Nat BY <4>1
      <4>3. QED BY <3>2, <4>2 DEF SumOf
    <3>3. QED BY <3>1, <3>2
  <2>3. h \in [SUBSET S -> Nat]
    BY <2>2
  <2>4. ASSUME NEW s \in SUBSET S, Cardinality(s) <= n + 1 PROVE h[s] = SumOf(f, h, s)
    <3>1. h[s] = SumOf(f, g, s)
      BY <2>1
    <3>2. CASE s = {} BY <3>1, <3>2 DEF SumOf
    <3>3. CASE s # {}
      <4>1. s \ {One(s)} \in SUBSET S /\ Cardinality(s) \in Nat
            /\ Cardinality(s \ {One(s)}) = Cardinality(s) - 1
        BY <3>3, TakeOne
      <4>2. Cardinality(s \ {One(s)}) <= n
        BY <2>4, <4>1
      <4>3. h[s \ {One(s)}] = g[s \ {One(s)}]
        BY <4>1, <4>2
      <4> HIDE DEF h
      <4>4. QED BY <3>1, <3>3, <4>3 DEF SumOf
    <3>4. QED BY <3>2, <3>3
  <2>5. \E k \in [SUBSET S -> Nat] : Upto(k, n + 1)
    <3> HIDE DEF h
    <3>1. QED BY <2>3, <2>4
  <2>6. QED BY <2>5
<1>4. Bad = {}
  <2>1. SUFFICES ASSUME Bad # {} PROVE FALSE
    OBVIOUS
  <2>2. Bad \in SUBSET Nat
    OBVIOUS
  <2> HIDE DEF Bad
  <2>3. PICK n \in Bad : \A j \in Bad : n <= j
    BY <2>1, <2>2, LeastElement
  <2>4. n \in Nat /\ n # 0
    BY <1>2, <2>2, <2>3
  <2>5. n - 1 \in Nat /\ n - 1 \notin Bad
    BY <2>3, <2>4
  <2>6. (n - 1) + 1 \notin Bad
    BY <1>3, <2>5
  <2>7. (n - 1) + 1 = n
    BY <2>4
  <2>8. QED BY <2>3, <2>6, <2>7
<1>5. Cardinality(S) \in Nat
  BY FS_CardinalityType
<1>6. PICK g \in [SUBSET S -> Nat] : Upto(g, Cardinality(S))
  BY <1>4, <1>5
<1>7. ASSUME NEW s \in SUBSET S PROVE g[s] = SumOf(f, g, s)
  <2>1. Cardinality(s) <= Cardinality(S)
    BY FS_Subset
  <2>2. QED BY <1>6, <2>1
<1>8. g = [s \in SUBSET S |-> SumOf(f, g, s)]
  BY <1>7
<1>9. QED BY <1>8 DEF IsSum

\* Two functions differ by d at o, and so do their sums over parts that have o.
TermsDiffer(S, f, f2, o, d) ==
    \A x \in S : f[x] \in Nat /\ f2[x] = f[x] + (IF x = o THEN d ELSE 0)

SumsDiffer(S, g, g2, o, d) ==
    \A s \in SUBSET S : g[s] \in Nat /\ g2[s] = g[s] + (IF o \in s THEN d ELSE 0)

\* Two sums of functions that differ by d at o, over every part of a finite set:
\* by the absence of a least part at which they do not differ by d either.
LEMMA DifferenceSums ==
    ASSUME NEW S, IsFiniteSet(S), NEW f, NEW f2, NEW g, NEW g2, NEW o, NEW d \in Int,
           TermsDiffer(S, f, f2, o, d), IsSum(f, S, g), IsSum(f2, S, g2)
    PROVE  SumsDiffer(S, g, g2, o, d)
<1> DEFINE Good(s) == g[s] \in Nat /\ g2[s] = g[s] + (IF o \in s THEN d ELSE 0)
           Bad == {Cardinality(s) : s \in {u \in SUBSET S : ~Good(u)}}
<1>1. \A s \in SUBSET S : Cardinality(s) \in Nat
  BY FS_Subset, FS_CardinalityType
<1>2. \A s \in SUBSET S : g[s] = SumOf(f, g, s) /\ g2[s] = SumOf(f2, g2, s)
  BY DEF IsSum
<1>3. SUFFICES ASSUME Bad # {} PROVE FALSE
  BY DEF SumsDiffer
<1>4. Bad \in SUBSET Nat
  BY <1>1
<1>5. PICK n \in Bad : \A j \in Bad : n <= j
  <2> HIDE DEF Bad
  <2>1. QED BY <1>3, <1>4, LeastElement
<1>6. PICK s \in SUBSET S : ~Good(s) /\ n = Cardinality(s)
  OBVIOUS
<1>7. \A u \in SUBSET S : ~Good(u) => n <= Cardinality(u)
  BY <1>5
<1> HIDE DEF Bad
<1>8. CASE s = {}
  <2>1. g[s] = 0 /\ g2[s] = 0
    BY <1>2, <1>8 DEF SumOf
  <2>2. QED BY <1>6, <1>8, <2>1
<1>9. CASE s # {}
  <2> DEFINE x == One(s)
             u == s \ {x}
  <2>1. x \in s /\ x \in S /\ u \in SUBSET S /\ Cardinality(s) \in Nat
        /\ Cardinality(u) = Cardinality(s) - 1
    BY <1>9, TakeOne
  <2>2. g[s] = f[x] + g[u] /\ g2[s] = f2[x] + g2[u]
    BY <1>2, <1>9 DEF SumOf
  <2>3. o \in s <=> o = x \/ o \in u
    BY <2>1
  <2>4. x \notin u
    OBVIOUS
  <2> HIDE DEF x, u
  <2>5. Good(u)
    BY <1>6, <1>7, <2>1
  <2>6. f[x] \in Nat /\ f2[x] = f[x] + (IF x = o THEN d ELSE 0)
    BY <2>1 DEF TermsDiffer
  <2>7. Good(s)
    <3>1. CASE o = x
      <4>1. o \notin u /\ o \in s BY <2>3, <2>4, <3>1
      <4>2. g2[u] = g[u] /\ g[u] \in Nat BY <2>5, <4>1
      <4>3. f2[x] = f[x] + d BY <2>6, <3>1
      <4>4. QED BY <2>2, <2>6, <4>1, <4>2, <4>3
    <3>2. CASE o # x
      <4>1. o \in s <=> o \in u BY <2>3, <3>2
      <4>2. f2[x] = f[x] BY <2>6, <3>2
      <4>3. QED BY <2>2, <2>5, <2>6, <4>1, <4>2
    <3>3. QED BY <3>1, <3>2
  <2>8. QED BY <1>6, <2>7
<1>10. QED BY <1>8, <1>9

\* A sum over a finite set changes by what one of its terms changes by, and not
\* at all with a term outside the set.
LEMMA SumUpdate ==
    ASSUME NEW S, IsFiniteSet(S), NEW f, NEW f2, NEW o, NEW d \in Int,
           TermsDiffer(S, f, f2, o, d), \A x \in S : f2[x] \in Nat
    PROVE  /\ SumFunctionOnSet(f, S) \in Nat
           /\ SumFunctionOnSet(f2, S) = SumFunctionOnSet(f, S) + (IF o \in S THEN d ELSE 0)
<1> DEFINE g == CHOOSE h : IsSum(f, S, h)
           g2 == CHOOSE h : IsSum(f2, S, h)
<1>1. IsSum(f, S, g)
  <2>1. \E h : IsSum(f, S, h) BY SumExists DEF TermsDiffer
  <2>2. QED BY <2>1
<1>2. IsSum(f2, S, g2)
  <2>1. \E h : IsSum(f2, S, h) BY SumExists
  <2>2. QED BY <2>1
<1>3. SumFunctionOnSet(f, S) = g[S] /\ SumFunctionOnSet(f2, S) = g2[S]
  BY SumIsChosen
<1> HIDE DEF g, g2
<1>4. SumsDiffer(S, g, g2, o, d)
  BY <1>1, <1>2, DifferenceSums
<1>5. QED BY <1>3, <1>4 DEF SumsDiffer

\* A sum of zeros is zero.
LEMMA SumOfZeros ==
    ASSUME NEW S, IsFiniteSet(S), NEW f, \A x \in S : f[x] = 0
    PROVE  SumFunctionOnSet(f, S) = 0
<1> DEFINE g == [s \in SUBSET S |-> 0]
           h == CHOOSE k : IsSum(f, S, k)
<1>1. IsSum(f, S, g)
  <2>1. ASSUME NEW s \in SUBSET S PROVE SumOf(f, g, s) = 0
    <3>1. CASE s = {} BY <3>1 DEF SumOf
    <3>2. CASE s # {}
      <4>1. One(s) \in S /\ s \ {One(s)} \in SUBSET S BY <3>2, TakeOne
      <4>2. f[One(s)] = 0 /\ g[s \ {One(s)}] = 0 BY <4>1
      <4> HIDE DEF g
      <4>3. QED BY <3>2, <4>2 DEF SumOf
    <3>3. QED BY <3>1, <3>2
  <2>2. QED BY <2>1 DEF IsSum
<1>2. IsSum(f, S, h)
  BY <1>1
<1>3. g[S] = 0
  OBVIOUS
<1>4. SumFunctionOnSet(f, S) = h[S]
  BY SumIsChosen
<1> HIDE DEF g, h
<1>5. TermsDiffer(S, f, f, S, 0)
  BY DEF TermsDiffer
<1>6. SumsDiffer(S, g, h, S, 0)
  BY <1>1, <1>2, <1>5, DifferenceSums
<1>7. QED BY <1>3, <1>4, <1>6 DEF SumsDiffer

-----------------------------------------------------------------------------
(* Positions are what the applied fills add up to                          *)

\* At most one position of a symbol is open.
OneOpen ==
    \A a, b \in Buys :
        SymbolOf[a] = SymbolOf[b] /\ positions[a].st = "OPEN" /\ positions[b].st = "OPEN" => a = b

\* What materialize_order_fills has read of positions and applications is so.
FreshRead(o, rd) ==
    /\ rd.from = applied[o]
    /\ rd.pos = OpenPosition(Sym(o))
    /\ rd.qty = OpenQty(Sym(o))

\* What the bought and the sold shares of a symbol change by.
LEMMA SharesMove ==
    ASSUME LedgerTypeOK, NEW o \in Orders, NEW q \in Nat, NEW sym \in Symbols,
           applied' = [applied EXCEPT ![o] = applied[o] + q]
    PROVE  /\ BoughtShares(sym) \in Nat /\ SoldShares(sym) \in Nat
           /\ BoughtShares(sym)' =
                 BoughtShares(sym) + (IF o \in Buys /\ Sym(o) = sym THEN q ELSE 0)
           /\ SoldShares(sym)' =
                 SoldShares(sym) + (IF o \in Sells /\ Sym(o) = sym THEN q ELSE 0)
  <1> DEFINE B == {b \in Buys : Sym(b) = sym}
             S == {s \in Sells : Sym(s) = sym}
             a2 == [applied EXCEPT ![o] = applied[o] + q]
  <1>1. IsFiniteSet(B) /\ IsFiniteSet(S)
    <2>1. B \in SUBSET Orders /\ S \in SUBSET Orders BY DEF Orders
    <2> HIDE DEF B, S
    <2> QED BY <2>1, OrdersAssumption, FS_Subset
  <1>2. \A x \in Orders : applied[x] \in Nat /\ a2[x] \in Nat
                          /\ a2[x] = applied[x] + (IF x = o THEN q ELSE 0)
    BY DEF LedgerTypeOK
  <1>3. B \subseteq Orders /\ S \subseteq Orders
    BY DEF Orders
  <1>4. BoughtShares(sym) = SumFunctionOnSet(applied, B)
        /\ BoughtShares(sym)' = SumFunctionOnSet(a2, B)
    BY DEF BoughtShares, Sym
  <1>5. SoldShares(sym) = SumFunctionOnSet(applied, S)
        /\ SoldShares(sym)' = SumFunctionOnSet(a2, S)
    BY DEF SoldShares, Sym
  <1>6. (o \in B <=> o \in Buys /\ Sym(o) = sym) /\ (o \in S <=> o \in Sells /\ Sym(o) = sym)
    OBVIOUS
  <1> HIDE DEF B, S, a2
  <1>7. /\ TermsDiffer(B, applied, a2, o, q) /\ \A x \in B : a2[x] \in Nat
        /\ TermsDiffer(S, applied, a2, o, q) /\ \A x \in S : a2[x] \in Nat
    BY <1>2, <1>3 DEF TermsDiffer
  <1>8. q \in Int
    OBVIOUS
  <1>9. /\ SumFunctionOnSet(applied, B) \in Nat
        /\ SumFunctionOnSet(a2, B) = SumFunctionOnSet(applied, B) + (IF o \in B THEN q ELSE 0)
    BY <1>1, <1>7, <1>8, SumUpdate
  <1>10. /\ SumFunctionOnSet(applied, S) \in Nat
         /\ SumFunctionOnSet(a2, S) = SumFunctionOnSet(applied, S) + (IF o \in S THEN q ELSE 0)
    BY <1>1, <1>7, <1>8, SumUpdate
  <1> QED BY <1>4, <1>5, <1>6, <1>9, <1>10

\* The shares of a symbol without a change of applications.
LEMMA SharesKept ==
    ASSUME applied' = applied, NEW sym
    PROVE  BoughtShares(sym)' = BoughtShares(sym) /\ SoldShares(sym)' = SoldShares(sym)
  BY DEF BoughtShares, SoldShares, Sym

\* The one open position of a symbol, before and after a step.
LEMMA TheOpenPosition ==
    ASSUME NEW sym, NEW b \in Buys
    PROVE  /\ OpenPositions(sym) = {b} => OpenQty(sym) = positions[b].qty
           /\ OpenPositions(sym)' = {b} => OpenQty(sym)' = positions'[b].qty
           /\ OpenPositions(sym) = {} => OpenQty(sym) = 0
           /\ OpenPositions(sym)' = {} => OpenQty(sym)' = 0
  <1>1. (CHOOSE x \in {b} : TRUE) = b
    OBVIOUS
  <1>2. b # None
    BY OrdersAssumption DEF Orders
  <1> QED BY <1>1, <1>2, Zenon DEF OpenQty, OpenPosition

\* A step that rewrites the position of one BUY leaves the other symbols alone.
LEMMA OtherSymbols ==
    ASSUME LedgerTypeOK, NEW b \in Buys, NEW r, positions' = [positions EXCEPT ![b] = r],
           NEW sym, sym # SymbolOf[b]
    PROVE  OpenQty(sym)' = OpenQty(sym)
  <1>1. OpenPositions(sym)' = OpenPositions(sym)
    BY DEF OpenPositions, LedgerTypeOK
  <1>2. OpenPosition(sym)' = OpenPosition(sym)
    BY <1>1 DEF OpenPosition
  <1>3. OpenPosition(sym) = None \/ OpenPosition(sym) \in OpenPositions(sym)
    BY DEF OpenPosition
  <1>4. OpenPosition(sym) # None =>
          positions'[OpenPosition(sym)] = positions[OpenPosition(sym)]
    BY <1>3 DEF OpenPositions, LedgerTypeOK
  <1> QED BY <1>2, <1>4 DEF OpenQty

\* materialize_order_fills on a fresh read keeps positions and applications in
\* step.
LEMMA MaterializeMatches ==
    ASSUME LedgerTypeOK, OneOpen, PositionsMatchFills, NEW o \in Orders,
           NEW rd \in MaterializeReads, rd.from <= rd.upto, FreshRead(o, rd),
           MaterializeOrderFills(o, rd)
    PROVE  OneOpen' /\ PositionsMatchFills'
  <1>1. CASE UNCHANGED <<positions, applied>>
    <2>1. OneOpen' BY <1>1 DEF OneOpen
    <2>2. ASSUME NEW sym \in Symbols PROVE OpenQty(sym)' = OpenQty(sym)
      BY <1>1 DEF OpenQty, OpenPosition, OpenPositions
    <2> QED BY <1>1, <2>1, <2>2, SharesKept DEF PositionsMatchFills
  <1>2. CASE ~(rd.upto = rd.from \/ MaterializeRaises(o, rd))
    <2> DEFINE q == rd.upto - rd.from
               pos == rd.pos
    <2>1. /\ positions' = PositionsAfter(o, rd) /\ applied' = [applied EXCEPT ![o] = rd.upto]
          /\ rd.from \in Nat /\ rd.upto \in Nat /\ rd.qty \in Nat
          /\ rd.pos \in Buys \cup {None} /\ rd.upto > rd.from
      BY <1>2 DEF MaterializeOrderFills, MaterializeReads
    <2>2. q \in Nat /\ q > 0 /\ rd.upto = applied[o] + q /\ applied[o] \in Nat
      BY <2>1 DEF FreshRead, LedgerTypeOK
    <2>3. applied' = [applied EXCEPT ![o] = applied[o] + q]
      BY <2>1, <2>2
    <2>4. Sym(o) \in Symbols
      BY SymType
    <2>5. ASSUME NEW sym \in Symbols
          PROVE  /\ BoughtShares(sym) \in Nat /\ SoldShares(sym) \in Nat
                 /\ BoughtShares(sym)' =
                       BoughtShares(sym) + (IF o \in Buys /\ Sym(o) = sym THEN q ELSE 0)
                 /\ SoldShares(sym)' =
                       SoldShares(sym) + (IF o \in Sells /\ Sym(o) = sym THEN q ELSE 0)
      BY <2>2, <2>3, SharesMove
    <2>6. \E b, r :
             /\ b \in Buys
             /\ SymbolOf[b] = Sym(o)
             /\ positions' = [positions EXCEPT ![b] = r]
             /\ r.st = (IF r.qty = 0 THEN "CLOSED" ELSE "OPEN")
             /\ r.qty = OpenQty(Sym(o)) + (IF o \in Buys THEN q ELSE 0 - q)
             /\ \A c \in Buys \ {b} : SymbolOf[c] = Sym(o) => positions[c].st # "OPEN"
      <3>1. CASE rd.pos = None
        <4>1. o \in Buys /\ OpenPositions(Sym(o)) = {} /\ OpenQty(Sym(o)) = 0
          <5>1. o \in Buys BY <1>2, <2>1, <3>1 DEF MaterializeRaises, Orders
          <5>2. OpenPosition(Sym(o)) = None BY <3>1 DEF FreshRead
          <5>3. OpenQty(Sym(o)) = 0 BY <5>2 DEF OpenQty
          <5>4. OpenPositions(Sym(o)) = {}
            <6>1. SUFFICES ASSUME OpenPositions(Sym(o)) # {} PROVE FALSE
              OBVIOUS
            <6>2. None \in OpenPositions(Sym(o)) BY <5>2, <6>1 DEF OpenPosition
            <6> QED BY <6>2, OrdersAssumption DEF OpenPositions, Orders
          <5> QED BY <5>1, <5>3, <5>4
        <4>2. positions' = [positions EXCEPT ![o] = [st |-> "OPEN", qty |-> q]]
          BY <2>1, <3>1, <4>1 DEF PositionsAfter
        <4> DEFINE r == [st |-> "OPEN", qty |-> q]
        <4>3. r.st = "OPEN" /\ r.qty = q /\ positions' = [positions EXCEPT ![o] = r]
          BY <4>2
        <4> HIDE DEF r
        <4>4. SymbolOf[o] = Sym(o) BY <4>1 DEF Sym
        <4>5. \A c \in Buys \ {o} : SymbolOf[c] = Sym(o) => positions[c].st # "OPEN"
          BY <4>1 DEF OpenPositions
        <4>6. /\ r.st = (IF r.qty = 0 THEN "CLOSED" ELSE "OPEN")
              /\ r.qty = OpenQty(Sym(o)) + (IF o \in Buys THEN q ELSE 0 - q)
          <5> HIDE DEF q
          <5> QED BY <2>2, <4>1, <4>3
        <4> HIDE DEF q
        <4> QED BY <4>1, <4>3, <4>4, <4>5, <4>6
      <3>2. CASE rd.pos # None
        <4>1. pos \in Buys /\ SymbolOf[pos] = Sym(o) /\ positions[pos].st = "OPEN"
              /\ OpenQty(Sym(o)) = positions[pos].qty
          <5>1. pos = OpenPosition(Sym(o)) BY DEF FreshRead
          <5>2. pos \in OpenPositions(Sym(o)) BY <3>2, <5>1 DEF OpenPosition
          <5> QED BY <3>2, <5>1, <5>2 DEF OpenPositions, OpenQty
        <4> DEFINE total == IF o \in Buys THEN rd.qty + q ELSE rd.qty - q
                   r == [st |-> IF total = 0 THEN "CLOSED" ELSE "OPEN", qty |-> total]
        <4>2. positions' = [positions EXCEPT ![pos] = r]
          BY <2>1, <3>2, <4>1 DEF PositionsAfter
        <4>3. rd.qty = OpenQty(Sym(o)) BY DEF FreshRead
        <4>4. total = OpenQty(Sym(o)) + (IF o \in Buys THEN q ELSE 0 - q)
          BY <2>1, <2>2, <4>3
        <4>5. r.qty = total /\ r.st = (IF total = 0 THEN "CLOSED" ELSE "OPEN") OBVIOUS
        <4>6. \A c \in Buys \ {pos} : SymbolOf[c] = Sym(o) => positions[c].st # "OPEN"
          BY <4>1 DEF OneOpen
        <4> HIDE DEF r, total, q, pos
        <4> QED BY <4>1, <4>2, <4>4, <4>5, <4>6
      <3> QED BY <3>1, <3>2
    <2> HIDE DEF q, pos
    <2>7. PICK b, r :
             /\ b \in Buys
             /\ SymbolOf[b] = Sym(o)
             /\ positions' = [positions EXCEPT ![b] = r]
             /\ r.st = (IF r.qty = 0 THEN "CLOSED" ELSE "OPEN")
             /\ r.qty = OpenQty(Sym(o)) + (IF o \in Buys THEN q ELSE 0 - q)
             /\ \A c \in Buys \ {b} : SymbolOf[c] = Sym(o) => positions[c].st # "OPEN"
      BY <2>6
    <2>8. positions'[b] = r /\ \A c \in Buys \ {b} : positions'[c] = positions[c]
      BY <2>7 DEF LedgerTypeOK
    <2>9. OneOpen'
      BY <2>7, <2>8 DEF OneOpen
    <2>10. OpenQty(Sym(o))' = r.qty
      <3>1. CASE r.qty = 0
        <4>1. OpenPositions(Sym(o))' = {}
          BY <2>7, <2>8, <3>1 DEF OpenPositions, Sym
        <4> QED BY <2>7, <3>1, <4>1, TheOpenPosition
      <3>2. CASE r.qty # 0
        <4>1. OpenPositions(Sym(o))' = {b}
          BY <2>7, <2>8, <3>2 DEF OpenPositions, Sym
        <4> QED BY <2>7, <2>8, <4>1, TheOpenPosition
      <3> QED BY <3>1, <3>2
    <2>11. ASSUME NEW sym \in Symbols
           PROVE  OpenQty(sym)' = BoughtShares(sym)' - SoldShares(sym)'
      <3>1. OpenQty(sym) = BoughtShares(sym) - SoldShares(sym)
        BY DEF PositionsMatchFills
      <3>2. CASE sym = Sym(o)
        <4>1. OpenQty(sym)' = OpenQty(sym) + (IF o \in Buys THEN q ELSE 0 - q)
          BY <2>7, <2>10, <3>2 DEF Sym
        <4>2. o \in Buys <=> ~(o \in Sells)
          BY OrdersAssumption DEF Orders
        <4> QED BY <2>2, <2>5, <3>1, <3>2, <4>1, <4>2
      <3>3. CASE sym # Sym(o)
        <4>1. OpenQty(sym)' = OpenQty(sym)
          BY <2>7, <3>3, OtherSymbols
        <4> QED BY <2>5, <3>1, <3>3, <4>1
      <3> QED BY <3>2, <3>3
    <2> QED BY <2>9, <2>11 DEF PositionsMatchFills
  <1> QED BY <1>1, <1>2 DEF MaterializeOrderFills

\* Positions follow the fills: the supervisor alone applies them in this mode, so
\* that what it has read is so when it writes.
FillsOK ==
    /\ OneOpen
    /\ PositionsMatchFills
    /\ supPc = "matwrite" => FreshRead(cur, mat)

\* The steps that neither apply a fill nor read for it.
LEMMA FillsKept ==
    ASSUME FillsOK, UNCHANGED <<positions, applied>>,
           supPc' = "matwrite" => UNCHANGED <<supPc, cur, mat>>
    PROVE  FillsOK'
  <1>1. \A sym : OpenPosition(sym)' = OpenPosition(sym) /\ OpenQty(sym)' = OpenQty(sym)
    BY DEF OpenQty, OpenPosition, OpenPositions
  <1>2. OneOpen' BY DEF FillsOK, OneOpen
  <1>3. PositionsMatchFills' BY <1>1, SharesKept DEF FillsOK, PositionsMatchFills
  <1>4. supPc' = "matwrite" => FreshRead(cur, mat)'
    BY <1>1 DEF FillsOK, FreshRead, Sym
  <1> QED BY <1>2, <1>3, <1>4 DEF FillsOK

\* Every supervisor step but the two of materialize_order_fills.
LEMMA SupervisorAppliesNothing ==
    ASSUME SupervisorStep, ~RecMaterialize, ~RecMaterializeRead
    PROVE  UNCHANGED <<positions, applied>> /\ supPc' # "matwrite"
  <1>1. CASE \/ SupFetchOrders \/ SupFetchFails \/ SupException \/ SupLeaseInvalid
             \/ SupFetchAccount \/ SupEnd \/ RecReadRows \/ RecStatus \/ RecFinish
    BY <1>1 DEF SupFetchOrders, SupFetchFails, SupException, SupLeaseInvalid, SupReset,
                SupFetchAccount, SupEnd, RecReadRows, RecStatus, RecFinish, supVars, ledgerVars
  <1>2. ASSUME NEW o \in Orders, RecSkip(o) \/ RecBook(o)
        PROVE  UNCHANGED <<positions, applied>> /\ supPc' # "matwrite"
    BY <1>2 DEF RecSkip, RecBook, ledgerVars
  <1>3. CASE \/ CancelBuysStart \/ ManageStart
             \/ \E o \in Orders : \/ CancelUnlisted(o) \/ ManageMarked(o)
                                  \/ LeaveRow(o) \/ CancelMark(o)
             \/ CancelSent \/ CancelAmbiguous \/ StoreMarker \/ RowLoopEnd
    BY <1>3 DEF CancelBuysStart, ManageStart, CancelUnlisted, ManageMarked, LeaveRow,
         CancelMark, CancelSent, CancelAmbiguous, StoreMarker, RowLoopEnd, Row, ledgerVars
  <1> QED BY <1>1, <1>2, <1>3 DEF SupervisorStep

\* Only the supervisor touches the positions in this mode.
LEMMA OthersApplyNothing ==
    ASSUME \/ TraderStep \/ BrokerStep \/ RequestCancelBuys \/ GateChanges \/ Crash
    PROVE  UNCHANGED <<positions, applied>>
  BY DEF TraderStep, CycleStart, CycleEnd, EnterStart, ExitExhausted, ExitStart, Decline, Claim,
         Submitting, GuardCheck, GuardRecheck, SubmitAccepted, SubmitRefused,
         RecordSubmission, RecordFailure, BrokerStep, BrokerFill, BrokerCancel,
         BrokerReject, SessionAdvances, RequestCancelBuys, GateChanges, Crash, ledgerVars

\* Nothing is applied at the start.
LEMMA FillsStart == Init => FillsOK
  <1> SUFFICES ASSUME Init PROVE FillsOK
    OBVIOUS
  <1>1. positions = [b \in Buys |-> [st |-> "NONE", qty |-> 0]] /\ applied = [o \in Orders |-> 0]
        /\ supPc = "idle"
    BY DEF Init, LedgerInit, SupInit
  <1>2. OneOpen
    BY <1>1 DEF OneOpen
  <1>3. ASSUME NEW sym \in Symbols PROVE OpenQty(sym) = BoughtShares(sym) - SoldShares(sym)
    <2> DEFINE B == {b \in Buys : Sym(b) = sym}
               S == {s \in Sells : Sym(s) = sym}
    <2>1. OpenPositions(sym) = {} BY <1>1 DEF OpenPositions
    <2>2. OpenQty(sym) = 0 BY <2>1 DEF OpenQty, OpenPosition
    <2>3. B \in SUBSET Orders /\ S \in SUBSET Orders BY DEF Orders
    <2>4. BoughtShares(sym) = SumFunctionOnSet(applied, B)
          /\ SoldShares(sym) = SumFunctionOnSet(applied, S)
      BY DEF BoughtShares, SoldShares
    <2> HIDE DEF B, S
    <2>5. IsFiniteSet(B) /\ IsFiniteSet(S) BY <2>3, OrdersAssumption, FS_Subset
    <2>6. \A x \in Orders : applied[x] = 0 BY <1>1
    <2>7. SumFunctionOnSet(applied, B) = 0 /\ SumFunctionOnSet(applied, S) = 0
      BY <2>3, <2>5, <2>6, SumOfZeros
    <2> QED BY <2>2, <2>4, <2>7
  <1> QED BY <1>1, <1>2, <1>3 DEF FillsOK, PositionsMatchFills

\* Every step keeps the positions equal to what was applied.
LEMMA FillsNext == IInv /\ FillsOK /\ [Next]_vars => FillsOK'
  <1> SUFFICES ASSUME IInv, FillsOK, [Next]_vars PROVE FillsOK'
    OBVIOUS
  <1>1. CASE RecMaterialize
    <2>1. supPc = "matwrite" /\ supPc' = "reconcile" /\ MaterializeOrderFills(cur, mat)
      BY <1>1 DEF RecMaterialize
    <2>2. LedgerTypeOK /\ cur \in Orders /\ mat \in MaterializeReads /\ mat.from <= mat.upto
      BY <2>1 DEF IInv, TypeOK, SupTypeOK, RowsStillTrue
    <2>3. OneOpen' /\ PositionsMatchFills'
      BY <2>1, <2>2, MaterializeMatches DEF FillsOK
    <2> QED BY <2>1, <2>3 DEF FillsOK
  <1>2. CASE RecMaterializeRead
    <2>1. UNCHANGED <<positions, applied, cur>> /\ mat' = MaterializeRead(cur)
      BY <1>2 DEF RecMaterializeRead, ledgerVars
    <2>2. \A sym : OpenPosition(sym)' = OpenPosition(sym) /\ OpenQty(sym)' = OpenQty(sym)
      BY <2>1 DEF OpenQty, OpenPosition, OpenPositions
    <2>3. FreshRead(cur, mat)'
      BY <2>1, <2>2 DEF FreshRead, MaterializeRead, Sym
    <2>4. OneOpen' BY <2>1 DEF FillsOK, OneOpen
    <2>5. PositionsMatchFills' BY <2>1, <2>2, SharesKept DEF FillsOK, PositionsMatchFills
    <2> QED BY <2>3, <2>4, <2>5 DEF FillsOK
  <1>3. CASE SupervisorStep /\ ~RecMaterialize /\ ~RecMaterializeRead
    BY <1>3, SupervisorAppliesNothing, FillsKept
  <1>4. CASE UNCHANGED <<supVars, positions, applied>>
    BY <1>4, FillsKept DEF supVars
  <1>5. CASE Crash
    <2>1. UNCHANGED <<positions, applied>> BY <1>5, OthersApplyNothing
    <2>2. supPc' # "matwrite" BY <1>5 DEF Crash, SupReset
    <2> QED BY <2>1, <2>2, FillsKept
  <1> QED BY <1>1, <1>2, <1>3, <1>4, <1>5, OthersApplyNothing
          DEF Next, Step, vars, ledgerVars, RequestCancelBuys, GateChanges

\* The open position of every symbol is the sum of its applied entry fills less
\* the sum of its applied exit fills: no crash and no interleaving applies a
\* stored fill twice or half.
THEOREM PositionsFollowFills == Spec => []PositionsMatchFills
  <1>1. FillsOK => PositionsMatchFills
    BY DEF FillsOK
  <1> QED BY <1>1, FillsStart, FillsNext, Invariance, PTL DEF Spec

-----------------------------------------------------------------------------
(***************************************************************************)
(* OrderFlow implements OrderLife: under an invariant that extends IInv,   *)
(* every step changes at most one order, in one of five ways, each of      *)
(* which is a step of OrderLife or a stuttering step.                      *)
(***************************************************************************)

(* The inductive invariant                                                 *)

\* An order without a row was not asked for, no order trades more than it is
\* for, and a resolved row has all that the broker traded.
FinalRows ==
    \A o \in Orders :
        /\ orders[o].status = "NONE" => orders[o].req = 0
        /\ broker[o].filled <= orders[o].req
        /\ orders[o].status \in Terminal => orders[o].filled = broker[o].filled

\* An order list says of an ended order what there is to say, and no row is
\* resolved that the list of the current pass still shows working.
SnapFinal ==
    \A o \in Orders :
        /\ snap[o].st = "OPEN" => snap[o].filled < orders[o].req
        /\ snap[o].st \in Terminal => snap[o].filled = broker[o].filled
        /\ orders[o].status \in Terminal => snap[o].st \in Terminal

FinalSnap == supPc \in Reading => SnapFinal

\* The rows the operator wants cancelled were numbered when selected, and a
\* cancel request is only sent for an order the list shows working.
FinalLoop ==
    /\ (supPc \in {"rowloop", "send", "store"} /\ pass.stage = "operator") =>
          \A o \in todo : local[o].bid
    /\ supPc \in {"send", "store"} => snap[cur].st = "OPEN"

LifeInv == IInv /\ FinalRows /\ FinalSnap /\ FinalLoop

-----------------------------------------------------------------------------
(* What a step does to the orders                                          *)

\* The ledger row of one order is rewritten.
RowStep(o, r) ==
    /\ orders' = [orders EXCEPT ![o] = r]
    /\ broker' = broker
    /\ r \in OrderRow
    /\ r.status # "NONE"
    /\ r.req = orders[o].req
    /\ orders[o].filled <= r.filled
    /\ r.filled <= broker[o].filled
    /\ orders[o].status \in Terminal => r.status \in Terminal
    /\ r.status \in Terminal =>
          /\ broker[o].st \in Terminal
          /\ r.filled = broker[o].filled
          /\ supPc \in Reading /\ snap[o].st \in Terminal

\* A row is claimed for a new order.
ClaimStep(o, q) ==
    /\ orders[o].status = "NONE"
    /\ q \in Nat
    /\ ClaimOrderIntent(o, q)
    /\ broker' = broker

\* The broker takes an order, ...
PlaceStep(o) ==
    /\ broker[o].st = "NONE" /\ broker[o].filled = 0 /\ orders[o].req > 0
    /\ broker' = [broker EXCEPT ![o] = [st |-> "OPEN", filled |-> 0]]
    /\ orders' = orders

\* ... fills a share of it, or ends it.
TradeStep(o) ==
    /\ broker[o].st = "OPEN"
    /\ LET n == broker[o].filled + 1
       IN  broker' = [broker EXCEPT ![o] =
                        [st |-> IF n = orders[o].req THEN "FILLED" ELSE "OPEN",
                         filled |-> n]]
    /\ orders' = orders

EndStep(o, st) ==
    /\ broker[o].st = "OPEN" /\ st \in Terminal
    /\ broker' = [broker EXCEPT ![o].st = st]
    /\ orders' = orders

Shape ==
    \/ UNCHANGED <<orders, broker>>
    \/ \E o \in Orders :
          \/ \E r : RowStep(o, r)
          \/ \E q : ClaimStep(o, q)
          \/ PlaceStep(o)
          \/ TradeStep(o)
          \/ \E st : EndStep(o, st)

-----------------------------------------------------------------------------
(* Each of them is a step of OrderLife                                     *)

\* Where an order is, by the broker's record of it.
LEMMA Places ==
    /\ \A r : r.st = "NONE" => PlaceOf(r) = "unsent"
    /\ \A r : r.st = "OPEN" => PlaceOf(r) = "working"
    /\ \A r : r.st \in Terminal => PlaceOf(r) = "ended"
  BY DEF PlaceOf, Terminal

\* A step that leaves rows and broker alone stutters.
LEMMA LifeStutter ==
    ASSUME UNCHANGED <<orders, broker>>
    PROVE  UNCHANGED Life!lifeVars
  BY DEF Life!lifeVars

\* The types the mapping rests on.
LEMMA LifeTypes ==
    ASSUME IInv
    PROVE  /\ orders \in [Orders -> OrderRow] /\ broker \in [Orders -> BrokerRow]
           /\ \A o \in Orders :
                 /\ orders[o].req \in Nat /\ orders[o].filled \in Nat
                 /\ orders[o].status \in Statuses
                 /\ broker[o].filled \in Nat
                 /\ broker[o].st \in {"NONE", "OPEN"} \cup Terminal
  <1>1. orders \in [Orders -> OrderRow] /\ broker \in [Orders -> BrokerRow]
    BY DEF IInv, TypeOK, LedgerTypeOK, BrokerTypeOK
  <1> QED BY <1>1 DEF OrderRow, BrokerRow, Terminal

\* A claim asks for the order, or for nothing when the quantity is zero.
LEMMA LifeAsk ==
    ASSUME LifeInv, NEW o \in Orders, NEW q, ClaimStep(o, q)
    PROVE  Life!Ask(o) \/ UNCHANGED Life!lifeVars
  <1>1. /\ orders \in [Orders -> OrderRow] /\ orders[o].req = 0 /\ orders[o].filled = 0
        /\ q \in Nat /\ broker' = broker
    BY LifeTypes DEF LifeInv, IInv, FinalRows, RowsTellTruth, ClaimStep
  <1>2. /\ orders'[o] = [status |-> "INTENT", bid |-> FALSE, req |-> q, filled |-> 0]
        /\ \A x \in Orders \ {o} : orders'[x] = orders[x]
    BY <1>1 DEF ClaimStep, ClaimOrderIntent
  <1>3. orders'[o].req = q /\ orders'[o].filled = 0 /\ orders'[o].status = "INTENT"
    BY <1>2
  <1>4. orders[o].status = "NONE"
    BY DEF ClaimStep
  <1>5. [x \in Orders |-> orders[x].filled]' = [x \in Orders |-> orders[x].filled]
    BY <1>1, <1>2, <1>3
  <1>6. {x \in Orders : orders[x].status \in Terminal}' = {x \in Orders : orders[x].status \in Terminal}
    BY <1>2, <1>3, <1>4 DEF Terminal
  <1>7. [x \in Orders |-> orders[x].req]' = [[x \in Orders |-> orders[x].req] EXCEPT ![o] = q]
    BY <1>2, <1>3
  <1>8. CASE q = 0
    <2>1. [x \in Orders |-> orders[x].req]' = [x \in Orders |-> orders[x].req]
      BY <1>1, <1>2, <1>3, <1>8
    <2> QED BY <1>1, <1>5, <1>6, <2>1 DEF Life!lifeVars
  <1>9. CASE q # 0
    BY <1>1, <1>3, <1>5, <1>6, <1>7, <1>9 DEF Life!Ask
  <1> QED BY <1>8, <1>9

\* The broker takes an order that was asked for and never placed.
LEMMA LifePlace ==
    ASSUME LifeInv, NEW o \in Orders, PlaceStep(o)
    PROVE  Life!Place(o)
  <1>1. /\ broker \in [Orders -> BrokerRow] /\ orders' = orders
        /\ broker[o].st = "NONE" /\ broker[o].filled = 0 /\ orders[o].req > 0
        /\ broker' = [broker EXCEPT ![o] = [st |-> "OPEN", filled |-> 0]]
    BY LifeTypes DEF LifeInv, PlaceStep
  <1>2. /\ broker'[o].st = "OPEN" /\ broker'[o].filled = 0
        /\ \A x \in Orders \ {o} : broker'[x] = broker[x]
    BY <1>1
  <1>3. PlaceOf(broker[o]) = "unsent" /\ PlaceOf(broker'[o]) = "working"
    BY <1>1, <1>2, Places
  <1>4. [x \in Orders |-> broker[x].filled]' = [x \in Orders |-> broker[x].filled]
    BY <1>1, <1>2
  <1>5. [x \in Orders |-> PlaceOf(broker[x])]' =
          [[x \in Orders |-> PlaceOf(broker[x])] EXCEPT ![o] = "working"]
    BY <1>2, <1>3
  <1> QED BY <1>1, <1>3, <1>4, <1>5 DEF Life!Place

\* A share trades, and the last one ends the order.
LEMMA LifeTrade ==
    ASSUME LifeInv, NEW o \in Orders, TradeStep(o)
    PROVE  Life!Trade(o)
  <1> DEFINE n == broker[o].filled + 1
  <1>1. /\ broker \in [Orders -> BrokerRow] /\ orders' = orders
        /\ broker[o].st = "OPEN" /\ broker[o].filled < orders[o].req
        /\ broker[o].filled \in Nat /\ orders[o].req \in Nat
        /\ broker' = [broker EXCEPT ![o] =
                        [st |-> IF n = orders[o].req THEN "FILLED" ELSE "OPEN",
                         filled |-> n]]
    BY LifeTypes DEF LifeInv, IInv, RowsTellTruth, TradeStep
  <1>2. /\ broker'[o].st = IF n = orders[o].req THEN "FILLED" ELSE "OPEN"
        /\ broker'[o].filled = n
        /\ \A x \in Orders \ {o} : broker'[x] = broker[x]
    BY <1>1
  <1>3. /\ PlaceOf(broker[o]) = "working"
        /\ PlaceOf(broker'[o]) = IF n = orders[o].req THEN "ended" ELSE "working"
    BY <1>1, <1>2, Places DEF Terminal
  <1>4. [x \in Orders |-> broker[x].filled]' =
          [[x \in Orders |-> broker[x].filled] EXCEPT ![o] = n]
    BY <1>2
  <1>5. [x \in Orders |-> PlaceOf(broker[x])]' =
          [[x \in Orders |-> PlaceOf(broker[x])] EXCEPT ![o] =
             IF n = orders[o].req THEN "ended" ELSE "working"]
    BY <1>2, <1>3
  <1> HIDE DEF n
  <1> QED BY <1>1, <1>3, <1>4, <1>5 DEF Life!Trade, n

\* A cancellation, a rejection or the end of the session ends it.
LEMMA LifeEnd ==
    ASSUME LifeInv, NEW o \in Orders, NEW st, EndStep(o, st)
    PROVE  Life!End(o)
  <1>1. /\ broker \in [Orders -> BrokerRow] /\ orders' = orders
        /\ broker[o].st = "OPEN" /\ st \in Terminal
        /\ broker' = [broker EXCEPT ![o].st = st]
    BY LifeTypes DEF LifeInv, EndStep
  <1>2. /\ broker'[o].st = st /\ broker'[o].filled = broker[o].filled
        /\ \A x \in Orders \ {o} : broker'[x] = broker[x]
    BY <1>1 DEF BrokerRow
  <1>3. PlaceOf(broker[o]) = "working" /\ PlaceOf(broker'[o]) = "ended"
    BY <1>1, <1>2, Places
  <1>4. [x \in Orders |-> broker[x].filled]' = [x \in Orders |-> broker[x].filled]
    BY <1>1, <1>2
  <1>5. [x \in Orders |-> PlaceOf(broker[x])]' =
          [[x \in Orders |-> PlaceOf(broker[x])] EXCEPT ![o] = "ended"]
    BY <1>2, <1>3
  <1> QED BY <1>1, <1>3, <1>4, <1>5 DEF Life!End

\* A row that is rewritten catches up with the exchange; if it becomes terminal
\* it closes an order that has ended.
LEMMA LifeRow ==
    ASSUME LifeInv, NEW o \in Orders, NEW r, RowStep(o, r)
    PROVE  Life!Learn(o) \/ Life!Close(o)
  <1> DEFINE Known == [x \in Orders |-> orders[x].filled]
             Closed == {x \in Orders : orders[x].status \in Terminal}
  <1>1. /\ orders \in [Orders -> OrderRow] /\ broker' = broker
        /\ orders[o].filled \in Nat /\ broker[o].filled \in Nat /\ r.filled \in Nat
        /\ orders[o].filled <= r.filled /\ r.filled <= broker[o].filled
        /\ r.req = orders[o].req
        /\ orders[o].status \in Terminal => r.status \in Terminal
        /\ r.status \in Terminal => broker[o].st \in Terminal
    BY LifeTypes DEF LifeInv, RowStep, OrderRow
  <1>2. orders'[o] = r /\ \A x \in Orders \ {o} : orders'[x] = orders[x]
    BY <1>1 DEF RowStep
  <1>3. [x \in Orders |-> orders[x].req]' = [x \in Orders |-> orders[x].req]
    BY <1>1, <1>2
  <1>4. Known' = [Known EXCEPT ![o] = r.filled]
    BY <1>2
  <1>5. r.filled \in Known[o]..broker[o].filled
    BY <1>1
  <1>6. Life!CatchUp(o)
    BY <1>4, <1>5 DEF Life!CatchUp
  <1>7. CASE r.status \in Terminal /\ orders[o].status \notin Terminal
    <2>1. Closed' = Closed \cup {o} /\ o \notin Closed
      BY <1>2, <1>7
    <2>2. PlaceOf(broker[o]) = "ended"
      BY <1>1, <1>7, Places
    <2>3. Life!Close(o)
      BY <1>1, <1>3, <1>6, <2>1, <2>2 DEF Life!Close
    <2> QED BY <2>3
  <1>8. CASE ~(r.status \in Terminal /\ orders[o].status \notin Terminal)
    <2>1. Closed' = Closed
      BY <1>1, <1>2, <1>8
    <2>2. Life!Learn(o)
      BY <1>1, <1>3, <1>6, <2>1 DEF Life!Learn
    <2> QED BY <2>2
  <1> QED BY <1>7, <1>8

\* A step of one of the five kinds is a step of OrderLife, or stutters.
LEMMA ShapeIsLife ==
    ASSUME LifeInv, Shape
    PROVE  [Life!LifeNext]_(Life!lifeVars)
  <1>1. CASE UNCHANGED <<orders, broker>>
    BY <1>1, LifeStutter
  <1>2. ASSUME NEW o \in Orders,
               \/ \E r : RowStep(o, r)
               \/ \E q : ClaimStep(o, q)
               \/ PlaceStep(o)
               \/ TradeStep(o)
               \/ \E st : EndStep(o, st)
        PROVE  [Life!LifeNext]_(Life!lifeVars)
    <2>1. \/ Life!Ask(o) \/ Life!Place(o) \/ Life!Trade(o) \/ Life!End(o)
          \/ Life!Learn(o) \/ Life!Close(o) \/ UNCHANGED Life!lifeVars
      BY <1>2, LifeRow, LifeAsk, LifePlace, LifeTrade, LifeEnd
    <2> QED BY <2>1 DEF Life!LifeNext
  <1> QED BY <1>1, <1>2 DEF Shape

-----------------------------------------------------------------------------
(* ... and keeps what the invariant says of rows and order list            *)

\* What a step of one of the five kinds leaves of every other order.
LEMMA ShapeKeeps ==
    ASSUME LifeInv, Shape
    PROVE  /\ FinalRows'
           /\ (supPc \in Reading /\ snap' = snap) => SnapFinal'
  <1> USE DEF LifeInv
  <1>1. /\ orders \in [Orders -> OrderRow] /\ broker \in [Orders -> BrokerRow]
        /\ \A o \in Orders : /\ orders[o].req \in Nat /\ orders[o].filled \in Nat
                             /\ broker[o].filled \in Nat
    BY LifeTypes
  <1>2. CASE UNCHANGED <<orders, broker>>
    BY <1>2 DEF FinalRows, FinalSnap, SnapFinal
  <1>3. ASSUME NEW o \in Orders, NEW r, RowStep(o, r)
        PROVE  FinalRows' /\ ((supPc \in Reading /\ snap' = snap) => SnapFinal')
    <2>1. /\ orders'[o] = r /\ \A x \in Orders \ {o} : orders'[x] = orders[x]
          /\ broker' = broker
      BY <1>1, <1>3 DEF RowStep
    <2>2. /\ r.status # "NONE" /\ r.req = orders[o].req
          /\ r.status \in Terminal => r.filled = broker[o].filled /\ snap[o].st \in Terminal
      BY <1>3 DEF RowStep
    <2>3. FinalRows'
      BY <2>1, <2>2 DEF FinalRows
    <2>4. ASSUME supPc \in Reading, snap' = snap PROVE SnapFinal'
      BY <2>1, <2>2, <2>4 DEF FinalSnap, SnapFinal
    <2> QED BY <2>3, <2>4
  <1>4. ASSUME NEW o \in Orders, NEW q, ClaimStep(o, q)
        PROVE  FinalRows' /\ ((supPc \in Reading /\ snap' = snap) => SnapFinal')
    <2>1. /\ orders[o].status = "NONE" /\ q \in Nat /\ broker' = broker
          /\ orders'[o].status = "INTENT" /\ orders'[o].req = q
          /\ \A x \in Orders \ {o} : orders'[x] = orders[x]
      BY <1>1, <1>4 DEF ClaimStep, ClaimOrderIntent
    <2>2. broker[o].st = "NONE" /\ broker[o].filled = 0
      BY <2>1 DEF IInv, RowsTellTruth
    <2>3. FinalRows'
      BY <2>1, <2>2 DEF FinalRows, Terminal
    <2>4. ASSUME supPc \in Reading, snap' = snap PROVE SnapFinal'
      <3>1. snap[o].st = "NONE"
        BY <2>2, <2>4 DEF IInv, SnapshotTrue
      <3> QED BY <2>1, <2>4, <3>1 DEF FinalSnap, SnapFinal, Terminal
    <2> QED BY <2>3, <2>4
  <1>5. ASSUME NEW o \in Orders, PlaceStep(o) \/ TradeStep(o) \/ \E st : EndStep(o, st)
        PROVE  FinalRows' /\ ((supPc \in Reading /\ snap' = snap) => SnapFinal')
    <2>1. /\ orders' = orders /\ broker[o].st \in {"NONE", "OPEN"}
          /\ \A x \in Orders \ {o} : broker'[x] = broker[x]
      BY <1>1, <1>5 DEF PlaceStep, TradeStep, EndStep
    <2>2. orders[o].status \notin Terminal
      <3>1. /\ orders[o].status \in Terminal => broker[o].st # "OPEN"
            /\ orders[o].status \in Terminal => orders[o].bid
            /\ orders[o].bid => broker[o].st # "NONE"
        BY DEF IInv, RowsTellTruth, Terminal
      <3> QED BY <2>1, <3>1
    <2>3. broker'[o].filled <= orders[o].req
      <3>1. CASE PlaceStep(o)
        BY <1>1, <3>1 DEF PlaceStep
      <3>2. CASE TradeStep(o)
        <4>1. broker[o].filled < orders[o].req /\ broker'[o].filled = broker[o].filled + 1
          BY <1>1, <3>2 DEF TradeStep, IInv, RowsTellTruth
        <4> QED BY <1>1, <4>1
      <3>3. ASSUME NEW st, EndStep(o, st) PROVE broker'[o].filled <= orders[o].req
        BY <1>1, <3>3 DEF EndStep, FinalRows, BrokerRow
      <3> QED BY <1>5, <3>1, <3>2, <3>3
    <2>4. FinalRows'
      BY <2>1, <2>2, <2>3 DEF FinalRows
    <2>5. ASSUME supPc \in Reading, snap' = snap PROVE SnapFinal'
      <3>1. snap[o].st \notin Terminal
        BY <2>1, <2>5 DEF IInv, SnapshotTrue, Terminal
      <3> QED BY <2>1, <2>2, <2>5, <3>1 DEF FinalSnap, SnapFinal
    <2> QED BY <2>4, <2>5
  <1> QED BY <1>2, <1>3, <1>4, <1>5 DEF Shape

-----------------------------------------------------------------------------
(* Every step is of one of the five kinds                                  *)

\* The trading thread's writes of the row in its hands.
LEMMA TraderShape ==
    ASSUME LifeInv, TraderStep
    PROVE  Shape
  <1> USE DEF LifeInv, IInv
  <1> DEFINE o == trader.o
  <1>1. /\ orders \in [Orders -> OrderRow] /\ broker \in [Orders -> BrokerRow]
        /\ \A x \in Orders : /\ orders[x].req \in Nat /\ orders[x].filled \in Nat
                             /\ broker[x].filled \in Nat
        /\ trader.q \in Nat
    BY LifeTypes DEF TypeOK, TraderTypeOK
  <1>2. CASE \/ CycleStart \/ CycleEnd \/ Decline
             \/ \E b \in Buys : EnterStart(b) \/ ExitExhausted(b)
             \/ \E s \in Sells : ExitStart(s)
             \/ GuardCheck \/ GuardRecheck \/ SubmitRefused
    BY <1>2 DEF CycleStart, CycleEnd, Decline, EnterStart, ExitExhausted, ExitStart,
                GuardCheck, GuardRecheck, SubmitRefused, ledgerVars, brokerVars, Shape
  <1>3. CASE Claim
    <2>1. o \in Orders /\ broker' = broker
      BY <1>3 DEF Claim, At, InHand, brokerVars
    <2>2. CASE Claimable(o)
      <3>1. ClaimStep(o, trader.q)
        BY <1>1, <1>3, <2>1, <2>2 DEF Claim, ClaimStep, Claimable
      <3> QED BY <2>1, <3>1 DEF Shape
    <2>3. CASE ~Claimable(o)
      BY <1>3, <2>1, <2>3 DEF Claim, Shape
    <2> QED BY <2>2, <2>3
  <1>4. CASE Submitting \/ RecordSubmission \/ RecordFailure
    <2>1. /\ o \in Orders /\ broker' = broker
          /\ orders[o].status \in {"INTENT", "SUBMITTING"}
      BY <1>4 DEF Submitting, RecordSubmission, RecordFailure, At, InHand, brokerVars
    <2>2. orders[o].filled <= broker[o].filled
      BY <2>1 DEF RowsTellTruth
    <2>3. PICK st \in {"SUBMITTING", "ACKNOWLEDGED", "UNKNOWN"}, b \in BOOLEAN :
             orders' = [orders EXCEPT ![o] = [orders[o] EXCEPT !.status = st, !.bid = b]]
      <3>1. orders[o].bid \in BOOLEAN /\ orders[o] = [orders[o] EXCEPT !.bid = orders[o].bid]
        BY <1>1, <2>1 DEF OrderRow
      <3>2. CASE RecordSubmission
        BY <1>1, <2>1, <3>2 DEF RecordSubmission, RecordOrderSubmission
      <3>3. CASE Submitting
        <4>1. orders' = [orders EXCEPT ![o] = [orders[o] EXCEPT !.status = "SUBMITTING", !.bid = orders[o].bid]]
          BY <1>1, <2>1, <3>3 DEF Submitting, MarkOrderSubmitting, OrderRow
        <4> QED BY <3>1, <4>1
      <3>4. CASE RecordFailure
        <4>1. orders' = [orders EXCEPT ![o] = [orders[o] EXCEPT !.status = "UNKNOWN", !.bid = orders[o].bid]]
          BY <1>1, <2>1, <3>4 DEF RecordFailure, MarkOrderUnknown, OrderRow
        <4> QED BY <3>1, <4>1
      <3> QED BY <1>4, <3>2, <3>3, <3>4
    <2> DEFINE r == [orders[o] EXCEPT !.status = st, !.bid = b]
    <2>4. /\ r \in OrderRow /\ r.status = st /\ r.req = orders[o].req
          /\ r.filled = orders[o].filled
      BY <1>1, <2>1, <2>3 DEF OrderRow, Statuses, Active, Unresolved
    <2>5. orders' = [orders EXCEPT ![o] = r]
      BY <2>3
    <2>6. /\ r.status # "NONE" /\ r.status \notin Terminal /\ orders[o].status \notin Terminal
          /\ orders[o].filled \in Nat /\ orders[o].filled <= r.filled
      BY <1>1, <2>1, <2>3, <2>4 DEF Terminal
    <2> HIDE DEF r, o
    <2>7. RowStep(o, r)
      BY <2>1, <2>2, <2>4, <2>5, <2>6 DEF RowStep
    <2> QED BY <2>1, <2>7 DEF Shape
  <1>5. CASE SubmitAccepted
    <2>1. /\ o \in Orders /\ sent[o] = 0 /\ orders[o].req = trader.q /\ trader.q > 0
          /\ orders' = orders
          /\ broker' = [broker EXCEPT ![o] = [st |-> "OPEN", filled |-> 0]]
      BY <1>5 DEF SubmitAccepted, At, InHand, ledgerVars
    <2>2. broker[o].st = "NONE" /\ broker[o].filled = 0
      BY <2>1 DEF RowsTellTruth
    <2>3. PlaceStep(o)
      BY <2>1, <2>2 DEF PlaceStep
    <2> QED BY <2>1, <2>3 DEF Shape
  <1> QED BY <1>2, <1>3, <1>4, <1>5 DEF TraderStep

\* The broker's own steps.
LEMMA BrokerShape ==
    ASSUME BrokerStep
    PROVE  Shape
  <1>1. ASSUME NEW o \in Orders, BrokerFill(o)
        PROVE  Shape
    BY <1>1 DEF BrokerFill, ledgerVars, Shape, TradeStep
  <1>2. ASSUME NEW o \in Orders, BrokerCancel(o) \/ BrokerReject(o)
        PROVE  Shape
    <2>1. EndStep(o, "CANCELLED") \/ EndStep(o, "REJECTED")
      BY <1>2 DEF BrokerCancel, BrokerReject, ledgerVars, EndStep, Terminal
    <2> QED BY <2>1 DEF Shape
  <1>3. CASE SessionAdvances
    BY <1>3 DEF SessionAdvances, ledgerVars, Shape
  <1> QED BY <1>1, <1>2, <1>3 DEF BrokerStep

\* Writing what the order list says: the quantity always fits, and the row is
\* final if the list is.
LEMMA StatusShape ==
    ASSUME LifeInv, supPc \in Reading, NEW o \in Orders, orders[o].bid,
           NEW st \in Unresolved \cup Terminal,
           st \in Terminal => snap[o].st = st,
           orders[o].status \in Terminal => st \in Terminal,
           UpdateBrokerOrderStatus(o, st, snap[o].filled),
           broker' = broker
    PROVE  Shape
  <1> USE DEF LifeInv
  <1> DEFINE r == [orders[o] EXCEPT !.status = st, !.bid = TRUE, !.filled = snap[o].filled]
  <1>1. /\ orders \in [Orders -> OrderRow] /\ snap \in [Orders -> BrokerRow]
        /\ orders[o].req \in Nat /\ orders[o].filled \in Nat /\ broker[o].filled \in Nat
        /\ snap[o].filled \in Nat
    BY LifeTypes DEF IInv, TypeOK, SupTypeOK, BrokerRow
  <1>2. /\ snap[o].filled <= broker[o].filled /\ orders[o].filled <= snap[o].filled
        /\ broker[o].filled <= orders[o].req
        /\ snap[o].st \in Terminal =>
             broker[o].st = snap[o].st /\ snap[o].filled = broker[o].filled
    BY DEF IInv, SnapshotTrue, FinalRows, FinalSnap, SnapFinal
  <1>3. orders' = [orders EXCEPT ![o] = r]
    <2>1. snap[o].filled <= orders[o].req
      BY <1>1, <1>2
    <2> QED BY <1>1, <2>1 DEF UpdateBrokerOrderStatus, OrderRow
  <1>4. /\ r \in OrderRow /\ r.status = st /\ r.req = orders[o].req
        /\ r.filled = snap[o].filled
    BY <1>1 DEF OrderRow, Statuses, Active
  <1>5. st # "NONE"
    BY DEF Unresolved, Terminal
  <1> HIDE DEF r
  <1>6. RowStep(o, r)
    BY <1>2, <1>3, <1>4, <1>5 DEF RowStep
  <1> QED BY <1>6 DEF Shape

\* Giving up on a row that is not resolved.
LEMMA UnknownShape ==
    ASSUME LifeInv, NEW o \in Orders, orders[o].status \notin Terminal,
           MarkOrderUnknown(o), broker' = broker
    PROVE  Shape
  <1> USE DEF LifeInv
  <1> DEFINE r == [orders[o] EXCEPT !.status = "UNKNOWN"]
  <1>1. /\ orders \in [Orders -> OrderRow] /\ orders[o].filled \in Nat
        /\ orders[o].filled <= broker[o].filled
    BY LifeTypes DEF IInv, RowsTellTruth
  <1>2. orders' = [orders EXCEPT ![o] = r]
    BY <1>1 DEF MarkOrderUnknown
  <1>3. /\ r \in OrderRow /\ r.status = "UNKNOWN" /\ r.req = orders[o].req
        /\ r.filled = orders[o].filled
    BY <1>1 DEF OrderRow, Statuses, Active, Unresolved
  <1> HIDE DEF r
  <1>4. RowStep(o, r)
    BY <1>1, <1>2, <1>3 DEF RowStep, Terminal
  <1> QED BY <1>4 DEF Shape

\* A fill is booked only for an order that is not resolved yet, and resolves it
\* only when the order list has the whole quantity.
LEMMA BookShape ==
    ASSUME LifeInv, NEW o \in Orders, RecBook(o)
    PROVE  Shape
  <1> USE DEF LifeInv, IInv
  <1>1. /\ supPc \in Reading /\ o \in todo /\ broker' = broker
        /\ local[o].filled = orders[o].filled /\ orders[o].bid /\ snap[o].st # "NONE"
    BY DEF RecBook, RecUnsettled, Found, Listed, Reading, RowsStillTrue, brokerVars
  <1>2. /\ orders \in [Orders -> OrderRow] /\ snap \in [Orders -> BrokerRow]
        /\ orders[o].req \in Nat /\ orders[o].filled \in Nat /\ broker[o].filled \in Nat
        /\ snap[o].filled \in Nat /\ snap[o].st \in {"OPEN"} \cup Terminal
    BY <1>1, LifeTypes DEF TypeOK, SupTypeOK, BrokerRow, Terminal
  <1>3. \/ UNCHANGED <<orders, fillIds, booked>>
        \/ RecDelta(o) > 0 /\ InsertFill(o, RecFillId(o), RecDelta(o))
    BY DEF RecBook, ApplyBrokerFill
  <1>4. CASE RecDelta(o) > 0 /\ InsertFill(o, RecFillId(o), RecDelta(o))
    <2> DEFINE total == snap[o].filled
               st == IF total = orders[o].req THEN "FILLED" ELSE "PARTIALLY_FILLED"
               r == [orders[o] EXCEPT !.filled = total, !.bid = TRUE, !.status = st]
    <2>1. orders[o].filled + RecDelta(o) = total /\ orders[o].filled < total
      BY <1>1, <1>2, <1>4 DEF RecDelta
    <2>2. orders' = [orders EXCEPT ![o] = r]
      BY <1>2, <1>4, <2>1 DEF InsertFill
    <2>3. r \in OrderRow /\ r.status = st /\ r.req = orders[o].req /\ r.filled = total
      BY <1>2 DEF OrderRow, Statuses, Active, Unresolved, Terminal
    <2>4. /\ total <= broker[o].filled /\ broker[o].filled <= orders[o].req
          /\ snap[o].st = "OPEN" => total < orders[o].req
          /\ snap[o].st \in Terminal => broker[o].st = snap[o].st /\ total = broker[o].filled
          /\ orders[o].status \in Terminal => orders[o].filled = broker[o].filled
      BY <1>1 DEF SnapshotTrue, FinalRows, FinalSnap, SnapFinal
    <2>5. orders[o].status \notin Terminal
      BY <1>2, <2>1, <2>4
    <2>6. st = "FILLED" => snap[o].st \in Terminal
      BY <1>2, <2>4
    <2>7. st # "NONE" /\ (st \in Terminal => st = "FILLED")
      BY DEF Terminal
    <2> HIDE DEF r, st
    <2>8. RowStep(o, r)
      BY <1>1, <1>2, <2>1, <2>2, <2>3, <2>4, <2>5, <2>6, <2>7 DEF RowStep
    <2> QED BY <2>8 DEF Shape
  <1> QED BY <1>1, <1>3, <1>4 DEF Shape

\* The other steps of a pass that write a row.
LEMMA RowShape ==
    ASSUME LifeInv, NEW o \in Orders,
           \/ RecStatus
           \/ CancelUnlisted(o) \/ ManageMarked(o) \/ CancelMark(o)
           \/ CancelAmbiguous
    PROVE  Shape
  <1> USE DEF LifeInv, IInv
  <1>1. /\ supPc \in Reading /\ broker' = broker
        /\ \A x \in Orders : snap[x].st \in {"NONE", "OPEN"} \cup Terminal
        /\ \A x \in Orders : orders[x].status \in Terminal => snap[x].st \in Terminal
    <2>1. supPc \in Reading /\ broker' = broker
      BY DEF RecStatus, CancelUnlisted, ManageMarked, CancelMark, CancelAmbiguous, Row,
             Reading, brokerVars
    <2>2. \A x \in Orders : snap[x].st \in {"NONE", "OPEN"} \cup Terminal
      BY DEF TypeOK, SupTypeOK, BrokerRow, Terminal
    <2> QED BY <2>1, <2>2 DEF FinalSnap, SnapFinal
  <1>2. \A x \in Orders : local[x].bid => orders[x].bid
    BY DEF RowsStillTrue
  <1>3. CASE RecStatus
    <2> DEFINE st == RecStatusFor(cur)
    <2>1. /\ cur \in Orders /\ orders[cur].bid /\ snap[cur].st # "NONE"
          /\ UpdateBrokerOrderStatus(cur, st, snap[cur].filled)
      BY <1>2, <1>3 DEF RecStatus, RowsStillTrue
    <2>2. snap[cur].st \in {"OPEN"} \cup Terminal
      BY <1>1, <2>1
    <2>3. /\ st \in Unresolved \cup Terminal
          /\ st \in Terminal => snap[cur].st = st
          /\ snap[cur].st \in Terminal => st \in Terminal
      BY <2>2 DEF RecStatusFor, LocalStatusForBroker, Unresolved, Terminal
    <2> HIDE DEF st
    <2> QED BY <1>1, <2>1, <2>3, StatusShape
  <1>4. CASE CancelUnlisted(o)
    <2>1. local[o].bid /\ snap[o].st = "NONE" /\ MarkOrderUnknown(o)
      BY <1>4 DEF CancelUnlisted, Row, Found, Listed, FinalLoop
    <2>2. orders[o].status \notin Terminal
      BY <1>1, <2>1 DEF Terminal
    <2> QED BY <1>1, <2>1, <2>2, UnknownShape
  <1>5. CASE ManageMarked(o)
    <2> DEFINE st == IF snap[o].st \in Terminal THEN snap[o].st ELSE "CANCEL_PENDING"
    <2>1. \/ orders' = orders
          \/ Found(o) /\ UpdateBrokerOrderStatus(o, st, snap[o].filled)
      BY <1>5 DEF ManageMarked
    <2>2. Found(o) => orders[o].bid
      BY <1>2 DEF Found
    <2>3. /\ st \in Unresolved \cup Terminal
          /\ st \in Terminal => snap[o].st = st
          /\ snap[o].st \in Terminal => st \in Terminal
      BY DEF Unresolved, Terminal
    <2> HIDE DEF st
    <2>4. CASE orders' = orders
      BY <1>1, <2>4 DEF Shape
    <2> QED BY <1>1, <2>1, <2>2, <2>3, <2>4, StatusShape
  <1>6. CASE CancelMark(o)
    <2>1. /\ UpdateBrokerOrderStatus(o, "CANCEL_PENDING", snap[o].filled)
          /\ snap[o].st = "OPEN" /\ orders[o].bid
      BY <1>2, <1>6 DEF CancelMark, Cancellable, Found
    <2>2. "CANCEL_PENDING" \in Unresolved \cup Terminal /\ "CANCEL_PENDING" \notin Terminal
      BY DEF Unresolved, Terminal
    <2>3. orders[o].status \notin Terminal
      BY <1>1, <2>1 DEF Terminal
    <2> QED BY <1>1, <2>1, <2>2, <2>3, StatusShape
  <1>7. CASE CancelAmbiguous
    <2>1. cur \in Orders /\ snap[cur].st = "OPEN" /\ MarkOrderUnknown(cur)
      BY <1>7 DEF CancelAmbiguous, RowsStillTrue, FinalLoop
    <2>2. orders[cur].status \notin Terminal
      BY <1>1, <2>1 DEF Terminal
    <2> QED BY <1>1, <2>1, <2>2, UnknownShape
  <1> QED BY <1>3, <1>4, <1>5, <1>6, <1>7

\* Every step of a supervisor pass.
LEMMA SupervisorShape ==
    ASSUME LifeInv, SupervisorStep
    PROVE  Shape
  <1>1. CASE \/ SupFetchOrders \/ SupFetchFails \/ SupException \/ SupLeaseInvalid
             \/ SupFetchAccount \/ RecReadRows
             \/ \E o \in Orders : RecSkip(o) \/ LeaveRow(o)
             \/ RecMaterializeRead \/ RecMaterialize \/ RecFinish
             \/ CancelBuysStart \/ ManageStart \/ CancelSent \/ StoreMarker
             \/ RowLoopEnd \/ SupEnd
    <2>1. UNCHANGED <<orders, broker>>
      BY <1>1 DEF SupFetchOrders, SupFetchFails, SupException, SupLeaseInvalid,
           SupFetchAccount, RecReadRows, RecSkip, LeaveRow, RecMaterializeRead,
           RecMaterialize, RecFinish, CancelBuysStart, ManageStart, CancelSent,
           StoreMarker, RowLoopEnd, SupEnd, ledgerVars, brokerVars
    <2> QED BY <2>1 DEF Shape
  <1>2. CASE \E o \in Orders : RecBook(o)
    BY <1>2, BookShape
  <1>3. CASE \E o \in Orders : CancelUnlisted(o) \/ ManageMarked(o) \/ CancelMark(o)
    BY <1>3, RowShape
  <1>4. CASE RecStatus \/ CancelAmbiguous
    <2>1. cur \in Orders
      BY <1>4 DEF LifeInv, IInv, RowsStillTrue, RecStatus, CancelAmbiguous
    <2> QED BY <1>4, <2>1, RowShape
  <1> QED BY <1>1, <1>2, <1>3, <1>4 DEF SupervisorStep

-----------------------------------------------------------------------------
(* The supervisor's own part of the invariant                              *)

\* A new order list is true when it is read, and used as long as it is kept.
LEMMA SupervisorSnap ==
    ASSUME LifeInv, SupervisorStep
    PROVE  FinalSnap'
  <1> USE DEF LifeInv
  <1>1. CASE SupFetchOrders
    <2>1. snap' = broker /\ orders' = orders /\ broker' = broker
      BY <1>1 DEF SupFetchOrders, ledgerVars, brokerVars
    <2>2. \A o \in Orders :
             /\ broker[o].st = "OPEN" => broker[o].filled < orders[o].req
             /\ orders[o].status \in Terminal =>
                  broker[o].st # "OPEN" /\ broker[o].st # "NONE"
      BY DEF IInv, RowsTellTruth, Terminal
    <2>3. SnapFinal'
      BY <2>1, <2>2, LifeTypes DEF SnapFinal
    <2> QED BY <2>3 DEF FinalSnap
  <1>2. CASE ~SupFetchOrders
    <2>1. supPc' \in Reading => supPc \in Reading /\ snap' = snap
      BY <1>2 DEF SupervisorStep, SupFetchFails, SupException, SupLeaseInvalid, SupReset,
           SupFetchAccount, RecReadRows, RecSkip, RecBook, RecStatus, RecMaterializeRead,
           RecMaterialize, RecFinish, CancelBuysStart, ManageStart, Row, CancelUnlisted,
           ManageMarked, LeaveRow, CancelMark, CancelSent, CancelAmbiguous, StoreMarker,
           RowLoopEnd, SupEnd, supVars, Reading
    <2> QED BY <2>1, SupervisorShape, ShapeKeeps DEF FinalSnap
  <1> QED BY <1>1, <1>2

\* The loops keep to the rows and orders they started from.
LEMMA SupervisorLoop ==
    ASSUME LifeInv, SupervisorStep
    PROVE  FinalLoop'
  <1> USE DEF LifeInv
  <1>0. pass \in PassType
    BY DEF IInv, TypeOK, SupTypeOK, PassType
  <1>1. CASE \/ SupFetchOrders \/ SupFetchFails \/ SupException \/ SupLeaseInvalid
             \/ SupFetchAccount \/ RecReadRows
             \/ \E o \in Orders : RecSkip(o) \/ RecBook(o)
             \/ RecStatus \/ RecMaterializeRead \/ RecMaterialize \/ RecFinish \/ SupEnd
    <2>1. supPc' \notin {"rowloop", "send", "store"}
      BY <1>1 DEF SupFetchOrders, SupFetchFails, SupException, SupLeaseInvalid, SupReset,
           SupFetchAccount, RecReadRows, RecSkip, RecBook, RecStatus, RecMaterializeRead,
           RecMaterialize, RecFinish, SupEnd, supVars
    <2> QED BY <2>1 DEF FinalLoop
  <1>2. CASE CancelBuysStart
    <2>1. CASE meta.cancelReq
      <3>1. /\ supPc' = "rowloop" /\ local' = orders
            /\ \A o \in todo' : /\ o \in Orders
                               /\ orders[o].status \in {"ACKNOWLEDGED", "PARTIALLY_FILLED"}
        BY <1>2, <2>1 DEF CancelBuysStart, Orders
      <3>2. \A o \in todo' : local'[o].bid
        BY <3>1 DEF IInv, RowsTellTruth
      <3> QED BY <3>1, <3>2 DEF FinalLoop
    <2>2. CASE ~meta.cancelReq
      BY <1>2, <2>2 DEF CancelBuysStart, FinalLoop
    <2> QED BY <2>1, <2>2
  <1>3. CASE ManageStart
    <2>1. supPc' = "rowloop" /\ pass'.stage = "stale"
      BY <1>0, <1>3 DEF ManageStart, PassType
    <2> QED BY <2>1 DEF FinalLoop
  <1>4. ASSUME NEW o \in Orders, CancelUnlisted(o) \/ ManageMarked(o) \/ LeaveRow(o)
        PROVE  FinalLoop'
    <2>1. /\ supPc = "rowloop" /\ supPc' = "rowloop" /\ todo' \subseteq todo
          /\ local' = local
      BY <1>4 DEF CancelUnlisted, ManageMarked, LeaveRow, Row
    <2>2. pass'.stage = pass.stage
      BY <1>0, <1>4 DEF CancelUnlisted, ManageMarked, LeaveRow, PassType
    <2> QED BY <2>1, <2>2 DEF FinalLoop
  <1>5. ASSUME NEW o \in Orders, CancelMark(o)
        PROVE  FinalLoop'
    BY <1>5 DEF CancelMark, Row, Cancellable, FinalLoop
  <1>6. CASE CancelSent
    BY <1>6 DEF CancelSent, FinalLoop
  <1>7. CASE CancelAmbiguous \/ StoreMarker
    <2>1. /\ supPc \in {"send", "store"} /\ supPc' = "rowloop" /\ todo' = todo
          /\ local' = local
      BY <1>7 DEF CancelAmbiguous, StoreMarker
    <2>2. pass'.stage = pass.stage
      BY <1>0, <1>7 DEF CancelAmbiguous, StoreMarker, PassType
    <2> QED BY <2>1, <2>2 DEF FinalLoop
  <1>8. CASE RowLoopEnd
    BY <1>8 DEF RowLoopEnd, FinalLoop
  <1> QED BY <1>1, <1>2, <1>3, <1>4, <1>5, <1>6, <1>7, <1>8 DEF SupervisorStep

-----------------------------------------------------------------------------
(* The theorems                                                            *)

\* Every step changes the orders in one of the five ways and keeps the
\* invariant.
LEMMA LifeStep ==
    ASSUME LifeInv, Next
    PROVE  Shape /\ LifeInv'
  <1>1. IInv'
    BY NextInv DEF LifeInv
  <1>2. ASSUME Shape, UNCHANGED supVars
        PROVE  LifeInv'
    <2>1. FinalRows' /\ FinalSnap'
      BY <1>2, ShapeKeeps DEF FinalSnap, supVars
    <2>2. FinalLoop'
      BY <1>2 DEF LifeInv, FinalLoop, supVars
    <2> QED BY <1>1, <2>1, <2>2 DEF LifeInv
  <1>3. CASE TraderStep /\ UNCHANGED <<supVars, upsets>>
    BY <1>2, <1>3, TraderShape
  <1>4. CASE BrokerStep /\ UNCHANGED <<trader, supVars, upsets>>
    BY <1>2, <1>4, BrokerShape
  <1>5. CASE SupervisorStep /\ UNCHANGED <<trader, upsets>>
    BY <1>1, <1>5, SupervisorShape, SupervisorSnap, SupervisorLoop, ShapeKeeps DEF LifeInv
  <1>6. CASE RequestCancelBuys \/ GateChanges
    <2>1. Shape /\ UNCHANGED supVars
      BY <1>6 DEF RequestCancelBuys, GateChanges, brokerVars, Shape
    <2> QED BY <1>2, <2>1
  <1>7. CASE Crash
    <2>1. Shape /\ supPc' = "idle"
      BY <1>7 DEF Crash, SupReset, ledgerVars, brokerVars, Shape
    <2>2. FinalRows' /\ FinalSnap' /\ FinalLoop'
      BY <2>1, ShapeKeeps DEF FinalSnap, FinalLoop, Reading
    <2> QED BY <1>1, <2>1, <2>2 DEF LifeInv
  <1> QED BY <1>3, <1>4, <1>5, <1>6, <1>7 DEF Next, Step

\* The extended invariant holds throughout.
THEOREM LifeInvariance == Spec => []LifeInv
  <1>1. Init => LifeInv
    <2> SUFFICES ASSUME Init PROVE FinalRows /\ FinalSnap /\ FinalLoop
      BY InitInv DEF LifeInv
    <2>1. FinalRows
      BY DEF Init, LedgerInit, BrokerInit, FinalRows, Terminal
    <2>2. FinalSnap /\ FinalLoop
      BY DEF Init, SupInit, FinalSnap, FinalLoop, Reading
    <2> QED BY <2>1, <2>2
  <1>2. LifeInv /\ [Next]_vars => LifeInv'
    <2>1. ASSUME LifeInv, UNCHANGED vars PROVE LifeInv'
      <3>1. IInv'
        BY <2>1, NextInv DEF LifeInv
      <3>2. UNCHANGED <<orders, broker, supPc, snap, local, todo, cur, pass>>
        BY <2>1 DEF vars, ledgerVars, brokerVars, supVars
      <3> QED BY <2>1, <3>1, <3>2 DEF LifeInv, FinalRows, FinalSnap, SnapFinal, FinalLoop
    <2> QED BY <2>1, LifeStep
  <1> QED BY <1>1, <1>2, PTL DEF Spec

\* A row is resolved with every share the broker traded counted in it, though
\* not always with every one of them booked as a fill.
ResolvedIsComplete ==
    \A o \in Orders :
        orders[o].status \in Terminal =>
            broker[o].st \in Terminal /\ orders[o].filled = broker[o].filled

\* A terminal row of broker_orders is over at the broker too, and its filled
\* quantity is the broker's.
THEOREM ResolvedOrdersAreComplete == Spec => []ResolvedIsComplete
  <1>1. LifeInv => ResolvedIsComplete
    <2> SUFFICES ASSUME LifeInv, NEW o \in Orders, orders[o].status \in Terminal
                 PROVE  broker[o].st \in Terminal /\ orders[o].filled = broker[o].filled
      BY DEF ResolvedIsComplete
    <2>1. broker[o].st # "OPEN" /\ broker[o].st # "NONE"
      BY DEF LifeInv, IInv, RowsTellTruth, Terminal
    <2> QED BY <2>1, LifeTypes DEF LifeInv, FinalRows
  <1> QED BY <1>1, LifeInvariance, PTL

\* The program implements OrderLife: no step of a thread with an old read, no
\* lost answer and no crash places an order again, moves the ledger ahead of
\* the exchange or back, resolves a working order or reopens a resolved one.
THEOREM FlowImplementsLife == Spec => ImplementsOrderLife
  <1>1. Init => Life!LifeInit
    <2> SUFFICES ASSUME Init PROVE Life!LifeInit
      OBVIOUS
    <2>1. \A o \in Orders : /\ orders[o].req = 0 /\ orders[o].filled = 0
                            /\ orders[o].status = "NONE"
                            /\ broker[o].filled = 0 /\ broker[o].st = "NONE"
      BY DEF Init, LedgerInit, BrokerInit
    <2>2. \A o \in Orders : PlaceOf(broker[o]) = "unsent"
      BY <2>1, Places
    <2>3. {o \in Orders : orders[o].status \in Terminal} = {}
      BY <2>1 DEF Terminal
    <2> QED BY <2>1, <2>2, <2>3 DEF Life!LifeInit
  <1>2. LifeInv /\ [Next]_vars => [Life!LifeNext]_(Life!lifeVars)
    <2>1. ASSUME UNCHANGED vars PROVE UNCHANGED Life!lifeVars
      BY <2>1, LifeStutter DEF vars, ledgerVars, brokerVars
    <2>2. ASSUME LifeInv, Next PROVE [Life!LifeNext]_(Life!lifeVars)
      BY <2>2, LifeStep, ShapeIsLife
    <2> QED BY <2>1, <2>2
  <1> QED BY <1>1, <1>2, LifeInvariance, PTL DEF Spec, ImplementsOrderLife, Life!LifeSpec

-----------------------------------------------------------------------------
(* With the fill-notice worker                                             *)

\* The threads have an order in hand where their steps use one.
Hands ==
    /\ trader.pc \notin {"idle", "cycle"} => trader.o \in Orders
    /\ supPc \in {"status", "matread", "matwrite", "send", "store"} => cur \in Orders
    /\ worker.pc # "idle" => worker.o \in Orders

\* A step of the trading thread keeps the types, with or without the worker.
LEMMA TraderTypes ==
    ASSUME TypeOK, Hands, TraderStep, UNCHANGED <<supVars, upsets, worker>>
    PROVE  TypeOK' /\ Hands'
  <1> DEFINE o == trader.o
             T == [pc: TraderPcs, o: Orders \cup {None}, q: Nat, left: SUBSET Symbols]
  <1>1. /\ orders \in [Orders -> OrderRow] /\ trader \in T /\ meta \in Meta
        /\ broker \in [Orders -> BrokerRow] /\ sent \in [Orders -> 0..2]
        /\ positions \in [Buys -> PositionRow]
    BY DEF TypeOK, LedgerTypeOK, BrokerTypeOK, TraderTypeOK
  <1>2. UNCHANGED <<fillIds, booked, applied, positions, marker, held, cancels, market>>
    BY DEF TraderStep, CycleStart, CycleEnd, EnterStart, ExitExhausted, ExitStart, Decline,
           Claim, Submitting, GuardCheck, GuardRecheck, SubmitAccepted, SubmitRefused,
           RecordSubmission, RecordFailure, ledgerVars, brokerVars
  <1>3. trader' \in T /\ (trader'.pc \notin {"idle", "cycle"} => trader'.o \in Orders)
    <2>1. CASE CycleStart \/ CycleEnd
      <3>1. trader' = TraderIdle
            \/ trader' = [pc |-> "cycle", o |-> None, q |-> 0, left |-> Symbols]
        BY <2>1 DEF CycleStart, CycleEnd, TraderIdle
      <3> QED BY <3>1 DEF TraderIdle, TraderPcs
    <2>2. ASSUME NEW b \in Buys, EnterStart(b)
          PROVE  trader' \in T /\ trader'.o \in Orders
      BY <1>1, <2>2, AttributesAssumption DEF EnterStart, Attempt, TraderPcs, Orders
    <2>3. ASSUME NEW b \in Buys, ExitExhausted(b)
          PROVE  trader' \in T /\ trader'.pc \in {"idle", "cycle"}
      BY <1>1, <2>3 DEF ExitExhausted, Turn, At, TraderIdle, TraderPcs
    <2>4. ASSUME NEW s \in Sells, ExitStart(s)
          PROVE  trader' \in T /\ trader'.o \in Orders
      <3>1. PositionOf[s] \in Buys /\ s \in Orders
        BY AttributesAssumption DEF Orders
      <3>2. positions[PositionOf[s]].qty \in Nat
        BY <1>1, <3>1 DEF PositionRow
      <3> QED BY <1>1, <2>4, <3>1, <3>2 DEF ExitStart, Attempt, TraderPcs
    <2>5. CASE Decline \/ RecordSubmission \/ RecordFailure
      BY <2>5, DoneIdle DEF Decline, RecordSubmission, RecordFailure, TraderTypeOK
    <2>6. CASE Claim
      <3>1. CASE Done
        BY <3>1, DoneIdle DEF TraderTypeOK
      <3>2. CASE Goto("claimed")
        BY <1>1, <2>6, <3>2 DEF Claim, At, Goto, Hands, TraderPcs
      <3> QED BY <2>6, <3>1, <3>2 DEF Claim
    <2>7. CASE Submitting \/ GuardCheck \/ GuardRecheck \/ SubmitAccepted \/ SubmitRefused
      <3>1. /\ trader.pc \in {"claimed", "submitting", "checked", "cleared"}
            /\ \E pc \in TraderPcs : trader' = [trader EXCEPT !.pc = pc]
        BY <2>7 DEF Submitting, GuardCheck, GuardRecheck, SubmitAccepted, SubmitRefused, At,
                    Goto, TraderPcs
      <3> QED BY <1>1, <3>1 DEF Hands
    <2> QED BY <2>1, <2>2, <2>3, <2>4, <2>5, <2>6, <2>7 DEF TraderStep
  <1>4. orders' \in [Orders -> OrderRow]
    <2>0. {"INTENT", "SUBMITTING", "ACKNOWLEDGED", "UNKNOWN"} \subseteq Statuses
      BY DEF Statuses, Active, Unresolved
    <2>1. CASE Claim
      <3>1. [status |-> "INTENT", bid |-> FALSE, req |-> trader.q, filled |-> 0] \in OrderRow
        BY <1>1, <2>0 DEF OrderRow
      <3> QED BY <1>1, <2>1, <3>1 DEF Claim, ClaimOrderIntent
    <2>2. CASE Submitting \/ RecordSubmission \/ RecordFailure
      <3>1. o \in Orders
        BY <2>2 DEF Hands, Submitting, RecordSubmission, RecordFailure, At
      <3>2. CASE Submitting
        BY <1>1, <2>0, <3>1, <3>2 DEF Submitting, MarkOrderSubmitting, OrderRow
      <3>3. CASE RecordSubmission
        BY <1>1, <2>0, <3>1, <3>3 DEF RecordSubmission, RecordOrderSubmission, OrderRow
      <3>4. CASE RecordFailure
        BY <1>1, <2>0, <3>1, <3>4 DEF RecordFailure, MarkOrderUnknown, OrderRow
      <3> QED BY <2>2, <3>2, <3>3, <3>4
    <2>3. CASE orders' = orders
      BY <1>1, <2>3
    <2> QED BY <2>1, <2>2, <2>3
            DEF TraderStep, CycleStart, CycleEnd, EnterStart, ExitExhausted, ExitStart,
                Decline, GuardCheck, GuardRecheck, SubmitAccepted, SubmitRefused, ledgerVars
  <1>5. meta' \in Meta
    <2>1. ASSUME NEW b \in Buys, ExitExhausted(b) PROVE meta' \in Meta
      BY <1>1, <2>1 DEF ExitExhausted, Meta
    <2>2. CASE meta' = meta
      BY <1>1, <2>2
    <2> QED BY <2>1, <2>2
            DEF TraderStep, CycleStart, CycleEnd, EnterStart, ExitStart, Decline, Claim,
                Submitting, GuardCheck, GuardRecheck, SubmitAccepted, SubmitRefused,
                RecordSubmission, RecordFailure, ledgerVars
  <1>6. broker' \in [Orders -> BrokerRow] /\ sent' \in [Orders -> 0..2]
    <2>1. CASE SubmitAccepted \/ SubmitRefused
      <3>1. o \in Orders
        BY <2>1 DEF Hands, SubmitAccepted, SubmitRefused, At
      <3>2. [st |-> "OPEN", filled |-> 0] \in BrokerRow /\ Again(sent[o]) \in 0..2
        BY <1>1, <3>1 DEF BrokerRow, Again
      <3> QED BY <1>1, <2>1, <3>1, <3>2 DEF SubmitAccepted, SubmitRefused
    <2>2. CASE UNCHANGED <<broker, sent>>
      BY <1>1, <2>2
    <2> QED BY <2>1, <2>2
            DEF TraderStep, CycleStart, CycleEnd, EnterStart, ExitExhausted, ExitStart, Decline,
                Claim, Submitting, GuardCheck, GuardRecheck, RecordSubmission, RecordFailure,
                brokerVars
  <1> HIDE DEF T
  <1>7. TypeOK'
    BY <1>2, <1>3, <1>4, <1>5, <1>6 DEF TypeOK, LedgerTypeOK, BrokerTypeOK, TraderTypeOK,
       SupTypeOK, supVars, T
  <1> QED BY <1>3, <1>7 DEF Hands, supVars

\* The broker keeps the types.
LEMMA BrokerTypes ==
    ASSUME TypeOK, BrokerStep, UNCHANGED <<trader, supVars, upsets>>
    PROVE  TypeOK'
  <1>1. UNCHANGED <<ledgerVars, sent, cancels>>
    BY DEF BrokerStep, BrokerFill, BrokerCancel, BrokerReject, SessionAdvances
  <1>2. broker \in [Orders -> BrokerRow] /\ held \in [Symbols -> Int]
        /\ market \in {"entry", "exit", "closed"}
    BY DEF TypeOK, BrokerTypeOK
  <1> DEFINE Moved == /\ broker' \in [Orders -> BrokerRow] /\ held' \in [Symbols -> Int]
                      /\ market' \in {"entry", "exit", "closed"}
  <1>3. Moved
    <2>1. ASSUME NEW o \in Orders, BrokerFill(o) PROVE Moved
      <3> DEFINE n == broker[o].filled + 1
                 r == [st |-> IF n = orders[o].req THEN "FILLED" ELSE "OPEN", filled |-> n]
      <3>1. broker' = [broker EXCEPT ![o] = r] /\ market' = market
        BY <2>1 DEF BrokerFill
      <3>2. r \in BrokerRow
        BY <1>2 DEF BrokerRow
      <3>3. held' \in [Symbols -> Int]
        BY <1>2, <2>1, SymType DEF BrokerFill
      <3> HIDE DEF r
      <3> QED BY <1>2, <3>1, <3>2, <3>3
    <2>2. ASSUME NEW o \in Orders, BrokerCancel(o) \/ BrokerReject(o) PROVE Moved
      <3>1. PICK st \in {"CANCELLED", "REJECTED"} :
              broker' = [broker EXCEPT ![o].st = st] /\ UNCHANGED <<held, market>>
        BY <2>2 DEF BrokerCancel, BrokerReject
      <3> QED BY <1>2, <3>1 DEF BrokerRow
    <2>3. CASE SessionAdvances
      BY <1>2, <2>3 DEF SessionAdvances
    <2> QED BY <2>1, <2>2, <2>3 DEF BrokerStep
  <1> QED BY <1>1, <1>3 DEF TypeOK, ledgerVars, LedgerTypeOK, BrokerTypeOK, TraderTypeOK,
             SupTypeOK, supVars

\* Operator commands and a crash keep the types.
LEMMA UpsetTypes ==
    ASSUME TypeOK, RequestCancelBuys \/ GateChanges \/ Crash
    PROVE  TypeOK'
  <1>1. UNCHANGED <<orders, fillIds, booked, applied, positions, marker, brokerVars>>
    BY DEF RequestCancelBuys, GateChanges, Crash, ledgerVars
  <1>2. meta' \in Meta
    <2>1. meta \in Meta
      BY DEF TypeOK, LedgerTypeOK
    <2>2. CASE RequestCancelBuys
      <3>1. (\E b \in Buys : orders[b].status \in Unresolved) \in BOOLEAN
        OBVIOUS
      <3> QED BY <2>1, <2>2, <3>1 DEF RequestCancelBuys, Meta
    <2>3. CASE GateChanges
      BY <2>1, <2>3 DEF GateChanges, Meta
    <2>4. CASE Crash
      BY <2>1, <2>4 DEF Crash, ledgerVars
    <2> QED BY <2>2, <2>3, <2>4
  <1>3. upsets' \in 0..MaxUpsets
    BY UpsetsAssumption DEF RequestCancelBuys, GateChanges, Crash, Upset, TypeOK
  <1>4. LedgerTypeOK' /\ BrokerTypeOK'
    BY <1>1, <1>2 DEF TypeOK, LedgerTypeOK, BrokerTypeOK, brokerVars
  <1>5. CASE Crash
    <2>1. SupReset /\ trader' = TraderIdle
      BY <1>5 DEF Crash
    <2>2. SupTypeOK' /\ TraderTypeOK'
      BY <2>1, NothingHeldType DEF SupReset, SupTypeOK, SupPcs, TraderIdle, TraderTypeOK, TraderPcs
    <2> QED BY <1>3, <1>4, <2>2 DEF TypeOK
  <1>6. CASE RequestCancelBuys \/ GateChanges
    BY <1>3, <1>4, <1>6 DEF RequestCancelBuys, GateChanges, TypeOK, TraderTypeOK, SupTypeOK, supVars
  <1> QED BY <1>5, <1>6

\* Rewriting a row keeps it a row.
LEMMA RowTypes ==
    ASSUME TypeOK, NEW o \in Orders, NEW st \in Statuses, NEW f \in Nat,
           \/ UpdateBrokerOrderStatus(o, st, f) \/ UpdateStatusOnly(o, st)
    PROVE  orders' \in [Orders -> OrderRow]
  <1>1. orders \in [Orders -> OrderRow]
    BY DEF TypeOK, LedgerTypeOK
  <1> DEFINE r == [orders[o] EXCEPT !.status = st, !.bid = TRUE, !.filled = f]
             s == [orders[o] EXCEPT !.status = st]
  <1>2. r \in OrderRow /\ s \in OrderRow
    BY <1>1 DEF OrderRow
  <1>3. \/ orders' = orders
        \/ orders' = [orders EXCEPT ![o] = r]
        \/ orders' = [orders EXCEPT ![o] = s]
    BY <1>1 DEF UpdateBrokerOrderStatus, UpdateStatusOnly
  <1> HIDE DEF r, s
  <1> QED BY <1>1, <1>2, <1>3

\* apply_broker_fill keeps the types, and books no less than before.
LEMMA FillTypes ==
    ASSUME TypeOK, NEW o \in Orders, NEW id \in FillId, NEW q \in Nat, ApplyBrokerFill(o, id, q)
    PROVE  /\ orders' \in [Orders -> OrderRow] /\ fillIds' \subseteq FillId
           /\ booked' \in [Orders -> Nat] /\ \A x \in Orders : booked[x] <= booked'[x]
  <1>1. orders \in [Orders -> OrderRow] /\ fillIds \subseteq FillId /\ booked \in [Orders -> Nat]
    BY DEF TypeOK, LedgerTypeOK
  <1> DEFINE total == orders[o].filled + q
             st == IF total = orders[o].req THEN "FILLED" ELSE "PARTIALLY_FILLED"
             r == [orders[o] EXCEPT !.filled = total, !.bid = TRUE, !.status = st]
  <1>2. CASE InsertFill(o, id, q)
    <2>1. /\ orders' = [orders EXCEPT ![o] = r] /\ fillIds' = fillIds \cup {id}
          /\ booked' = [booked EXCEPT ![o] = booked[o] + q]
      BY <1>1, <1>2 DEF InsertFill
    <2>2. st \in Statuses /\ total \in Nat
      BY <1>1 DEF OrderRow, Statuses, Active, Unresolved, Terminal
    <2> HIDE DEF st, total
    <2>3. r \in OrderRow
      BY <1>1, <2>2 DEF OrderRow
    <2> HIDE DEF r
    <2> QED BY <1>1, <2>1, <2>3
  <1>3. CASE UNCHANGED <<orders, fillIds, booked>>
    BY <1>1, <1>3
  <1> QED BY <1>2, <1>3 DEF ApplyBrokerFill

\* The steps of a pass that write no ledger row and apply no fill.
QuietPass ==
    \/ SupFetchOrders \/ SupFetchFails \/ SupException \/ SupLeaseInvalid \/ SupFetchAccount
    \/ RecReadRows \/ RecMaterializeRead \/ RecFinish \/ CancelBuysStart \/ ManageStart
    \/ \E o \in Orders : RecSkip(o) \/ LeaveRow(o)
    \/ CancelSent \/ StoreMarker \/ RowLoopEnd \/ SupEnd

\* They keep the types.
LEMMA QuietPassTypes ==
    ASSUME TypeOK, Hands, QuietPass, UNCHANGED <<trader, upsets, worker>>
    PROVE  TypeOK' /\ Hands' /\ UNCHANGED <<orders, fillIds, booked, applied, positions>>
  <1>1. UNCHANGED <<orders, fillIds, booked, applied, positions, broker, held, sent, market>>
    BY DEF QuietPass, SupFetchOrders, SupFetchFails, SupException, SupLeaseInvalid,
           SupFetchAccount, RecReadRows, RecMaterializeRead, RecFinish, CancelBuysStart,
           ManageStart, RecSkip, LeaveRow, CancelSent, StoreMarker, RowLoopEnd, SupEnd,
           ledgerVars, brokerVars
  <1>2. SupTypeOK /\ LedgerTypeOK /\ BrokerTypeOK /\ meta \in Meta /\ pass \in PassType
    BY DEF TypeOK, LedgerTypeOK, SupTypeOK, PassType
  <1>3. pass.problem \in BOOLEAN /\ pass.pending \in BOOLEAN
    BY <1>2 DEF PassType
  <1>4. meta' \in Meta
    <2>1. CASE SupFetchFails \/ SupException \/ SupLeaseInvalid \/ SupEnd
      BY <1>2, <1>3, <2>1 DEF SupFetchFails, SupException, SupLeaseInvalid, SupEnd, WriteStatus,
                              MarkException, Meta
    <2>2. CASE RecFinish
      <3> DEFINE pb == \/ pass.problem
                       \/ BrokerOnly # {}
                       \/ ~acct.ok
                       \/ PositionMismatch
      <3>1. pb \in BOOLEAN /\ Flag(pb, pb)
        BY <1>3, <2>2 DEF RecFinish
      <3> HIDE DEF pb
      <3> QED BY <1>2, <3>1 DEF Flag, Meta
    <2>3. CASE CancelBuysStart \/ RowLoopEnd
      BY <1>2, <2>3 DEF CancelBuysStart, RowLoopEnd, Flag, Meta
    <2>4. CASE meta' = meta
      BY <1>2, <2>4
    <2> QED BY <2>1, <2>2, <2>3, <2>4
            DEF QuietPass, SupFetchOrders, SupFetchAccount, RecReadRows, RecMaterializeRead,
                ManageStart, RecSkip, LeaveRow, CancelSent, StoreMarker, ledgerVars
  <1>5. marker' \in [Orders -> {"none", "pending", "confirmed"}] /\ cancels' \subseteq Orders
    <2>0. marker \in [Orders -> {"none", "pending", "confirmed"}] /\ cancels \subseteq Orders
      BY <1>2 DEF LedgerTypeOK, BrokerTypeOK
    <2>1. CASE CancelSent
      BY <2>0, <2>1 DEF CancelSent, Hands, ledgerVars
    <2>2. CASE StoreMarker
      BY <2>0, <2>2 DEF StoreMarker, brokerVars
    <2>3. CASE UNCHANGED <<marker, cancels>>
      BY <2>0, <2>3
    <2> QED BY <2>1, <2>2, <2>3
            DEF QuietPass, SupFetchOrders, SupFetchFails, SupException, SupLeaseInvalid,
                SupFetchAccount, RecReadRows, RecMaterializeRead, RecFinish, CancelBuysStart,
                ManageStart, RecSkip, LeaveRow, RowLoopEnd, SupEnd, ledgerVars, brokerVars
  <1>6. LedgerTypeOK' /\ BrokerTypeOK'
    BY <1>1, <1>2, <1>4, <1>5 DEF LedgerTypeOK, BrokerTypeOK
  <1>7. SupTypeOK' /\ (supPc' \in {"status", "matread", "matwrite", "send", "store"} => cur' \in Orders)
    <2>1. CASE SupException \/ SupEnd
      BY <2>1, NothingHeldType DEF SupException, SupEnd, SupReset, SupTypeOK, SupPcs
    <2>2. CASE SupFetchFails \/ SupLeaseInvalid
      BY <1>2, <2>2 DEF SupFetchFails, SupLeaseInvalid, supVars, SupTypeOK, Hands
    <2>3. CASE SupFetchOrders \/ RecReadRows \/ ManageStart
      <3>1. pass' \in PassType
        BY <1>2, <2>3 DEF SupFetchOrders, RecReadRows, ManageStart, PassType
      <3> QED BY <1>2, <2>3, <3>1 DEF SupFetchOrders, RecReadRows, ManageStart, SupTypeOK, SupPcs,
                 LedgerTypeOK, BrokerTypeOK, PassType
    <2>4. CASE SupFetchAccount
      <3>1. acct' \in [ok: BOOLEAN, held: [Symbols -> Int]]
        <4>1. CASE acct' = NoAcct
          BY <4>1, NothingHeldType
        <4>2. CASE acct' = [ok |-> TRUE, held |-> held]
          BY <1>2, <4>2 DEF BrokerTypeOK
        <4> QED BY <2>4, <4>1, <4>2 DEF SupFetchAccount
      <3> QED BY <1>2, <2>4, <3>1 DEF SupFetchAccount, SupTypeOK, SupPcs
    <2>5. CASE RecMaterializeRead
      <3>1. cur \in Orders
        BY <2>5 DEF RecMaterializeRead, Hands
      <3>2. mat' \in MaterializeReads
        BY <1>2, <2>5, <3>1, MaterializeReadType DEF RecMaterializeRead
      <3> QED BY <1>2, <2>5, <3>1, <3>2 DEF RecMaterializeRead, SupTypeOK, SupPcs
    <2>6. CASE RecFinish
      <3> DEFINE pb == \/ pass.problem
                       \/ BrokerOnly # {}
                       \/ ~acct.ok
                       \/ PositionMismatch
      <3>1. pb \in BOOLEAN /\ pass' = [NewPass EXCEPT !.problem = pb]
        BY <1>3, <2>6 DEF RecFinish
      <3> HIDE DEF pb
      <3>2. pass' \in PassType
        BY <3>1, NothingHeldType DEF PassType
      <3> QED BY <1>2, <2>6, <3>2, NothingHeldType DEF RecFinish, SupTypeOK, SupPcs, PassType
    <2>7. CASE CancelBuysStart
      <3>1. pass' \in PassType /\ todo' \subseteq Orders
        BY <1>2, <2>7 DEF CancelBuysStart, PassType, SupTypeOK, Orders
      <3> QED BY <1>2, <2>7, <3>1 DEF CancelBuysStart, SupTypeOK, SupPcs, LedgerTypeOK, PassType
    <2>8. ASSUME NEW o \in Orders, RecSkip(o) \/ LeaveRow(o)
          PROVE  SupTypeOK' /\ UNCHANGED <<supPc, cur>>
      <3>1. pass' \in PassType
        <4>1. CASE RecSkip(o)
          BY <1>2, <4>1 DEF RecSkip, PassType
        <4>2. CASE LeaveRow(o)
          BY <1>2, <4>2 DEF LeaveRow, PassType
        <4> QED BY <2>8, <4>1, <4>2
      <3> QED BY <1>2, <2>8, <3>1 DEF RecSkip, LeaveRow, SupTypeOK, PassType
    <2>9. CASE CancelSent \/ StoreMarker
      <3>1. pass' \in PassType
        BY <1>2, <2>9 DEF CancelSent, StoreMarker, PassType
      <3> QED BY <1>2, <2>9, <3>1 DEF CancelSent, StoreMarker, SupTypeOK, SupPcs, Hands, PassType
    <2>10. CASE RowLoopEnd
      BY <1>2, <2>10, NothingHeldType DEF RowLoopEnd, SupTypeOK, SupPcs
    <2> QED BY <2>1, <2>2, <2>3, <2>4, <2>5, <2>6, <2>7, <2>8, <2>9, <2>10 DEF QuietPass, Hands
  <1> QED BY <1>1, <1>6, <1>7 DEF TypeOK, TraderTypeOK, Hands

\* So do the steps that rewrite a row.
LEMMA RowPassTypes ==
    ASSUME TypeOK, Hands, UNCHANGED <<trader, upsets, worker>>,
           \/ RecStatus \/ CancelAmbiguous
           \/ \E o \in Orders : \/ RecBook(o) \/ CancelUnlisted(o) \/ ManageMarked(o) \/ CancelMark(o)
    PROVE  /\ TypeOK' /\ Hands' /\ UNCHANGED <<applied, positions>>
           /\ \A x \in Orders : booked[x] <= booked'[x]
  <1>1. SupTypeOK /\ LedgerTypeOK /\ BrokerTypeOK /\ meta \in Meta /\ pass \in PassType
        /\ snap \in [Orders -> BrokerRow] /\ local \in [Orders -> OrderRow]
        /\ booked \in [Orders -> Nat]
    BY DEF TypeOK, LedgerTypeOK, SupTypeOK, PassType
  <1>2. {"UNKNOWN", "CANCEL_PENDING", "ACKNOWLEDGED", "PARTIALLY_FILLED", "NONE"} \cup Terminal \subseteq Statuses
    BY DEF Statuses, Active, Unresolved
  <1>3. \A o \in Orders : snap[o].filled \in Nat
                          /\ snap[o].st \in {"NONE", "OPEN", "FILLED", "CANCELLED", "REJECTED"}
                          /\ local[o].filled \in Nat
    BY <1>1 DEF BrokerRow, OrderRow
  <1>4. CASE RecStatus
    <2>1. cur \in Orders
      BY <1>4 DEF RecStatus, Hands
    <2>2. RecStatusFor(cur) \in Statuses
      BY <1>2, <1>3, <2>1 DEF RecStatusFor, LocalStatusForBroker, Terminal
    <2>3. orders' \in [Orders -> OrderRow]
      BY <1>3, <1>4, <2>1, <2>2, RowTypes DEF RecStatus
    <2>4. SupTypeOK' /\ LedgerTypeOK' /\ BrokerTypeOK'
      BY <1>1, <1>4, <2>3 DEF RecStatus, SupTypeOK, SupPcs, LedgerTypeOK, BrokerTypeOK, brokerVars
    <2> QED BY <1>1, <1>4, <2>1, <2>4 DEF RecStatus, TypeOK, TraderTypeOK, Hands
  <1>5. CASE CancelAmbiguous
    <2>1. cur \in Orders
      BY <1>5 DEF CancelAmbiguous, Hands
    <2>2. orders' \in [Orders -> OrderRow]
      BY <1>2, <1>5, <2>1, RowTypes DEF CancelAmbiguous, MarkOrderUnknown, UpdateStatusOnly
    <2>3. meta' \in Meta /\ pass' \in PassType
      BY <1>1, <1>5 DEF CancelAmbiguous, Flag, Meta, PassType
    <2>4. SupTypeOK' /\ LedgerTypeOK' /\ BrokerTypeOK'
      BY <1>1, <1>5, <2>1, <2>2, <2>3
         DEF CancelAmbiguous, SupTypeOK, SupPcs, LedgerTypeOK, BrokerTypeOK, PassType
    <2> QED BY <1>1, <1>5, <2>4 DEF CancelAmbiguous, TypeOK, TraderTypeOK, Hands
  <1>6. ASSUME NEW o \in Orders, CancelUnlisted(o) \/ ManageMarked(o) \/ CancelMark(o)
        PROVE  /\ TypeOK' /\ Hands' /\ UNCHANGED <<applied, positions>>
               /\ \A x \in Orders : booked[x] <= booked'[x]
    <2>1. orders' \in [Orders -> OrderRow]
      <3>1. CASE CancelUnlisted(o)
        BY <1>2, <3>1, RowTypes DEF CancelUnlisted, MarkOrderUnknown, UpdateStatusOnly
      <3>2. CASE ManageMarked(o)
        <4> DEFINE st == IF snap[o].st \in Terminal THEN snap[o].st ELSE "CANCEL_PENDING"
        <4>1. orders' = orders \/ UpdateBrokerOrderStatus(o, st, snap[o].filled)
          BY <3>2 DEF ManageMarked
        <4>2. st \in Statuses
          BY <1>2
        <4> HIDE DEF st
        <4> QED BY <1>1, <1>3, <4>1, <4>2, RowTypes DEF LedgerTypeOK
      <3>3. CASE CancelMark(o)
        BY <1>2, <1>3, <3>3, RowTypes DEF CancelMark
      <3> QED BY <1>6, <3>1, <3>2, <3>3
    <2>2. pass' \in PassType /\ meta' \in Meta
      BY <1>1, <1>6 DEF CancelUnlisted, ManageMarked, CancelMark, PassType, Flag, Meta
    <2>3. marker' \in [Orders -> {"none", "pending", "confirmed"}]
      BY <1>1, <1>6 DEF CancelUnlisted, ManageMarked, CancelMark, LedgerTypeOK
    <2>4. /\ UNCHANGED <<fillIds, booked, applied, positions, brokerVars, snap, acct, local, mat>>
          /\ todo' = todo \ {o}
          /\ \/ supPc' = supPc /\ cur' = cur
             \/ supPc' = "send" /\ cur' = o
      BY <1>6 DEF CancelUnlisted, ManageMarked, CancelMark
    <2>5. SupTypeOK' /\ LedgerTypeOK' /\ BrokerTypeOK'
      BY <1>1, <2>1, <2>2, <2>3, <2>4
         DEF SupTypeOK, SupPcs, LedgerTypeOK, BrokerTypeOK, brokerVars, PassType
    <2> QED BY <1>1, <2>4, <2>5 DEF TypeOK, TraderTypeOK, Hands
  <1>7. ASSUME NEW o \in Orders, RecBook(o)
        PROVE  /\ TypeOK' /\ Hands' /\ UNCHANGED <<applied, positions>>
               /\ \A x \in Orders : booked[x] <= booked'[x]
    <2>1. /\ orders' \in [Orders -> OrderRow] /\ fillIds' \subseteq FillId
          /\ booked' \in [Orders -> Nat] /\ \A x \in Orders : booked[x] <= booked'[x]
      <3>1. CASE RecDelta(o) > 0
        <4>1. RecDelta(o) \in Nat /\ RecFillId(o) \in FillId
          BY <1>3, <3>1 DEF RecDelta, RecFillId, FillId
        <4>2. ApplyBrokerFill(o, RecFillId(o), RecDelta(o))
          BY <1>7, <3>1 DEF RecBook
        <4> QED BY <4>1, <4>2, FillTypes
      <3>2. CASE UNCHANGED <<orders, fillIds, booked>>
        BY <1>1, <3>2 DEF LedgerTypeOK
      <3> QED BY <1>7, <3>1, <3>2 DEF RecBook
    <2>2. pass' \in PassType
      <3> DEFINE p == \/ pass.problem
                      \/ (RecDelta(o) > 0 /\ ApplyRaises(o, RecFillId(o), RecDelta(o)))
                      \/ local[o].status = "UNKNOWN"
      <3>1. p \in BOOLEAN
        BY <1>1 DEF PassType
      <3>2. pass' = [pass EXCEPT !.problem = p, !.matched = @ \cup {o}]
        BY <1>7 DEF RecBook
      <3> HIDE DEF p
      <3> QED BY <1>1, <3>1, <3>2 DEF PassType
    <2>3. /\ UNCHANGED <<applied, positions, marker, meta, brokerVars, snap, acct, local, mat>>
          /\ todo' = todo \ {o}
          /\ \/ supPc' = "reconcile" /\ cur' = None
             \/ supPc' = "status" /\ cur' = o
      BY <1>7 DEF RecBook
    <2>4. SupTypeOK' /\ LedgerTypeOK' /\ BrokerTypeOK'
      BY <1>1, <2>1, <2>2, <2>3
         DEF SupTypeOK, SupPcs, LedgerTypeOK, BrokerTypeOK, brokerVars, PassType
    <2> QED BY <2>1, <2>3, <2>4 DEF TypeOK, TraderTypeOK, Hands
  <1> QED BY <1>4, <1>5, <1>6, <1>7

-----------------------------------------------------------------------------
(* Two threads apply fills                                                 *)

\* With the applications a, no share of o's symbol was sold, and none bought by
\* another entry than o.
LoneIn(a, o) ==
    /\ SumFunctionOnSet(a, {s \in Sells : Sym(s) = Sym(o)}) = 0
    /\ \A b \in Buys : Sym(b) = Sym(o) /\ b # o => a[b] = 0

\* The positions p of o's symbol are then that of o, with what was applied.
PositionIn(a, p, o) ==
    /\ \A b \in Buys : Sym(b) = Sym(o) /\ b # o => p[b].st # "OPEN"
    /\ p[o].st = "OPEN" <=> a[o] > 0
    /\ a[o] > 0 => p[o].qty = a[o]

\* What a thread read for order o, with applications a and fills k now: as long
\* as o is the lone entry and nothing was applied since, it is still so.
ReadIn(a, k, o, rd) ==
    /\ rd.from <= rd.upto /\ rd.upto <= k[o] /\ rd.from <= a[o]
    /\ rd.pos # None => rd.pos \in Buys /\ Sym(rd.pos) = Sym(o)
    /\ o \in Buys /\ LoneIn(a, o) /\ a[o] = rd.from =>
          /\ rd.pos = IF rd.from = 0 THEN None ELSE o
          /\ rd.qty = rd.from

\* The position of a lone entry is what was applied of it.
LonePositions == \A b \in Buys : LoneIn(applied, b) => PositionIn(applied, positions, b)

\* No more is applied than booked.
AppliedIsBooked == \A o \in Orders : applied[o] <= booked[o]

\* The inductive invariant of FillNotices.
NoticeInv ==
    /\ TypeOK /\ WorkerTypeOK /\ Hands
    /\ AppliedIsBooked
    /\ supPc = "matwrite" => ReadIn(applied, booked, cur, mat)
    /\ worker.pc = "matwrite" => ReadIn(applied, booked, worker.o, worker.read)
    /\ LonePositions

\* What materialize_order_fills reads is so when it reads it.
LEMMA ReadIsIn ==
    ASSUME LedgerTypeOK, AppliedIsBooked, LonePositions, NEW o \in Orders
    PROVE  ReadIn(applied, booked, o, MaterializeRead(o))
  <1> DEFINE rd == MaterializeRead(o)
  <1>1. /\ rd.from = applied[o] /\ rd.upto = booked[o]
        /\ rd.pos = OpenPosition(Sym(o)) /\ rd.qty = OpenQty(Sym(o))
    BY DEF MaterializeRead
  <1>2. applied[o] \in Nat /\ booked[o] \in Nat /\ applied[o] <= booked[o]
    BY DEF LedgerTypeOK, AppliedIsBooked
  <1>3. OpenPosition(Sym(o)) # None =>
          OpenPosition(Sym(o)) \in Buys /\ Sym(OpenPosition(Sym(o))) = Sym(o)
    <2>1. OpenPosition(Sym(o)) # None => OpenPosition(Sym(o)) \in OpenPositions(Sym(o))
      BY DEF OpenPosition
    <2> QED BY <2>1 DEF OpenPositions, Sym
  <1>4. ASSUME o \in Buys, LoneIn(applied, o)
        PROVE  /\ OpenPosition(Sym(o)) = IF applied[o] = 0 THEN None ELSE o
               /\ OpenQty(Sym(o)) = applied[o]
    <2>1. PositionIn(applied, positions, o)
      BY <1>4 DEF LonePositions
    <2>2. CASE applied[o] = 0
      <3>1. OpenPositions(Sym(o)) = {}
        BY <1>4, <2>1, <2>2 DEF PositionIn, OpenPositions, Sym
      <3> QED BY <1>4, <2>2, <3>1, TheOpenPosition DEF OpenPosition
    <2>3. CASE applied[o] # 0
      <3>1. OpenPositions(Sym(o)) = {o}
        BY <1>2, <1>4, <2>1, <2>3 DEF PositionIn, OpenPositions, Sym
      <3>2. OpenPosition(Sym(o)) = o
        BY <3>1 DEF OpenPosition
      <3> QED BY <1>2, <1>4, <2>1, <2>3, <3>1, <3>2, TheOpenPosition DEF PositionIn
    <2> QED BY <2>2, <2>3
  <1> HIDE DEF rd
  <1> QED BY <1>1, <1>2, <1>3, <1>4 DEF ReadIn, rd

\* A fill applied from what was read keeps positions, and other reads, right.
LEMMA WriteKeeps ==
    ASSUME LedgerTypeOK, AppliedIsBooked, LonePositions, NEW o \in Orders,
           NEW rd \in MaterializeReads, ReadIn(applied, booked, o, rd),
           MaterializeOrderFills(o, rd)
    PROVE  /\ positions' \in [Buys -> PositionRow] /\ applied' \in [Orders -> Nat]
           /\ \A x \in Orders : applied'[x] <= booked[x]
           /\ \A b \in Buys : LoneIn(applied', b) => PositionIn(applied', positions', b)
           /\ \A x \in Orders, r \in MaterializeReads :
                 ReadIn(applied, booked, x, r) => ReadIn(applied', booked, x, r)
  <1>1. /\ applied \in [Orders -> Nat] /\ booked \in [Orders -> Nat]
        /\ positions \in [Buys -> PositionRow]
    BY DEF LedgerTypeOK
  <1>2. CASE UNCHANGED <<positions, applied>>
    BY <1>1, <1>2 DEF AppliedIsBooked, LonePositions
  <1>3. CASE ~(rd.upto = rd.from \/ MaterializeRaises(o, rd))
    <2> DEFINE q == rd.upto - rd.from
    <2>1. /\ positions' = PositionsAfter(o, rd) /\ applied' = [applied EXCEPT ![o] = rd.upto]
      BY <1>3 DEF MaterializeOrderFills
    <2>2. /\ rd.from \in Nat /\ rd.upto \in Nat /\ rd.qty \in Nat /\ rd.pos \in Buys \cup {None}
          /\ rd.upto > rd.from /\ rd.upto <= booked[o] /\ q \in Nat /\ q > 0
      BY <1>3 DEF MaterializeReads, ReadIn
    <2>3. applied[o] = rd.from
      BY <1>3, <2>2 DEF MaterializeRaises
    <2>4. /\ positions' \in [Buys -> PositionRow] /\ applied' \in [Orders -> Nat]
      BY <2>2, MaterializeType
    <2>5. /\ applied'[o] = applied[o] + q /\ applied'[o] = rd.upto
          /\ \A x \in Orders \ {o} : applied'[x] = applied[x]
          /\ applied' = [applied EXCEPT ![o] = applied[o] + q]
      <3>1. applied[o] + q = rd.upto
        BY <2>2, <2>3
      <3> HIDE DEF q
      <3> QED BY <1>1, <2>1, <3>1
    <2>6. \A x \in Orders : applied'[x] <= booked[x]
      BY <1>1, <2>2, <2>5 DEF AppliedIsBooked
    <2>7. ASSUME NEW b \in Buys, LoneIn(applied', b)
          PROVE  /\ LoneIn(applied, b)
                 /\ o \in Sells => Sym(o) # Sym(b)
                 /\ o \in Buys /\ Sym(o) = Sym(b) => o = b
      <3> DEFINE S == {s \in Sells : Sym(s) = Sym(b)}
      <3>1. Sym(b) \in Symbols
        BY SymType DEF Orders
      <3>2. /\ SoldShares(Sym(b)) \in Nat
            /\ SoldShares(Sym(b))' =
                 SoldShares(Sym(b)) + (IF o \in Sells /\ Sym(o) = Sym(b) THEN q ELSE 0)
        BY <2>2, <2>5, <3>1, SharesMove
      <3>3. SoldShares(Sym(b)) = SumFunctionOnSet(applied, S)
            /\ SoldShares(Sym(b))' = SumFunctionOnSet(applied', S)
        BY DEF SoldShares, Sym
      <3>4. SumFunctionOnSet(applied', S) = 0
        BY <2>7 DEF LoneIn
      <3>5. SumFunctionOnSet(applied, S) = 0 /\ ~(o \in Sells /\ Sym(o) = Sym(b))
        BY <2>2, <3>2, <3>3, <3>4
      <3>6. \A x \in Buys : Sym(x) = Sym(b) /\ x # b => applied'[x] = 0
        BY <2>7 DEF LoneIn
      <3>7. o \in Buys /\ Sym(o) = Sym(b) => o = b
        BY <1>1, <2>2, <2>5, <3>6
      <3>8. \A x \in Buys : Sym(x) = Sym(b) /\ x # b => applied[x] = 0
        BY <1>1, <2>5, <3>6, <3>7 DEF Orders
      <3> QED BY <3>5, <3>7, <3>8 DEF LoneIn
    <2>8. ASSUME NEW b \in Buys, LoneIn(applied', b)
          PROVE  PositionIn(applied', positions', b)
      <3>1. PositionIn(applied, positions, b)
        BY <2>7, <2>8 DEF LonePositions
      <3>2. CASE o = b
        <4>1. /\ rd.pos = IF rd.from = 0 THEN None ELSE o
              /\ rd.qty = rd.from
          BY <2>3, <2>7, <2>8, <3>2 DEF ReadIn
        <4>2. positions' = [positions EXCEPT ![o] = [st |-> "OPEN", qty |-> rd.upto]]
          <5>1. CASE rd.from = 0
            <6>1. q = rd.upto /\ rd.pos = None /\ o \in Buys
              BY <2>2, <3>2, <4>1, <5>1
            <6> QED BY <2>1, <6>1 DEF PositionsAfter
          <5>2. CASE rd.from # 0
            <6>1. rd.pos = o /\ positions[o].st = "OPEN" /\ o # None
              BY <2>2, <2>3, <3>1, <3>2, <4>1, <5>2, OrdersAssumption DEF PositionIn
            <6>2. rd.qty + q = rd.upto /\ rd.upto # 0
              BY <2>2, <4>1
            <6> QED BY <2>1, <3>2, <6>1, <6>2 DEF PositionsAfter
          <5> QED BY <5>1, <5>2
        <4> QED BY <1>1, <2>2, <2>5, <3>1, <3>2, <4>2 DEF PositionIn
      <3>3. CASE o # b
        <4>1. Sym(o) # Sym(b)
          BY <2>7, <2>8, <3>3 DEF Orders
        <4>2. applied'[b] = applied[b]
          BY <2>5, <3>3 DEF Orders
        <4>3. o \in Buys \/ rd.pos # None
          BY <1>3, <2>2 DEF MaterializeRaises, Orders
        <4>4. \A x \in Buys : Sym(x) = Sym(b) => positions'[x] = positions[x]
          <5>1. rd.pos # None => Sym(rd.pos) # Sym(b)
            BY <4>1 DEF ReadIn
          <5> QED BY <1>1, <2>1, <4>1, <4>3, <5>1 DEF PositionsAfter
        <4> QED BY <3>1, <4>2, <4>4 DEF PositionIn
      <3> QED BY <3>2, <3>3
    <2>9. ASSUME NEW x \in Orders, NEW r \in MaterializeReads, ReadIn(applied, booked, x, r)
          PROVE  ReadIn(applied', booked, x, r)
      <3>1. r.from \in Nat /\ r.from <= applied[x]
        BY <2>9 DEF ReadIn, MaterializeReads
      <3>2. r.from <= applied'[x]
        BY <1>1, <2>2, <2>5, <3>1
      <3>3. ASSUME x \in Buys, LoneIn(applied', x), applied'[x] = r.from
            PROVE  LoneIn(applied, x) /\ applied[x] = r.from
        <4>1. x # o
          BY <1>1, <2>2, <2>5, <3>1, <3>3
        <4> QED BY <2>5, <2>7, <3>3, <4>1
      <3> QED BY <2>9, <3>2, <3>3 DEF ReadIn
    <2> QED BY <2>4, <2>6, <2>8, <2>9
  <1> QED BY <1>2, <1>3 DEF MaterializeOrderFills

\* A read stays right while only the stored fills grow.
LEMMA ReadOutlivesFills ==
    ASSUME LedgerTypeOK, LedgerTypeOK', applied' = applied, \A x \in Orders : booked[x] <= booked'[x],
           NEW o \in Orders, NEW rd \in MaterializeReads, ReadIn(applied, booked, o, rd)
    PROVE  ReadIn(applied', booked', o, rd)
  <1>1. booked[o] \in Nat /\ booked'[o] \in Nat /\ rd.upto \in Nat
    BY DEF LedgerTypeOK, MaterializeReads
  <1> QED BY <1>1 DEF ReadIn

\* A step that applies no fill keeps the invariant if its own reads are right.
LEMMA NoticeFrame ==
    ASSUME NoticeInv, TypeOK', WorkerTypeOK', Hands', UNCHANGED <<applied, positions>>,
           \A x \in Orders : booked[x] <= booked'[x],
           supPc' = "matwrite" => ReadIn(applied, booked, cur', mat'),
           worker'.pc = "matwrite" => ReadIn(applied, booked, worker'.o, worker'.read)
    PROVE  NoticeInv'
  <1>1. LedgerTypeOK /\ LedgerTypeOK' /\ mat' \in MaterializeReads /\ worker'.read \in MaterializeReads
    BY DEF NoticeInv, TypeOK, SupTypeOK, WorkerTypeOK
  <1>2. AppliedIsBooked'
    BY <1>1 DEF NoticeInv, AppliedIsBooked, LedgerTypeOK
  <1>3. LonePositions'
    BY DEF NoticeInv, LonePositions
  <1>4. supPc' = "matwrite" => ReadIn(applied', booked', cur', mat')
    BY <1>1, ReadOutlivesFills DEF Hands
  <1>5. worker'.pc = "matwrite" => ReadIn(applied', booked', worker'.o, worker'.read)
    BY <1>1, ReadOutlivesFills DEF Hands
  <1> QED BY <1>2, <1>3, <1>4, <1>5 DEF NoticeInv

\* The steps of OrderFlow but a crash, the worker standing still.
LEMMA StepNotices ==
    ASSUME NoticeInv, Step, UNCHANGED worker
    PROVE  NoticeInv'
  <1> USE DEF NoticeInv
  <1>1. WorkerTypeOK' /\ booked \in [Orders -> Nat] /\ LedgerTypeOK
    BY DEF WorkerTypeOK, TypeOK, LedgerTypeOK
  <1>2. CASE TraderStep /\ UNCHANGED <<supVars, upsets>>
    <2>1. UNCHANGED <<booked, applied, positions>>
      BY <1>2, OthersBookNothing, OthersApplyNothing
    <2> QED BY <1>1, <1>2, <2>1, TraderTypes, NoticeFrame DEF supVars
  <1>3. CASE BrokerStep /\ UNCHANGED <<trader, supVars, upsets>>
    <2>1. UNCHANGED <<booked, applied, positions>>
      BY <1>3, OthersBookNothing, OthersApplyNothing
    <2>2. TypeOK' /\ Hands'
      BY <1>3, BrokerTypes DEF Hands, supVars
    <2> QED BY <1>1, <1>3, <2>1, <2>2, NoticeFrame DEF supVars
  <1>4. CASE RequestCancelBuys \/ GateChanges
    <2>1. UNCHANGED <<booked, applied, positions, trader, supVars>>
      BY <1>4 DEF RequestCancelBuys, GateChanges
    <2>2. TypeOK' /\ Hands'
      BY <1>4, <2>1, UpsetTypes DEF Hands, supVars
    <2> QED BY <1>1, <2>1, <2>2, NoticeFrame DEF supVars
  <1>5. CASE RecMaterializeRead /\ UNCHANGED <<trader, upsets>>
    <2>1. supPc = "matread" /\ mat' = MaterializeRead(cur) /\ cur' = cur
      BY <1>5 DEF RecMaterializeRead
    <2>2. cur \in Orders
      BY <2>1 DEF Hands
    <2>3. ReadIn(applied, booked, cur', mat')
      BY <1>1, <2>1, <2>2, ReadIsIn
    <2>4. TypeOK' /\ Hands' /\ UNCHANGED <<booked, applied, positions>>
      BY <1>5, QuietPassTypes DEF QuietPass
    <2> QED BY <1>1, <2>3, <2>4, NoticeFrame
  <1>6. CASE RecMaterialize /\ UNCHANGED <<trader, upsets>>
    <2>1. /\ supPc = "matwrite" /\ supPc' = "reconcile" /\ cur' = None /\ mat' = NoRead
          /\ MaterializeOrderFills(cur, mat)
          /\ UNCHANGED <<orders, fillIds, booked, marker, meta, brokerVars, snap, acct, local, todo>>
      BY <1>6 DEF RecMaterialize
    <2>2. cur \in Orders /\ mat \in MaterializeReads /\ ReadIn(applied, booked, cur, mat)
      BY <2>1 DEF Hands, TypeOK, SupTypeOK
    <2>3. /\ positions' \in [Buys -> PositionRow] /\ applied' \in [Orders -> Nat]
          /\ \A x \in Orders : applied'[x] <= booked[x]
          /\ \A b \in Buys : LoneIn(applied', b) => PositionIn(applied', positions', b)
          /\ \A x \in Orders, r \in MaterializeReads :
                ReadIn(applied, booked, x, r) => ReadIn(applied', booked, x, r)
      BY <1>1, <2>1, <2>2, WriteKeeps
    <2>4. AppliedIsBooked' /\ LonePositions'
      BY <2>1, <2>3 DEF AppliedIsBooked, LonePositions
    <2>5. worker'.pc = "matwrite" => ReadIn(applied', booked', worker'.o, worker'.read)
      <3>1. worker.read \in MaterializeReads /\ (worker.pc # "idle" => worker.o \in Orders)
        BY DEF WorkerTypeOK, Hands
      <3> QED BY <2>1, <2>3, <3>1
    <2>6. pass' \in PassType
      <3>1. pass \in PassType
        BY DEF TypeOK, SupTypeOK, PassType
      <3>2. (pass.problem \/ MaterializeRaises(cur, mat)) \in BOOLEAN
        BY <3>1 DEF PassType
      <3> QED BY <1>6, <3>1, <3>2 DEF RecMaterialize, PassType
    <2>7. SupTypeOK' /\ LedgerTypeOK' /\ BrokerTypeOK'
      BY <2>1, <2>3, <2>6, NothingHeldType
         DEF TypeOK, SupTypeOK, SupPcs, PassType, LedgerTypeOK, BrokerTypeOK, brokerVars
    <2>8. TypeOK' /\ Hands'
      BY <1>6, <2>1, <2>7 DEF TypeOK, TraderTypeOK, Hands
    <2> QED BY <1>1, <2>1, <2>4, <2>5, <2>8
  <1>7. CASE SupervisorStep /\ UNCHANGED <<trader, upsets>> /\ ~RecMaterialize /\ ~RecMaterializeRead
    <2>1. supPc' # "matwrite"
      BY <1>7, SupervisorAppliesNothing
    <2>2. /\ TypeOK' /\ Hands' /\ UNCHANGED <<applied, positions>>
          /\ \A x \in Orders : booked[x] <= booked'[x]
      <3>1. CASE QuietPass
        BY <1>1, <1>7, <3>1, QuietPassTypes
      <3>2. CASE \/ RecStatus \/ CancelAmbiguous
                 \/ \E o \in Orders : \/ RecBook(o) \/ CancelUnlisted(o)
                                      \/ ManageMarked(o) \/ CancelMark(o)
        BY <1>7, <3>2, RowPassTypes
      <3> QED BY <1>7, <3>1, <3>2 DEF SupervisorStep, QuietPass
    <2> QED BY <1>1, <2>1, <2>2, NoticeFrame
  <1> QED BY <1>2, <1>3, <1>4, <1>5, <1>6, <1>7 DEF Step

\* The worker's own steps.
LEMMA WorkerNotices ==
    ASSUME NoticeInv, NoticeStep
    PROVE  NoticeInv'
  <1> USE DEF NoticeInv
  <1>1. /\ LedgerTypeOK /\ meta \in Meta /\ booked \in [Orders -> Nat]
        /\ orders \in [Orders -> OrderRow] /\ broker \in [Orders -> BrokerRow]
    BY DEF TypeOK, LedgerTypeOK, BrokerTypeOK
  <1> DEFINE W == [pc: {"idle", "act", "matread", "matwrite"},
                   kind: {"none", "ACCEPTED", "FILLED", "REJECTED"},
                   o: Orders \cup {None}, n: Nat, row: OrderRow, fills: Nat,
                   known: BOOLEAN, read: MaterializeReads]
  <1>2. worker \in W
    BY DEF WorkerTypeOK
  <1>3. UNCHANGED Rest /\ marker' = marker
    BY DEF NoticeStep, NoticeUnmatched, NoticeReceive, NoticeAccepted, NoticeRejected,
           NoticeDuplicate, NoticeFilled, NoticeMaterializeRead, NoticeMaterialize, ledgerVars
  <1>4. WorkerIdle \in W /\ WorkerIdle.pc = "idle"
    BY NothingHeldType DEF WorkerIdle, NoRow, OrderRow, Statuses
  <1>5. (worker.pc # "idle") => ToMaterialize \in W /\ ToMaterialize.pc = "matread" /\ ToMaterialize.o = worker.o
    BY <1>2, NothingHeldType DEF ToMaterialize, WorkerIdle, NoRow, OrderRow, Statuses
  \* The types, given those of what the worker writes.
  <1>6. ASSUME worker' \in W, worker'.pc # "idle" => worker'.o \in Orders, LedgerTypeOK'
        PROVE  TypeOK' /\ WorkerTypeOK' /\ Hands'
    BY <1>3, <1>6 DEF Rest, TypeOK, BrokerTypeOK, brokerVars, TraderTypeOK, SupTypeOK, supVars,
       WorkerTypeOK, Hands
  \* A step that applies nothing and reads nothing.
  <1>7. ASSUME worker' \in W, worker'.pc # "idle" => worker'.o \in Orders, worker'.pc # "matwrite",
               LedgerTypeOK', UNCHANGED <<applied, positions>>,
               \A x \in Orders : booked[x] <= booked'[x]
        PROVE  NoticeInv'
    BY <1>3, <1>6, <1>7, NoticeFrame DEF Rest, supVars
  <1>8. ASSUME Block PROVE meta' \in Meta
    BY <1>1, <1>8 DEF Block, Meta
  <1>9. ASSUME NEW o \in Orders, NoticeUnmatched(o) PROVE NoticeInv'
    <2>1. LedgerTypeOK' /\ UNCHANGED <<booked, applied, positions, worker>>
      BY <1>1, <1>8, <1>9 DEF NoticeUnmatched, LedgerTypeOK
    <2>2. worker'.pc = "idle"
      BY <1>9, <2>1 DEF NoticeUnmatched
    <2> QED BY <1>1, <1>2, <1>7, <2>1, <2>2
  <1>10. ASSUME NEW o \in Orders, NEW kn \in Notices(o), NoticeReceive(o, kn[1], kn[2])
         PROVE  NoticeInv'
    <2>1. kn[1] \in {"ACCEPTED", "FILLED", "REJECTED"} /\ kn[2] \in Nat
      BY <1>1, <1>10 DEF Notices, BrokerRow
    <2>2. (KisFillId(o, kn[2]) \in fillIds) \in BOOLEAN
      OBVIOUS
    <2>3. worker' \in W /\ worker'.pc = "act" /\ worker'.o = o
      BY <1>1, <1>10, <2>1, <2>2, NothingHeldType DEF NoticeReceive
    <2>4. LedgerTypeOK' /\ UNCHANGED <<booked, applied, positions>>
      BY <1>1, <1>10 DEF NoticeReceive, ledgerVars, LedgerTypeOK
    <2> QED BY <1>1, <1>7, <2>3, <2>4
  <1>11. CASE NoticeAccepted
    <2>1. LedgerTypeOK' /\ UNCHANGED <<booked, applied, positions>> /\ worker' = WorkerIdle
      BY <1>1, <1>8, <1>11 DEF NoticeAccepted, LedgerTypeOK
    <2> QED BY <1>1, <1>4, <1>7, <2>1
  <1>12. CASE NoticeRejected
    <2>1. worker.o \in Orders
      BY <1>12 DEF NoticeRejected, Acting, Hands
    <2>2. "REJECTED" \in Statuses /\ 0 \in Nat
      BY DEF Statuses, Terminal
    <2>3. orders' \in [Orders -> OrderRow] /\ meta' \in Meta
      BY <1>1, <1>8, <1>12, <2>1, <2>2, RowTypes DEF NoticeRejected
    <2>4. LedgerTypeOK' /\ UNCHANGED <<booked, applied, positions>> /\ worker' = WorkerIdle
      BY <1>1, <1>12, <2>3 DEF NoticeRejected, LedgerTypeOK
    <2> QED BY <1>1, <1>4, <1>7, <2>4
  <1>13. CASE NoticeDuplicate
    <2>1. LedgerTypeOK' /\ UNCHANGED <<booked, applied, positions>>
      BY <1>1, <1>13 DEF NoticeDuplicate, ledgerVars, LedgerTypeOK
    <2>2. worker.pc # "idle" /\ worker.o \in Orders
      BY <1>13 DEF NoticeDuplicate, Acting, Hands
    <2>3. worker' = ToMaterialize \/ worker' = WorkerIdle
      BY <1>13 DEF NoticeDuplicate
    <2> QED BY <1>1, <1>4, <1>5, <1>7, <2>1, <2>2, <2>3
  <1>14. CASE NoticeFilled
    <2> DEFINE id == KisFillId(worker.o, worker.n)
    <2>1. worker.pc # "idle" /\ worker.o \in Orders
      BY <1>14 DEF NoticeFilled, Acting, Hands
    <2>2. id \in FillId
      BY <1>2, <2>1 DEF KisFillId, FillId
    <2>3. /\ orders' \in [Orders -> OrderRow] /\ fillIds' \subseteq FillId
          /\ booked' \in [Orders -> Nat] /\ \A x \in Orders : booked[x] <= booked'[x]
      <3>1. CASE UNCHANGED <<orders, fillIds, booked>>
        BY <1>1, <3>1 DEF LedgerTypeOK
      <3>2. CASE ApplyBrokerFill(worker.o, id, 1)
        BY <2>1, <2>2, <3>2, FillTypes
      <3> QED BY <1>14, <3>1, <3>2 DEF NoticeFilled
    <2>4. meta' \in Meta /\ UNCHANGED <<applied, positions>>
          /\ (worker' = ToMaterialize \/ worker' = WorkerIdle)
      BY <1>1, <1>8, <1>14 DEF NoticeFilled
    <2>5. LedgerTypeOK'
      BY <1>1, <1>3, <2>3, <2>4 DEF LedgerTypeOK
    <2> QED BY <1>4, <1>5, <1>7, <2>1, <2>3, <2>4, <2>5
  <1>15. CASE NoticeMaterializeRead
    <2>1. worker.pc = "matread" /\ worker.o \in Orders
      BY <1>15 DEF NoticeMaterializeRead, Hands
    <2>2. MaterializeRead(worker.o) \in MaterializeReads
      BY <1>1, <2>1, MaterializeReadType
    <2>3. /\ worker' \in W /\ worker'.pc = "matwrite" /\ worker'.o = worker.o
          /\ worker'.read = MaterializeRead(worker.o)
      BY <1>2, <1>15, <2>2 DEF NoticeMaterializeRead
    <2>4. LedgerTypeOK' /\ UNCHANGED <<booked, applied, positions>>
      BY <1>1, <1>15 DEF NoticeMaterializeRead, ledgerVars, LedgerTypeOK
    <2>5. ReadIn(applied, booked, worker'.o, worker'.read)
      BY <1>1, <2>1, <2>3, ReadIsIn
    <2>6. TypeOK' /\ WorkerTypeOK' /\ Hands'
      BY <1>6, <2>1, <2>3, <2>4
    <2> QED BY <1>1, <1>3, <2>4, <2>5, <2>6, NoticeFrame DEF Rest, supVars
  <1>16. CASE NoticeMaterialize
    <2>1. /\ worker.pc = "matwrite" /\ MaterializeOrderFills(worker.o, worker.read)
          /\ worker' = WorkerIdle /\ UNCHANGED <<orders, fillIds, booked>>
      BY <1>16 DEF NoticeMaterialize
    <2>2. worker.o \in Orders /\ worker.read \in MaterializeReads
          /\ ReadIn(applied, booked, worker.o, worker.read)
      BY <1>2, <2>1 DEF Hands
    <2>3. /\ positions' \in [Buys -> PositionRow] /\ applied' \in [Orders -> Nat]
          /\ \A x \in Orders : applied'[x] <= booked[x]
          /\ \A b \in Buys : LoneIn(applied', b) => PositionIn(applied', positions', b)
          /\ \A x \in Orders, r \in MaterializeReads :
                ReadIn(applied, booked, x, r) => ReadIn(applied', booked, x, r)
      BY <1>1, <2>1, <2>2, WriteKeeps
    <2>4. AppliedIsBooked' /\ LonePositions'
      BY <2>1, <2>3 DEF AppliedIsBooked, LonePositions
    <2>5. supPc' = "matwrite" => ReadIn(applied', booked', cur', mat')
      <3>1. mat \in MaterializeReads /\ (supPc = "matwrite" => cur \in Orders)
        BY DEF TypeOK, SupTypeOK, Hands
      <3>2. UNCHANGED <<supPc, cur, mat>>
        BY <1>3 DEF Rest, supVars
      <3> QED BY <2>1, <2>3, <3>1, <3>2
    <2>6. meta' \in Meta
      BY <1>1, <1>8, <1>16 DEF NoticeMaterialize
    <2>7. LedgerTypeOK'
      BY <1>1, <1>3, <2>1, <2>3, <2>6 DEF LedgerTypeOK
    <2>8. TypeOK' /\ WorkerTypeOK' /\ Hands'
      BY <1>4, <1>6, <2>1, <2>7
    <2> QED BY <1>4, <2>1, <2>4, <2>5, <2>8
  <1> QED BY <1>9, <1>10, <1>11, <1>12, <1>13, <1>14, <1>15, <1>16 DEF NoticeStep

\* The invariant holds from the start, where nothing is stored.
LEMMA NoticeStart == NInit => NoticeInv
  <1> SUFFICES ASSUME NInit PROVE NoticeInv
    OBVIOUS
  <1>1. IInv /\ worker = WorkerIdle
    BY InitInv DEF NInit
  <1>2. /\ applied = [o \in Orders |-> 0] /\ booked = [o \in Orders |-> 0]
        /\ positions = [b \in Buys |-> [st |-> "NONE", qty |-> 0]]
        /\ supPc = "idle" /\ trader.pc = "idle" /\ worker.pc = "idle"
    BY <1>1 DEF NInit, Init, LedgerInit, SupInit, TraderInit, TraderIdle, WorkerIdle
  <1>3. TypeOK /\ WorkerTypeOK /\ Hands
    BY <1>1, <1>2, NothingHeldType DEF IInv, WorkerTypeOK, WorkerIdle, NoRow, OrderRow, Statuses,
       Hands
  <1>4. AppliedIsBooked /\ LonePositions
    BY <1>2 DEF AppliedIsBooked, LonePositions, PositionIn, Orders
  <1> QED BY <1>2, <1>3, <1>4 DEF NoticeInv

\* Every step of the three threads, the broker and the operator keeps it.
LEMMA NoticeNext == NoticeInv /\ [NNext]_nvars => NoticeInv'
  <1> SUFFICES ASSUME NoticeInv, [NNext]_nvars PROVE NoticeInv'
    OBVIOUS
  <1>1. CASE Step /\ UNCHANGED worker
    BY <1>1, StepNotices
  <1>2. CASE NoticeStep
    BY <1>2, WorkerNotices
  <1>3. CASE Crash /\ worker' = WorkerIdle
    <2>1. UNCHANGED <<booked, applied, positions>>
      BY <1>3, OthersBookNothing, OthersApplyNothing
    <2>2. supPc' = "idle" /\ trader'.pc = "idle" /\ worker'.pc = "idle"
      BY <1>3 DEF Crash, SupReset, TraderIdle, WorkerIdle
    <2>3. TypeOK' /\ WorkerTypeOK' /\ Hands'
      BY <1>3, <2>2, UpsetTypes, NothingHeldType
         DEF NoticeInv, WorkerTypeOK, WorkerIdle, NoRow, OrderRow, Statuses, Hands
    <2>4. \A x \in Orders : booked[x] <= booked'[x]
      BY <2>1 DEF NoticeInv, TypeOK, LedgerTypeOK
    <2> QED BY <2>1, <2>2, <2>3, <2>4, NoticeFrame
  <1>4. CASE UNCHANGED nvars
    <2>1. UNCHANGED <<ledgerVars, brokerVars, trader, supVars, upsets, worker>>
      BY <1>4 DEF nvars, vars
    <2>2. UNCHANGED <<booked, applied, positions, supPc, cur, mat>>
      BY <2>1 DEF ledgerVars, supVars
    <2>3. TypeOK' /\ WorkerTypeOK' /\ Hands'
      BY <2>1 DEF NoticeInv, TypeOK, LedgerTypeOK, BrokerTypeOK, TraderTypeOK, SupTypeOK,
         WorkerTypeOK, Hands, ledgerVars, brokerVars, supVars
    <2>4. \A x \in Orders : booked[x] <= booked'[x]
      BY <2>2 DEF NoticeInv, TypeOK, LedgerTypeOK
    <2> QED BY <2>1, <2>2, <2>3, <2>4, NoticeFrame DEF NoticeInv
  <1> QED BY <1>1, <1>2, <1>3, <1>4 DEF NNext

\* The inductive invariant of FillNotices holds for any symbols, orders and lots,
\* with the notice worker and the supervisor storing and applying fills side by
\* side and any number of crashes.
THEOREM NoticeInvariance == NSpec => []NoticeInv
  BY NoticeStart, NoticeNext, PTL DEF NSpec

\* Every variable keeps its type with the notice worker running, too.
THEOREM NoticeTypeCorrect == NSpec => []NTypeOK
  <1>1. NoticeInv => NTypeOK
    BY DEF NoticeInv, NTypeOK
  <1> QED BY <1>1, NoticeInvariance, PTL

\* The bought shares of a symbol with a lone entry are those applied of it.
LEMMA LoneShares ==
    ASSUME LedgerTypeOK, NEW o \in Buys, \A b \in Buys : Sym(b) = Sym(o) /\ b # o => applied[b] = 0
    PROVE  BoughtShares(Sym(o)) = applied[o]
  <1> DEFINE B == {b \in Buys : Sym(b) = Sym(o)}
             z == [x \in Orders |-> 0]
  <1>1. B \in SUBSET Orders /\ o \in B /\ BoughtShares(Sym(o)) = SumFunctionOnSet(applied, B)
    BY DEF Orders, BoughtShares
  <1>2. applied \in [Orders -> Nat] /\ \A x \in B \ {o} : applied[x] = 0
    BY DEF LedgerTypeOK
  <1> HIDE DEF B
  <1>3. IsFiniteSet(B)
    BY <1>1, OrdersAssumption, FS_Subset
  <1>4. \A x \in B : z[x] = 0 /\ applied[x] \in Nat
    BY <1>1, <1>2
  <1>5. SumFunctionOnSet(z, B) = 0
    BY <1>3, <1>4, SumOfZeros
  <1>6. TermsDiffer(B, z, applied, o, applied[o])
    BY <1>1, <1>2, <1>4 DEF TermsDiffer
  <1>7. applied[o] \in Int
    BY <1>1, <1>4
  <1> HIDE DEF z
  <1>8. SumFunctionOnSet(applied, B) = SumFunctionOnSet(z, B) + (IF o \in B THEN applied[o] ELSE 0)
    BY <1>3, <1>4, <1>6, <1>7, SumUpdate
  <1> QED BY <1>1, <1>5, <1>7, <1>8

\* The position of a symbol whose one entry is being filled, with nothing sold,
\* is exactly what was applied, although two threads apply fills from reads made
\* before their write transactions.
THEOREM EntriesFollowFills == NSpec => []EntriesMatchFills
  <1>1. NoticeInv => EntriesMatchFills
    <2> SUFFICES ASSUME NoticeInv, NEW sym \in Symbols, SoldShares(sym) = 0, OneEntryApplied(sym)
                 PROVE  OpenQty(sym) = BoughtShares(sym)
      BY DEF EntriesMatchFills
    <2>0. LedgerTypeOK /\ applied \in [Orders -> Nat]
      BY DEF NoticeInv, TypeOK, LedgerTypeOK
    <2>1. ASSUME NEW o \in Buys, Sym(o) = sym, \A b \in Buys : Sym(b) = sym /\ b # o => applied[b] = 0
          PROVE  OpenQty(sym) = BoughtShares(sym)
      <3>1. BoughtShares(sym) = applied[o] /\ applied[o] \in Nat
        BY <2>0, <2>1, LoneShares DEF Orders
      <3>2. LoneIn(applied, o)
        BY <2>1 DEF LoneIn, SoldShares
      <3>3. PositionIn(applied, positions, o)
        BY <3>2 DEF NoticeInv, LonePositions
      <3>4. CASE applied[o] = 0
        <4>1. OpenPositions(sym) = {}
          BY <2>1, <3>3, <3>4 DEF PositionIn, OpenPositions, Sym
        <4> QED BY <3>1, <3>4, <4>1, TheOpenPosition
      <3>5. CASE applied[o] # 0
        <4>1. OpenPositions(sym) = {o}
          BY <2>1, <3>1, <3>3, <3>5 DEF PositionIn, OpenPositions, Sym
        <4> QED BY <3>1, <3>3, <3>5, <4>1, TheOpenPosition DEF PositionIn
      <3> QED BY <3>4, <3>5
    <2>2. CASE \E o \in Buys : Sym(o) = sym
      <3>1. CASE \E o \in Buys : Sym(o) = sym /\ applied[o] > 0
        <4>1. PICK o \in Buys : Sym(o) = sym /\ applied[o] > 0
          BY <3>1
        <4>2. \A b \in Buys : Sym(b) = sym /\ b # o => applied[b] = 0
          BY <2>0, <4>1 DEF OneEntryApplied, Orders
        <4> QED BY <2>1, <4>1, <4>2
      <3>2. CASE ~\E o \in Buys : Sym(o) = sym /\ applied[o] > 0
        <4>1. \A b \in Buys : Sym(b) = sym => applied[b] = 0
          BY <2>0, <3>2 DEF Orders
        <4> QED BY <2>1, <2>2, <4>1
      <3> QED BY <3>1, <3>2
    <2>3. CASE ~\E o \in Buys : Sym(o) = sym
      <3> DEFINE B == {b \in Buys : Sym(b) = sym}
      <3>1. B = {} /\ BoughtShares(sym) = SumFunctionOnSet(applied, B)
        BY <2>3 DEF BoughtShares
      <3> HIDE DEF B
      <3>2. IsFiniteSet(B) /\ \A x \in B : applied[x] = 0
        BY <3>1, FS_EmptySet
      <3>3. BoughtShares(sym) = 0
        BY <3>1, <3>2, SumOfZeros
      <3>4. OpenPositions(sym) = {}
        BY <2>3 DEF OpenPositions, Sym
      <3> QED BY <3>3, <3>4 DEF OpenQty, OpenPosition
    <2> QED BY <2>2, <2>3
  <1> QED BY <1>1, NoticeInvariance, PTL

-----------------------------------------------------------------------------
(* What is counted twice                                                   *)

\* Noticed, of broker records B and fill ids F.
NoticedIn(B, F) ==
    [o \in Orders |-> Cardinality({n \in 1..B[o].filled : KisFillId(o, n) \in F})]

\* The worker's fills are of shares that traded.
TradedIn(B, F) ==
    \A o \in Orders : \A n \in Nat : KisFillId(o, n) \in F => n \in 1..B[o].filled

\* They are finitely many, no more than the shares that traded.
LEMMA NoticedType ==
    ASSUME NEW B \in [Orders -> BrokerRow], NEW F
    PROVE  /\ NoticedIn(B, F) \in [Orders -> Nat]
           /\ \A o \in Orders :
                /\ IsFiniteSet({n \in 1..B[o].filled : KisFillId(o, n) \in F})
                /\ NoticedIn(B, F)[o] = Cardinality({n \in 1..B[o].filled : KisFillId(o, n) \in F})
                /\ NoticedIn(B, F)[o] <= B[o].filled
  <1>1. ASSUME NEW o \in Orders
        PROVE  /\ IsFiniteSet({n \in 1..B[o].filled : KisFillId(o, n) \in F})
               /\ Cardinality({n \in 1..B[o].filled : KisFillId(o, n) \in F}) \in Nat
               /\ Cardinality({n \in 1..B[o].filled : KisFillId(o, n) \in F}) <= B[o].filled
    <2> DEFINE f == B[o].filled
               T == {n \in 1..f : KisFillId(o, n) \in F}
    <2>1. f \in Nat
      BY DEF BrokerRow
    <2>2. T \in SUBSET (1..f)
      OBVIOUS
    <2> HIDE DEF T, f
    <2>3. IsFiniteSet(1..f) /\ Cardinality(1..f) = IF 1 > f THEN 0 ELSE f - 1 + 1
      BY <2>1, FS_Interval
    <2>4. IsFiniteSet(T) /\ Cardinality(T) <= Cardinality(1..f)
      BY <2>2, <2>3, FS_Subset
    <2>5. Cardinality(T) \in Nat
      BY <2>4, FS_CardinalityType
    <2>6. Cardinality(T) <= f
      BY <2>1, <2>3, <2>4, <2>5
    <2> QED BY <2>4, <2>5, <2>6 DEF T, f
  <1> QED BY <1>1 DEF NoticedIn

\* A step that stores no fill of the worker's counts as before, and so for the
\* orders a new one is not of.
LEMMA NoticedKept ==
    ASSUME NEW B \in [Orders -> BrokerRow], NEW C \in [Orders -> BrokerRow], NEW F, NEW G,
           TradedIn(B, F), NEW o \in Orders, B[o].filled <= C[o].filled,
           \A n \in Nat : KisFillId(o, n) \in G <=> KisFillId(o, n) \in F
    PROVE  /\ NoticedIn(C, G)[o] = NoticedIn(B, F)[o]
           /\ \A n \in Nat : KisFillId(o, n) \in G => n \in 1..C[o].filled
  <1>1. B[o].filled \in Nat /\ C[o].filled \in Nat
    BY DEF BrokerRow
  <1>2. {n \in 1..C[o].filled : KisFillId(o, n) \in G} = {n \in 1..B[o].filled : KisFillId(o, n) \in F}
    BY <1>1 DEF TradedIn
  <1>3. NoticedIn(C, G)[o] = NoticedIn(B, F)[o]
    BY <1>2 DEF NoticedIn
  <1> QED BY <1>1, <1>3 DEF TradedIn

\* A new fill of the worker's is one more.
LEMMA NoticedMore ==
    ASSUME NEW B \in [Orders -> BrokerRow], NEW F, NEW o \in Orders, NEW k \in 1..B[o].filled,
           KisFillId(o, k) \notin F
    PROVE  NoticedIn(B, F \cup {KisFillId(o, k)})[o] = NoticedIn(B, F)[o] + 1
  <1> DEFINE T == {n \in 1..B[o].filled : KisFillId(o, n) \in F}
             U == {n \in 1..B[o].filled : KisFillId(o, n) \in F \cup {KisFillId(o, k)}}
  <1>1. U = T \cup {k} /\ k \notin T
    BY DEF KisFillId
  <1>2. IsFiniteSet(T)
    BY NoticedType
  <1> HIDE DEF T, U
  <1>3. Cardinality(U) = Cardinality(T) + 1
    BY <1>1, <1>2, FS_AddElement
  <1> QED BY <1>3 DEF NoticedIn, T, U

\* With one stored there is one.
LEMMA NoticedSome ==
    ASSUME NEW B \in [Orders -> BrokerRow], NEW F, NEW o \in Orders, NEW k \in 1..B[o].filled,
           KisFillId(o, k) \in F
    PROVE  NoticedIn(B, F)[o] > 0
  <1> DEFINE T == {n \in 1..B[o].filled : KisFillId(o, n) \in F}
  <1>1. T # {}
    OBVIOUS
  <1>2. IsFiniteSet(T) /\ NoticedIn(B, F)[o] = Cardinality(T) /\ NoticedIn(B, F)[o] \in Nat
    BY NoticedType
  <1> HIDE DEF T
  <1>3. Cardinality(T) # 0
    BY <1>1, <1>2, FS_EmptySet
  <1> QED BY <1>2, <1>3

-----------------------------------------------------------------------------
(* The inductive invariant                                                 *)

\* What a ledger row says about the broker: as in OrderFlow, but that a row of
\* a working order may be FILLED when it counts the requested quantity.
RowsTold ==
    \A o \in Orders :
        /\ orders[o].status \in {"NONE", "INTENT"} => sent[o] = 0
        /\ orders[o].status \in {"NONE", "INTENT", "SUBMITTING"} => ~orders[o].bid
        /\ orders[o].status \notin {"NONE", "INTENT", "SUBMITTING", "UNKNOWN"} => orders[o].bid
        /\ orders[o].bid => broker[o].st # "NONE"
        /\ broker[o].st # "NONE" => sent[o] = 1
        /\ broker[o].st = "NONE" => broker[o].filled = 0
        /\ broker[o].st = "OPEN" => broker[o].filled < orders[o].req
        /\ orders[o].status \in Terminal /\ broker[o].st = "OPEN" =>
             orders[o].status = "FILLED" /\ orders[o].filled = orders[o].req
        /\ ~orders[o].bid => orders[o].filled = 0 /\ Noticed[o] = 0

\* What was booked but not by the worker is in the row's quantity and did
\* trade; that quantity exceeds what traded by no more than the worker booked.
RowsCounted ==
    \A o \in Orders :
        /\ Noticed[o] <= booked[o]
        /\ booked[o] <= orders[o].filled + Noticed[o]
        /\ booked[o] <= broker[o].filled + Noticed[o]
        /\ orders[o].filled <= broker[o].filled + Noticed[o]
        /\ orders[o].filled <= orders[o].req

\* A pass holds an order list that is old but true, with everything that
\* earlier passes booked.
ListTrue ==
    supPc \in Reading =>
        \A o \in Orders :
            /\ snap[o].st # "NONE" => broker[o].st # "NONE"
            /\ snap[o].st \in Terminal => broker[o].st = snap[o].st
            /\ snap[o].filled <= broker[o].filled
            /\ booked[o] <= snap[o].filled + Noticed[o]
            /\ orders[o].filled <= snap[o].filled + Noticed[o]

\* For a row still to be handled no pass has booked since it was read.
RowsUnbooked ==
    \A o \in todo : /\ booked[o] <= local[o].filled + Noticed[o]
                    /\ orders[o].filled <= local[o].filled + Noticed[o]

\* What the pass's loops rely on: rows selected with a number keep it, and the
\* row in hand was selected and is in the order list.
LoopCounted ==
    /\ \A o \in Orders : local[o].bid => orders[o].bid
    /\ supPc \in {"reconcile", "status", "matread", "matwrite"} => RowsUnbooked
    /\ supPc \in {"status", "matread", "matwrite"} =>
          cur \in Orders \ todo /\ local[cur].bid /\ snap[cur].st # "NONE"
    /\ supPc \in {"send", "store"} => cur \in Orders /\ orders[cur].bid
    /\ (supPc \in {"rowloop", "send", "store"} /\ pass.stage = "operator") =>
          \A o \in todo : orders[o].bid

\* The notice in the worker's hands is about a numbered order, and still true.
WorkerTrue ==
    worker.pc # "idle" =>
        /\ orders[worker.o].bid
        /\ Acting("FILLED") => worker.n \in 1..broker[worker.o].filled
        /\ Acting("REJECTED") => broker[worker.o].st = "REJECTED"
        /\ Acting("FILLED") /\ worker.known => Noticed[worker.o] > 0
        /\ worker.pc \in {"matread", "matwrite"} => Noticed[worker.o] > 0

\* The inductive invariant of OrderFlow with the worker.
CountInv ==
    /\ NoticeInv
    /\ InHand /\ SubmittedAtMostOnce
    /\ TradedIn(broker, fillIds)
    /\ RowsTold /\ RowsCounted
    /\ ListTrue /\ LoopCounted
    /\ WorkerTrue

-----------------------------------------------------------------------------
(* What a step of one thread leaves of what the others know                *)

\* Broker numbers, broker records and the worker's fills only accumulate.
Forward ==
    \A x \in Orders :
        /\ orders[x].bid => orders'[x].bid
        /\ broker[x].st # "NONE" => broker'[x].st # "NONE"
        /\ broker[x].st \in Terminal => broker'[x].st = broker[x].st
        /\ broker[x].filled <= broker'[x].filled
        /\ Noticed[x] <= Noticed'[x]

\* Nothing is booked but by the worker.
NoPassBooks ==
    \A x \in Orders :
        /\ booked'[x] + Noticed[x] = booked[x] + Noticed'[x]
        /\ orders'[x].filled + Noticed[x] <= orders[x].filled + Noticed'[x]

\* The types the counting needs, in both states.
LEMMA CountTypes ==
    ASSUME CountInv, NoticeInv'
    PROVE  /\ orders \in [Orders -> OrderRow] /\ orders' \in [Orders -> OrderRow]
           /\ broker \in [Orders -> BrokerRow] /\ broker' \in [Orders -> BrokerRow]
           /\ booked \in [Orders -> Nat] /\ booked' \in [Orders -> Nat]
           /\ Noticed = NoticedIn(broker, fillIds) /\ Noticed' = NoticedIn(broker', fillIds')
           /\ Noticed \in [Orders -> Nat] /\ Noticed' \in [Orders -> Nat]
           /\ snap \in [Orders -> BrokerRow] /\ local \in [Orders -> OrderRow]
           /\ snap' \in [Orders -> BrokerRow] /\ local' \in [Orders -> OrderRow]
           /\ todo \subseteq Orders /\ todo' \subseteq Orders /\ pass \in PassType
           /\ TypeOK /\ TypeOK' /\ (worker.pc # "idle" => worker.o \in Orders)
  <1>1. TypeOK /\ TypeOK' /\ (worker.pc # "idle" => worker.o \in Orders)
    BY DEF CountInv, NoticeInv, Hands
  <1>2. Noticed = NoticedIn(broker, fillIds) /\ Noticed' = NoticedIn(broker', fillIds')
    BY DEF Noticed, NoticedIn
  <1>3. broker \in [Orders -> BrokerRow] /\ broker' \in [Orders -> BrokerRow]
    BY <1>1 DEF TypeOK, BrokerTypeOK
  <1>4. Noticed \in [Orders -> Nat] /\ Noticed' \in [Orders -> Nat]
    BY <1>2, <1>3, NoticedType
  <1> QED BY <1>1, <1>2, <1>3, <1>4 DEF TypeOK, LedgerTypeOK, SupTypeOK, PassType

\* The same as numbers.
LEMMA CountNats ==
    ASSUME CountInv, NoticeInv', NEW x \in Orders
    PROVE  /\ orders[x].filled \in Nat /\ orders'[x].filled \in Nat
           /\ orders[x].req \in Nat /\ orders'[x].req \in Nat
           /\ broker[x].filled \in Nat /\ broker'[x].filled \in Nat
           /\ booked[x] \in Nat /\ booked'[x] \in Nat
           /\ Noticed[x] \in Nat /\ Noticed'[x] \in Nat
           /\ snap[x].filled \in Nat /\ snap'[x].filled \in Nat
           /\ local[x].filled \in Nat /\ local'[x].filled \in Nat
  BY CountTypes DEF OrderRow, BrokerRow

\* Trading alone, without a new fill id, changes nothing of what was noticed.
LEMMA NoticedStill ==
    ASSUME CountInv, NoticeInv', fillIds' = fillIds,
           \A x \in Orders : broker[x].filled <= broker'[x].filled
    PROVE  /\ \A x \in Orders : Noticed'[x] = Noticed[x]
           /\ TradedIn(broker', fillIds')
  <1>1. /\ broker \in [Orders -> BrokerRow] /\ broker' \in [Orders -> BrokerRow]
        /\ Noticed = NoticedIn(broker, fillIds) /\ Noticed' = NoticedIn(broker', fillIds)
    BY CountTypes
  <1>2. TradedIn(broker, fillIds)
    BY DEF CountInv
  <1>3. ASSUME NEW x \in Orders
        PROVE  /\ NoticedIn(broker', fillIds)[x] = NoticedIn(broker, fillIds)[x]
               /\ \A n \in Nat : KisFillId(x, n) \in fillIds => n \in 1..broker'[x].filled
    <2>1. broker[x].filled <= broker'[x].filled
      OBVIOUS
    <2> QED BY <1>1, <1>2, <2>1, NoticedKept
  <1> QED BY <1>1, <1>3 DEF TradedIn

\* What the supervisor knows survives such a step of another thread.
LEMMA PassSurvives ==
    ASSUME CountInv, NoticeInv', Forward, NoPassBooks, UNCHANGED supVars
    PROVE  ListTrue' /\ LoopCounted'
  <1>1. UNCHANGED <<supPc, snap, local, todo, cur, pass>>
    BY DEF supVars
  <1>2. ListTrue'
    <2> SUFFICES ASSUME supPc \in Reading, NEW o \in Orders
                 PROVE  /\ snap[o].st # "NONE" => broker'[o].st # "NONE"
                        /\ snap[o].st \in Terminal => broker'[o].st = snap[o].st
                        /\ snap[o].filled <= broker'[o].filled
                        /\ booked'[o] <= snap[o].filled + Noticed'[o]
                        /\ orders'[o].filled <= snap[o].filled + Noticed'[o]
      BY <1>1 DEF ListTrue
    <2>1. /\ snap[o].st # "NONE" => broker[o].st # "NONE"
          /\ snap[o].st \in Terminal => broker[o].st = snap[o].st
          /\ snap[o].filled <= broker[o].filled
          /\ booked[o] <= snap[o].filled + Noticed[o]
          /\ orders[o].filled <= snap[o].filled + Noticed[o]
      BY DEF CountInv, ListTrue
    <2> QED BY <2>1, CountNats DEF Forward, NoPassBooks
  <1>3. RowsUnbooked => RowsUnbooked'
    <2> SUFFICES ASSUME NEW o \in todo, RowsUnbooked
                 PROVE  /\ booked'[o] <= local[o].filled + Noticed'[o]
                        /\ orders'[o].filled <= local[o].filled + Noticed'[o]
      BY <1>1 DEF RowsUnbooked
    <2>1. o \in Orders
      BY CountTypes
    <2> QED BY <2>1, CountNats DEF NoPassBooks, RowsUnbooked
  <1>4. LoopCounted'
    BY <1>1, <1>3, CountTypes DEF CountInv, LoopCounted, Forward
  <1> QED BY <1>2, <1>4

\* What the worker knows survives any step of another thread.
LEMMA WorkerSurvives ==
    ASSUME CountInv, NoticeInv', Forward, UNCHANGED worker
    PROVE  WorkerTrue'
  <1> SUFFICES ASSUME worker.pc # "idle"
               PROVE  /\ orders'[worker.o].bid
                      /\ Acting("FILLED") => worker.n \in 1..broker'[worker.o].filled
                      /\ Acting("REJECTED") => broker'[worker.o].st = "REJECTED"
                      /\ Acting("FILLED") /\ worker.known => Noticed'[worker.o] > 0
                      /\ worker.pc \in {"matread", "matwrite"} => Noticed'[worker.o] > 0
    BY DEF WorkerTrue, Acting
  <1>1. worker.o \in Orders
    BY CountTypes
  <1> QED BY <1>1, CountNats DEF CountInv, WorkerTrue, Forward, Terminal

\* What the trading thread knows survives a step that leaves unnumbered rows.
LEMMA HandSurvives ==
    ASSUME CountInv, UNCHANGED <<trader, sent>>,
           \A x \in Orders : /\ ~orders[x].bid => orders'[x] = orders[x]
                             /\ broker[x].st # "NONE" => broker'[x].st # "NONE"
    PROVE  InHand' /\ SubmittedAtMostOnce'
  <1>1. \A x \in Orders : orders[x].status \in {"INTENT", "SUBMITTING"} => orders'[x] = orders[x]
    BY DEF CountInv, RowsTold
  <1> QED BY <1>1 DEF CountInv, InHand, SubmittedAtMostOnce

\* A step that writes no row, books nothing and tells the broker nothing.
LEMMA QuietSurvives ==
    ASSUME CountInv, UNCHANGED <<orders, broker, sent, fillIds, booked>>
    PROVE  /\ Noticed' = Noticed /\ TradedIn(broker', fillIds') /\ RowsTold' /\ RowsCounted'
           /\ SubmittedAtMostOnce'
  <1>1. Noticed' = Noticed
    BY DEF Noticed
  <1>2. TradedIn(broker', fillIds')
    BY DEF CountInv
  <1>3. RowsTold' /\ RowsCounted' /\ SubmittedAtMostOnce'
    BY <1>1 DEF CountInv, RowsTold, RowsCounted, SubmittedAtMostOnce
  <1> QED BY <1>1, <1>2, <1>3

\* A step that writes neither ledger rows nor broker records takes nothing back.
LEMMA QuietForward ==
    ASSUME CountInv, NoticeInv', UNCHANGED <<orders, broker, sent, fillIds, booked>>
    PROVE  Forward /\ NoPassBooks
  <1>1. Noticed' = Noticed
    BY DEF Noticed
  <1> QED BY <1>1, CountNats DEF Forward, NoPassBooks

-----------------------------------------------------------------------------
(* The trading thread                                                      *)

\* Steps that write no row and send nothing.
LEMMA TraderQuietCounts ==
    ASSUME CountInv, NoticeInv', UNCHANGED <<supVars, upsets, worker>>,
           \/ CycleStart \/ CycleEnd \/ Decline
           \/ \E b \in Buys : EnterStart(b) \/ ExitExhausted(b)
           \/ \E s \in Sells : ExitStart(s)
           \/ GuardCheck \/ GuardRecheck
    PROVE  CountInv'
  <1>1. UNCHANGED <<orders, broker, sent, fillIds, booked>>
    BY DEF CycleStart, CycleEnd, Decline, EnterStart, ExitExhausted, ExitStart, GuardCheck,
           GuardRecheck, ledgerVars, brokerVars
  <1>2. trader \in [pc: TraderPcs, o: Orders \cup {None}, q: Nat, left: SUBSET Symbols]
    BY CountTypes DEF TypeOK, TraderTypeOK
  <1>3. \/ trader'.pc \in {"idle", "cycle", "deciding", "quoting"}
        \/ /\ trader'.o = trader.o /\ trader'.q = trader.q
           /\ \/ trader.pc = "submitting" /\ trader'.pc = "checked" /\ GuardPasses
              \/ trader.pc = "checked" /\ trader'.pc = "cleared"
              \/ trader.pc \in {"submitting", "checked"} /\ trader'.pc = "failed"
    <2>1. ASSUME CycleStart \/ CycleEnd
          PROVE  trader'.pc \in {"idle", "cycle", "deciding", "quoting"}
      <3>1. trader' = TraderIdle
            \/ trader' = [pc |-> "cycle", o |-> None, q |-> 0, left |-> Symbols]
        BY <2>1 DEF CycleStart, CycleEnd, TraderIdle
      <3> QED BY <3>1 DEF TraderIdle
    <2>2. ASSUME Decline
          PROVE  trader'.pc \in {"idle", "cycle", "deciding", "quoting"}
      BY <2>2, CountTypes, DoneIdle DEF Decline
    <2>3. ASSUME NEW b \in Buys, EnterStart(b) \/ ExitExhausted(b)
          PROVE  trader'.pc \in {"idle", "cycle", "deciding", "quoting"}
      BY <1>2, <2>3 DEF EnterStart, ExitExhausted, Attempt, Turn, At, TraderIdle
    <2>4. ASSUME NEW s \in Sells, ExitStart(s)
          PROVE  trader'.pc \in {"idle", "cycle", "deciding", "quoting"}
      BY <2>4 DEF ExitStart, Attempt
    <2>5. CASE GuardCheck
      BY <1>2, <2>5 DEF GuardCheck, At, Goto
    <2>6. CASE GuardRecheck
      BY <1>2, <2>6 DEF GuardRecheck, At, Goto
    <2> QED BY <2>1, <2>2, <2>3, <2>4, <2>5, <2>6
  <1>4. InHand'
    <2>1. trader'.pc \notin {"idle", "cycle"} => trader'.o \in Orders
      BY DEF NoticeInv, Hands
    <2>2. CASE trader'.pc \in {"idle", "cycle", "deciding", "quoting"}
      BY <2>1, <2>2 DEF InHand
    <2>3. CASE trader'.pc \notin {"idle", "cycle", "deciding", "quoting"}
      BY <1>1, <1>3, <2>1, <2>3 DEF CountInv, InHand, GuardPasses
    <2> QED BY <2>2, <2>3
  <1> QED BY <1>1, <1>4, QuietSurvives, QuietForward, PassSurvives, WorkerSurvives DEF CountInv

\* How the thread writes the row it has in hand.
TraderWrites(o, st, bid, req, filled) ==
    /\ orders'[o].status = st /\ orders'[o].bid = bid
    /\ orders'[o].req = req /\ orders'[o].filled = filled

\* Its writes, by where the thread is: the claim, the submission about to be
\* sent, its answer, or the failure to get one.
TraderWrite(o) ==
    \/ /\ trader'.pc \in {"idle", "cycle"} /\ orders' = orders
    \/ /\ trader.pc \in {"deciding", "quoting"} /\ orders[o].status = "NONE"
       /\ TraderWrites(o, "INTENT", FALSE, trader.q, 0)
       /\ trader'.pc = "claimed" /\ trader'.o = o /\ trader'.q = trader.q
    \/ /\ trader.pc = "claimed"
       /\ TraderWrites(o, "SUBMITTING", orders[o].bid, orders[o].req, orders[o].filled)
       /\ trader'.pc = "submitting" /\ trader'.o = o /\ trader'.q = trader.q
    \/ /\ trader.pc = "acked" /\ trader'.pc \in {"idle", "cycle"}
       /\ TraderWrites(o, "ACKNOWLEDGED", TRUE, orders[o].req, orders[o].filled)
    \/ /\ trader.pc = "failed" /\ trader'.pc \in {"idle", "cycle"}
       /\ TraderWrites(o, "UNKNOWN", orders[o].bid, orders[o].req, orders[o].filled)

\* The four actions that write a row write it that way.
LEMMA TraderWriteShape ==
    ASSUME TypeOK, trader.o \in Orders, Claim \/ Submitting \/ RecordSubmission \/ RecordFailure
    PROVE  /\ TraderWrite(trader.o)
           /\ \A x \in Orders \ {trader.o} : orders'[x] = orders[x]
           /\ UNCHANGED <<fillIds, booked, broker, sent>>
  <1> DEFINE o == trader.o
  <1>1. /\ orders \in [Orders -> OrderRow]
        /\ trader \in [pc: TraderPcs, o: Orders \cup {None}, q: Nat, left: SUBSET Symbols]
    BY DEF TypeOK, LedgerTypeOK, TraderTypeOK
  <1>2. /\ \A x \in Orders \ {o} : orders'[x] = orders[x]
        /\ UNCHANGED <<fillIds, booked, broker, sent>>
    BY <1>1 DEF Claim, Submitting, RecordSubmission, RecordFailure, ClaimOrderIntent,
       MarkOrderSubmitting, RecordOrderSubmission, MarkOrderUnknown, brokerVars
  <1>3. ASSUME Claim PROVE TraderWrite(o)
    BY <1>1, <1>3, DoneIdle DEF Claim, At, Goto, Claimable, ClaimOrderIntent, TraderWrite, TraderWrites
  <1>4. ASSUME Submitting PROVE TraderWrite(o)
    BY <1>1, <1>4 DEF Submitting, At, Goto, MarkOrderSubmitting, TraderWrite, TraderWrites
  <1>5. ASSUME RecordSubmission PROVE TraderWrite(o)
    BY <1>1, <1>5, DoneIdle DEF RecordSubmission, At, RecordOrderSubmission, TraderWrite, TraderWrites
  <1>6. ASSUME RecordFailure PROVE TraderWrite(o)
    BY <1>1, <1>6, DoneIdle DEF RecordFailure, At, MarkOrderUnknown, TraderWrite, TraderWrites
  <1> QED BY <1>2, <1>3, <1>4, <1>5, <1>6

\* Steps of the thread that write the row it has in hand.
LEMMA TraderWritesCount ==
    ASSUME CountInv, NoticeInv', UNCHANGED <<supVars, upsets, worker>>,
           Claim \/ Submitting \/ RecordSubmission \/ RecordFailure
    PROVE  CountInv'
  <1> DEFINE o == trader.o
  <1>1. o \in Orders
    BY DEF CountInv, InHand, Claim, Submitting, RecordSubmission, RecordFailure, At
  <1>2. /\ TraderWrite(o) /\ \A x \in Orders \ {o} : orders'[x] = orders[x]
        /\ UNCHANGED <<fillIds, booked, broker, sent>>
    BY <1>1, CountTypes, TraderWriteShape
  <1>3. Noticed' = Noticed /\ TradedIn(broker', fillIds')
    BY <1>2 DEF Noticed, CountInv
  \* What was known of the row before.
  <1>4. /\ orders[o].status \in {"NONE", "INTENT"} => sent[o] = 0
        /\ orders[o].status \in {"NONE", "INTENT", "SUBMITTING"} =>
              ~orders[o].bid /\ orders[o].filled = 0 /\ Noticed[o] = 0 /\ booked[o] <= 0
        /\ sent[o] = 0 => broker[o].st = "NONE" /\ broker[o].filled = 0
        /\ trader.pc = "claimed" => orders[o].status = "INTENT" /\ orders[o].req = trader.q
        /\ trader.pc \in {"acked", "failed"} => orders[o].status = "SUBMITTING"
        /\ trader.pc = "acked" => broker[o].st # "NONE"
    BY <1>1, CountNats DEF CountInv, RowsTold, RowsCounted, InHand
  <1>5. trader.q \in Nat
    BY CountTypes DEF TypeOK, TraderTypeOK
  <1>6. RowsTold'
    <2> SUFFICES ASSUME NEW x \in Orders
                 PROVE  /\ orders'[x].status \in {"NONE", "INTENT"} => sent'[x] = 0
                        /\ orders'[x].status \in {"NONE", "INTENT", "SUBMITTING"} => ~orders'[x].bid
                        /\ orders'[x].status \notin {"NONE", "INTENT", "SUBMITTING", "UNKNOWN"} => orders'[x].bid
                        /\ orders'[x].bid => broker'[x].st # "NONE"
                        /\ broker'[x].st # "NONE" => sent'[x] = 1
                        /\ broker'[x].st = "NONE" => broker'[x].filled = 0
                        /\ broker'[x].st = "OPEN" => broker'[x].filled < orders'[x].req
                        /\ orders'[x].status \in Terminal /\ broker'[x].st = "OPEN" =>
                             orders'[x].status = "FILLED" /\ orders'[x].filled = orders'[x].req
                        /\ ~orders'[x].bid => orders'[x].filled = 0 /\ Noticed'[x] = 0
      BY DEF RowsTold
    <2>1. CASE x = o
      BY <1>1, <1>2, <1>3, <1>4, <2>1 DEF CountInv, RowsTold, TraderWrite, TraderWrites, Terminal
    <2>2. CASE x # o
      BY <1>2, <1>3, <2>2 DEF CountInv, RowsTold
    <2> QED BY <2>1, <2>2
  <1>7. \A x \in Orders : /\ orders'[x].filled = orders[x].filled
                          /\ orders[x].bid => orders'[x].bid
                          /\ orders'[x].req = orders[x].req \/ orders'[x].filled = 0
    BY <1>1, <1>2, <1>4, CountNats DEF TraderWrite, TraderWrites
  <1>8. RowsCounted'
    BY <1>2, <1>3, <1>7, CountNats DEF CountInv, RowsCounted
  <1>9. Forward /\ NoPassBooks
    BY <1>2, <1>3, <1>7, CountNats DEF Forward, NoPassBooks
  <1>10. InHand' /\ SubmittedAtMostOnce'
    BY <1>1, <1>2, <1>4 DEF CountInv, InHand, SubmittedAtMostOnce, TraderWrite, TraderWrites
  <1> QED BY <1>3, <1>6, <1>8, <1>9, <1>10, PassSurvives, WorkerSurvives DEF CountInv

\* The submission: the order in hand was never sent.
LEMMA SubmitCounts ==
    ASSUME CountInv, NoticeInv', UNCHANGED <<supVars, upsets, worker>>,
           SubmitAccepted \/ SubmitRefused
    PROVE  CountInv'
  <1> DEFINE o == trader.o
  <1>1. /\ UNCHANGED <<orders, fillIds, booked>>
        /\ trader.pc = "cleared" /\ trader'.o = o /\ trader'.q = trader.q
        /\ trader'.pc \in {"acked", "failed"}
        /\ trader'.pc = "acked" => SubmitAccepted
    BY CountTypes DEF SubmitAccepted, SubmitRefused, At, Goto, TypeOK, TraderTypeOK, ledgerVars
  <1>2. /\ o \in Orders /\ orders[o].status = "SUBMITTING" /\ sent[o] = 0
        /\ orders[o].req = trader.q /\ trader.q > 0 /\ trader.q \in Nat
        /\ ~orders[o].bid /\ orders[o].filled = 0 /\ Noticed[o] = 0
        /\ broker[o].st = "NONE" /\ broker[o].filled = 0
    BY <1>1, CountTypes DEF CountInv, InHand, RowsTold, TypeOK, TraderTypeOK
  <1>3. sent \in [Orders -> 0..2] /\ sent' = [sent EXCEPT ![o] = 1]
    BY <1>2, CountTypes DEF SubmitAccepted, SubmitRefused, Again, TypeOK, BrokerTypeOK
  <1>4. /\ broker'[o].filled = 0 /\ broker'[o].st \in {"NONE", "OPEN"}
        /\ SubmitAccepted => broker'[o].st = "OPEN"
        /\ \A x \in Orders \ {o} : broker'[x] = broker[x]
    <2>1. CASE SubmitAccepted
      BY <1>2, <2>1, CountTypes DEF SubmitAccepted
    <2>2. CASE ~SubmitAccepted
      BY <1>2, <2>2 DEF SubmitRefused
    <2> QED BY <2>1, <2>2
  <1>5. \A x \in Orders : broker[x].filled <= broker'[x].filled
    BY <1>2, <1>4, CountNats
  <1>6. /\ \A x \in Orders : Noticed'[x] = Noticed[x]
        /\ TradedIn(broker', fillIds')
    BY <1>1, <1>5, NoticedStill
  <1>7. RowsTold'
    <2> SUFFICES ASSUME NEW x \in Orders
                 PROVE  /\ orders[x].status \in {"NONE", "INTENT"} => sent'[x] = 0
                        /\ orders[x].status \in {"NONE", "INTENT", "SUBMITTING"} => ~orders[x].bid
                        /\ orders[x].status \notin {"NONE", "INTENT", "SUBMITTING", "UNKNOWN"} => orders[x].bid
                        /\ orders[x].bid => broker'[x].st # "NONE"
                        /\ broker'[x].st # "NONE" => sent'[x] = 1
                        /\ broker'[x].st = "NONE" => broker'[x].filled = 0
                        /\ broker'[x].st = "OPEN" => broker'[x].filled < orders[x].req
                        /\ orders[x].status \in Terminal /\ broker'[x].st = "OPEN" =>
                             orders[x].status = "FILLED" /\ orders[x].filled = orders[x].req
                        /\ ~orders[x].bid => orders[x].filled = 0 /\ Noticed'[x] = 0
      BY <1>1 DEF RowsTold
    <2>1. CASE x = o
      BY <1>2, <1>3, <1>4, <1>6, <2>1 DEF Terminal
    <2>2. CASE x # o
      BY <1>3, <1>4, <1>6, <2>2 DEF CountInv, RowsTold
    <2> QED BY <2>1, <2>2
  <1>8. RowsCounted'
    BY <1>1, <1>5, <1>6, CountNats DEF CountInv, RowsCounted
  <1>9. Forward /\ NoPassBooks
    BY <1>1, <1>2, <1>4, <1>5, <1>6, CountNats DEF Forward, NoPassBooks, Terminal
  <1>10. InHand'
    BY <1>1, <1>2, <1>4 DEF InHand
  <1>11. SubmittedAtMostOnce'
    BY <1>3 DEF CountInv, SubmittedAtMostOnce
  <1> QED BY <1>6, <1>7, <1>8, <1>9, <1>10, <1>11, PassSurvives, WorkerSurvives DEF CountInv

\* Every step of the trading thread keeps the counts.
LEMMA TraderCounts ==
    ASSUME CountInv, NoticeInv', TraderStep, UNCHANGED <<supVars, upsets, worker>>
    PROVE  CountInv'
  BY TraderQuietCounts, TraderWritesCount, SubmitCounts DEF TraderStep

-----------------------------------------------------------------------------
(* The broker, the operator and crashes                                    *)

\* The broker moves open records forward; no row and no fill id changes.
LEMMA BrokerCounts ==
    ASSUME CountInv, NoticeInv', BrokerStep, UNCHANGED <<trader, supVars, upsets, worker>>
    PROVE  CountInv'
  <1>1. UNCHANGED <<orders, fillIds, booked, sent>>
    BY DEF BrokerStep, BrokerFill, BrokerCancel, BrokerReject, SessionAdvances, ledgerVars
  <1> DEFINE Moved ==
        \A x \in Orders :
             \/ broker'[x] = broker[x]
             \/ /\ broker[x].st = "OPEN" /\ broker'[x].st # "NONE"
                /\ broker[x].filled <= broker'[x].filled
                /\ broker'[x].st = "OPEN" => broker'[x].filled < orders[x].req
  <1>2. Moved
    <2>1. ASSUME NEW o \in Orders, BrokerFill(o)
          PROVE  Moved
      <3>1. broker[o].filled < orders[o].req
        BY <2>1 DEF BrokerFill, CountInv, RowsTold
      <3> DEFINE r == [st |-> IF broker[o].filled + 1 = orders[o].req THEN "FILLED" ELSE "OPEN",
                       filled |-> broker[o].filled + 1]
      <3>2. broker[o].st = "OPEN" /\ broker' = [broker EXCEPT ![o] = r]
        BY <2>1 DEF BrokerFill
      <3>3. broker[o].filled \in Nat /\ orders[o].req \in Nat /\ broker \in [Orders -> BrokerRow]
        BY CountTypes, CountNats
      <3>4. /\ r.st # "NONE" /\ broker[o].filled <= r.filled
            /\ r.st = "OPEN" => r.filled < orders[o].req
        BY <3>1, <3>3
      <3> HIDE DEF r
      <3> QED BY <3>2, <3>3, <3>4
    <2>2. ASSUME NEW o \in Orders, BrokerCancel(o) \/ BrokerReject(o)
          PROVE  Moved
      <3>1. PICK st \in {"CANCELLED", "REJECTED"} :
              broker[o].st = "OPEN" /\ broker' = [broker EXCEPT ![o].st = st]
        BY <2>2 DEF BrokerCancel, BrokerReject
      <3>2. broker \in [Orders -> BrokerRow] /\ broker[o].filled \in Nat
        BY CountTypes, CountNats
      <3> QED BY <3>1, <3>2 DEF BrokerRow
    <2>3. CASE SessionAdvances
      BY <2>3 DEF SessionAdvances
    <2> QED BY <2>1, <2>2, <2>3 DEF BrokerStep
  <1>3. \A x \in Orders :
          /\ broker'[x].st = "OPEN" => broker[x].st = "OPEN"
          /\ broker'[x].st = "NONE" <=> broker[x].st = "NONE"
          /\ broker[x].filled <= broker'[x].filled
          /\ broker[x].st # "OPEN" => broker'[x] = broker[x]
          /\ broker'[x].st = "OPEN" => broker'[x].filled < orders[x].req
    BY <1>2, CountNats DEF CountInv, RowsTold
  <1>4. /\ \A x \in Orders : Noticed'[x] = Noticed[x]
        /\ TradedIn(broker', fillIds')
    BY <1>1, <1>3, NoticedStill
  <1>5. RowsTold'
    BY <1>1, <1>3, <1>4 DEF CountInv, RowsTold
  <1>6. RowsCounted'
    BY <1>1, <1>3, <1>4, CountNats DEF CountInv, RowsCounted
  <1>7. Forward /\ NoPassBooks
    BY <1>1, <1>3, <1>4, CountNats DEF Forward, NoPassBooks, Terminal
  <1>8. InHand' /\ SubmittedAtMostOnce'
    BY <1>1, <1>3, HandSurvives
  <1> QED BY <1>4, <1>5, <1>6, <1>7, <1>8, PassSurvives, WorkerSurvives DEF CountInv

\* Operator commands change switches only; a crash takes the threads' memory.
LEMMA UpsetCounts ==
    ASSUME CountInv, NoticeInv',
           \/ (RequestCancelBuys \/ GateChanges) /\ UNCHANGED worker
           \/ Crash /\ worker' = WorkerIdle
    PROVE  CountInv'
  <1>1. UNCHANGED <<orders, broker, sent, fillIds, booked>>
    BY DEF RequestCancelBuys, GateChanges, Crash, ledgerVars, brokerVars
  <1>2. CASE (RequestCancelBuys \/ GateChanges) /\ UNCHANGED worker
    <2>1. UNCHANGED <<trader, supVars>>
      BY <1>2 DEF RequestCancelBuys, GateChanges
    <2> QED BY <1>1, <1>2, <2>1, QuietSurvives, QuietForward, PassSurvives, WorkerSurvives,
               HandSurvives DEF CountInv
  <1>3. CASE Crash /\ worker' = WorkerIdle
    <2>1. InHand'
      BY <1>3 DEF Crash, TraderIdle, InHand
    <2>2. ListTrue' /\ LoopCounted'
      BY <1>3 DEF Crash, SupReset, ListTrue, LoopCounted, NoRows, Reading
    <2>3. WorkerTrue'
      BY <1>3 DEF WorkerTrue, WorkerIdle
    <2> QED BY <1>1, <2>1, <2>2, <2>3, QuietSurvives DEF CountInv
  <1> QED BY <1>2, <1>3

-----------------------------------------------------------------------------
(* The supervisor                                                          *)

\* Steps of a pass that write no row: only the order list and the rows in
\* hand change.
LEMMA QuietPassCounts ==
    ASSUME CountInv, NoticeInv', QuietPass \/ RecMaterialize, UNCHANGED <<trader, upsets, worker>>
    PROVE  CountInv'
  <1>1. UNCHANGED <<orders, broker, sent, fillIds, booked>>
    BY DEF QuietPass, SupFetchOrders, SupFetchFails, SupException, SupLeaseInvalid,
           SupFetchAccount, RecReadRows, RecMaterializeRead, RecFinish, CancelBuysStart,
           ManageStart, RecSkip, LeaveRow, CancelSent, StoreMarker, RowLoopEnd, SupEnd,
           RecMaterialize, ledgerVars, brokerVars
  <1>2. /\ Noticed' = Noticed /\ TradedIn(broker', fillIds') /\ RowsTold' /\ RowsCounted'
        /\ SubmittedAtMostOnce'
    BY <1>1, QuietSurvives
  <1>3. InHand' /\ WorkerTrue'
    BY <1>1, QuietForward, HandSurvives, WorkerSurvives
  <1>4. ListTrue'
    <2>1. ASSUME SupFetchOrders PROVE ListTrue'
      BY <1>1, <1>2, <2>1, CountNats DEF SupFetchOrders, CountInv, ListTrue, RowsCounted
    <2>2. ASSUME supPc' \notin Reading \/ (supPc \in Reading /\ snap' = snap)
          PROVE  ListTrue'
      BY <1>1, <1>2, <2>2 DEF CountInv, ListTrue
    <2>3. SupFetchOrders \/ supPc' \notin Reading \/ (supPc \in Reading /\ snap' = snap)
      BY DEF QuietPass, SupFetchFails, SupException, SupLeaseInvalid, SupReset,
           SupFetchAccount, RecReadRows, RecMaterializeRead, RecFinish, CancelBuysStart,
           ManageStart, RecSkip, LeaveRow, Row, CancelSent, StoreMarker, RowLoopEnd, SupEnd,
           RecMaterialize, supVars, Reading
    <2> QED BY <2>1, <2>2, <2>3
  <1>5. LoopCounted'
    <2>0. LoopCounted /\ NoRows \in [Orders -> OrderRow] /\ \A x \in Orders : ~NoRows[x].bid
      BY NothingHeldType DEF CountInv, NoRows
    <2>1. ASSUME \/ SupException \/ SupEnd \/ SupFetchFails \/ SupLeaseInvalid
                 \/ SupFetchOrders \/ SupFetchAccount
          PROVE  LoopCounted'
      BY <1>1, <2>0, <2>1 DEF SupException, SupEnd, SupReset, SupFetchFails, SupLeaseInvalid,
         SupFetchOrders, SupFetchAccount, supVars, LoopCounted
    <2>2. ASSUME RecReadRows PROVE LoopCounted'
      <3>1. RowsUnbooked'
        BY <1>1, <1>2, <2>2, CountNats DEF RecReadRows, RowsUnbooked, CountInv, RowsCounted
      <3> QED BY <1>1, <2>2, <3>1 DEF RecReadRows, LoopCounted
    <2>3. ASSUME \/ \E o \in Orders : RecSkip(o)
                 \/ RecMaterializeRead \/ RecMaterialize
          PROVE  LoopCounted'
      <3>1. /\ supPc \in {"reconcile", "matread", "matwrite"} /\ todo' \subseteq todo
            /\ \/ supPc' = "reconcile"
               \/ supPc' = "matwrite" /\ supPc = "matread" /\ cur' = cur
            /\ UNCHANGED <<local, snap>>
        BY <2>3 DEF RecSkip, RecMaterializeRead, RecMaterialize
      <3>2. RowsUnbooked'
        BY <1>1, <1>2, <2>0, <3>1 DEF LoopCounted, RowsUnbooked
      <3> QED BY <1>1, <2>0, <3>1, <3>2 DEF LoopCounted
    <2>4. ASSUME RecFinish \/ RowLoopEnd PROVE LoopCounted'
      BY <2>0, <2>4 DEF RecFinish, RowLoopEnd, LoopCounted
    <2>5. ASSUME CancelBuysStart PROVE LoopCounted'
      <3>1. \A o \in Orders : orders[o].status \in {"ACKNOWLEDGED", "PARTIALLY_FILLED"} => orders[o].bid
        BY DEF CountInv, RowsTold
      <3> QED BY <1>1, <2>0, <2>5, <3>1 DEF CancelBuysStart, LoopCounted, Orders
    <2>6. ASSUME ManageStart PROVE LoopCounted'
      <3>1. pass'.stage = "stale"
        BY <2>6, CountTypes DEF ManageStart, PassType
      <3> QED BY <1>1, <2>6, <3>1 DEF ManageStart, LoopCounted
    <2>7. ASSUME CancelSent \/ StoreMarker \/ \E o \in Orders : LeaveRow(o)
          PROVE  LoopCounted'
      <3>1. /\ supPc \in {"rowloop", "send", "store"} /\ supPc' \in {"rowloop", "store"}
            /\ todo' \subseteq todo /\ pass'.stage = pass.stage
            /\ supPc' = "store" => cur' = cur /\ supPc = "send"
            /\ UNCHANGED local
        BY <2>7, CountTypes DEF CancelSent, StoreMarker, LeaveRow, Row, PassType
      <3> QED BY <1>1, <2>0, <3>1 DEF LoopCounted
    <2> QED BY <2>1, <2>2, <2>3, <2>4, <2>5, <2>6, <2>7 DEF QuietPass
  <1> QED BY <1>2, <1>3, <1>4, <1>5 DEF CountInv
-----------------------------------------------------------------------------
(* Steps that write a numbered row                                         *)

\* The row of one numbered order is rewritten.
RowWrite(o, r) ==
    /\ orders' = [orders EXCEPT ![o] = r]
    /\ r \in OrderRow /\ r.bid /\ r.req = orders[o].req /\ r.filled <= r.req
    /\ r.status \in Unresolved \cup Terminal
    /\ r.status \in Terminal /\ broker[o].st = "OPEN" =>
          r.status = "FILLED" /\ r.filled = r.req

\* What such a write leaves of what the ledger, the trading thread and the
\* worker know, if the new row counts no more than traded or was noticed.
LEMMA RowWriteCounts ==
    ASSUME CountInv, NoticeInv', NEW o \in Orders, NEW r, orders[o].bid, RowWrite(o, r),
           UNCHANGED <<broker, sent, trader>>,
           \A x \in Orders \ {o} : booked'[x] = booked[x] /\ Noticed'[x] = Noticed[x],
           Noticed[o] <= Noticed'[o],
           /\ Noticed'[o] <= booked'[o] /\ booked'[o] <= r.filled + Noticed'[o]
           /\ booked'[o] <= broker[o].filled + Noticed'[o]
           /\ r.filled <= broker[o].filled + Noticed'[o]
    PROVE  /\ RowsTold' /\ RowsCounted' /\ InHand' /\ SubmittedAtMostOnce' /\ Forward
           /\ orders'[o] = r /\ \A x \in Orders \ {o} : orders'[x] = orders[x]
  <1>1. /\ orders'[o] = r /\ \A x \in Orders \ {o} : orders'[x] = orders[x]
        /\ r.bid /\ r.req = orders[o].req /\ r.filled <= r.req
        /\ r.status \in Unresolved \cup Terminal
        /\ r.status \in Terminal /\ broker[o].st = "OPEN" =>
              r.status = "FILLED" /\ r.filled = r.req
    BY CountTypes DEF RowWrite
  <1>2. RowsTold'
    <2> SUFFICES ASSUME NEW x \in Orders
                 PROVE  /\ orders'[x].status \in {"NONE", "INTENT"} => sent'[x] = 0
                        /\ orders'[x].status \in {"NONE", "INTENT", "SUBMITTING"} => ~orders'[x].bid
                        /\ orders'[x].status \notin {"NONE", "INTENT", "SUBMITTING", "UNKNOWN"} => orders'[x].bid
                        /\ orders'[x].bid => broker'[x].st # "NONE"
                        /\ broker'[x].st # "NONE" => sent'[x] = 1
                        /\ broker'[x].st = "NONE" => broker'[x].filled = 0
                        /\ broker'[x].st = "OPEN" => broker'[x].filled < orders'[x].req
                        /\ orders'[x].status \in Terminal /\ broker'[x].st = "OPEN" =>
                             orders'[x].status = "FILLED" /\ orders'[x].filled = orders'[x].req
                        /\ ~orders'[x].bid => orders'[x].filled = 0 /\ Noticed'[x] = 0
      BY DEF RowsTold
    <2>1. CASE x = o
      BY <1>1, <2>1 DEF CountInv, RowsTold, Unresolved, Terminal
    <2>2. CASE x # o
      BY <1>1, <2>2 DEF CountInv, RowsTold
    <2> QED BY <2>1, <2>2
  <1>3. RowsCounted'
    BY <1>1 DEF CountInv, RowsCounted
  <1>4. InHand' /\ SubmittedAtMostOnce'
    BY <1>1, HandSurvives
  <1>5. Forward
    BY <1>1, CountNats DEF Forward
  <1> QED BY <1>1, <1>2, <1>3, <1>4, <1>5

\* A write of a pass adds no fill of the worker's.
LEMMA PassNotices ==
    ASSUME CountInv, NoticeInv', UNCHANGED broker, NEW o \in Orders,
           fillIds' = fillIds \/ \E n \in Nat : fillIds' = fillIds \cup {<<o, "cum", n>>}
    PROVE  Noticed' = Noticed /\ TradedIn(broker', fillIds')
  <1>1. \A x \in Orders : \A n \in Nat : KisFillId(x, n) \in fillIds' <=> KisFillId(x, n) \in fillIds
    BY DEF KisFillId
  <1>2. \A x \in Orders : /\ NoticedIn(broker', fillIds')[x] = NoticedIn(broker, fillIds)[x]
                          /\ \A n \in Nat : KisFillId(x, n) \in fillIds' => n \in 1..broker'[x].filled
    <2> SUFFICES ASSUME NEW x \in Orders
                 PROVE  /\ NoticedIn(broker', fillIds')[x] = NoticedIn(broker, fillIds)[x]
                        /\ \A n \in Nat : KisFillId(x, n) \in fillIds' => n \in 1..broker'[x].filled
      OBVIOUS
    <2>1. broker[x].filled <= broker'[x].filled
      BY CountNats
    <2>2. \A n \in Nat : KisFillId(x, n) \in fillIds' <=> KisFillId(x, n) \in fillIds
      BY <1>1
    <2> QED BY <2>1, <2>2, CountTypes, NoticedKept DEF CountInv
  <1>3. \A x \in Orders : Noticed'[x] = Noticed[x]
    BY <1>2, CountTypes
  <1>4. Noticed' = Noticed
    BY <1>3, CountTypes
  <1> QED BY <1>2, <1>4 DEF TradedIn

\* update_broker_order_status and mark_order_unknown, as a pass calls them.
PassWrite(o) ==
    \/ orders' = orders
    \/ MarkOrderUnknown(o)
    \/ \E st \in Unresolved \cup Terminal :
          /\ st \in Terminal => snap[o].st = st
          /\ UpdateBrokerOrderStatus(o, st, snap[o].filled)

\* Such a write takes the row to what the order list counts, or leaves it.
LEMMA PassWriteCounts ==
    ASSUME CountInv, NoticeInv', supPc \in Reading, NEW o \in Orders, orders[o].bid, PassWrite(o),
           UNCHANGED <<broker, sent, trader, fillIds, booked, snap, worker>>
    PROVE  /\ RowsTold' /\ RowsCounted' /\ InHand' /\ SubmittedAtMostOnce' /\ WorkerTrue' /\ ListTrue'
           /\ TradedIn(broker', fillIds') /\ Noticed' = Noticed
           /\ \A x \in Orders : orders[x].bid => orders'[x].bid
           /\ \A x \in Orders \ {o} : orders'[x] = orders[x]
  <1>1. Noticed' = Noticed /\ TradedIn(broker', fillIds')
    BY DEF Noticed, CountInv
  <1>2. orders \in [Orders -> OrderRow] /\ snap \in [Orders -> BrokerRow]
    BY CountTypes
  <1>3. /\ Noticed[o] <= booked[o] /\ booked[o] <= orders[o].filled + Noticed[o]
        /\ booked[o] <= broker[o].filled + Noticed[o]
        /\ orders[o].filled <= broker[o].filled + Noticed[o] /\ orders[o].filled <= orders[o].req
        /\ snap[o].filled <= broker[o].filled /\ booked[o] <= snap[o].filled + Noticed[o]
        /\ orders[o].filled <= snap[o].filled + Noticed[o]
        /\ snap[o].st \in Terminal => broker[o].st = snap[o].st
        /\ orders[o].status \notin {"NONE", "INTENT", "SUBMITTING"}
        /\ orders[o].status \in Terminal /\ broker[o].st = "OPEN" =>
             orders[o].status = "FILLED" /\ orders[o].filled = orders[o].req
    BY DEF CountInv, RowsCounted, ListTrue, RowsTold
  <1>4. PICK r : RowWrite(o, r) /\ (r.filled = orders[o].filled \/ r.filled = snap[o].filled)
    <2>1. CASE orders' = orders
      <3>1. orders' = [orders EXCEPT ![o] = orders[o]]
        BY <1>2, <2>1
      <3>2. orders[o] \in OrderRow /\ orders[o].status \in Unresolved \cup Terminal
        BY <1>2, <1>3 DEF OrderRow, Statuses, Active
      <3> QED BY <1>3, <3>1, <3>2 DEF RowWrite
    <2>2. CASE MarkOrderUnknown(o)
      <3> DEFINE r == [orders[o] EXCEPT !.status = "UNKNOWN"]
      <3>1. orders' = [orders EXCEPT ![o] = r]
        BY <1>2, <2>2 DEF MarkOrderUnknown
      <3>2. /\ r \in OrderRow /\ r.bid /\ r.req = orders[o].req /\ r.filled = orders[o].filled
            /\ r.status = "UNKNOWN"
        BY <1>2 DEF OrderRow, Statuses, Active, Unresolved
      <3> HIDE DEF r
      <3>3. RowWrite(o, r)
        BY <1>3, <3>1, <3>2 DEF RowWrite, Unresolved, Terminal
      <3> QED BY <3>2, <3>3
    <2>3. ASSUME NEW st \in Unresolved \cup Terminal, st \in Terminal => snap[o].st = st,
                 UpdateBrokerOrderStatus(o, st, snap[o].filled), orders' # orders
          PROVE  \E r : RowWrite(o, r) /\ (r.filled = orders[o].filled \/ r.filled = snap[o].filled)
      <3> DEFINE r == [orders[o] EXCEPT !.status = st, !.bid = TRUE, !.filled = snap[o].filled]
      <3>1. orders' = [orders EXCEPT ![o] = r] /\ snap[o].filled <= orders[o].req
        BY <1>2, <2>3 DEF UpdateBrokerOrderStatus, OrderRow
      <3>2. /\ r \in OrderRow /\ r.bid /\ r.status = st /\ r.req = orders[o].req
            /\ r.filled = snap[o].filled
        BY <1>2 DEF OrderRow, BrokerRow, Statuses, Active
      <3>3. st \in Terminal => broker[o].st # "OPEN"
        BY <1>3, <2>3 DEF Terminal
      <3> HIDE DEF r
      <3>4. RowWrite(o, r)
        BY <3>1, <3>2, <3>3 DEF RowWrite
      <3> QED BY <3>2, <3>4
    <2> QED BY <2>1, <2>2, <2>3 DEF PassWrite
  <1>5. /\ booked'[o] <= r.filled + Noticed'[o] /\ booked'[o] <= broker[o].filled + Noticed'[o]
        /\ r.filled <= broker[o].filled + Noticed'[o] /\ r.filled <= snap[o].filled + Noticed'[o]
        /\ Noticed[o] <= Noticed'[o]
    BY <1>1, <1>3, <1>4, CountNats
  <1>6. /\ RowsTold' /\ RowsCounted' /\ InHand' /\ SubmittedAtMostOnce' /\ Forward
        /\ orders'[o] = r /\ \A x \in Orders \ {o} : orders'[x] = orders[x]
    BY <1>1, <1>3, <1>4, <1>5, RowWriteCounts
  <1>7. ListTrue'
    BY <1>1, <1>5, <1>6 DEF CountInv, ListTrue
  <1>8. WorkerTrue'
    BY <1>6, WorkerSurvives
  <1> QED BY <1>1, <1>6, <1>7, <1>8 DEF Forward

\* The status and quantity of the order list go into the row in hand.
LEMMA StatusCounts ==
    ASSUME CountInv, NoticeInv', UNCHANGED <<trader, upsets, worker>>, RecStatus
    PROVE  CountInv'
  <1>1. /\ supPc = "status" /\ supPc' = "matread" /\ supPc \in Reading
        /\ UpdateBrokerOrderStatus(cur, RecStatusFor(cur), snap[cur].filled)
        /\ UNCHANGED <<fillIds, booked, broker, sent, snap, local, todo, cur, pass>>
    BY DEF RecStatus, brokerVars, Reading
  <1>2. /\ cur \in Orders \ todo /\ local[cur].bid /\ orders[cur].bid /\ snap[cur].st # "NONE"
        /\ RowsUnbooked
    BY <1>1 DEF CountInv, LoopCounted
  <1>3. PassWrite(cur)
    <2>1. snap[cur].st \in {"OPEN", "FILLED", "CANCELLED", "REJECTED"}
      BY <1>2, CountTypes DEF BrokerRow
    <2>2. /\ RecStatusFor(cur) \in Unresolved \cup Terminal
          /\ RecStatusFor(cur) \in Terminal => snap[cur].st = RecStatusFor(cur)
      BY <2>1 DEF RecStatusFor, LocalStatusForBroker, Unresolved, Terminal
    <2> QED BY <1>1, <2>2 DEF PassWrite
  <1>4. /\ RowsTold' /\ RowsCounted' /\ InHand' /\ SubmittedAtMostOnce' /\ WorkerTrue' /\ ListTrue'
        /\ TradedIn(broker', fillIds') /\ Noticed' = Noticed
        /\ \A x \in Orders : orders[x].bid => orders'[x].bid
        /\ \A x \in Orders \ {cur} : orders'[x] = orders[x]
    BY <1>1, <1>2, <1>3, PassWriteCounts
  <1>5. RowsUnbooked'
    BY <1>1, <1>2, <1>4, CountTypes DEF RowsUnbooked
  <1>6. LoopCounted'
    BY <1>1, <1>2, <1>4, <1>5 DEF CountInv, LoopCounted
  <1> QED BY <1>4, <1>6 DEF CountInv

\* The cancellation loops: the row becomes CANCEL_PENDING, UNKNOWN or settled.
LEMMA CancelCounts ==
    ASSUME CountInv, NoticeInv', UNCHANGED <<trader, upsets, worker>>, NEW o \in Orders,
           CancelUnlisted(o) \/ ManageMarked(o) \/ CancelMark(o)
    PROVE  CountInv'
  <1>1. /\ supPc = "rowloop" /\ supPc \in Reading /\ o \in todo /\ todo' = todo \ {o}
        /\ UNCHANGED <<fillIds, booked, broker, sent, snap, local>>
        /\ \/ supPc' = "rowloop" /\ cur' = cur
           \/ supPc' = "send" /\ cur' = o /\ Found(o)
        /\ pass'.stage = pass.stage
    BY CountTypes DEF CancelUnlisted, ManageMarked, CancelMark, Cancellable, Row, brokerVars,
       Reading, PassType
  <1>2. Found(o) => orders[o].bid
    BY DEF CountInv, LoopCounted, Found
  <1>3. orders' = orders \/ (orders[o].bid /\ PassWrite(o))
    <2>1. CASE CancelUnlisted(o)
      BY <1>1, <2>1 DEF CancelUnlisted, PassWrite, CountInv, LoopCounted
    <2>2. CASE ManageMarked(o)
      <3> DEFINE st == IF snap[o].st \in Terminal THEN snap[o].st ELSE "CANCEL_PENDING"
      <3>1. \/ orders' = orders
            \/ Found(o) /\ UpdateBrokerOrderStatus(o, st, snap[o].filled)
        BY <2>2 DEF ManageMarked
      <3>2. st \in Unresolved \cup Terminal /\ (st \in Terminal => snap[o].st = st)
        BY DEF Unresolved, Terminal
      <3> HIDE DEF st
      <3> QED BY <1>2, <3>1, <3>2 DEF PassWrite
    <2>3. CASE CancelMark(o)
      <3>1. UpdateBrokerOrderStatus(o, "CANCEL_PENDING", snap[o].filled) /\ Found(o)
        BY <2>3 DEF CancelMark, Cancellable
      <3>2. "CANCEL_PENDING" \in Unresolved \cup Terminal /\ "CANCEL_PENDING" \notin Terminal
        BY DEF Unresolved, Terminal
      <3> QED BY <1>2, <3>1, <3>2 DEF PassWrite
    <2> QED BY <2>1, <2>2, <2>3
  <1>4. /\ RowsTold' /\ RowsCounted' /\ InHand' /\ SubmittedAtMostOnce' /\ WorkerTrue' /\ ListTrue'
        /\ TradedIn(broker', fillIds')
        /\ \A x \in Orders : orders[x].bid => orders'[x].bid
    <2>1. CASE orders' = orders
      <3>1. /\ Noticed' = Noticed /\ TradedIn(broker', fillIds') /\ RowsTold' /\ RowsCounted'
            /\ SubmittedAtMostOnce' /\ InHand' /\ WorkerTrue'
        BY <1>1, <2>1, QuietSurvives, QuietForward, HandSurvives, WorkerSurvives
      <3>2. ListTrue'
        BY <1>1, <2>1, <3>1 DEF CountInv, ListTrue
      <3> QED BY <2>1, <3>1, <3>2
    <2>2. CASE orders[o].bid /\ PassWrite(o)
      BY <1>1, <2>2, PassWriteCounts
    <2> QED BY <1>3, <2>1, <2>2
  <1>5. LoopCounted'
    BY <1>1, <1>2, <1>4, CountTypes DEF CountInv, LoopCounted
  <1> QED BY <1>4, <1>5 DEF CountInv

\* A cancel request whose answer is lost.
LEMMA AmbiguousCounts ==
    ASSUME CountInv, NoticeInv', UNCHANGED <<trader, upsets, worker>>, CancelAmbiguous
    PROVE  CountInv'
  <1>1. /\ supPc = "send" /\ supPc \in Reading /\ supPc' = "rowloop" /\ MarkOrderUnknown(cur)
        /\ UNCHANGED <<fillIds, booked, broker, sent, snap, local, todo>>
        /\ pass'.stage = pass.stage
    BY CountTypes DEF CancelAmbiguous, Reading, PassType
  <1>2. cur \in Orders /\ orders[cur].bid
    BY <1>1 DEF CountInv, LoopCounted
  <1>3. /\ RowsTold' /\ RowsCounted' /\ InHand' /\ SubmittedAtMostOnce' /\ WorkerTrue' /\ ListTrue'
        /\ TradedIn(broker', fillIds')
        /\ \A x \in Orders : orders[x].bid => orders'[x].bid
    BY <1>1, <1>2, PassWriteCounts DEF PassWrite
  <1>4. LoopCounted'
    BY <1>1, <1>3, CountTypes DEF CountInv, LoopCounted
  <1> QED BY <1>3, <1>4 DEF CountInv
-----------------------------------------------------------------------------
(* Steps that store a fill                                                 *)

\* apply_broker_fill as reconciliation calls it: no pass has booked for the
\* row since it was read, so what exceeds the order list the worker booked.
LEMMA BookCounts ==
    ASSUME CountInv, NoticeInv', UNCHANGED <<trader, upsets, worker>>, NEW o \in Orders, RecBook(o)
    PROVE  CountInv'
  <1>1. /\ supPc = "reconcile" /\ o \in todo /\ ~RecUnsettled(o) /\ todo' = todo \ {o}
        /\ UNCHANGED <<broker, sent, snap, local>>
        /\ \/ supPc' = "reconcile"
           \/ supPc' = "status" /\ cur' = o
    BY DEF RecBook, brokerVars
  <1>2. /\ local[o].bid /\ orders[o].bid /\ snap[o].st # "NONE" /\ supPc \in Reading
        /\ RowsUnbooked
    BY <1>1 DEF CountInv, LoopCounted, RecUnsettled, Found, Listed, Reading
  <1>3. /\ Noticed[o] <= booked[o] /\ booked[o] <= orders[o].filled + Noticed[o]
        /\ booked[o] <= local[o].filled + Noticed[o]
        /\ orders[o].filled <= local[o].filled + Noticed[o]
        /\ snap[o].filled <= broker[o].filled
    BY <1>1, <1>2 DEF CountInv, RowsCounted, RowsUnbooked, ListTrue
  <1>4. LoopCounted /\ ListTrue
    BY DEF CountInv
  <1>5. \/ UNCHANGED <<orders, fillIds, booked>>
        \/ /\ RecDelta(o) > 0 /\ FillFits(o, RecDelta(o))
           /\ InsertFill(o, RecFillId(o), RecDelta(o))
    BY DEF RecBook, ApplyBrokerFill
  <1>6. CASE UNCHANGED <<orders, fillIds, booked>>
    <2>1. /\ Noticed' = Noticed /\ TradedIn(broker', fillIds') /\ RowsTold' /\ RowsCounted'
          /\ SubmittedAtMostOnce' /\ InHand' /\ WorkerTrue'
      BY <1>1, <1>6, QuietSurvives, QuietForward, HandSurvives, WorkerSurvives
    <2>2. ListTrue'
      BY <1>1, <1>2, <1>4, <1>6, <2>1 DEF ListTrue
    <2>3. RowsUnbooked'
      BY <1>1, <1>2, <1>6, <2>1 DEF RowsUnbooked
    <2>4. LoopCounted'
      BY <1>1, <1>2, <1>4, <1>6, <2>3 DEF LoopCounted
    <2> QED BY <2>1, <2>2, <2>4 DEF CountInv
  <1>7. CASE /\ RecDelta(o) > 0 /\ FillFits(o, RecDelta(o))
             /\ InsertFill(o, RecFillId(o), RecDelta(o))
    <2> DEFINE d == RecDelta(o)
               total == orders[o].filled + d
               st == IF total = orders[o].req THEN "FILLED" ELSE "PARTIALLY_FILLED"
               r == [orders[o] EXCEPT !.filled = total, !.bid = TRUE, !.status = st]
    <2>1. /\ orders \in [Orders -> OrderRow] /\ booked \in [Orders -> Nat]
          /\ snap[o].filled \in Nat /\ local[o].filled \in Nat /\ orders[o].filled \in Nat
          /\ booked[o] \in Nat /\ Noticed[o] \in Nat /\ orders[o].req \in Nat
          /\ broker[o].filled \in Nat
      BY CountTypes, CountNats
    <2>2. d = snap[o].filled - local[o].filled /\ d \in Nat /\ total \in Nat
          /\ total <= orders[o].req
      BY <1>7, <2>1 DEF RecDelta, FillFits
    <2>3. /\ fillIds' = fillIds \cup {<<o, "cum", snap[o].filled>>}
          /\ booked' = [booked EXCEPT ![o] = booked[o] + d]
          /\ orders' = [orders EXCEPT ![o] = r]
      BY <1>7, <2>1 DEF InsertFill, RecFillId
    <2>4. Noticed' = Noticed /\ TradedIn(broker', fillIds')
      BY <1>1, <2>1, <2>3, PassNotices
    <2> HIDE DEF d
    <2>5. /\ r \in OrderRow /\ r.bid /\ r.status = st /\ r.req = orders[o].req /\ r.filled = total
          /\ st \in Unresolved \cup Terminal
      BY <2>1, <2>2 DEF OrderRow, Statuses, Active, Unresolved, Terminal
    <2>6. st \in Terminal => st = "FILLED" /\ total = orders[o].req
      BY DEF Terminal
    <2> HIDE DEF r, st, total
    <2>7. RowWrite(o, r)
      BY <2>2, <2>3, <2>5, <2>6 DEF RowWrite
    <2>8. booked'[o] = booked[o] + d /\ \A x \in Orders \ {o} : booked'[x] = booked[x]
      BY <2>1, <2>3
    <2>9. /\ booked[o] + d <= snap[o].filled + Noticed[o]
          /\ r.filled <= snap[o].filled + Noticed[o]
          /\ booked[o] + d <= r.filled + Noticed[o]
          /\ Noticed[o] <= booked[o] + d
      BY <1>3, <2>1, <2>2, <2>5 DEF total
    <2>10. /\ booked'[o] <= broker[o].filled + Noticed'[o] /\ r.filled <= broker[o].filled + Noticed'[o]
           /\ Noticed'[o] <= booked'[o] /\ booked'[o] <= r.filled + Noticed'[o]
           /\ booked'[o] <= snap[o].filled + Noticed'[o] /\ r.filled <= snap[o].filled + Noticed'[o]
           /\ Noticed[o] <= Noticed'[o]
      <3>1. r.filled \in Nat
        BY <2>2, <2>5
      <3> QED BY <1>3, <2>1, <2>2, <2>4, <2>8, <2>9, <3>1
    <2>11. /\ RowsTold' /\ RowsCounted' /\ InHand' /\ SubmittedAtMostOnce' /\ Forward
           /\ orders'[o] = r /\ \A x \in Orders \ {o} : orders'[x] = orders[x]
      BY <1>1, <1>2, <2>4, <2>7, <2>8, <2>10, RowWriteCounts
    <2>12. ListTrue'
      BY <1>1, <1>2, <1>4, <2>4, <2>8, <2>10, <2>11 DEF ListTrue
    <2>13. RowsUnbooked'
      BY <1>1, <1>2, <2>4, <2>8, <2>11, CountTypes DEF RowsUnbooked
    <2>14. LoopCounted'
      BY <1>1, <1>2, <1>4, <2>11, <2>13 DEF LoopCounted, Forward
    <2> QED BY <2>4, <2>11, <2>12, <2>14, WorkerSurvives DEF CountInv
  <1> QED BY <1>5, <1>6, <1>7

\* Every step of a pass keeps the counts.
LEMMA SupervisorCounts ==
    ASSUME CountInv, NoticeInv', SupervisorStep, UNCHANGED <<trader, upsets, worker>>
    PROVE  CountInv'
  BY QuietPassCounts, BookCounts, StatusCounts, CancelCounts, AmbiguousCounts
     DEF SupervisorStep, QuietPass

-----------------------------------------------------------------------------
(* The worker                                                              *)

\* Steps of the worker that store nothing.
LEMMA WorkerQuietCounts ==
    ASSUME CountInv, NoticeInv',
           \/ \E o \in Orders : \/ NoticeUnmatched(o)
                                \/ \E kn \in Notices(o) : NoticeReceive(o, kn[1], kn[2])
           \/ NoticeAccepted \/ NoticeDuplicate \/ NoticeMaterializeRead \/ NoticeMaterialize
    PROVE  CountInv'
  <1>1. UNCHANGED <<orders, broker, sent, fillIds, booked, trader, supVars>>
    BY DEF NoticeUnmatched, NoticeReceive, NoticeAccepted, NoticeDuplicate,
           NoticeMaterializeRead, NoticeMaterialize, Rest, ledgerVars, brokerVars
  <1>2. /\ Noticed' = Noticed /\ TradedIn(broker', fillIds') /\ RowsTold' /\ RowsCounted'
        /\ SubmittedAtMostOnce' /\ InHand' /\ ListTrue' /\ LoopCounted'
    BY <1>1, QuietSurvives, QuietForward, PassSurvives, HandSurvives
  <1>3. WorkerTrue
    BY DEF CountInv
  <1>4. WorkerTrue'
    <2>1. ASSUME worker' = WorkerIdle PROVE WorkerTrue'
      BY <2>1 DEF WorkerIdle, WorkerTrue
    <2>2. ASSUME NEW o \in Orders, NoticeUnmatched(o) PROVE WorkerTrue'
      BY <2>2 DEF NoticeUnmatched, WorkerTrue
    <2>3. ASSUME NEW o \in Orders, NEW kn \in Notices(o), NoticeReceive(o, kn[1], kn[2])
          PROVE  WorkerTrue'
      <3>1. /\ worker'.pc = "act" /\ worker'.kind = kn[1] /\ worker'.o = o /\ worker'.n = kn[2]
            /\ worker'.known = (KisFillId(o, kn[2]) \in fillIds) /\ orders[o].bid
        BY <2>3 DEF NoticeReceive
      <3>2. /\ kn[1] = "FILLED" => kn[2] \in 1..broker[o].filled
            /\ kn[1] = "REJECTED" => broker[o].st = "REJECTED"
        BY <2>3 DEF Notices
      <3>3. kn[1] = "FILLED" /\ KisFillId(o, kn[2]) \in fillIds => Noticed[o] > 0
        BY <3>2, CountTypes, NoticedSome
      <3> QED BY <1>1, <1>2, <3>1, <3>2, <3>3 DEF WorkerTrue, Acting
    <2>4. ASSUME NoticeDuplicate, worker' = ToMaterialize PROVE WorkerTrue'
      <3>1. /\ worker.pc = "act" /\ worker.o \in Orders /\ orders[worker.o].bid /\ Noticed[worker.o] > 0
        BY <1>3, <2>4, CountTypes DEF NoticeDuplicate, Acting, WorkerTrue
      <3>2. worker'.pc = "matread" /\ worker'.o = worker.o
        BY <2>4 DEF ToMaterialize, WorkerIdle
      <3> QED BY <1>1, <1>2, <3>1, <3>2 DEF WorkerTrue, Acting
    <2>5. ASSUME NoticeMaterializeRead PROVE WorkerTrue'
      <3>1. worker.pc = "matread" /\ worker'.pc = "matwrite" /\ worker'.o = worker.o
        <4>1. worker \in [pc: {"idle", "act", "matread", "matwrite"},
                          kind: {"none", "ACCEPTED", "FILLED", "REJECTED"},
                          o: Orders \cup {None}, n: Nat, row: OrderRow, fills: Nat,
                          known: BOOLEAN, read: MaterializeReads]
          BY DEF CountInv, NoticeInv, WorkerTypeOK
        <4> QED BY <2>5, <4>1 DEF NoticeMaterializeRead
      <3> QED BY <1>1, <1>2, <1>3, <3>1 DEF WorkerTrue, Acting
    <2> QED BY <2>1, <2>2, <2>3, <2>4, <2>5 DEF NoticeAccepted, NoticeDuplicate, NoticeMaterialize
  <1> QED BY <1>2, <1>4 DEF CountInv

\* A rejection the worker stores is the broker's: the order is not working.
LEMMA RejectedCounts ==
    ASSUME CountInv, NoticeInv', NoticeRejected
    PROVE  CountInv'
  <1> DEFINE o == worker.o
  <1>1. /\ UNCHANGED <<broker, sent, fillIds, booked, trader, supVars>> /\ worker' = WorkerIdle
        /\ orders' = orders \/ UpdateStatusOnly(o, "REJECTED")
        /\ o \in Orders /\ orders[o].bid /\ broker[o].st = "REJECTED"
    BY CountTypes DEF NoticeRejected, Rest, brokerVars, CountInv, WorkerTrue, Acting
  <1>2. WorkerTrue'
    BY <1>1 DEF WorkerTrue, WorkerIdle
  <1>3. Noticed' = Noticed /\ TradedIn(broker', fillIds')
    BY <1>1 DEF Noticed, CountInv
  <1>4. CASE orders' = orders
    BY <1>1, <1>2, <1>4, QuietSurvives, QuietForward, PassSurvives, HandSurvives DEF CountInv
  <1>5. CASE UpdateStatusOnly(o, "REJECTED")
    <2> DEFINE r == [orders[o] EXCEPT !.status = "REJECTED"]
    <2>1. orders \in [Orders -> OrderRow]
      BY CountTypes
    <2>2. orders' = [orders EXCEPT ![o] = r]
      BY <1>5, <2>1 DEF UpdateStatusOnly
    <2>3. /\ r \in OrderRow /\ r.bid /\ r.req = orders[o].req /\ r.filled = orders[o].filled
          /\ r.status = "REJECTED"
      BY <1>1, <2>1 DEF OrderRow, Statuses, Terminal
    <2>4. /\ Noticed[o] <= booked[o] /\ booked[o] <= orders[o].filled + Noticed[o]
          /\ booked[o] <= broker[o].filled + Noticed[o]
          /\ orders[o].filled <= broker[o].filled + Noticed[o] /\ orders[o].filled <= orders[o].req
      BY <1>1 DEF CountInv, RowsCounted
    <2> HIDE DEF r
    <2>5. RowWrite(o, r)
      BY <1>1, <2>2, <2>3, <2>4 DEF RowWrite, Terminal
    <2>6. Noticed[o] <= Noticed'[o]
      BY <1>1, <1>3, CountNats
    <2>7. /\ RowsTold' /\ RowsCounted' /\ InHand' /\ SubmittedAtMostOnce' /\ Forward
          /\ orders'[o] = r /\ \A x \in Orders \ {o} : orders'[x] = orders[x]
      BY <1>1, <1>3, <2>3, <2>4, <2>5, <2>6, RowWriteCounts
    <2>8. NoPassBooks
      BY <1>1, <1>3, <2>3, <2>7, CountNats DEF NoPassBooks
    <2> QED BY <1>1, <1>2, <1>3, <2>7, <2>8, PassSurvives DEF CountInv
  <1> QED BY <1>1, <1>4, <1>5

\* A fill the worker stores traded; the row and the fills grow by one share
\* and so do the fills noticed.
LEMMA FilledCounts ==
    ASSUME CountInv, NoticeInv', NoticeFilled
    PROVE  CountInv'
  <1> DEFINE o == worker.o
             id == KisFillId(o, worker.n)
  <1>1. /\ UNCHANGED <<broker, sent, trader, supVars>>
        /\ o \in Orders /\ orders[o].bid /\ worker.n \in 1..broker[o].filled
    BY CountTypes DEF NoticeFilled, Rest, brokerVars, CountInv, WorkerTrue, Acting
  <1>2. \/ worker' = WorkerIdle /\ UNCHANGED <<orders, fillIds, booked>>
        \/ worker' = ToMaterialize /\ id \in fillIds /\ UNCHANGED <<orders, fillIds, booked>>
        \/ worker' = ToMaterialize /\ id \notin fillIds /\ FillFits(o, 1) /\ InsertFill(o, id, 1)
    BY DEF NoticeFilled, ApplyBrokerFill, ApplyRaises
  <1>3. ASSUME UNCHANGED <<orders, fillIds, booked>>
        PROVE  /\ Noticed' = Noticed /\ TradedIn(broker', fillIds') /\ RowsTold' /\ RowsCounted'
               /\ SubmittedAtMostOnce' /\ InHand' /\ ListTrue' /\ LoopCounted'
    BY <1>1, <1>3, QuietSurvives, QuietForward, PassSurvives, HandSurvives
  <1>4. ASSUME worker' = ToMaterialize, Noticed'[o] > 0, orders'[o].bid PROVE WorkerTrue'
    <2>1. worker'.pc = "matread" /\ worker'.o = o
      BY <1>4 DEF ToMaterialize, WorkerIdle
    <2> QED BY <1>4, <2>1 DEF WorkerTrue, Acting
  <1>5. CASE worker' = WorkerIdle /\ UNCHANGED <<orders, fillIds, booked>>
    BY <1>3, <1>5 DEF CountInv, WorkerTrue, WorkerIdle
  <1>6. CASE worker' = ToMaterialize /\ id \in fillIds /\ UNCHANGED <<orders, fillIds, booked>>
    <2>1. Noticed[o] > 0
      BY <1>1, <1>6, CountTypes, NoticedSome
    <2> QED BY <1>1, <1>3, <1>4, <1>6, <2>1 DEF CountInv
  <1>7. CASE worker' = ToMaterialize /\ id \notin fillIds /\ FillFits(o, 1) /\ InsertFill(o, id, 1)
    <2> DEFINE total == orders[o].filled + 1
               st == IF total = orders[o].req THEN "FILLED" ELSE "PARTIALLY_FILLED"
               r == [orders[o] EXCEPT !.filled = total, !.bid = TRUE, !.status = st]
    <2>1. /\ orders \in [Orders -> OrderRow] /\ booked \in [Orders -> Nat]
          /\ orders[o].filled \in Nat /\ booked[o] \in Nat /\ Noticed[o] \in Nat
          /\ orders[o].req \in Nat /\ broker[o].filled \in Nat
      BY <1>1, CountTypes, CountNats
    <2>2. /\ fillIds' = fillIds \cup {id} /\ booked' = [booked EXCEPT ![o] = booked[o] + 1]
          /\ orders' = [orders EXCEPT ![o] = r] /\ total <= orders[o].req
      BY <1>7, <2>1 DEF InsertFill, FillFits
    <2>3. Noticed'[o] = Noticed[o] + 1
      <3>1. broker \in [Orders -> BrokerRow] /\ Noticed = NoticedIn(broker, fillIds)
            /\ Noticed' = NoticedIn(broker, fillIds \cup {id})
        BY <1>1, <2>2, CountTypes
      <3>2. \A k \in 1..broker[o].filled : KisFillId(o, k) \notin fillIds =>
              NoticedIn(broker, fillIds \cup {KisFillId(o, k)})[o] = NoticedIn(broker, fillIds)[o] + 1
        <4> HIDE DEF o
        <4> SUFFICES ASSUME NEW k \in 1..broker[o].filled, KisFillId(o, k) \notin fillIds
                     PROVE  NoticedIn(broker, fillIds \cup {KisFillId(o, k)})[o]
                              = NoticedIn(broker, fillIds)[o] + 1
          OBVIOUS
        <4>1. broker \in [Orders -> BrokerRow] /\ o \in Orders
          BY <1>1, <3>1
        <4> QED BY <4>1, NoticedMore
      <3> HIDE DEF o
      <3> QED BY <1>1, <1>7, <3>1, <3>2
    <2>4. ASSUME NEW x \in Orders \ {o}
          PROVE  /\ Noticed'[x] = Noticed[x]
                 /\ \A n \in Nat : KisFillId(x, n) \in fillIds' => n \in 1..broker'[x].filled
      <3>1. \A n \in Nat : KisFillId(x, n) \in fillIds' <=> KisFillId(x, n) \in fillIds
        BY <2>2 DEF KisFillId
      <3>2. broker[x].filled <= broker'[x].filled
        BY <1>1, CountNats
      <3>3. /\ NoticedIn(broker', fillIds')[x] = NoticedIn(broker, fillIds)[x]
            /\ \A n \in Nat : KisFillId(x, n) \in fillIds' => n \in 1..broker'[x].filled
        BY <3>1, <3>2, CountTypes, NoticedKept DEF CountInv
      <3> QED BY <3>3, CountTypes
    <2>5. TradedIn(broker', fillIds')
      <3>1. \A n \in Nat : KisFillId(o, n) \in fillIds' => n \in 1..broker'[o].filled
        BY <1>1, <2>2 DEF KisFillId, CountInv, TradedIn
      <3> QED BY <2>4, <3>1 DEF TradedIn
    <2>6. /\ r \in OrderRow /\ r.bid /\ r.status = st /\ r.req = orders[o].req /\ r.filled = total
          /\ st \in Unresolved \cup Terminal
      <3>1. /\ st \in Unresolved \cup Terminal /\ st \in Statuses /\ total \in Nat
            /\ orders[o] \in OrderRow
        BY <1>1, <2>1 DEF Statuses, Active, Unresolved, Terminal
      <3> HIDE DEF st, total, o
      <3> QED BY <3>1 DEF OrderRow
    <2>7. st \in Terminal => st = "FILLED" /\ total = orders[o].req
      BY DEF Terminal
    <2> HIDE DEF r, st
    <2>8. RowWrite(o, r)
      BY <2>2, <2>6, <2>7 DEF RowWrite
    <2>9. booked'[o] = booked[o] + 1 /\ \A x \in Orders \ {o} : booked'[x] = booked[x]
      BY <1>1, <2>1, <2>2
    <2>10. /\ booked'[o] <= broker[o].filled + Noticed'[o] /\ r.filled <= broker[o].filled + Noticed'[o]
           /\ Noticed'[o] <= booked'[o] /\ booked'[o] <= r.filled + Noticed'[o]
           /\ Noticed[o] <= Noticed'[o]
      <3>1. /\ Noticed[o] <= booked[o] /\ booked[o] <= orders[o].filled + Noticed[o]
            /\ booked[o] <= broker[o].filled + Noticed[o]
            /\ orders[o].filled <= broker[o].filled + Noticed[o]
        BY <1>1 DEF CountInv, RowsCounted
      <3> QED BY <2>1, <2>3, <2>6, <2>9, <3>1
    <2>11. /\ RowsTold' /\ RowsCounted' /\ InHand' /\ SubmittedAtMostOnce' /\ Forward
           /\ orders'[o] = r /\ \A x \in Orders \ {o} : orders'[x] = orders[x]
      BY <1>1, <2>4, <2>8, <2>9, <2>10, RowWriteCounts
    <2>12. NoPassBooks
      <3> SUFFICES ASSUME NEW x \in Orders
                   PROVE  /\ booked'[x] + Noticed[x] = booked[x] + Noticed'[x]
                          /\ orders'[x].filled + Noticed[x] <= orders[x].filled + Noticed'[x]
        BY DEF NoPassBooks
      <3>1. CASE x = o
        BY <2>1, <2>3, <2>6, <2>9, <2>11, <3>1
      <3>2. CASE x # o
        BY <2>4, <2>9, <2>11, <3>2, CountNats
      <3> QED BY <3>1, <3>2
    <2>13. WorkerTrue'
      BY <1>4, <1>7, <2>1, <2>3, <2>6, <2>11
    <2> QED BY <1>1, <2>5, <2>11, <2>12, <2>13, PassSurvives DEF CountInv
  <1> QED BY <1>2, <1>5, <1>6, <1>7

-----------------------------------------------------------------------------
(* The theorems                                                            *)

\* Every step keeps the counts.
LEMMA CountNext == CountInv /\ [NNext]_nvars => CountInv'
  <1> SUFFICES ASSUME CountInv, [NNext]_nvars PROVE CountInv'
    OBVIOUS
  <1>1. NoticeInv'
    BY NoticeNext DEF CountInv
  <1>2. CASE Step /\ UNCHANGED worker
    BY <1>1, <1>2, TraderCounts, SupervisorCounts, BrokerCounts, UpsetCounts DEF Step
  <1>3. CASE NoticeStep
    BY <1>1, <1>3, WorkerQuietCounts, RejectedCounts, FilledCounts DEF NoticeStep
  <1>4. CASE Crash /\ worker' = WorkerIdle
    BY <1>1, <1>4, UpsetCounts
  <1>5. CASE UNCHANGED nvars
    <2>1. UNCHANGED <<orders, broker, sent, fillIds, booked, trader, supVars, worker>>
      BY <1>5 DEF nvars, vars, ledgerVars, brokerVars
    <2> QED BY <1>1, <2>1, QuietSurvives, QuietForward, PassSurvives, WorkerSurvives,
               HandSurvives DEF CountInv
  <1> QED BY <1>2, <1>3, <1>4, <1>5 DEF NNext

\* Nothing is counted at the start.
LEMMA CountStart == NInit => CountInv
  <1> SUFFICES ASSUME NInit PROVE CountInv
    OBVIOUS
  <1>1. NoticeInv /\ IInv /\ worker.pc = "idle" /\ supPc = "idle"
    BY NoticeStart, InitInv DEF NInit, WorkerIdle, Init, SupInit
  <1>2. /\ fillIds = {} /\ booked = [o \in Orders |-> 0] /\ broker \in [Orders -> BrokerRow]
        /\ broker = [o \in Orders |-> [st |-> "NONE", filled |-> 0]]
        /\ orders = [o \in Orders |-> [status |-> "NONE", bid |-> FALSE, req |-> 0, filled |-> 0]]
        /\ sent = [o \in Orders |-> 0]
    BY <1>1 DEF NInit, Init, LedgerInit, BrokerInit, IInv, TypeOK, BrokerTypeOK
  <1>3. \A o \in Orders : Noticed[o] = 0
    <2>1. /\ NoticedIn(broker, fillIds) \in [Orders -> Nat]
          /\ \A o \in Orders : NoticedIn(broker, fillIds)[o] <= broker[o].filled
      BY <1>2, NoticedType
    <2>2. Noticed = NoticedIn(broker, fillIds)
      BY DEF Noticed, NoticedIn
    <2>3. \A o \in Orders : broker[o].filled = 0
      BY <1>2
    <2> QED BY <2>1, <2>2, <2>3
  <1>4. TradedIn(broker, fillIds)
    BY <1>2 DEF TradedIn
  <1>5. RowsTold /\ RowsCounted
    BY <1>2, <1>3 DEF RowsTold, RowsCounted, Terminal
  <1>6. ListTrue /\ LoopCounted /\ WorkerTrue
    BY <1>1 DEF ListTrue, LoopCounted, WorkerTrue, Reading, NInit, Init, SupInit, NoRows
  <1>7. InHand /\ SubmittedAtMostOnce
    BY <1>1 DEF IInv
  <1> QED BY <1>1, <1>4, <1>5, <1>6, <1>7 DEF CountInv

\* The inductive invariant of the counts, with the notice worker running.
THEOREM CountInvariance == NSpec => []CountInv
  BY CountStart, CountNext, PTL DEF NSpec

\* SubmittedAtMostOnce holds with the notice worker, too: no notice, whatever it
\* is about and whenever it comes, lets a client_order_id out a second time.
THEOREM NeverSubmittedTwiceWithNotices == NSpec => []SubmittedAtMostOnce
  <1>1. CountInv => SubmittedAtMostOnce
    BY DEF CountInv
  <1> QED BY <1>1, CountInvariance, PTL

\* OvercountIsBounded: what the double count can do to the ledger.
THEOREM OvercountingIsBounded == NSpec => []OvercountIsBounded
  <1>1. CountInv => OvercountIsBounded
    <2> SUFFICES ASSUME CountInv, NEW o \in Orders
                 PROVE  /\ booked[o] <= broker[o].filled + Noticed[o]
                        /\ broker[o].st = "OPEN" =>
                             \/ orders[o].status \in Active
                             \/ /\ orders[o].status = "FILLED" /\ orders[o].filled = orders[o].req
                                /\ Noticed[o] > 0
      BY DEF OvercountIsBounded
    <2>1. TypeOK
      BY DEF CountInv, NoticeInv
    <2>2. /\ orders[o].status \in Statuses /\ orders[o].filled \in Nat /\ orders[o].req \in Nat
          /\ broker[o].filled \in Nat /\ broker \in [Orders -> BrokerRow]
      BY <2>1 DEF TypeOK, LedgerTypeOK, BrokerTypeOK, OrderRow, BrokerRow
    <2>3. Noticed[o] \in Nat
      <3>1. Noticed = NoticedIn(broker, fillIds)
        BY DEF Noticed, NoticedIn
      <3> QED BY <2>2, <3>1, NoticedType
    <2>4. /\ booked[o] <= broker[o].filled + Noticed[o]
          /\ orders[o].filled <= broker[o].filled + Noticed[o]
          /\ broker[o].st = "OPEN" => broker[o].filled < orders[o].req
          /\ orders[o].status \in Terminal /\ broker[o].st = "OPEN" =>
               orders[o].status = "FILLED" /\ orders[o].filled = orders[o].req
          /\ broker[o].st = "OPEN" => orders[o].status # "NONE"
      BY DEF CountInv, RowsCounted, RowsTold
    <2> QED BY <2>2, <2>3, <2>4 DEF Statuses
  <1> QED BY <1>1, CountInvariance, PTL

-----------------------------------------------------------------------------
(***************************************************************************)
(* Exclusion with the worker.  The guard of an entry looks for unresolved  *)
(* rows, and a share counted twice may resolve the row of a working order; *)
(* so the exclusions of OrderFlow are kept for as long as no such count is *)
(* possible.                                                               *)
(***************************************************************************)

\* The exits of a symbol.
SymbolSells(sym) == {x \in Sells : Sym(x) = sym}

\* Of the entries, what OrderFlow's invariant says of them.
EntriesExcluded == SettledEntryAlone /\ EntryAlone

\* Of the exits of one symbol: no two work, and none while one is prepared.
ExitsExcluded(sym) ==
    /\ \A s, t \in SymbolSells(sym) : broker[s].st = "OPEN" /\ broker[t].st = "OPEN" => s = t
    /\ (/\ trader.o \in SymbolSells(sym)
        /\ trader.pc \in {"deciding", "quoting", "claimed", "submitting", "checked", "cleared"}) =>
          \A s \in SymbolSells(sym) : broker[s].st # "OPEN"

\* The inductive invariant of exclusion.
ExclusionInv ==
    /\ CountInv
    /\ CountedOnce(Buys) => EntriesExcluded
    /\ \A sym \in Symbols : CountedOnce(SymbolSells(sym)) => ExitsExcluded(sym)

\* A working order that is counted once has an active row.
LEMMA OnceIsActive ==
    ASSUME CountInv, NEW o \in Orders, broker[o].st = "OPEN", Noticed[o] = 0 \/ orders[o].req = 1
    PROVE  orders[o].status \in Active \ {"INTENT"}
  <1>1. TypeOK
    BY DEF CountInv, NoticeInv
  <1>2. /\ orders[o].status \in Statuses /\ orders[o].filled \in Nat /\ orders[o].req \in Nat
        /\ broker[o].filled \in Nat /\ broker \in [Orders -> BrokerRow]
    BY <1>1 DEF TypeOK, LedgerTypeOK, BrokerTypeOK, OrderRow, BrokerRow
  <1>3. Noticed[o] \in Nat /\ Noticed[o] <= broker[o].filled
    <2>1. Noticed = NoticedIn(broker, fillIds)
      BY DEF Noticed, NoticedIn
    <2> QED BY <1>2, <2>1, NoticedType
  <1>4. /\ orders[o].filled <= broker[o].filled + Noticed[o]
        /\ broker[o].filled < orders[o].req
        /\ orders[o].status \in Terminal => orders[o].filled = orders[o].req
        /\ orders[o].status \in {"NONE", "INTENT"} => sent[o] = 0
        /\ sent[o] = 1
    BY DEF CountInv, RowsCounted, RowsTold
  <1> QED BY <1>2, <1>3, <1>4 DEF Statuses, Active

\* A fill of the worker's is counted from then on: an order without one now
\* never had one.
LEMMA UnnoticedBefore ==
    ASSUME CountInv, NoticeInv', fillIds \subseteq fillIds', NEW x \in Orders,
           broker[x].filled <= broker'[x].filled, Noticed'[x] = 0
    PROVE  Noticed[x] = 0
  <1> DEFINE T == {n \in 1..broker[x].filled : KisFillId(x, n) \in fillIds}
  <1>1. T = {}
    <2> SUFFICES ASSUME NEW n \in 1..broker[x].filled, KisFillId(x, n) \in fillIds
                 PROVE  FALSE
      OBVIOUS
    <2>1. broker'[x].filled \in Nat /\ broker[x].filled \in Nat
      BY CountNats
    <2>2. n \in 1..broker'[x].filled /\ KisFillId(x, n) \in fillIds'
      BY <2>1
    <2>3. broker' \in [Orders -> BrokerRow] /\ Noticed' = NoticedIn(broker', fillIds')
      BY CountTypes
    <2>4. Noticed'[x] > 0
      BY <2>2, <2>3, NoticedSome
    <2> QED BY <2>4
  <1>2. Noticed[x] = Cardinality(T)
    BY DEF Noticed
  <1> HIDE DEF T
  <1> QED BY <1>1, <1>2, FS_EmptySet

\* A numbered order keeps the quantity it was requested with, and any other has
\* no fills noticed: what is counted once now always was.
LEMMA OnceBefore ==
    ASSUME CountInv, NoticeInv', fillIds \subseteq fillIds',
           \A x \in Orders : /\ broker[x].filled <= broker'[x].filled
                             /\ orders[x].bid => orders'[x].req = orders[x].req
    PROVE  \A x \in Orders : Noticed'[x] = 0 \/ orders'[x].req = 1 =>
                               Noticed[x] = 0 \/ orders[x].req = 1
  BY UnnoticedBefore DEF CountInv, RowsTold

-----------------------------------------------------------------------------
(* What the other threads leave of the exclusions                          *)

\* Rows without an order number are the trading thread's, and only it opens
\* an order at the broker.
OthersMove ==
    /\ fillIds \subseteq fillIds'
    /\ \A x \in Orders :
          /\ broker'[x].st = "OPEN" => broker[x].st = "OPEN"
          /\ broker[x].filled <= broker'[x].filled
          /\ ~orders[x].bid => orders'[x] = orders[x]
          /\ orders'[x].req = orders[x].req

\* Such a step of another thread keeps the exclusions.
LEMMA OthersExclude ==
    ASSUME ExclusionInv, CountInv', OthersMove, trader' = trader \/ trader'.pc \in {"idle", "cycle"}
    PROVE  ExclusionInv'
  <1>1. NoticeInv' /\ CountInv
    BY DEF CountInv, ExclusionInv
  <1>2. \A x \in Orders : Noticed'[x] = 0 \/ orders'[x].req = 1 =>
                               Noticed[x] = 0 \/ orders[x].req = 1
    BY <1>1, OnceBefore DEF OthersMove
  <1>3. \A x \in Orders : orders[x].status = "SUBMITTING" => orders'[x].status = "SUBMITTING"
    BY <1>1 DEF OthersMove, CountInv, RowsTold
  <1>4. ASSUME CountedOnce(Buys)' PROVE EntriesExcluded'
    <2>1. EntriesExcluded
      BY <1>2, <1>4 DEF ExclusionInv, CountedOnce, Orders
    <2>2. SettledEntryAlone'
      BY <1>3, <2>1 DEF OthersMove, EntriesExcluded, SettledEntryAlone, Orders
    <2>3. EntryAlone'
      <3>1. CASE trader' = trader
        BY <1>3, <2>1, <3>1 DEF OthersMove, EntriesExcluded, EntryAlone, Orders
      <3>2. CASE trader'.pc \in {"idle", "cycle"}
        BY <3>2 DEF EntryAlone
      <3> QED BY <3>1, <3>2
    <2> QED BY <2>2, <2>3 DEF EntriesExcluded
  <1>5. ASSUME NEW sym \in Symbols, CountedOnce(SymbolSells(sym))' PROVE ExitsExcluded(sym)'
    <2>1. ExitsExcluded(sym)
      BY <1>2, <1>5 DEF ExclusionInv, CountedOnce, SymbolSells, Orders
    <2> QED BY <2>1 DEF OthersMove, ExitsExcluded, SymbolSells, Orders
  <1> QED BY <1>4, <1>5 DEF ExclusionInv

\* The supervisor rewrites numbered rows only.
LEMMA PassMoves ==
    ASSUME CountInv, NoticeInv', SupervisorStep
    PROVE  OthersMove
  <1> DEFINE Kept == /\ broker' = broker /\ fillIds \subseteq fillIds'
                     /\ \A x \in Orders : /\ ~orders[x].bid => orders'[x] = orders[x]
                                          /\ orders'[x].req = orders[x].req
  <1>1. orders \in [Orders -> OrderRow]
    BY CountTypes
  <1>2. LoopCounted
    BY DEF CountInv
  <1>3. ASSUME QuietPass \/ RecMaterialize PROVE Kept
    BY <1>3 DEF QuietPass, SupFetchOrders, SupFetchFails, SupException, SupLeaseInvalid,
           SupFetchAccount, RecReadRows, RecMaterializeRead, RecFinish, CancelBuysStart,
           ManageStart, RecSkip, LeaveRow, CancelSent, StoreMarker, RowLoopEnd, SupEnd,
           RecMaterialize, ledgerVars, brokerVars
  <1>4. ASSUME NEW o \in Orders, RecBook(o) PROVE Kept
    <2>1. orders[o].bid /\ broker' = broker
      BY <1>2, <1>4 DEF RecBook, RecUnsettled, Found, LoopCounted, brokerVars
    <2>2. \/ UNCHANGED <<orders, fillIds>>
          \/ InsertFill(o, RecFillId(o), RecDelta(o))
      BY <1>4 DEF RecBook, ApplyBrokerFill
    <2> QED BY <1>1, <2>1, <2>2 DEF InsertFill, OrderRow
  <1>5. ASSUME RecStatus PROVE Kept
    <2>1. cur \in Orders /\ orders[cur].bid
      BY <1>2, <1>5 DEF RecStatus, LoopCounted
    <2> QED BY <1>1, <1>5, <2>1 DEF RecStatus, UpdateBrokerOrderStatus, brokerVars, OrderRow
  <1>6. ASSUME NEW o \in Orders, CancelUnlisted(o) PROVE Kept
    <2>1. orders[o].bid
      BY <1>2, <1>6 DEF CancelUnlisted, Row, LoopCounted
    <2> QED BY <1>1, <1>6, <2>1 DEF CancelUnlisted, MarkOrderUnknown, brokerVars, OrderRow
  <1>7. ASSUME NEW o \in Orders, ManageMarked(o) PROVE Kept
    <2>1. \/ orders' = orders
          \/ /\ orders[o].bid
             /\ \E st : UpdateBrokerOrderStatus(o, st, snap[o].filled)
      BY <1>2, <1>7 DEF ManageMarked, Found, LoopCounted
    <2>2. UNCHANGED <<broker, fillIds>>
      BY <1>7 DEF ManageMarked, brokerVars
    <2>3. CASE orders' = orders
      BY <2>2, <2>3
    <2>4. ASSUME orders[o].bid, NEW st, UpdateBrokerOrderStatus(o, st, snap[o].filled)
          PROVE  Kept
      <3>1. /\ \A x \in Orders \ {o} : orders'[x] = orders[x]
            /\ orders'[o].req = orders[o].req
        BY <1>1, <2>4 DEF UpdateBrokerOrderStatus, OrderRow
      <3> QED BY <2>2, <2>4, <3>1
    <2> QED BY <2>1, <2>3, <2>4
  <1>8. ASSUME NEW o \in Orders, CancelMark(o) PROVE Kept
    <2>1. orders[o].bid
      BY <1>2, <1>8 DEF CancelMark, Cancellable, Found, LoopCounted
    <2> QED BY <1>1, <1>8, <2>1 DEF CancelMark, UpdateBrokerOrderStatus, brokerVars, OrderRow
  <1>9. ASSUME CancelAmbiguous PROVE Kept
    <2>1. cur \in Orders /\ orders[cur].bid
      BY <1>2, <1>9 DEF CancelAmbiguous, LoopCounted
    <2> QED BY <1>1, <1>9, <2>1 DEF CancelAmbiguous, MarkOrderUnknown, OrderRow
  <1>10. Kept
    BY <1>3, <1>4, <1>5, <1>6, <1>7, <1>8, <1>9 DEF SupervisorStep, QuietPass
  <1> QED BY <1>10, CountNats DEF OthersMove

\* The broker opens nothing by itself.
LEMMA BrokerMoves ==
    ASSUME CountInv, NoticeInv', BrokerStep
    PROVE  OthersMove
  <1>1. UNCHANGED <<orders, fillIds>>
    BY DEF BrokerStep, BrokerFill, BrokerCancel, BrokerReject, SessionAdvances, ledgerVars
  <1>2. broker \in [Orders -> BrokerRow] /\ \A x \in Orders : broker[x].filled \in Nat
    BY CountTypes, CountNats
  <1> DEFINE Grown == \A x \in Orders : /\ broker'[x].st = "OPEN" => broker[x].st = "OPEN"
                                        /\ broker[x].filled <= broker'[x].filled
  <1>3. ASSUME NEW o \in Orders, BrokerFill(o) PROVE Grown
    BY <1>2, <1>3 DEF BrokerFill
  <1>4. ASSUME NEW o \in Orders, BrokerCancel(o) \/ BrokerReject(o) PROVE Grown
    BY <1>2, <1>4 DEF BrokerCancel, BrokerReject, BrokerRow
  <1>5. ASSUME SessionAdvances PROVE Grown
    BY <1>2, <1>5 DEF SessionAdvances
  <1>6. Grown
    BY <1>3, <1>4, <1>5 DEF BrokerStep
  <1> QED BY <1>1, <1>6 DEF OthersMove

\* The worker rewrites the row of the notice in its hands, a numbered one.
LEMMA WorkerMoves ==
    ASSUME CountInv, NoticeInv', NoticeStep
    PROVE  OthersMove /\ trader' = trader
  <1>1. broker' = broker /\ trader' = trader
    BY DEF NoticeStep, NoticeUnmatched, NoticeReceive, NoticeAccepted, NoticeRejected,
           NoticeDuplicate, NoticeFilled, NoticeMaterializeRead, NoticeMaterialize, Rest, brokerVars
  <1>2. orders \in [Orders -> OrderRow]
    BY CountTypes
  <1> DEFINE o == worker.o
             Kept == /\ fillIds \subseteq fillIds'
                     /\ \A x \in Orders : /\ ~orders[x].bid => orders'[x] = orders[x]
                                          /\ orders'[x].req = orders[x].req
  <1>3. ASSUME UNCHANGED <<orders, fillIds>> PROVE Kept
    BY <1>3
  <1>4. ASSUME NoticeRejected PROVE Kept
    <2>1. o \in Orders /\ orders[o].bid /\ fillIds' = fillIds
      BY <1>4, CountTypes DEF NoticeRejected, CountInv, WorkerTrue, Acting
    <2> QED BY <1>2, <1>4, <2>1 DEF NoticeRejected, UpdateStatusOnly, OrderRow
  <1>5. ASSUME NoticeFilled PROVE Kept
    <2>1. o \in Orders /\ orders[o].bid
      BY <1>5, CountTypes DEF NoticeFilled, CountInv, WorkerTrue, Acting
    <2>2. \/ UNCHANGED <<orders, fillIds>>
          \/ InsertFill(o, KisFillId(o, worker.n), 1)
      BY <1>5 DEF NoticeFilled, ApplyBrokerFill
    <2> QED BY <1>2, <2>1, <2>2 DEF InsertFill, OrderRow
  <1>6. Kept
    BY <1>3, <1>4, <1>5 DEF NoticeStep, NoticeUnmatched, NoticeReceive, NoticeAccepted,
       NoticeDuplicate, NoticeMaterializeRead, NoticeMaterialize, ledgerVars
  <1> QED BY <1>1, <1>6, CountNats DEF OthersMove

-----------------------------------------------------------------------------
(* The trading thread keeps the exclusions                                 *)

\* Steps that write no row and send nothing: the guard finds no other entry,
\* the look for a pending exit no other exit.
LEMMA TraderQuietExclude ==
    ASSUME ExclusionInv, CountInv', UNCHANGED <<supVars, upsets, worker>>,
           \/ CycleStart \/ CycleEnd \/ Decline
           \/ \E b \in Buys : EnterStart(b) \/ ExitExhausted(b)
           \/ \E s \in Sells : ExitStart(s)
           \/ GuardCheck \/ GuardRecheck
    PROVE  ExclusionInv'
  <1>1. UNCHANGED <<orders, broker, sent, fillIds, booked>>
    BY DEF CycleStart, CycleEnd, Decline, EnterStart, ExitExhausted, ExitStart, GuardCheck,
           GuardRecheck, ledgerVars, brokerVars
  <1>2. Noticed' = Noticed
    BY <1>1 DEF Noticed
  <1>3. CountInv /\ NoticeInv'
    BY DEF ExclusionInv, CountInv
  <1>4. trader \in [pc: TraderPcs, o: Orders \cup {None}, q: Nat, left: SUBSET Symbols] /\ TypeOK
    BY <1>3, CountTypes DEF TypeOK, TraderTypeOK
  \* How the thread moves.
  <1> DEFINE Idle == trader'.pc \in {"idle", "cycle"}
             Starts(s) == /\ trader'.pc = "quoting" /\ trader'.o = s
                          /\ ~HasUnresolvedSell(Sym(s))
             Enters(b) == trader'.pc = "deciding" /\ trader'.o = b
             Guards == /\ trader'.o = trader.o
                       /\ \/ trader.pc = "submitting" /\ trader'.pc = "checked" /\ GuardPasses
                          \/ trader.pc = "checked" /\ trader'.pc = "cleared"
                          \/ trader.pc \in {"submitting", "checked"} /\ trader'.pc = "failed"
  <1>5. Idle \/ (\E b \in Buys : Enters(b)) \/ (\E s \in Sells : Starts(s)) \/ Guards
    <2>1. ASSUME CycleStart \/ CycleEnd PROVE Idle
      <3>1. trader' = TraderIdle
            \/ trader' = [pc |-> "cycle", o |-> None, q |-> 0, left |-> Symbols]
        BY <2>1 DEF CycleStart, CycleEnd, TraderIdle
      <3> QED BY <3>1 DEF TraderIdle
    <2>2. ASSUME Decline PROVE Idle
      BY <1>4, <2>2, DoneIdle DEF Decline
    <2>3. ASSUME NEW b \in Buys, ExitExhausted(b) PROVE Idle
      BY <1>4, <2>3 DEF ExitExhausted, Turn, At, TraderIdle
    <2>4. ASSUME NEW b \in Buys, EnterStart(b) PROVE Enters(b)
      BY <2>4 DEF EnterStart, Attempt
    <2>5. ASSUME NEW s \in Sells, ExitStart(s) PROVE Starts(s)
      BY <2>5 DEF ExitStart, Attempt
    <2>6. ASSUME GuardCheck PROVE Guards
      BY <1>4, <2>6 DEF GuardCheck, At, Goto
    <2>7. ASSUME GuardRecheck PROVE Guards
      BY <1>4, <2>7 DEF GuardRecheck, At, Goto
    <2> HIDE DEF Idle, Starts, Enters, Guards
    <2> QED BY <2>1, <2>2, <2>3, <2>4, <2>5, <2>6, <2>7
  <1>6. trader.pc \in {"submitting", "checked"} => trader.o \in Orders /\ broker[trader.o].st = "NONE"
    BY <1>3 DEF CountInv, InHand, RowsTold
  <1>7. ASSUME CountedOnce(Buys)' PROVE EntriesExcluded'
    <2>1. CountedOnce(Buys) /\ SettledEntryAlone /\ EntryAlone
      BY <1>1, <1>2, <1>7 DEF ExclusionInv, EntriesExcluded, CountedOnce
    <2>2. SettledEntryAlone'
      BY <1>1, <2>1 DEF SettledEntryAlone
    <2>3. GuardPasses /\ trader.o \in Buys =>
            \A b \in Buys : broker[b].st = "OPEN" => orders[b].status = "SUBMITTING"
      BY <1>3, <2>1, OnceIsActive DEF GuardPasses, BuyGuard, Active, CountedOnce, Orders
    <2>4. EntryAlone'
      BY <1>1, <1>5, <1>6, <2>1, <2>3 DEF EntryAlone
    <2> QED BY <2>2, <2>4 DEF EntriesExcluded
  <1>8. ASSUME NEW sym \in Symbols, CountedOnce(SymbolSells(sym))' PROVE ExitsExcluded(sym)'
    <2>1. CountedOnce(SymbolSells(sym)) /\ ExitsExcluded(sym)
      BY <1>1, <1>2, <1>8 DEF ExclusionInv, CountedOnce
    <2>2. ASSUME NEW s \in SymbolSells(sym), ~HasUnresolvedSell(Sym(s)), NEW t \in SymbolSells(sym)
          PROVE  broker[t].st # "OPEN"
      BY <1>3, <2>1, <2>2, OnceIsActive DEF HasUnresolvedSell, CountedOnce, SymbolSells, Orders
    <2>3. \A b \in Buys : b \notin SymbolSells(sym)
      BY OrdersAssumption DEF SymbolSells
    <2>4. \A s \in SymbolSells(sym) : Starts(s) => \A t \in SymbolSells(sym) : broker[t].st # "OPEN"
      BY <2>2
    <2> QED BY <1>1, <1>5, <2>1, <2>3, <2>4 DEF ExitsExcluded
  <1> QED BY <1>7, <1>8 DEF ExclusionInv

\* Steps of the thread that write the row it has in hand.
LEMMA TraderWritesExclude ==
    ASSUME ExclusionInv, CountInv', UNCHANGED <<supVars, upsets, worker>>,
           Claim \/ Submitting \/ RecordSubmission \/ RecordFailure
    PROVE  ExclusionInv'
  <1> DEFINE o == trader.o
  <1>1. CountInv /\ NoticeInv' /\ TypeOK
    BY DEF ExclusionInv, CountInv, NoticeInv
  <1>2. o \in Orders
    BY <1>1 DEF CountInv, InHand, Claim, Submitting, RecordSubmission, RecordFailure, At
  <1>3. /\ TraderWrite(o) /\ \A x \in Orders \ {o} : orders'[x] = orders[x]
        /\ UNCHANGED <<fillIds, booked, broker, sent>>
    BY <1>1, <1>2, TraderWriteShape
  <1>4. /\ trader.pc \in {"acked", "failed"} => orders[o].status = "SUBMITTING"
        /\ trader.pc = "claimed" => orders[o].status = "INTENT"
        /\ orders[o].status \in {"NONE", "INTENT", "SUBMITTING"} => ~orders[o].bid
    BY <1>1, <1>2 DEF CountInv, InHand, RowsTold
  <1>5. \A x \in Orders : Noticed'[x] = 0 \/ orders'[x].req = 1 =>
                               Noticed[x] = 0 \/ orders[x].req = 1
    <2>1. \A x \in Orders : /\ broker[x].filled <= broker'[x].filled
                            /\ orders[x].bid => orders'[x].req = orders[x].req
      BY <1>1, <1>2, <1>3, <1>4, CountNats DEF TraderWrite, TraderWrites
    <2> QED BY <1>1, <1>3, <2>1, OnceBefore
  <1>6. ASSUME CountedOnce(Buys)' PROVE EntriesExcluded'
    <2>1. SettledEntryAlone /\ EntryAlone
      BY <1>5, <1>6 DEF ExclusionInv, EntriesExcluded, CountedOnce, Orders
    <2>2. EntryAlone'
      BY <1>3 DEF EntryAlone, TraderWrite
    <2>3. SettledEntryAlone'
      <3> SUFFICES ASSUME NEW a \in Buys, NEW b \in Buys,
                          broker[a].st = "OPEN", orders'[a].status # "SUBMITTING",
                          broker[b].st = "OPEN", orders'[b].status # "SUBMITTING"
                   PROVE  a = b
        BY <1>3 DEF SettledEntryAlone
      <3>0. \A x \in Orders : orders[x].status = "SUBMITTING" /\ orders'[x].status # "SUBMITTING" =>
                                x = o /\ trader.pc \in {"acked", "failed"}
        BY <1>3, <1>4 DEF TraderWrite, TraderWrites
      <3>1. CASE orders[a].status # "SUBMITTING" /\ orders[b].status # "SUBMITTING"
        BY <2>1, <3>1 DEF SettledEntryAlone
      <3>2. CASE orders[a].status = "SUBMITTING"
        <4>1. a = o /\ trader.pc \in {"acked", "failed"}
          BY <3>0, <3>2 DEF Orders
        <4> QED BY <1>3, <2>1, <4>1 DEF EntryAlone, Orders
      <3>3. CASE orders[b].status = "SUBMITTING"
        <4>1. b = o /\ trader.pc \in {"acked", "failed"}
          BY <3>0, <3>3 DEF Orders
        <4> QED BY <1>3, <2>1, <4>1 DEF EntryAlone, Orders
      <3> QED BY <3>1, <3>2, <3>3
    <2> QED BY <2>2, <2>3 DEF EntriesExcluded
  <1>7. ASSUME NEW sym \in Symbols, CountedOnce(SymbolSells(sym))' PROVE ExitsExcluded(sym)'
    <2>1. ExitsExcluded(sym)
      BY <1>5, <1>7 DEF ExclusionInv, CountedOnce, SymbolSells, Orders
    <2> QED BY <1>3, <2>1 DEF ExitsExcluded, TraderWrite
  <1> QED BY <1>6, <1>7 DEF ExclusionInv

\* The submission: the order opens where no rival works.
LEMMA SubmitExclude ==
    ASSUME ExclusionInv, CountInv', UNCHANGED <<supVars, upsets, worker>>,
           SubmitAccepted \/ SubmitRefused
    PROVE  ExclusionInv'
  <1> DEFINE o == trader.o
  <1>1. CountInv /\ NoticeInv' /\ TypeOK
    BY DEF ExclusionInv, CountInv, NoticeInv
  <1>2. /\ UNCHANGED <<orders, fillIds>>
        /\ trader.pc = "cleared" /\ trader'.o = o /\ trader'.pc \in {"acked", "failed"}
    BY <1>1 DEF SubmitAccepted, SubmitRefused, At, Goto, TypeOK, TraderTypeOK, ledgerVars
  <1>3. o \in Orders /\ orders[o].status = "SUBMITTING" /\ broker[o].filled = 0
    BY <1>1, <1>2 DEF CountInv, InHand, RowsTold
  <1>4. \A x \in Orders \ {o} : broker'[x] = broker[x]
    BY <1>1, <1>3, CountTypes DEF SubmitAccepted, SubmitRefused
  <1>5. \A x \in Orders : Noticed'[x] = 0 \/ orders'[x].req = 1 =>
                               Noticed[x] = 0 \/ orders[x].req = 1
    <2>1. \A x \in Orders : broker[x].filled <= broker'[x].filled
      BY <1>1, <1>3, <1>4, CountNats
    <2> QED BY <1>1, <1>2, <2>1, OnceBefore
  <1>6. ASSUME CountedOnce(Buys)' PROVE EntriesExcluded'
    <2>1. SettledEntryAlone /\ EntryAlone
      BY <1>5, <1>6 DEF ExclusionInv, EntriesExcluded, CountedOnce, Orders
    <2>2. EntryAlone'
      BY <1>2, <1>3, <1>4, <2>1 DEF EntryAlone, Orders
    <2>3. SettledEntryAlone'
      BY <1>2, <1>3, <1>4, <2>1 DEF SettledEntryAlone, Orders
    <2> QED BY <2>2, <2>3 DEF EntriesExcluded
  <1>7. ASSUME NEW sym \in Symbols, CountedOnce(SymbolSells(sym))' PROVE ExitsExcluded(sym)'
    <2>1. ExitsExcluded(sym)
      BY <1>5, <1>7 DEF ExclusionInv, CountedOnce, SymbolSells, Orders
    <2> QED BY <1>2, <1>4, <2>1 DEF ExitsExcluded, SymbolSells, Orders
  <1> QED BY <1>6, <1>7 DEF ExclusionInv

\* Every step keeps the exclusions.
LEMMA ExclusionNext == ExclusionInv /\ [NNext]_nvars => ExclusionInv'
  <1> SUFFICES ASSUME ExclusionInv, [NNext]_nvars PROVE ExclusionInv'
    OBVIOUS
  <1>1. CountInv /\ CountInv' /\ NoticeInv'
    BY CountNext DEF ExclusionInv, CountInv
  <1>2. ASSUME UNCHANGED <<orders, broker, fillIds>> PROVE OthersMove
    BY <1>1, <1>2, CountNats DEF OthersMove
  <1>3. ASSUME TraderStep, UNCHANGED <<supVars, upsets, worker>> PROVE ExclusionInv'
    BY <1>1, <1>3, TraderQuietExclude, TraderWritesExclude, SubmitExclude DEF TraderStep
  <1>4. CASE SupervisorStep /\ UNCHANGED trader
    BY <1>1, <1>4, PassMoves, OthersExclude
  <1>5. CASE BrokerStep /\ UNCHANGED trader
    BY <1>1, <1>5, BrokerMoves, OthersExclude
  <1>6. CASE RequestCancelBuys \/ GateChanges \/ Crash
    <2>1. UNCHANGED <<orders, broker, fillIds>> /\ (trader' = trader \/ trader'.pc = "idle")
      BY <1>6 DEF RequestCancelBuys, GateChanges, Crash, ledgerVars, brokerVars, TraderIdle
    <2> QED BY <1>1, <1>2, <2>1, OthersExclude
  <1>7. CASE NoticeStep
    BY <1>1, <1>7, WorkerMoves, OthersExclude
  <1>8. CASE UNCHANGED nvars
    <2>1. UNCHANGED <<orders, broker, fillIds, trader>>
      BY <1>8 DEF nvars, vars, ledgerVars, brokerVars
    <2> QED BY <1>1, <1>2, <2>1, OthersExclude
  <1> QED BY <1>3, <1>4, <1>5, <1>6, <1>7, <1>8 DEF NNext, Step

\* ExclusionWhenCountedOnce: with the notice worker running, two entries work at
\* once, or two exits of a symbol, only after a fill was stored from its notice
\* for an entry, or an exit of the symbol, of more than one share.
THEOREM ExclusiveWhenCountedOnce == NSpec => []ExclusionWhenCountedOnce
  <1>1. NInit => ExclusionInv
    <2> SUFFICES ASSUME NInit PROVE ExclusionInv
      OBVIOUS
    <2>1. CountInv /\ IInv
      BY CountStart, InitInv DEF NInit
    <2>2. EntriesExcluded
      BY <2>1 DEF IInv, EntriesExcluded
    <2>3. \A sym \in Symbols : ExitsExcluded(sym)
      BY <2>1 DEF IInv, SellExclusion, ExitAlone, ExitsExcluded, SymbolSells
    <2> QED BY <2>1, <2>2, <2>3 DEF ExclusionInv
  <1>2. ExclusionInv => ExclusionWhenCountedOnce
    <2> SUFFICES ASSUME ExclusionInv PROVE ExclusionWhenCountedOnce
      OBVIOUS
    <2>1. ASSUME CountedOnce(Buys) PROVE BuyExclusion
      <3>0. SettledEntryAlone /\ EntryAlone
        BY <2>1 DEF ExclusionInv, EntriesExcluded
      <3> SUFFICES ASSUME NEW a \in Buys, NEW b \in Buys,
                          broker[a].st = "OPEN", broker[b].st = "OPEN",
                          Recorded(a), Recorded(b)
                   PROVE  a = b
        BY DEF BuyExclusion
      <3>1. CASE orders[a].status # "SUBMITTING" /\ orders[b].status # "SUBMITTING"
        BY <3>0, <3>1 DEF SettledEntryAlone
      <3>2. CASE orders[a].status = "SUBMITTING" \/ orders[b].status = "SUBMITTING"
        BY <3>0, <3>2 DEF EntryAlone, Recorded
      <3> QED BY <3>1, <3>2
    <2>2. ASSUME NEW s \in Sells, NEW t \in Sells, CountedOnce({x \in Sells : Sym(x) = Sym(s)}),
                 broker[s].st = "OPEN", broker[t].st = "OPEN", Sym(s) = Sym(t)
          PROVE  s = t
      <3>1. Sym(s) \in Symbols
        BY SymType DEF Orders
      <3>2. CountedOnce(SymbolSells(Sym(s)))
        BY <2>2 DEF SymbolSells
      <3>3. ExitsExcluded(Sym(s))
        BY <3>1, <3>2 DEF ExclusionInv
      <3> QED BY <2>2, <3>3 DEF ExitsExcluded, SymbolSells
    <2> QED BY <2>1, <2>2 DEF ExclusionWhenCountedOnce
  <1> QED BY <1>1, <1>2, ExclusionNext, PTL DEF NSpec

-----------------------------------------------------------------------------
(* Before the first notice                                                 *)

\* No fill was stored from its notice.
Unnoticed == \A o \in Orders : Noticed[o] = 0

\* Until one is, everything holds that OrderFlow's own invariant says.
SafeInv == CountInv /\ (Unnoticed => IInv /\ FillsOK)

\* Stored fills and traded shares only accumulate.
LEMMA FillsAccumulate ==
    ASSUME CountInv, NoticeInv', [NNext]_nvars
    PROVE  /\ fillIds \subseteq fillIds'
           /\ \A x \in Orders : broker[x].filled <= broker'[x].filled
  <1>1. ASSUME UNCHANGED <<broker, fillIds>>
        PROVE  /\ fillIds \subseteq fillIds'
               /\ \A x \in Orders : broker[x].filled <= broker'[x].filled
    BY <1>1, CountNats
  <1>2. CASE SubmitAccepted
    <2>1. fillIds' = fillIds /\ trader.pc = "cleared"
      BY <1>2 DEF SubmitAccepted, At, ledgerVars
    <2>2. trader.o \in Orders /\ broker[trader.o].filled = 0
      BY <2>1 DEF CountInv, InHand, RowsTold
    <2>3. \A x \in Orders \ {trader.o} : broker'[x] = broker[x]
      BY <1>2, <2>2, CountTypes DEF SubmitAccepted
    <2> QED BY <2>1, <2>2, <2>3, CountNats
  <1>3. CASE TraderStep /\ ~SubmitAccepted
    BY <1>1, <1>3 DEF TraderStep, CycleStart, CycleEnd, EnterStart, ExitExhausted, ExitStart,
         Decline, Claim, Submitting, GuardCheck, GuardRecheck, SubmitRefused,
         RecordSubmission, RecordFailure, ledgerVars, brokerVars
  <1>4. CASE SupervisorStep \/ BrokerStep \/ NoticeStep
    BY <1>4, PassMoves, BrokerMoves, WorkerMoves DEF OthersMove
  <1>5. CASE RequestCancelBuys \/ GateChanges \/ Crash \/ UNCHANGED nvars
    BY <1>1, <1>5 DEF RequestCancelBuys, GateChanges, Crash, nvars, vars, ledgerVars, brokerVars
  <1> QED BY <1>2, <1>3, <1>4, <1>5 DEF NNext, Step

\* Before and after a step that leaves no fill noticed, the worker has no known
\* fill in its hands: it applies none and stores none, and the only row it
\* rewrites is that of an order the broker rejected.
LEMMA WorkerAppliesNothing ==
    ASSUME CountInv, CountInv', Unnoticed, Unnoticed', NoticeStep
    PROVE  /\ UNCHANGED <<broker, sent, booked, applied, positions, trader, supVars>>
           /\ orders' = orders \/ NoticeRejected
  <1>1. UNCHANGED <<broker, sent, trader, supVars>>
    BY DEF NoticeStep, NoticeUnmatched, NoticeReceive, NoticeAccepted, NoticeRejected,
           NoticeDuplicate, NoticeFilled, NoticeMaterializeRead, NoticeMaterialize, Rest, brokerVars
  <1>2. WorkerTrue /\ WorkerTrue'
    BY DEF CountInv
  <1>3. worker.pc # "idle" => worker.o \in Orders
    BY DEF CountInv, NoticeInv, Hands
  <1>4. worker.pc # "matwrite"
    BY <1>2, <1>3 DEF WorkerTrue, Unnoticed
  <1>5. ASSUME NoticeFilled PROVE UNCHANGED <<orders, booked, applied, positions>>
    <2>1. worker.pc = "act" /\ worker.o \in Orders /\ UNCHANGED <<applied, positions>>
      BY <1>3, <1>5 DEF NoticeFilled, Acting
    <2>2. worker' # ToMaterialize
      <3>1. worker' = ToMaterialize => worker'.pc = "matread" /\ worker'.o = worker.o
        BY DEF ToMaterialize, WorkerIdle
      <3>2. worker'.pc = "matread" => Noticed'[worker'.o] > 0
        BY <1>2 DEF WorkerTrue
      <3> QED BY <2>1, <3>1, <3>2 DEF Unnoticed
    <2> QED BY <1>5, <2>1, <2>2 DEF NoticeFilled
  <1>6. /\ UNCHANGED <<booked, applied, positions>>
        /\ orders' = orders \/ NoticeRejected
    BY <1>4, <1>5 DEF NoticeStep, NoticeUnmatched, NoticeReceive, NoticeAccepted, NoticeRejected,
           NoticeDuplicate, NoticeMaterializeRead, NoticeMaterialize, ledgerVars
  <1> QED BY <1>1, <1>6

\* Such a step of the worker keeps OrderFlow's invariant.
LEMMA WorkerSafe ==
    ASSUME CountInv, CountInv', Unnoticed, Unnoticed', IInv, FillsOK, NoticeStep
    PROVE  IInv' /\ FillsOK'
  <1>1. /\ UNCHANGED <<broker, sent, booked, applied, positions, trader, supVars>>
        /\ orders' = orders \/ NoticeRejected
    BY WorkerAppliesNothing
  <1>2. FillsOK'
    BY <1>1, FillsKept DEF supVars
  <1>3. TypeOK'
    BY DEF CountInv, NoticeInv
  <1>4. CASE orders' = orders
    <2>1. UNCHANGED Core /\ UNCHANGED supVars /\ UNCHANGED trader
      BY <1>1, <1>4 DEF Core
    <2> QED BY <1>2, <1>3, <2>1, CoreFrame, TraderFrame, SupervisorFrame DEF IInv
  <1>5. CASE orders' # orders
    <2> DEFINE o == worker.o
               r == [orders[o] EXCEPT !.status = "REJECTED"]
    <2>1. /\ o \in Orders /\ orders[o].bid /\ broker[o].st = "REJECTED"
          /\ UpdateStatusOnly(o, "REJECTED")
      BY <1>1, <1>5 DEF NoticeRejected, CountInv, NoticeInv, Hands, WorkerTrue, Acting
    <2>2. /\ orders \in [Orders -> OrderRow] /\ broker \in [Orders -> BrokerRow]
          /\ booked \in [Orders -> Nat]
      BY DEF IInv, TypeOK, LedgerTypeOK, BrokerTypeOK
    <2>3. orders' = [orders EXCEPT ![o] = r]
      BY <2>1, <2>2 DEF UpdateStatusOnly
    <2>4. /\ r \in OrderRow /\ r.bid /\ r.req = orders[o].req /\ r.filled = orders[o].filled
          /\ r.status = "REJECTED" /\ orders[o].filled \in Nat
      BY <2>1, <2>2 DEF OrderRow, Statuses, Terminal
    <2>5. orders[o].filled <= broker[o].filled /\ booked[o] <= orders[o].filled
      BY <2>1 DEF IInv, RowsTellTruth
    <2> HIDE DEF r
    <2>6. RowUpdate(o, r)
      BY <2>1, <2>3, <2>4, <2>5 DEF RowUpdate, Terminal
    <2>7. \A x \in Orders : booked[x] <= booked'[x]
      BY <1>1, <2>2
    <2> HIDE DEF o
    <2>8. /\ RowsTellTruth' /\ SubmittedAtMostOnce' /\ SettledEntryAlone' /\ SellExclusion'
          /\ InHand' /\ EntryAlone' /\ ExitAlone'
      BY <1>1, <2>1, <2>2, <2>4, <2>5, <2>6, <2>7, NumberedRowUpdate
    <2>9. \A x \in Orders : orders'[x].bid = orders[x].bid /\ orders'[x].filled = orders[x].filled
      BY <2>1, <2>2, <2>3, <2>4
    <2>10. SnapshotTrue'
      BY <1>1, <2>9 DEF IInv, SnapshotTrue, supVars
    <2>11. todo \subseteq Orders
      BY DEF IInv, TypeOK, SupTypeOK
    <2>12. RowsStillTrue'
      BY <1>1, <2>9, <2>11 DEF IInv, RowsStillTrue, supVars
    <2> QED BY <1>2, <1>3, <2>8, <2>10, <2>12 DEF IInv
  <1> QED BY <1>4, <1>5

\* SafeUntilFirstNotice: until the worker stores its first fill it changes
\* nothing of what OrderFlow promises, whatever acceptances, rejections and
\* unmatched notices it handles, at whatever point of the other threads' work.
THEOREM SafeBeforeFirstNotice == NSpec => []SafeUntilFirstNotice
  <1>1. NInit => SafeInv
    BY CountStart, InitInv, FillsStart DEF NInit, SafeInv
  <1>2. SafeInv /\ [NNext]_nvars => SafeInv'
    <2> SUFFICES ASSUME SafeInv, [NNext]_nvars, Unnoticed' PROVE IInv' /\ FillsOK'
      BY CountNext DEF SafeInv
    <2>1. CountInv /\ CountInv' /\ NoticeInv'
      BY CountNext DEF SafeInv, CountInv
    <2>2. Unnoticed
      BY <2>1, FillsAccumulate, UnnoticedBefore DEF Unnoticed
    <2>3. IInv /\ FillsOK
      BY <2>2 DEF SafeInv
    <2>4. CASE NoticeStep
      BY <2>1, <2>2, <2>3, <2>4, WorkerSafe
    <2>5. CASE Step \/ Crash \/ UNCHANGED nvars
      <3>1. [Next]_vars
        BY <2>5 DEF Next, nvars
      <3> QED BY <2>3, <3>1, NextInv, FillsNext
    <2> QED BY <2>4, <2>5 DEF NNext
  <1>3. SafeInv => SafeUntilFirstNotice
    <2> SUFFICES ASSUME IInv, FillsOK
                 PROVE  LiveIsUnresolved /\ LedgerNeverAhead /\ PositionsMatchFills
      BY DEF SafeInv, SafeUntilFirstNotice, Unnoticed
    <2>1. LiveIsUnresolved
      BY OpenIsActive DEF LiveIsUnresolved
    <2>2. LedgerNeverAhead
      <3> SUFFICES ASSUME NEW o \in Orders
                   PROVE  booked[o] <= broker[o].filled /\ orders[o].filled <= broker[o].filled
        BY DEF LedgerNeverAhead
      <3>1. /\ booked[o] \in Nat /\ orders[o].filled \in Nat /\ broker[o].filled \in Nat
            /\ booked[o] <= orders[o].filled /\ orders[o].filled <= broker[o].filled
        BY DEF IInv, TypeOK, LedgerTypeOK, BrokerTypeOK, OrderRow, BrokerRow, RowsTellTruth
      <3> QED BY <3>1
    <2> QED BY <2>1, <2>2 DEF FillsOK
  <1> QED BY <1>1, <1>2, <1>3, PTL DEF NSpec

=============================================================================
