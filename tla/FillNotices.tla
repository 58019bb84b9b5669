---------------------------- MODULE FillNotices ----------------------------
(***************************************************************************)
(* OrderFlow with the fill-notice worker (ops/fill_notice_worker.py),      *)
(* which runs instead of bounded collection when collect_seconds is 0: a   *)
(* third thread that receives KIS execution notices over a WebSocket and   *)
(* applies them with apply_fill_notice                                     *)
(* (pipeline/fill_notice_reconciliation.py).                               *)
(*                                                                         *)
(* A notice is any event the broker has recorded: it may arrive late, in   *)
(* any order, several times or never (the socket was down).  The worker    *)
(* reads the ledger row first and writes afterwards, so the supervisor and *)
(* the trading thread come in between.                                     *)
(***************************************************************************)
EXTENDS OrderFlow

VARIABLE worker   \* program counter, notice in hand, and what was read for it

NoRow == [status |-> "NONE", bid |-> FALSE, req |-> 0, filled |-> 0]

WorkerIdle == [pc |-> "idle", kind |-> "none", o |-> None, n |-> 0,
               row |-> NoRow, fills |-> 0, known |-> FALSE, read |-> NoRead]

nvars == <<vars, worker>>

WorkerTypeOK ==
    worker \in [pc: {"idle", "act", "matread", "matwrite"},
                kind: {"none", "ACCEPTED", "FILLED", "REJECTED"},
                o: Orders \cup {None}, n: Nat, row: OrderRow, fills: Nat,
                known: BOOLEAN, read: MaterializeReads]

NInit == Init /\ worker = WorkerIdle

-----------------------------------------------------------------------------
\* The notices KIS may deliver about an order: <<kind, number of the fill>>.
Notices(o) ==
    {<<"ACCEPTED", 0>> : x \in {y \in {o} : broker[y].st # "NONE"}}
    \cup {<<"REJECTED", 0>> : x \in {y \in {o} : broker[y].st = "REJECTED"}}
    \cup {<<"FILLED", n>> : n \in 1..broker[o].filled}

KisFillId(o, n) == <<o, "kis", n>>

\* _blocked: the worker raises both flags.
Block == meta' = [meta EXCEPT !.review = TRUE, !.block = TRUE]

Rest == <<brokerVars, trader, supVars, upsets>>

\* No ledger row has this broker order number (yet).
NoticeUnmatched(o) ==
    /\ worker.pc = "idle"
    /\ Notices(o) # {}
    /\ ~orders[o].bid
    /\ Block
    /\ UNCHANGED <<orders, fillIds, booked, applied, positions, marker, worker, Rest>>

\* The reads of apply_fill_notice.
NoticeReceive(o, kind, n) ==
    /\ worker.pc = "idle"
    /\ <<kind, n>> \in Notices(o)
    /\ orders[o].bid
    /\ worker' = [pc |-> "act", kind |-> kind, o |-> o, n |-> n,
                  row |-> orders[o], fills |-> booked[o],
                  known |-> KisFillId(o, n) \in fillIds, read |-> NoRead]
    /\ UNCHANGED <<ledgerVars, Rest>>

\* The notice is stored; what was read for it is not used again.
ToMaterialize == [WorkerIdle EXCEPT !.pc = "matread", !.o = worker.o]

Acting(kind) == worker.pc = "act" /\ worker.kind = kind

\* _apply_accepted writes nothing for a row that has its order number; it
\* either ignores the notice or asks for review.
AcceptedBlocks ==
    LET row == worker.row
    IN  \/ row.filled < worker.fills
        \/ /\ row.status # "CANCEL_PENDING"
           /\ ~(row.status \in {"PARTIALLY_FILLED", "FILLED"} /\ row.filled > 0)
           /\ row.status \in {"UNKNOWN"} \cup Terminal \/ row.filled # 0

NoticeAccepted ==
    /\ Acting("ACCEPTED")
    /\ IF AcceptedBlocks THEN Block ELSE UNCHANGED meta
    /\ worker' = WorkerIdle
    /\ UNCHANGED <<orders, fillIds, booked, applied, positions, marker, Rest>>

\* _apply_rejected
RejectedBlocks ==
    \/ worker.row.filled # 0
    \/ worker.fills # 0
    \/ worker.row.status \in {"UNKNOWN", "FILLED", "CANCELLED"}

NoticeRejected ==
    /\ Acting("REJECTED")
    /\ IF RejectedBlocks
       THEN Block /\ UNCHANGED orders
       ELSE /\ IF worker.row.status = "REJECTED"
               THEN UNCHANGED orders
               ELSE UpdateStatusOnly(worker.o, "REJECTED")
            /\ UNCHANGED meta
    /\ worker' = WorkerIdle
    /\ UNCHANGED <<fillIds, booked, applied, positions, marker, Rest>>

\* A notice whose fill id was already stored: materialize it if a crash came
\* between storing and materializing.  Only the applied quantity of an order is
\* kept here, so an unapplied share may be this fill's or a later one's.
NoticeDuplicate ==
    /\ Acting("FILLED")
    /\ worker.known
    /\ \/ Unapplied(worker.o) /\ worker' = ToMaterialize
       \/ worker' = WorkerIdle
    /\ UNCHANGED <<ledgerVars, Rest>>

FilledBlocks ==
    \/ worker.row.filled + 1 > worker.row.req
    \/ worker.row.status \in {"CANCELLED", "REJECTED"}

\* A new fill: checked against the row that was read, then stored.
NoticeFilled ==
    /\ Acting("FILLED")
    /\ ~worker.known
    /\ LET id == KisFillId(worker.o, worker.n)
           blocked == FilledBlocks \/ ApplyRaises(worker.o, id, 1)
       IN  /\ IF blocked
              THEN Block /\ UNCHANGED <<orders, fillIds, booked>>
              ELSE ApplyBrokerFill(worker.o, id, 1) /\ UNCHANGED meta
           /\ worker' = IF blocked THEN WorkerIdle ELSE ToMaterialize
    /\ UNCHANGED <<applied, positions, marker, Rest>>

NoticeMaterializeRead ==
    /\ worker.pc = "matread"
    /\ worker' = [worker EXCEPT !.pc = "matwrite", !.read = MaterializeRead(worker.o)]
    /\ UNCHANGED <<ledgerVars, Rest>>

NoticeMaterialize ==
    /\ worker.pc = "matwrite"
    /\ MaterializeOrderFills(worker.o, worker.read)
    /\ IF MaterializeRaises(worker.o, worker.read) THEN Block ELSE UNCHANGED meta
    /\ worker' = WorkerIdle
    /\ UNCHANGED <<orders, fillIds, booked, marker, Rest>>

NoticeStep ==
    \/ \E o \in Orders :
          \/ NoticeUnmatched(o)
          \/ \E kn \in Notices(o) : NoticeReceive(o, kn[1], kn[2])
    \/ NoticeAccepted \/ NoticeRejected
    \/ NoticeDuplicate \/ NoticeFilled
    \/ NoticeMaterializeRead \/ NoticeMaterialize

NNext ==
    \/ Step /\ UNCHANGED worker
    \/ Crash /\ worker' = WorkerIdle
    \/ NoticeStep

NSpec == NInit /\ [][NNext]_nvars

-----------------------------------------------------------------------------
(* Properties                                                              *)

\* The types of OrderFlow and of the worker's private state.
NTypeOK == TypeOK /\ WorkerTypeOK

\* Fills of at most one entry of the symbol have been applied.
OneEntryApplied(sym) ==
    \A a, b \in Buys :
        /\ Sym(a) = sym /\ applied[a] > 0
        /\ Sym(b) = sym /\ applied[b] > 0
        => a = b

\* Until shares of a symbol are sold, or a second entry of it is applied, its
\* position is exactly what the applied entry fills add up to: the supervisor
\* and the worker, materializing the same fills from reads made before their
\* write transactions, do not apply one twice and lose none.  (With a SELL, or
\* a second BUY of the symbol, applied between such a read and the write, this
\* fails; see README.)
EntriesMatchFills ==
    \A sym \in Symbols :
        SoldShares(sym) = 0 /\ OneEntryApplied(sym) => OpenQty(sym) = BoughtShares(sym)

\* The same for any number of entries, which the code does not keep.
AllEntriesMatchFills ==
    \A sym \in Symbols : SoldShares(sym) = 0 => OpenQty(sym) = BoughtShares(sym)

\* How many fills of each order the worker has stored, of those that traded.
Noticed ==
    [o \in Orders |->
       Cardinality({n \in 1..broker[o].filled : KisFillId(o, n) \in fillIds})]

\* What counting a share from its notice and again from the order list can do,
\* and no more: without the worker's fills nothing is booked that did not
\* trade, and an order still working at the broker leaves the ledger's active
\* rows only when the shares counted twice have filled its row.
OvercountIsBounded ==
    \A o \in Orders :
        /\ booked[o] <= broker[o].filled + Noticed[o]
        /\ broker[o].st = "OPEN" =>
             \/ orders[o].status \in Active
             \/ /\ orders[o].status = "FILLED" /\ orders[o].filled = orders[o].req
                /\ Noticed[o] > 0

\* No share of these orders can be counted twice while they work: none was
\* stored from a notice, or one share is all the order is for.
CountedOnce(S) == \A o \in S : Noticed[o] = 0 \/ orders[o].req = 1

\* The exclusions of OrderFlow hold as long as no entry, or no exit of the
\* symbol, may have been counted twice.  (After that they may fail; see README.)
ExclusionWhenCountedOnce ==
    /\ CountedOnce(Buys) => BuyExclusion
    /\ \A s, t \in Sells :
          /\ CountedOnce({x \in Sells : Sym(x) = Sym(s)})
          /\ broker[s].st = "OPEN" /\ broker[t].st = "OPEN" /\ Sym(s) = Sym(t)
          => s = t

\* Until the worker stores its first fill, it changes nothing of what OrderFlow
\* promises, whatever acceptances and rejections it handles.
SafeUntilFirstNotice ==
    (\A o \in Orders : Noticed[o] = 0) =>
        LiveIsUnresolved /\ LedgerNeverAhead /\ PositionsMatchFills

=============================================================================
