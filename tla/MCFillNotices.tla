--------------------------- MODULE MCFillNotices ---------------------------
(* Small instances of FillNotices, with the constants of MCOrderFlow.      *)
EXTENDS FillNotices, MCOrderFlow

\* The broker has just accepted b1, whose ledger row is still SUBMITTING, and
\* has traded one share of it or rejected it; the entry session is over.
JustAccepted(st, n) ==
    LET Of(f, row) == [o \in Orders |-> IF o = b1 THEN row ELSE f[o]]
        Zero == [o \in Orders |-> 0]
    IN  /\ orders = Of(NoRows, [status |-> "SUBMITTING", bid |-> FALSE,
                                req |-> LotSize[b1], filled |-> 0])
        /\ fillIds = {} /\ booked = Zero /\ applied = Zero
        /\ positions = [b \in Buys |-> [st |-> "NONE", qty |-> 0]]
        /\ marker = [o \in Orders |-> "none"]
        /\ meta = [block |-> FALSE, review |-> FALSE, cancelReq |-> FALSE,
                   supOk |-> TRUE, gate |-> TRUE]
        /\ broker = Of(NoSnap, [st |-> st, filled |-> n])
        /\ held = [sym \in Symbols |-> n]
        /\ sent = Of(Zero, 1)
        /\ cancels = {}
        /\ market = "exit"
        /\ trader = [TraderIdle EXCEPT !.pc = "acked", !.o = b1, !.q = LotSize[b1]]
        /\ SupInit
        /\ upsets = 0

JustAcceptedInit ==
    /\ JustAccepted("OPEN", 1) \/ JustAccepted("REJECTED", 0)
    /\ worker = WorkerIdle

JustAcceptedSpec == JustAcceptedInit /\ [][NNext]_nvars

=============================================================================
