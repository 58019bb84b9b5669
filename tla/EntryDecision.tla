---------------------------- MODULE EntryDecision ----------------------------
(***************************************************************************)
(* How a cycle decides on an entry (run_auto_trade_cycle and               *)
(* _maybe_enter_position in pipeline/auto_trade.py): the portfolio view    *)
(* taken before the cycle, the AI's answer, the risk gate, and, for a      *)
(* high-risk BUY, the approval request that the operator answers on        *)
(* Telegram (approval_requests in storage/database.py).                    *)
(*                                                                         *)
(* Time is in minutes.  A request and an order are named by symbol and     *)
(* completed bar, as in the code (_approval_request_id, _entry_signal_id). *)
(* Prices, confidence, freshness and the cycle deadline are abstracted to  *)
(* the choice between going on and being blocked; what the supervisor does *)
(* (see OrderFlow) to learning of a fill, a cancellation and an exit.      *)
(***************************************************************************)
EXTENDS Integers, FiniteSets

CONSTANTS
    Symbols,
    MaxPositions,        \* risk.max_positions
    MaxOrdersPerSymbol,  \* risk.max_orders_per_symbol
    Lifetime,            \* minutes until a request expires
    TextLag,             \* minutes by which a UTC time of day is behind KST
    MaxTime, MaxCrashes  \* bounds on minutes and on restarts

ASSUME EntryAssumption ==
    /\ IsFiniteSet(Symbols)
    /\ {MaxPositions, MaxOrdersPerSymbol, Lifetime, TextLag, MaxTime, MaxCrashes} \subseteq Nat

Times == 0..MaxTime
Requests == Symbols \X Times

VARIABLES
    clock,    \* the minute
    bar,      \* the latest completed bar in market_bars
    req,      \* approval_requests
    order,    \* BUY rows of broker_orders
    working,  \* BUYs that work at the broker
    held,     \* filled BUYs whose shares are in the account
    local,    \* those of them that live_positions has an open row for
    cyc,      \* the trading thread
    sent,     \* history: how often an order was sent
    granted,  \* history: requests the operator approved
    crashes

entryVars == <<clock, bar, req, order, working, held, local, cyc, sent, granted, crashes>>
outside == <<clock, bar, working, held, local, granted, crashes>>

Idle == [pc |-> "idle", todo |-> {}, r |-> <<>>, now |-> 0, held |-> {},
         counts |-> [s \in Symbols |-> 0], ok |-> FALSE]

EntryInit ==
    /\ clock = 0 /\ bar = 0
    /\ req = [r \in Requests |-> [st |-> "NONE", expires |-> 0]]
    /\ order = [r \in Requests |-> "NONE"]
    /\ working = {} /\ held = {} /\ local = {}
    /\ cyc = Idle
    /\ sent = [r \in Requests |-> 0]
    /\ granted = {}
    /\ crashes = 0

Goto(pc) == cyc' = [cyc EXCEPT !.pc = pc]
NextSymbol == cyc' = [Idle EXCEPT !.pc = "next", !.todo = cyc.todo, !.held = cyc.held,
                                  !.counts = cyc.counts]
SymbolOf(r) == r[1]
SymbolsOf(rs) == {SymbolOf(r) : r \in rs}
OrdersOf(s) == {r \in Requests : SymbolOf(r) = s /\ order[r] # "NONE"}

\* HasUnresolvedBuy of the guard: any symbol, SUBMITTING rows not included.
UnresolvedBuy == \E r \in Requests : order[r] \in {"ACKNOWLEDGED", "UNKNOWN"}

-----------------------------------------------------------------------------
(* approval_requests: each method is one transaction                       *)

\* Deadlines are compared as text.  The cycle's times are KST, as the stored
\* ones; the Telegram handler's are UTC.
Expired(r, now) == req[r].expires <= now
ExpiredAsUtc(r) == req[r].expires <= clock - TextLag

\* expire_approval_requests
ExpireAll(late) ==
    [r \in Requests |->
        IF req[r].st \in {"PENDING", "APPROVED"} /\ r \in late
        THEN [req[r] EXCEPT !.st = "EXPIRED"] ELSE req[r]]

\* record_approval_request: INSERT OR IGNORE.
RecordRequest(r, now) ==
    req' = IF req[r].st = "NONE"
           THEN [req EXCEPT ![r] = [st |-> "PENDING", expires |-> now + Lifetime]]
           ELSE req

\* resolve_approval_request, from a button or a command.
Resolve(r, decision) ==
    /\ req[r].st = "PENDING"
    /\ req' = [req EXCEPT ![r].st = IF ExpiredAsUtc(r) THEN "EXPIRED" ELSE decision]
    /\ granted' = IF req'[r].st = "APPROVED" THEN granted \cup {r} ELSE granted
    /\ UNCHANGED <<clock, bar, order, working, held, local, cyc, sent, crashes>>

\* /approvals
ListApprovals ==
    /\ req' = ExpireAll({r \in Requests : ExpiredAsUtc(r)})
    /\ UNCHANGED <<clock, bar, order, working, held, local, cyc, sent, granted, crashes>>

-----------------------------------------------------------------------------
(* The cycle                                                               *)

\* build_portfolio_risk_snapshot: the positions are the account's, the orders
\* of the day the ledger's.  An unknown field blocks every entry (Blocked).
PortfolioView ==
    [held |-> SymbolsOf(held), counts |-> [s \in Symbols |-> Cardinality(OrdersOf(s))]]

\* _make_broker_cycle_state: one view serves every symbol of the cycle.
BeginCycle ==
    /\ cyc.pc = "idle"
    /\ cyc' = [cyc EXCEPT !.pc = "next", !.todo = Symbols,
                          !.held = PortfolioView.held, !.counts = PortfolioView.counts]
    /\ UNCHANGED <<req, order, sent, outside>>

EndCycle ==
    /\ cyc.pc = "next"
    /\ cyc.todo = {}
    /\ cyc' = Idle
    /\ UNCHANGED <<req, order, sent, outside>>

\* The next symbol.  Without a position and outside the exit path its request is
\* looked up, after those past their deadline have been expired.
Consider(s) ==
    /\ cyc.pc = "next" /\ s \in cyc.todo
    /\ LET r == <<s, bar>>
           pending == req[r].st = "PENDING"
           open == s \in SymbolsOf(local)
           late == {q \in Requests : Expired(q, clock)}
       IN  /\ req' = IF ~open /\ pending THEN ExpireAll(late) ELSE req
           /\ LET go(pc) == [cyc EXCEPT !.pc = pc, !.todo = @ \ {s}, !.r = r, !.now = clock]
                  skip == [cyc EXCEPT !.todo = @ \ {s}]
              IN  cyc' = CASE ~open /\ req'[r].st = "APPROVED" -> go("recheck")
                           [] ~open /\ req'[r].st = "NONE" /\ order[r] = "NONE" -> go("ask")
                           [] OTHER -> skip
    /\ UNCHANGED <<order, sent, outside>>

\* A gate says no, or something raises: the symbol is blocked.
Blocked ==
    /\ cyc.pc \in {"ask", "recheck"}
    /\ NextSymbol
    /\ UNCHANGED <<req, order, sent, outside>>

\* evaluate_order_intent on the view of the cycle.
RiskAllows(s) ==
    /\ s \notin cyc.held
    /\ Cardinality(cyc.held) < MaxPositions
    /\ cyc.counts[s] < MaxOrdersPerSymbol

\* A BUY of normal risk that passes every gate.
AskNormal ==
    /\ cyc.pc = "ask"
    /\ RiskAllows(SymbolOf(cyc.r))
    /\ Goto("claim")
    /\ UNCHANGED <<req, order, sent, outside>>

\* Mutant of AskHigh: the request is recorded, but the entry goes on.
AskHighGoesOn ==
    /\ cyc.pc = "ask"
    /\ RiskAllows(SymbolOf(cyc.r))
    /\ RecordRequest(cyc.r, cyc.now)
    /\ Goto("claim")
    /\ UNCHANGED <<order, sent, outside>>

\* A high-risk BUY: record_approval_request, and nothing more in this cycle.
AskHigh ==
    /\ cyc.pc = "ask"
    /\ RiskAllows(SymbolOf(cyc.r))
    /\ RecordRequest(cyc.r, cyc.now)
    /\ NextSymbol
    /\ UNCHANGED <<order, sent, outside>>

\* _execute_approved_entry: terms, live price, risk and budget are as approved.
\* Where they are not (Blocked), finish_approval_request is called for a request
\* that is not CONSUMING, which leaves it APPROVED.
Recheck ==
    /\ cyc.pc = "recheck"
    /\ RiskAllows(SymbolOf(cyc.r))
    /\ Goto("consume")
    /\ UNCHANGED <<req, order, sent, outside>>

\* consume_approval_request, with the time at which the symbol was begun.
Consume ==
    /\ cyc.pc = "consume"
    /\ LET live == req[cyc.r].st = "APPROVED" /\ ~Expired(cyc.r, cyc.now)
       IN  /\ req' = IF req[cyc.r].st # "APPROVED" THEN req
                     ELSE [req EXCEPT ![cyc.r].st = IF live THEN "CONSUMING" ELSE "EXPIRED"]
           /\ IF live THEN Goto("claim") ELSE NextSymbol
    /\ UNCHANGED <<order, sent, outside>>

\* claim_order_intent and mark_order_submitting.
Claim ==
    /\ cyc.pc = "claim"
    /\ IF order[cyc.r] = "NONE"
       THEN order' = [order EXCEPT ![cyc.r] = "SUBMITTING"] /\ Goto("guard")
       ELSE UNCHANGED order /\ Goto("finish")
    /\ UNCHANGED <<req, sent, outside>>

\* GuardedSubmitter (see Trader, TradingService) lets the order pass.
GuardPasses ==
    /\ cyc.pc = "guard"
    /\ ~UnresolvedBuy
    /\ Goto("send")
    /\ UNCHANGED <<req, order, sent, outside>>

\* It refuses, for this or another reason: the order is UNKNOWN.
GuardRefuses ==
    /\ cyc.pc = "guard"
    /\ order' = [order EXCEPT ![cyc.r] = "UNKNOWN"]
    /\ Goto("finish")
    /\ UNCHANGED <<req, sent, outside>>

\* The broker call: accepted and acknowledged, or accepted without an answer, or
\* refused.
Send(accepted, answered) ==
    /\ cyc.pc = "send"
    /\ answered => accepted
    /\ sent' = [sent EXCEPT ![cyc.r] = @ + 1]
    /\ working' = IF accepted THEN working \cup {cyc.r} ELSE working
    /\ order' = [order EXCEPT ![cyc.r] = IF answered THEN "ACKNOWLEDGED" ELSE "UNKNOWN"]
    /\ cyc' = [cyc EXCEPT !.pc = "finish", !.ok = answered]
    /\ UNCHANGED <<req, clock, bar, held, local, granted, crashes>>

\* Mutant of Finish: the result of the submission is not looked at.
FinishExecuted ==
    /\ cyc.pc = "finish"
    /\ req' = IF req[cyc.r].st # "CONSUMING" THEN req
              ELSE [req EXCEPT ![cyc.r].st = "EXECUTED"]
    /\ NextSymbol
    /\ UNCHANGED <<order, sent, outside>>

\* finish_approval_request
Finish ==
    /\ cyc.pc = "finish"
    /\ req' = IF req[cyc.r].st # "CONSUMING" THEN req
              ELSE [req EXCEPT ![cyc.r].st = IF cyc.ok THEN "EXECUTED" ELSE "FAILED"]
    /\ NextSymbol
    /\ UNCHANGED <<order, sent, outside>>

-----------------------------------------------------------------------------
(* Everything else                                                         *)

Crash ==
    /\ crashes < MaxCrashes /\ cyc.pc # "idle"
    /\ crashes' = crashes + 1
    /\ cyc' = Idle
    /\ UNCHANGED <<clock, bar, req, order, working, held, local, sent, granted>>

Tick ==
    /\ clock < MaxTime
    /\ clock' = clock + 1
    /\ UNCHANGED <<bar, req, order, working, held, local, cyc, sent, granted, crashes>>

\* The bar of the last minute is complete (see MarketFeed); bars may be missing.
NewBar ==
    /\ bar < clock
    /\ bar' = clock
    /\ UNCHANGED <<clock, req, order, working, held, local, cyc, sent, granted, crashes>>

\* The broker fills or drops an order that works there.
BrokerFill(r) ==
    /\ r \in working
    /\ working' = working \ {r}
    /\ held' = held \cup {r}
    /\ UNCHANGED <<clock, bar, req, order, local, cyc, sent, granted, crashes>>

\* The supervisor learns of it; UNKNOWN without a number stays.
LearnFill(r) ==
    /\ order[r] = "ACKNOWLEDGED" /\ r \notin working
    /\ order' = [order EXCEPT ![r] = "FILLED"]
    /\ local' = local \cup {r}
    /\ UNCHANGED <<clock, bar, req, working, held, cyc, sent, granted, crashes>>

LearnCancel(r) ==
    /\ order[r] = "ACKNOWLEDGED" /\ r \in working
    /\ order' = [order EXCEPT ![r] = "CANCELLED"]
    /\ working' = working \ {r}
    /\ UNCHANGED <<clock, bar, req, held, local, cyc, sent, granted, crashes>>

\* A position is exited, at the broker and in the ledger.
Exit(s) ==
    /\ s \in SymbolsOf(local)
    /\ held' = held \ {r \in local : SymbolOf(r) = s}
    /\ local' = {r \in local : SymbolOf(r) # s}
    /\ UNCHANGED <<clock, bar, req, order, working, cyc, sent, granted, crashes>>

CycleStep ==
    \/ BeginCycle \/ EndCycle \/ (\E s \in Symbols : Consider(s))
    \/ Blocked \/ AskNormal \/ AskHigh \/ Recheck \/ Consume \/ Claim
    \/ GuardPasses \/ GuardRefuses \/ Finish
    \/ Send(TRUE, TRUE) \/ Send(TRUE, FALSE) \/ Send(FALSE, FALSE)

Environment ==
    \/ Crash \/ Tick \/ NewBar \/ ListApprovals
    \/ \E r \in Requests : \/ Resolve(r, "APPROVED") \/ Resolve(r, "REJECTED")
                           \/ BrokerFill(r) \/ LearnFill(r) \/ LearnCancel(r)
    \/ \E s \in Symbols : Exit(s)

EntryNext == CycleStep \/ Environment
EntrySpec == EntryInit /\ [][EntryNext]_entryVars

-----------------------------------------------------------------------------
(* Properties                                                              *)

\* The type of every variable; no order is sent twice, and no position is in
\* the ledger that is not in the account.
EntryTypeOK ==
    /\ clock \in Times /\ bar \in 0..clock
    /\ req \in [Requests -> [st: {"NONE", "PENDING", "APPROVED", "REJECTED", "EXPIRED",
                                  "CONSUMING", "EXECUTED", "FAILED"}, expires: Nat]]
    /\ order \in [Requests -> {"NONE", "SUBMITTING", "ACKNOWLEDGED", "UNKNOWN",
                               "FILLED", "CANCELLED"}]
    /\ working \subseteq Requests /\ granted \subseteq Requests
    /\ held \subseteq Requests /\ local \subseteq held
    /\ sent \in [Requests -> 0..1]
    /\ crashes \in 0..MaxCrashes

\* An order on a bar with an approval request goes out only for a request the
\* operator has approved, and the request is then used up for good: whatever
\* the order of answers, expiries and restarts, it can neither be approved nor
\* executed again.
ApprovedOrdersOnly ==
    \A r \in Requests :
        sent[r] > 0 /\ req[r].st # "NONE" =>
            r \in granted /\ req[r].st \in {"CONSUMING", "EXECUTED", "FAILED"}

\* A request says EXECUTED only if its order was acknowledged, FAILED only if
\* the ledger does not show it as filled or open.
OutcomeIsTrue ==
    \A r \in Requests :
        /\ req[r].st = "EXECUTED" => order[r] \in {"ACKNOWLEDGED", "FILLED", "CANCELLED"}
        /\ req[r].st = "FAILED" => order[r] = "UNKNOWN"

-----------------------------------------------------------------------------
(* What the documentation says and the code does not do (see README)       *)

\* README.md: "approval requests expire after 2 minutes"; no request is approved
\* past its deadline.
ApprovedWhileValid ==
    [][\A r \in Requests :
          req[r].st = "PENDING" /\ req'[r].st = "APPROVED" => clock < req[r].expires]_entryVars

=============================================================================
