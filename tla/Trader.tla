------------------------------- MODULE Trader -------------------------------
(***************************************************************************)
(* The trading thread.  service_loop (cli.py) starts a cycle when its      *)
(* gates are open; run_auto_trade_cycle (pipeline/auto_trade.py) goes over *)
(* the symbols and attempts an exit or an entry for each;                  *)
(* _submit_with_ledger records the order and calls submit_order of         *)
(* execution/guarded_submitter.py, which checks the database and sends the *)
(* order to KIS.                                                           *)
(*                                                                         *)
(* Each action is one database transaction, one group of reads or one      *)
(* broker call; whatever other threads commit between two actions is what  *)
(* the code is exposed to.  The gates are read once per cycle.             *)
(* Market data, the AI decision, the risk engine and the exit reason only  *)
(* decide WHETHER an order is attempted and are nondeterministic here.     *)
(***************************************************************************)
EXTENDS KisBroker

CONSTANT MaxExitRequotes   \* AutoTradeConfig.max_exit_requotes

ASSUME RequotesAssumption == MaxExitRequotes \in Nat

VARIABLE trader   \* program counter, order and quantity in hand, symbols left

TraderIdle == [pc |-> "idle", o |-> None, q |-> 0, left |-> {}]

TraderPcs == {"idle", "cycle", "deciding", "quoting", "claimed", "submitting",
              "checked", "cleared", "acked", "failed"}

TraderTypeOK ==
    trader \in [pc: TraderPcs, o: Orders \cup {None}, q: Nat, left: SUBSET Symbols]

TraderInit == trader = TraderIdle

At(pc) == trader.pc = pc
Goto(pc) == trader' = [trader EXCEPT !.pc = pc]

\* On to the next symbol, or the end of the cycle.
Done == trader' = IF trader.left = {} THEN TraderIdle
                  ELSE [TraderIdle EXCEPT !.pc = "cycle", !.left = trader.left]

\* The symbol's turn has come and an order is attempted for it.
Attempt(pc, o, q) ==
    trader' = [pc |-> pc, o |-> o, q |-> q, left |-> trader.left \ {Sym(o)}]

-----------------------------------------------------------------------------
(* Choosing an order                                                       *)

\* The gates of service_loop and auto_trade_cycle: the supervisor's last result
\* is "reconciled", no pause, no cancellation pending, market hours.
CycleOpen ==
    meta.gate /\ meta.supOk /\ ~meta.cancelReq /\ market # "closed"

CycleStart ==
    /\ At("idle")
    /\ CycleOpen
    /\ trader' = [TraderIdle EXCEPT !.pc = "cycle", !.left = Symbols]
    /\ UNCHANGED <<ledgerVars, brokerVars>>

\* The remaining symbols need nothing, or the cycle deadline has passed.
CycleEnd ==
    /\ At("cycle")
    /\ trader' = TraderIdle
    /\ UNCHANGED <<ledgerVars, brokerVars>>

\* The symbol is next and the market is still open.
Turn(sym) == At("cycle") /\ sym \in trader.left /\ market # "closed"

\* Mutant of HasUnresolvedSell: the pending exit is not looked up.
NoUnresolvedSell(sym) == FALSE

\* _has_unresolved_order(symbol, "SELL")
HasUnresolvedSell(sym) ==
    \E s \in Sells : Sym(s) = sym /\ orders[s].status \in Active

\* SELL orders already recorded for the position, whatever their fate.
ExitAttempts(p) ==
    Cardinality({s \in Sells : PositionOf[s] = p /\ orders[s].status # "NONE"})

\* The entry path up to the AI call: the entry window is open, the symbol has
\* no position, this bar no order.
EnterStart(b) ==
    /\ Turn(Sym(b))
    /\ market = "entry"
    /\ OpenPosition(Sym(b)) = None
    /\ Claimable(b)
    /\ Attempt("deciding", b, LotSize[b])
    /\ UNCHANGED <<ledgerVars, brokerVars>>

\* _maybe_exit_position up to the price check.
ExitStart(s) ==
    LET p == PositionOf[s]
    IN  /\ Turn(Sym(s))
        /\ OpenPosition(Sym(s)) = p
        /\ ~HasUnresolvedSell(Sym(s))
        /\ ExitAttempts(p) <= MaxExitRequotes
        /\ Attempt("quoting", s, positions[p].qty)
        /\ UNCHANGED <<ledgerVars, brokerVars>>

\* Too many exit orders for this position: ask the operator, stop entering.
ExitExhausted(p) ==
    /\ Turn(Sym(p))
    /\ OpenPosition(Sym(p)) = p
    /\ ~HasUnresolvedSell(Sym(p))
    /\ ExitAttempts(p) > MaxExitRequotes
    /\ meta' = [meta EXCEPT !.review = TRUE, !.block = TRUE]
    /\ trader' = IF trader.left = {Sym(p)} THEN TraderIdle
                 ELSE [trader EXCEPT !.left = @ \ {Sym(p)}]
    /\ UNCHANGED <<orders, fillIds, booked, applied, positions, marker, brokerVars>>

\* The AI holds, a guard rejects the decision, or the exit quote fails.
Decline ==
    /\ At("deciding") \/ At("quoting")
    /\ Done
    /\ UNCHANGED <<ledgerVars, brokerVars>>

-----------------------------------------------------------------------------
(* _submit_with_ledger                                                     *)

\* claim_order_intent; an id that is already in the ledger ends the attempt.
Claim ==
    /\ At("deciding") \/ At("quoting")
    /\ IF Claimable(trader.o)
       THEN ClaimOrderIntent(trader.o, trader.q) /\ Goto("claimed")
       ELSE Done /\ UNCHANGED orders
    /\ UNCHANGED <<fillIds, booked, applied, positions, marker, meta, brokerVars>>

Submitting ==
    /\ At("claimed")
    /\ MarkOrderSubmitting(trader.o)
    /\ Goto("submitting")
    /\ UNCHANGED <<fillIds, booked, applied, positions, marker, meta, brokerVars>>

\* Mutant of BuyGuard: unresolved entries are not looked up.
BuyGuardFlagsOnly == ~meta.block /\ ~meta.review

\* The side-specific checks of GuardedSubmitter.submit_order.
BuyGuard ==
    /\ ~meta.block /\ ~meta.review
    /\ \A b \in Buys : orders[b].status \notin Unresolved

SellGuard(sym, q) == OpenQty(sym) > 0 /\ q <= OpenQty(sym)

\* _check_runtime_state, the market hours, a positive quantity, and the side's.
GuardPasses ==
    /\ meta.gate
    /\ market # "closed"
    /\ trader.q > 0
    /\ IF trader.o \in Buys THEN BuyGuard ELSE SellGuard(Sym(trader.o), trader.q)

GuardCheck ==
    /\ At("submitting")
    /\ Goto(IF GuardPasses THEN "checked" ELSE "failed")
    /\ UNCHANGED <<ledgerVars, brokerVars>>

\* _check_runtime_state once more, immediately before the submission.
GuardRecheck ==
    /\ At("checked")
    /\ Goto(IF meta.gate THEN "cleared" ELSE "failed")
    /\ UNCHANGED <<ledgerVars, brokerVars>>

\* The broker takes the order; its answer arrives with an order number, or is
\* lost, late or without one.
SubmitAccepted ==
    /\ At("cleared")
    /\ market # "closed"
    /\ Acceptable(trader.o)
    /\ sent' = [sent EXCEPT ![trader.o] = Again(@)]
    /\ broker' = [broker EXCEPT ![trader.o] = [st |-> "OPEN", filled |-> 0]]
    /\ Goto("acked") \/ Goto("failed")
    /\ UNCHANGED <<ledgerVars, held, cancels, market>>

\* The request fails or the broker refuses it.
SubmitRefused ==
    /\ At("cleared")
    /\ sent' = [sent EXCEPT ![trader.o] = Again(@)]
    /\ Goto("failed")
    /\ UNCHANGED <<ledgerVars, broker, held, cancels, market>>

RecordSubmission ==
    /\ At("acked")
    /\ RecordOrderSubmission(trader.o)
    /\ Done
    /\ UNCHANGED <<fillIds, booked, applied, positions, marker, meta, brokerVars>>

\* Mutant of RecordFailure: a failed submission is taken for a refusal.
RecordRefusal ==
    /\ At("failed")
    /\ UpdateStatusOnly(trader.o, "REJECTED")
    /\ Done
    /\ UNCHANGED <<fillIds, booked, applied, positions, marker, meta, brokerVars>>

\* A safety gate error and a transport error are recorded alike.
RecordFailure ==
    /\ At("failed")
    /\ MarkOrderUnknown(trader.o)
    /\ Done
    /\ UNCHANGED <<fillIds, booked, applied, positions, marker, meta, brokerVars>>

TraderStep ==
    \/ CycleStart \/ CycleEnd
    \/ \E b \in Buys : EnterStart(b) \/ ExitExhausted(b)
    \/ \E s \in Sells : ExitStart(s)
    \/ Decline \/ Claim \/ Submitting
    \/ GuardCheck \/ GuardRecheck
    \/ SubmitAccepted \/ SubmitRefused
    \/ RecordSubmission \/ RecordFailure

=============================================================================
