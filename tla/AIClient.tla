------------------------------ MODULE AIClient ------------------------------
(***************************************************************************)
(* OpenAITradingDecisionClient.decide (ai/decision.py) and the UsageBudget *)
(* its callers share (ai/reliable.py).  A caller reserves the estimated    *)
(* cost of an HTTP attempt, posts, and settles or cancels the reservation. *)
(* The budget's methods are atomic: each holds its lock throughout.        *)
(*                                                                         *)
(* Money is counted in integral units, the clock in days.  The decision    *)
(* itself (see EntryDecision) is left out: here only calls and cost count. *)
(***************************************************************************)
EXTENDS Integers, FiniteSets

CONSTANTS
    Workers,          \* concurrent callers of decide
    MaxRetries,       \* max_retries of the client
    MaxProcessCalls, MaxDailyCalls, MaxProcessCost, MaxDailyCost,
    Estimate,         \* estimated_cost_per_call_usd
    MaxActual,        \* bound on what one answered request really costs
    MaxDays           \* bound on the days that pass

ASSUME BudgetAssumption ==
    /\ IsFiniteSet(Workers)
    /\ {MaxRetries, MaxProcessCalls, MaxDailyCalls, MaxProcessCost, MaxDailyCost,
        Estimate, MaxDays} \subseteq Nat
    /\ MaxActual \in Nat /\ MaxActual >= Estimate

Days == 0..MaxDays

VARIABLES
    today,   \* the clock's date
    budget,  \* UsageBudget: its day, calls, settled cost, reserved cost
    caller,  \* each caller: at, attempt, day of its reservation
    spent    \* history: what the requests reserved on a day have cost

aiVars == <<today, budget, caller, spent>>

AIInit ==
    /\ today = 0
    /\ budget = [day |-> 0, calls |-> 0, dayCalls |-> 0, cost |-> 0, dayCost |-> 0,
                 held |-> 0, dayHeld |-> 0]
    /\ caller = [w \in Workers |-> [at |-> "idle", attempt |-> 0, day |-> 0]]
    /\ spent = [d \in Days |-> 0]

\* Tokens in the reservations dict: those of the requests on their way.
InFlight == {w \in Workers : caller[w].at = "post"}

-----------------------------------------------------------------------------
(* UsageBudget                                                             *)

\* _roll_day_locked
Rolled ==
    IF today = budget.day THEN budget
    ELSE [budget EXCEPT
            !.day = today, !.dayCalls = 0, !.dayCost = 0,
            !.dayHeld = Estimate * Cardinality({w \in InFlight : caller[w].day = today})]

\* Mutant of WithinLimits: what is reserved does not count.
WithinLimitsSettled(b) ==
    /\ b.calls < MaxProcessCalls /\ b.dayCalls < MaxDailyCalls
    /\ b.cost + Estimate <= MaxProcessCost
    /\ b.dayCost + Estimate <= MaxDailyCost

\* The four checks of reserve_call.
WithinLimits(b) ==
    /\ b.calls < MaxProcessCalls /\ b.dayCalls < MaxDailyCalls
    /\ b.cost + b.held + Estimate <= MaxProcessCost
    /\ b.dayCost + b.dayHeld + Estimate <= MaxDailyCost

Charged(b) ==
    [b EXCEPT !.calls = @ + 1, !.dayCalls = @ + 1,
              !.held = @ + Estimate, !.dayHeld = @ + Estimate]

\* The reservation of w is popped; today's share only if it was made today.
Freed(w) ==
    [budget EXCEPT !.held = @ - Estimate,
                   !.dayHeld = IF caller[w].day = budget.day THEN @ - Estimate ELSE @]

\* settle; AIBudgetExceededError if a limit is now exceeded.
Settled(w, cost) ==
    [Freed(w) EXCEPT !.cost = @ + cost,
                     !.dayCost = IF caller[w].day = budget.day THEN @ + cost ELSE @]

\* snapshot, for a report.
Snapshot ==
    /\ budget' = Rolled
    /\ UNCHANGED <<today, caller, spent>>

-----------------------------------------------------------------------------
(* decide                                                                  *)

Goto(w, at) == caller' = [caller EXCEPT ![w].at = at]

\* _validate_snapshot has passed (a stale or future snapshot makes no call).
Decide(w) ==
    /\ caller[w].at = "idle"
    /\ caller' = [caller EXCEPT ![w].at = "reserve", ![w].attempt = 0]
    /\ UNCHANGED <<today, budget, spent>>

\* reserve_call before every attempt; AIBudgetExceededError ends in
\* _budget_fallback, a HOLD.
Reserve(w) ==
    /\ caller[w].at = "reserve"
    /\ IF WithinLimits(Rolled)
       THEN /\ budget' = Charged(Rolled)
            /\ caller' = [caller EXCEPT ![w].at = "post", ![w].day = today]
       ELSE budget' = Rolled /\ Goto(w, "idle")
    /\ UNCHANGED <<today, spent>>

\* 200: usage is settled first; the answer may then still be over the limit, not
\* match the schema, be for another symbol or have no valid risk plan.
Answer(w, cost) ==
    /\ caller[w].at = "post"
    /\ budget' = Settled(w, cost)
    /\ spent' = [spent EXCEPT ![caller[w].day] = @ + cost]
    /\ Goto(w, "idle")
    /\ UNCHANGED today

\* Mutant of Transient: the reservation is kept and the request simply repeated.
TransientRepost(w) ==
    /\ caller[w].at = "post"
    /\ caller' = [caller EXCEPT ![w].attempt = 1 - @]
    /\ UNCHANGED <<today, budget, spent>>

\* 429, 5xx or a timeout: the reservation is cancelled, and another attempt is
\* made after a pause, MaxRetries times.
Transient(w) ==
    /\ caller[w].at = "post"
    /\ budget' = Freed(w)
    /\ caller' = [caller EXCEPT
                    ![w].at = IF caller[w].attempt >= MaxRetries THEN "idle" ELSE "reserve",
                    ![w].attempt = IF caller[w].attempt >= MaxRetries THEN @ ELSE @ + 1]
    /\ UNCHANGED <<today, spent>>

\* Mutant of Fatal: the reservation is left behind.
FatalKeeps(w) ==
    /\ caller[w].at = "post"
    /\ Goto(w, "idle")
    /\ UNCHANGED <<today, budget, spent>>

\* Other 4xx, a broken connection, a body that is not JSON or has no usage:
\* cancelled and raised, without another attempt.
Fatal(w) ==
    /\ caller[w].at = "post"
    /\ budget' = Freed(w)
    /\ Goto(w, "idle")
    /\ UNCHANGED <<today, spent>>

NewDay ==
    /\ today < MaxDays
    /\ today' = today + 1
    /\ UNCHANGED <<budget, caller, spent>>

CallerStep(w) ==
    Reserve(w) \/ Transient(w) \/ Fatal(w) \/ \E c \in 0..MaxActual : Answer(w, c)

AINext ==
    \/ \E w \in Workers : Decide(w) \/ CallerStep(w)
    \/ Snapshot \/ NewDay

\* Every request has a timeout and every pause an end, so a call goes on.
AISpec ==
    /\ AIInit /\ [][AINext]_aiVars
    /\ \A w \in Workers : WF_aiVars(CallerStep(w))

-----------------------------------------------------------------------------
(* Properties                                                              *)

\* Types; no more calls are made than the limits on their number allow.
AITypeOK ==
    /\ today \in Days
    /\ budget \in [day: Days, calls: 0..MaxProcessCalls, dayCalls: 0..MaxDailyCalls,
                   cost: Nat, dayCost: Nat, held: Nat, dayHeld: Nat]
    /\ caller \in [Workers -> [at: {"idle", "reserve", "post"},
                               attempt: 0..MaxRetries, day: Days]]
    /\ spent \in [Days -> Nat]

\* Every way out of decide frees its reservation: what is reserved is exactly
\* what is on its way, in total and for the budget's day, whatever raises and
\* whenever the day changes.
HeldIsInFlight ==
    /\ budget.held = Estimate * Cardinality(InFlight)
    /\ budget.dayHeld = Estimate * Cardinality({w \in InFlight : caller[w].day = budget.day})

\* An answer may cost more than its estimate, but a reservation is made only
\* while the limit covers what is settled and on its way: a limit is exceeded
\* by at most the overruns of the calls in flight together, for the process
\* and for each day, calls in flight at midnight included.
Overrun == Cardinality(Workers) * (MaxActual - Estimate)

SpendIsBounded ==
    /\ budget.cost <= MaxProcessCost + Overrun
    /\ \A d \in Days : spent[d] <= MaxDailyCost + Overrun

\* decide returns: retries are bounded.
DecideReturns == \A w \in Workers : caller[w].at # "idle" ~> caller[w].at = "idle"

=============================================================================
