--------------------------- MODULE AIClientProofs ---------------------------
(***************************************************************************)
(* Proofs about the budget that the callers of decide share, for any       *)
(* number of callers, any limits, costs and retries, and any number of     *)
(* days: reservations are never lost, and the limits bound what is spent.  *)
(***************************************************************************)
EXTENDS AIClient, FiniteSetTheorems, TLAPS

-----------------------------------------------------------------------------
(* The inductive invariant                                                 *)

\* The requests on their way that were reserved on day d.
OnDay(d) == {w \in InFlight : caller[w].day = d}

\* The budget is never ahead of the clock, nor a reservation of the budget; what
\* is settled for the budget's day is what was spent on it, and no later day has
\* cost anything.
DaysOK ==
    /\ budget.day <= today
    /\ \A w \in Workers : caller[w].day <= budget.day
    /\ budget.dayCost = spent[budget.day]
    /\ \A d \in Days : d > budget.day => spent[d] = 0

\* The limit and the overruns cover all that is on its way, even at its dearest.
CoveredOK ==
    /\ budget.cost + MaxActual * Cardinality(InFlight) <= MaxProcessCost + Overrun
    /\ \A d \in Days : spent[d] + MaxActual * Cardinality(OnDay(d)) <= MaxDailyCost + Overrun

AIInv == AITypeOK /\ HeldIsInFlight /\ DaysOK /\ CoveredOK

-----------------------------------------------------------------------------
(* Arithmetic                                                              *)

\* One call more at a price of a each.
LEMMA OneMore ==
    ASSUME NEW a \in Nat, NEW n \in Nat
    PROVE  a * (n + 1) = a * n + a /\ a * n \in Nat
OBVIOUS

\* One call less at a price of a each, as a settlement or a release takes it off.
LEMMA OneLess ==
    ASSUME NEW a \in Nat, NEW n \in Nat, n > 0
    PROVE  a * (n - 1) = a * n - a /\ a <= a * n
<1> DEFINE m == n - 1
<1>1. m \in Nat /\ n = m + 1
    OBVIOUS
<1>2. a * (m + 1) = a * m + a /\ a * m \in Nat
    BY <1>1, OneMore
<1> HIDE DEF m
<1>3. a * n = a * m + a
    BY <1>1, <1>2
<1> QED
    BY <1>1, <1>2, <1>3 DEF m

\* More of them cost more.
LEMMA MoreIsMore ==
    ASSUME NEW a \in Nat, NEW m \in Nat, NEW n \in Nat, m <= n
    PROVE  a * m <= a * n
OBVIOUS

\* What is dearest is the estimate and the overrun.
LEMMA Dearest ==
    ASSUME NEW n \in Nat
    PROVE  MaxActual * n = Estimate * n + (MaxActual - Estimate) * n
BY BudgetAssumption

-----------------------------------------------------------------------------
(* Counting                                                                *)

\* Requests on their way can be counted, and are no more than the callers.
LEMMA Countable ==
    ASSUME NEW d
    PROVE  /\ IsFiniteSet(InFlight) /\ IsFiniteSet(OnDay(d))
           /\ Cardinality(InFlight) \in Nat /\ Cardinality(OnDay(d)) \in Nat
           /\ Cardinality(Workers) \in Nat
           /\ Cardinality(InFlight) <= Cardinality(Workers)
           /\ Cardinality(OnDay(d)) <= Cardinality(Workers)
<1>1. InFlight \in SUBSET Workers /\ OnDay(d) \in SUBSET Workers
    BY DEF InFlight, OnDay
<1> QED
    BY <1>1, BudgetAssumption, FS_Subset, FS_CardinalityType

\* Overrun is a number.
LEMMA OverrunType == Overrun \in Nat
<1>1. Cardinality(Workers) \in Nat
    BY BudgetAssumption, FS_CardinalityType
<1>2. MaxActual - Estimate \in Nat
    BY BudgetAssumption
<1> QED
    BY <1>1, <1>2 DEF Overrun

\* The types of the callers and of the budget.
CallerType == [at: {"idle", "reserve", "post"}, attempt: 0..MaxRetries, day: Days]

BudgetType == [day: Days, calls: 0..MaxProcessCalls, dayCalls: 0..MaxDailyCalls,
               cost: Nat, dayCost: Nat, held: Nat, dayHeld: Nat]

\* Only w moves, to at, with a reservation of day d.
Moves(w, at, d) ==
    /\ caller' \in [Workers -> CallerType]
    /\ caller'[w].at = at /\ caller'[w].day = d
    /\ \A v \in Workers \ {w} : caller'[v] = caller[v]

\* A caller whose request comes back leaves the requests on their way.
LEMMA Leaves ==
    ASSUME NEW w \in Workers, caller[w].at = "post",
           NEW at \in {"idle", "reserve"}, NEW e, Moves(w, at, e)
    PROVE  /\ Cardinality(InFlight) > 0
           /\ Cardinality(InFlight)' = Cardinality(InFlight) - 1
           /\ \A d \in Days :
                 IF caller[w].day = d
                 THEN /\ Cardinality(OnDay(d)) > 0
                      /\ Cardinality(OnDay(d))' = Cardinality(OnDay(d)) - 1
                 ELSE Cardinality(OnDay(d))' = Cardinality(OnDay(d))
<1>1. InFlight' = InFlight \ {w} /\ w \in InFlight
    BY DEF InFlight, Moves
<1>2. IsFiniteSet(InFlight) /\ Cardinality(InFlight) \in Nat
    BY Countable
<1>3. /\ Cardinality(InFlight') = Cardinality(InFlight) - 1
      /\ Cardinality(InFlight) > 0
    BY <1>1, <1>2, FS_RemoveElement, FS_EmptySet
<1>4. ASSUME NEW d \in Days
      PROVE  IF caller[w].day = d
             THEN /\ Cardinality(OnDay(d)) > 0
                  /\ Cardinality(OnDay(d)') = Cardinality(OnDay(d)) - 1
             ELSE Cardinality(OnDay(d)') = Cardinality(OnDay(d))
    <2>1. IsFiniteSet(OnDay(d)) /\ Cardinality(OnDay(d)) \in Nat
        BY Countable
    <2>2. CASE caller[w].day = d
        <3>1. OnDay(d)' = OnDay(d) \ {w} /\ w \in OnDay(d)
            BY <1>1, <2>2 DEF OnDay, Moves, InFlight
        <3> QED
            BY <2>1, <2>2, <3>1, FS_RemoveElement, FS_EmptySet
    <2>3. CASE caller[w].day # d
        <3>1. OnDay(d)' = OnDay(d)
            BY <1>1, <2>3 DEF OnDay, Moves, InFlight
        <3> QED
            BY <2>3, <3>1
    <2> QED
        BY <2>2, <2>3
<1> QED
    BY <1>3, <1>4

\* A caller that has reserved today joins them.
LEMMA Joins ==
    ASSUME NEW w \in Workers, caller[w].at # "post", NEW e \in Days, Moves(w, "post", e)
    PROVE  /\ Cardinality(InFlight)' = Cardinality(InFlight) + 1
           /\ \A d \in Days :
                 Cardinality(OnDay(d))' =
                     IF d = e THEN Cardinality(OnDay(d)) + 1 ELSE Cardinality(OnDay(d))
<1>1. InFlight' = InFlight \cup {w} /\ w \notin InFlight
    BY DEF InFlight, Moves
<1>2. IsFiniteSet(InFlight) /\ Cardinality(InFlight) \in Nat
    BY Countable
<1>3. Cardinality(InFlight') = Cardinality(InFlight) + 1
    BY <1>1, <1>2, FS_AddElement
<1>4. ASSUME NEW d \in Days
      PROVE  Cardinality(OnDay(d)') =
                 IF d = e THEN Cardinality(OnDay(d)) + 1 ELSE Cardinality(OnDay(d))
    <2>1. IsFiniteSet(OnDay(d)) /\ Cardinality(OnDay(d)) \in Nat
        BY Countable
    <2>2. CASE d = e
        <3>1. OnDay(d)' = OnDay(d) \cup {w} /\ w \notin OnDay(d)
            BY <1>1, <2>2 DEF OnDay, Moves, InFlight
        <3> QED
            BY <2>1, <2>2, <3>1, FS_AddElement
    <2>3. CASE d # e
        <3>1. OnDay(d)' = OnDay(d)
            BY <1>1, <2>3 DEF OnDay, Moves, InFlight
        <3> QED
            BY <2>3, <3>1
    <2> QED
        BY <2>2, <2>3
<1> QED
    BY <1>3, <1>4

\* A step that moves a caller elsewhere changes no count.
LEMMA Stays ==
    ASSUME NEW w \in Workers, caller[w].at # "post",
           NEW at \in {"idle", "reserve"}, NEW e, Moves(w, at, e)
    PROVE  InFlight' = InFlight /\ \A d \in Days : OnDay(d)' = OnDay(d)
<1>1. InFlight' = InFlight /\ w \notin InFlight
    BY DEF InFlight, Moves
<1> QED
    BY <1>1 DEF OnDay, Moves, InFlight

-----------------------------------------------------------------------------
(* The moves of a caller and the methods of the budget                     *)

\* A caller's record is rewritten with a new place, attempt and day.
LEMMA MoveTo ==
    ASSUME caller \in [Workers -> CallerType], NEW w \in Workers, NEW c \in CallerType,
           caller' = [caller EXCEPT ![w] = c]
    PROVE  Moves(w, c.at, c.day)
BY DEF Moves

\* Goto changes only the place of its caller.
LEMMA GotoMoves ==
    ASSUME caller \in [Workers -> CallerType], NEW w \in Workers,
           NEW at \in {"idle", "reserve", "post"}, Goto(w, at)
    PROVE  Moves(w, at, caller[w].day)
<1> DEFINE c == [caller[w] EXCEPT !.at = at]
<1>1. c \in CallerType /\ c.at = at /\ c.day = caller[w].day
    BY DEF CallerType
<1>2. caller' = [caller EXCEPT ![w] = c]
    BY DEF Goto
<1> HIDE DEF c
<1>3. Moves(w, c.at, c.day)
    BY <1>1, <1>2, MoveTo
<1> QED
    BY <1>1, <1>3

\* A retry or a return changes the place and the attempt of its caller.
LEMMA AttemptMoves ==
    ASSUME caller \in [Workers -> CallerType], NEW w \in Workers,
           NEW at \in {"idle", "reserve", "post"}, NEW n \in 0..MaxRetries,
           caller' = [caller EXCEPT ![w].at = at, ![w].attempt = n]
    PROVE  Moves(w, at, caller[w].day)
<1> DEFINE b == [caller[w] EXCEPT !.at = at]
           c == [b EXCEPT !.attempt = n]
<1>1. b \in CallerType /\ b.at = at /\ b.day = caller[w].day
    BY DEF CallerType
<1>2. caller' = [caller EXCEPT ![w] = c]
    OBVIOUS
<1> HIDE DEF b
<1>3. c \in CallerType /\ c.at = at /\ c.day = caller[w].day
    BY <1>1 DEF CallerType
<1> HIDE DEF c
<1>4. Moves(w, c.at, c.day)
    BY <1>2, <1>3, MoveTo
<1> QED
    BY <1>3, <1>4

\* A reservation changes the place of its caller and the day it is booked on.
LEMMA DayMoves ==
    ASSUME caller \in [Workers -> CallerType], NEW w \in Workers,
           NEW at \in {"idle", "reserve", "post"}, NEW e \in Days,
           caller' = [caller EXCEPT ![w].at = at, ![w].day = e]
    PROVE  Moves(w, at, e)
<1> DEFINE b == [caller[w] EXCEPT !.at = at]
           c == [b EXCEPT !.day = e]
<1>1. b \in CallerType /\ b.at = at
    BY DEF CallerType
<1>2. caller' = [caller EXCEPT ![w] = c]
    OBVIOUS
<1> HIDE DEF b
<1>3. c \in CallerType /\ c.at = at /\ c.day = e
    BY <1>1 DEF CallerType
<1> HIDE DEF c
<1>4. Moves(w, c.at, c.day)
    BY <1>2, <1>3, MoveTo
<1> QED
    BY <1>3, <1>4

\* Two figures of a budget are rewritten: those of the process and of the day.
WithHeld(b, h, k) == [b EXCEPT !.held = h, !.dayHeld = k]
WithCost(b, h, k) == [b EXCEPT !.cost = h, !.dayCost = k]
WithCalls(b, h, k) == [b EXCEPT !.calls = h, !.dayCalls = k]

\* Rewriting the two held figures leaves the rest of the budget as it was.
LEMMA HeldFields ==
    ASSUME NEW b \in BudgetType, NEW h \in Nat, NEW k \in Nat
    PROVE  LET c == WithHeld(b, h, k)
           IN  /\ c \in BudgetType
               /\ c.day = b.day /\ c.calls = b.calls /\ c.dayCalls = b.dayCalls
               /\ c.cost = b.cost /\ c.dayCost = b.dayCost
               /\ c.held = h /\ c.dayHeld = k
<1> DEFINE a == [b EXCEPT !.held = h]
           c == [a EXCEPT !.dayHeld = k]
<1>1. /\ a \in BudgetType
      /\ a.day = b.day /\ a.calls = b.calls /\ a.dayCalls = b.dayCalls
      /\ a.cost = b.cost /\ a.dayCost = b.dayCost /\ a.held = h
    BY DEF BudgetType
<1>2. WithHeld(b, h, k) = c
    BY DEF WithHeld
<1> HIDE DEF a
<1>3. /\ c \in BudgetType
      /\ c.day = b.day /\ c.calls = b.calls /\ c.dayCalls = b.dayCalls
      /\ c.cost = b.cost /\ c.dayCost = b.dayCost /\ c.held = h /\ c.dayHeld = k
    BY <1>1 DEF BudgetType
<1> QED
    BY <1>2, <1>3

\* Rewriting the two costs leaves the day and the held figures as they were.
LEMMA CostFields ==
    ASSUME NEW b \in BudgetType, NEW h \in Nat, NEW k \in Nat
    PROVE  LET c == WithCost(b, h, k)
           IN  /\ c \in BudgetType
               /\ c.day = b.day /\ c.held = b.held /\ c.dayHeld = b.dayHeld
               /\ c.cost = h /\ c.dayCost = k
<1> DEFINE a == [b EXCEPT !.cost = h]
           c == [a EXCEPT !.dayCost = k]
<1>1. /\ a \in BudgetType
      /\ a.day = b.day /\ a.held = b.held /\ a.dayHeld = b.dayHeld /\ a.cost = h
    BY DEF BudgetType
<1>2. WithCost(b, h, k) = c
    BY DEF WithCost
<1> HIDE DEF a
<1>3. /\ c \in BudgetType
      /\ c.day = b.day /\ c.held = b.held /\ c.dayHeld = b.dayHeld
      /\ c.cost = h /\ c.dayCost = k
    BY <1>1 DEF BudgetType
<1> QED
    BY <1>2, <1>3

\* Rewriting the two call counts leaves the day, costs and held figures as they were.
LEMMA CallFields ==
    ASSUME NEW b \in BudgetType, NEW h \in 0..MaxProcessCalls, NEW k \in 0..MaxDailyCalls
    PROVE  LET c == WithCalls(b, h, k)
           IN  /\ c \in BudgetType
               /\ c.day = b.day /\ c.cost = b.cost /\ c.dayCost = b.dayCost
               /\ c.held = b.held /\ c.dayHeld = b.dayHeld
<1> DEFINE a == [b EXCEPT !.calls = h]
           c == [a EXCEPT !.dayCalls = k]
<1>1. /\ a \in BudgetType
      /\ a.day = b.day /\ a.cost = b.cost /\ a.dayCost = b.dayCost
      /\ a.held = b.held /\ a.dayHeld = b.dayHeld
    BY DEF BudgetType
<1>2. WithCalls(b, h, k) = c
    BY DEF WithCalls
<1> HIDE DEF a
<1>3. /\ c \in BudgetType
      /\ c.day = b.day /\ c.cost = b.cost /\ c.dayCost = b.dayCost
      /\ c.held = b.held /\ c.dayHeld = b.dayHeld
    BY <1>1 DEF BudgetType
<1> QED
    BY <1>2, <1>3

\* The invariant in terms of the counts.
LEMMA InvFacts ==
    ASSUME AIInv
    PROVE  /\ budget \in BudgetType /\ caller \in [Workers -> CallerType]
           /\ today \in Days /\ today \in Nat /\ spent \in [Days -> Nat]
           /\ budget.held = Estimate * Cardinality(InFlight)
           /\ budget.dayHeld = Estimate * Cardinality(OnDay(budget.day))
<1>1. budget \in BudgetType /\ caller \in [Workers -> CallerType] /\ today \in Days
      /\ spent \in [Days -> Nat]
    BY DEF AIInv, AITypeOK, BudgetType, CallerType
<1>2. today \in Nat
    BY <1>1, BudgetAssumption DEF Days
<1>3. OnDay(budget.day) = {w \in InFlight : caller[w].day = budget.day}
    BY DEF OnDay
<1>4. HeldIsInFlight
    BY DEF AIInv
<1> QED
    BY <1>1, <1>2, <1>3, <1>4 DEF HeldIsInFlight

\* And back.
LEMMA InvFrom ==
    ASSUME budget' \in BudgetType, caller' \in [Workers -> CallerType],
           today' \in Days, spent' \in [Days -> Nat],
           budget'.held = Estimate * Cardinality(InFlight'),
           budget'.dayHeld = Estimate * Cardinality(OnDay(budget.day)'),
           DaysOK', CoveredOK'
    PROVE  AIInv'
<1>1. OnDay(budget.day)' = {w \in InFlight : caller[w].day = budget.day}'
    BY DEF OnDay
<1> QED
    BY <1>1 DEF AIInv, AITypeOK, HeldIsInFlight, BudgetType, CallerType

\* _roll_day_locked brings the budget to today: a new day has no cost, no calls
\* and, as reservations are never ahead of the budget, nothing on its way.
LEMMA RolledFacts ==
    ASSUME AIInv
    PROVE  /\ Rolled \in BudgetType
           /\ Rolled.day = today /\ Rolled.cost = budget.cost /\ Rolled.held = budget.held
           /\ Rolled.dayCost = spent[today]
           /\ Rolled.dayHeld = Estimate * Cardinality(OnDay(today))
           /\ \A w \in Workers : caller[w].day <= today
           /\ \A d \in Days : d > today => spent[d] = 0
<1>1. CASE today = budget.day
    BY <1>1, InvFacts DEF AIInv, DaysOK, Rolled
<1>2. CASE today # budget.day
    <2> DEFINE k == Estimate * Cardinality(OnDay(today))
               a == [budget EXCEPT !.day = today]
               b == [a EXCEPT !.dayCalls = 0]
               c == [b EXCEPT !.dayCost = 0]
               e == [c EXCEPT !.dayHeld = k]
    <2>1. k \in Nat
        <3>1. Cardinality(OnDay(today)) \in Nat
            BY Countable
        <3> QED
            BY <3>1, BudgetAssumption, OneMore
    <2>2. Rolled = e
        BY <1>2 DEF Rolled, OnDay
    <2> HIDE DEF k
    <2>3. /\ a \in BudgetType /\ a.day = today
          /\ a.cost = budget.cost /\ a.held = budget.held
        BY InvFacts DEF BudgetType
    <2> HIDE DEF a
    <2>4. /\ b \in BudgetType /\ b.day = today
          /\ b.cost = budget.cost /\ b.held = budget.held
        BY <2>3, BudgetAssumption DEF BudgetType
    <2> HIDE DEF b
    <2>5. /\ c \in BudgetType /\ c.day = today /\ c.dayCost = 0
          /\ c.cost = budget.cost /\ c.held = budget.held
        BY <2>4 DEF BudgetType
    <2> HIDE DEF c
    <2>6. /\ e \in BudgetType /\ e.day = today /\ e.dayCost = 0 /\ e.dayHeld = k
          /\ e.cost = budget.cost /\ e.held = budget.held
        BY <2>1, <2>5 DEF BudgetType
    <2> HIDE DEF e
    <2>7. budget.day \in Nat /\ budget.day < today /\ today \in Days
        <3>1. budget.day \in Days /\ today \in Days
            BY InvFacts DEF BudgetType
        <3>2. budget.day <= today
            BY DEF AIInv, DaysOK
        <3> QED
            BY <1>2, <3>1, <3>2, BudgetAssumption DEF Days
    <2>8. spent[today] = 0 /\ \A d \in Days : d > today => spent[d] = 0
        BY <2>7, BudgetAssumption DEF AIInv, DaysOK, Days
    <2>9. \A w \in Workers : caller[w].day <= today
        BY <2>7, InvFacts, BudgetAssumption DEF AIInv, DaysOK, CallerType, Days
    <2> QED
        BY <2>2, <2>6, <2>8, <2>9 DEF k
<1> QED
    BY <1>1, <1>2

\* The day changes; the report looks at the budget; a call begins.
LEMMA QuietSteps ==
    ASSUME AIInv, NewDay \/ Snapshot \/ \E w \in Workers : Decide(w)
    PROVE  AIInv'
<1>1. CASE NewDay
    <2>1. /\ today' = today + 1 /\ today' \in Days
          /\ UNCHANGED <<budget, caller, spent>>
        BY <1>1, InvFacts, BudgetAssumption DEF NewDay, Days
    <2>2. DaysOK'
        <3>1. budget.day \in Nat /\ today \in Nat
            BY InvFacts, BudgetAssumption DEF BudgetType, Days
        <3>2. budget.day <= today + 1
            BY <3>1 DEF AIInv, DaysOK
        <3> QED
            BY <2>1, <3>2 DEF AIInv, DaysOK
    <2> QED
        BY <2>1, <2>2 DEF AIInv, AITypeOK, HeldIsInFlight, CoveredOK, InFlight, OnDay
<1>2. CASE Snapshot
    <2>1. budget' = Rolled /\ UNCHANGED <<today, caller, spent>>
        BY <1>2 DEF Snapshot
    <2>2. InFlight' = InFlight /\ \A d \in Days : OnDay(d)' = OnDay(d)
        BY <2>1 DEF InFlight, OnDay
    <2>3. OnDay(budget.day)' = OnDay(today)
        BY <2>1, RolledFacts DEF OnDay, InFlight
    <2>4. DaysOK' /\ CoveredOK'
        BY <2>1, <2>2, RolledFacts, InvFacts DEF AIInv, DaysOK, CoveredOK, Days
    <2> QED
        BY <2>1, <2>2, <2>3, <2>4, RolledFacts, InvFacts, InvFrom
<1>3. ASSUME NEW w \in Workers, Decide(w) PROVE AIInv'
    <2>1. Moves(w, "reserve", caller[w].day)
        <3>1. 0 \in 0..MaxRetries
            BY BudgetAssumption
        <3> QED
            BY <1>3, <3>1, InvFacts, AttemptMoves DEF Decide
    <2>2. InFlight' = InFlight /\ \A d \in Days : OnDay(d)' = OnDay(d)
        BY <1>3, <2>1, Stays DEF Decide
    <2>3. UNCHANGED <<today, budget, spent>>
        BY <1>3 DEF Decide
    <2>4. budget.day \in Days /\ OnDay(budget.day)' = OnDay(budget.day)
        <3>1. budget.day \in Days
            BY InvFacts DEF BudgetType
        <3>2. OnDay(budget.day)' = {v \in InFlight : caller[v].day = budget.day}'
            BY DEF OnDay
        <3>3. \A v \in InFlight : caller'[v].day = caller[v].day
            BY <1>3, <2>1 DEF Moves, InFlight
        <3> QED
            BY <2>2, <2>3, <3>1, <3>2, <3>3 DEF OnDay
    <2>5. DaysOK' /\ CoveredOK'
        BY <2>1, <2>2, <2>3 DEF AIInv, DaysOK, CoveredOK, Moves
    <2> QED
        BY <2>1, <2>2, <2>3, <2>4, <2>5, InvFacts, InvFrom DEF Moves
<1> QED
    BY <1>1, <1>2, <1>3

\* reserve_call: granted, the reservation is covered by the limits; refused, the
\* caller gives up.
LEMMA ReserveStep ==
    ASSUME AIInv, NEW w \in Workers, Reserve(w)
    PROVE  AIInv'
<1>1. /\ today' = today /\ spent' = spent
      /\ caller[w].at = "reserve"
    BY DEF Reserve
<1>2. CASE ~WithinLimits(Rolled)
    <2>1. budget' = Rolled /\ Goto(w, "idle")
        BY <1>2 DEF Reserve
    <2>2. Moves(w, "idle", caller[w].day)
        BY <2>1, InvFacts, GotoMoves
    <2>3. InFlight' = InFlight /\ \A d \in Days : OnDay(d)' = OnDay(d)
        BY <1>1, <2>2, Stays
    <2>4. OnDay(budget.day)' = OnDay(today)
        <3>1. OnDay(budget.day)' = OnDay(today)'
            BY <1>1, <2>1, RolledFacts DEF OnDay
        <3> QED
            BY <2>3, <3>1, InvFacts, <1>1 DEF OnDay
    <2>5. DaysOK' /\ CoveredOK'
        BY <1>1, <2>1, <2>2, <2>3, RolledFacts, InvFacts DEF AIInv, DaysOK, CoveredOK, Moves
    <2> QED
        BY <1>1, <2>1, <2>2, <2>3, <2>4, <2>5, RolledFacts, InvFacts, InvFrom DEF Moves
<1>3. CASE WithinLimits(Rolled)
    <2>1. budget' = Charged(Rolled)
        BY <1>3 DEF Reserve
    <2>2. Moves(w, "post", today)
        BY <1>3, InvFacts, DayMoves DEF Reserve
    <2> DEFINE n == Cardinality(InFlight)
               k == Cardinality(OnDay(today))
               W == Cardinality(Workers)
    <2>3. /\ n \in Nat /\ k \in Nat /\ W \in Nat /\ n <= W /\ k <= W
          /\ Cardinality(InFlight') \in Nat /\ Cardinality(InFlight') <= W
          /\ Cardinality(OnDay(today)') \in Nat /\ Cardinality(OnDay(today)') <= W
        <3>1. n \in Nat /\ k \in Nat /\ W \in Nat /\ n <= W /\ k <= W
            BY Countable
        <3>2. InFlight' \in SUBSET Workers /\ OnDay(today)' \in SUBSET Workers
            BY DEF InFlight, OnDay
        <3> QED
            BY <3>1, <3>2, BudgetAssumption, FS_Subset, FS_CardinalityType
    <2>4. /\ Cardinality(InFlight') = n + 1
          /\ \A d \in Days : Cardinality(OnDay(d)') =
                IF d = today THEN Cardinality(OnDay(d)) + 1 ELSE Cardinality(OnDay(d))
        BY <1>1, <2>2, InvFacts, Joins
    <2>5. Cardinality(OnDay(today)') = k + 1
        <3>1. ASSUME NEW d \in Days, d = today
              PROVE  OnDay(today)' = OnDay(d)'
            BY <1>1, <3>1 DEF OnDay
        <3> QED
            BY <2>4, <3>1, InvFacts
    <2>6. /\ budget' \in BudgetType
          /\ budget'.day = today /\ budget'.cost = budget.cost /\ budget'.dayCost = spent[today]
          /\ budget'.held = Estimate * n + Estimate /\ budget'.dayHeld = Estimate * k + Estimate
        <3> DEFINE c == WithCalls(Rolled, Rolled.calls + 1, Rolled.dayCalls + 1)
        <3>1. Rolled.calls + 1 \in 0..MaxProcessCalls /\ Rolled.dayCalls + 1 \in 0..MaxDailyCalls
            BY <1>3, RolledFacts, BudgetAssumption DEF WithinLimits, BudgetType
        <3>2. /\ c \in BudgetType
              /\ c.day = today /\ c.cost = budget.cost /\ c.dayCost = spent[today]
              /\ c.held = Estimate * n /\ c.dayHeld = Estimate * k
            BY <3>1, RolledFacts, InvFacts, CallFields
        <3>3. Estimate * n + Estimate \in Nat /\ Estimate * k + Estimate \in Nat
            BY <2>3, OneMore, BudgetAssumption
        <3>4. budget' = [c EXCEPT !.held = c.held + Estimate, !.dayHeld = c.dayHeld + Estimate]
            BY <2>1, RolledFacts DEF Charged, BudgetType, WithCalls
        <3> HIDE DEF c, n, k
        <3> DEFINE h == Estimate * n + Estimate
                   j == Estimate * k + Estimate
        <3>5. budget' = WithHeld(c, h, j) /\ h \in Nat /\ j \in Nat
            BY <3>2, <3>3, <3>4 DEF WithHeld
        <3> HIDE DEF h, j
        <3>6. /\ budget' \in BudgetType /\ budget'.held = h /\ budget'.dayHeld = j
              /\ budget'.day = c.day /\ budget'.cost = c.cost /\ budget'.dayCost = c.dayCost
            BY <3>2, <3>5, HeldFields
        <3> QED
            BY <3>2, <3>6 DEF h, j
    <2>7. /\ budget.cost + (Estimate * n + Estimate) <= MaxProcessCost
          /\ spent[today] + (Estimate * k + Estimate) <= MaxDailyCost
        <3>1. /\ Rolled.cost + Rolled.held + Estimate <= MaxProcessCost
              /\ Rolled.dayCost + Rolled.dayHeld + Estimate <= MaxDailyCost
            BY <1>3 DEF WithinLimits
        <3>2. /\ Rolled.cost \in Nat /\ Rolled.dayCost \in Nat
              /\ Rolled.held \in Nat /\ Rolled.dayHeld \in Nat
            BY RolledFacts DEF BudgetType
        <3>3. Rolled.held = Estimate * n /\ Rolled.dayHeld = Estimate * k
            BY RolledFacts, InvFacts
        <3> HIDE DEF n, k
        <3> QED
            BY <3>1, <3>2, <3>3, RolledFacts, BudgetAssumption
    <2>8. ASSUME NEW m \in Nat, m + 1 <= W, NEW x \in Nat, NEW lim \in Nat,
                 x + (Estimate * m + Estimate) <= lim
          PROVE  x + MaxActual * (m + 1) <= lim + Overrun
        <3> DEFINE E == MaxActual - Estimate
        <3>1. E \in Nat
            BY BudgetAssumption
        <3>2. MaxActual * (m + 1) = Estimate * (m + 1) + E * (m + 1)
            BY <2>8, Dearest
        <3>3. Estimate * (m + 1) = Estimate * m + Estimate /\ Estimate * m \in Nat
            BY OneMore, BudgetAssumption
        <3>4. E * (m + 1) <= E * W
            BY <2>3, <2>8, <3>1, MoreIsMore
        <3>5. Overrun = E * W /\ Overrun \in Nat
            BY <2>3, <3>1, OverrunType DEF Overrun
        <3> HIDE DEF E, W
        <3>6. E * (m + 1) \in Nat
            BY <3>1, OneMore
        <3> DEFINE y == E * (m + 1)
                   z == Estimate * m
        <3>7. y \in Nat /\ y <= Overrun /\ z \in Nat
            BY <3>3, <3>4, <3>5, <3>6
        <3>8. MaxActual * (m + 1) = (z + Estimate) + y
            BY <3>2, <3>3
        <3> HIDE DEF y, z
        <3> QED
            BY <2>8, <3>5, <3>7, <3>8, BudgetAssumption DEF z
    <2>9. DaysOK'
        BY <1>1, <2>2, <2>6, RolledFacts, InvFacts DEF DaysOK, Moves, Days
    <2>10. CoveredOK'
        <3>1. budget.cost + MaxActual * (n + 1) <= MaxProcessCost + Overrun
            <4>1. budget.cost \in Nat /\ MaxProcessCost \in Nat /\ n + 1 <= W
                BY <2>3, <2>4, InvFacts, BudgetAssumption DEF BudgetType
            <4> QED
                BY <2>3, <2>7, <2>8, <4>1
        <3>2. spent[today] + MaxActual * (k + 1) <= MaxDailyCost + Overrun
            <4>1. spent[today] \in Nat /\ MaxDailyCost \in Nat /\ k + 1 <= W
                BY <2>3, <2>5, InvFacts, BudgetAssumption
            <4> QED
                BY <2>3, <2>7, <2>8, <4>1
        <3>3. ASSUME NEW d \in Days
              PROVE  spent[d] + MaxActual * Cardinality(OnDay(d)') <= MaxDailyCost + Overrun
            <4>1. CASE d = today
                BY <2>4, <3>2, <4>1
            <4>2. CASE d # today
                BY <2>4, <4>2 DEF AIInv, CoveredOK
            <4> QED
                BY <4>1, <4>2
        <3> QED
            BY <1>1, <2>4, <2>6, <3>1, <3>3 DEF CoveredOK, Overrun
    <2>11. OnDay(budget.day)' = OnDay(today)'
        BY <1>1, <2>6 DEF OnDay
    <2>12. /\ budget'.held = Estimate * Cardinality(InFlight')
           /\ budget'.dayHeld = Estimate * Cardinality(OnDay(budget.day)')
        <3>1. Estimate * (n + 1) = Estimate * n + Estimate
            BY <2>3, OneMore, BudgetAssumption
        <3>2. Estimate * (k + 1) = Estimate * k + Estimate
            BY <2>3, OneMore, BudgetAssumption
        <3> QED
            BY <2>4, <2>5, <2>6, <2>11, <3>1, <3>2
    <2> QED
        BY <1>1, <2>2, <2>6, <2>9, <2>10, <2>12, InvFacts, InvFrom DEF Moves
<1> QED
    BY <1>2, <1>3

\* A request comes back: its reservation is freed, of the process and, if it was
\* made on the budget's day, of the day; a cost of at most MaxActual is settled.
LEMMA BackStep ==
    ASSUME AIInv, NEW w \in Workers, caller[w].at = "post",
           NEW at \in {"idle", "reserve"}, Moves(w, at, caller[w].day),
           NEW cost \in 0..MaxActual,
           budget' \in BudgetType,
           budget'.day = budget.day,
           budget'.cost = budget.cost + cost,
           budget'.dayCost = IF caller[w].day = budget.day THEN budget.dayCost + cost
                             ELSE budget.dayCost,
           budget'.held = budget.held - Estimate,
           budget'.dayHeld = IF caller[w].day = budget.day THEN budget.dayHeld - Estimate
                             ELSE budget.dayHeld,
           spent' = [spent EXCEPT ![caller[w].day] = @ + cost],
           today' = today
    PROVE  AIInv'
<1> DEFINE e == caller[w].day
           n == Cardinality(InFlight)
<1>1. /\ e \in Days /\ e \in Nat /\ budget.day \in Days /\ budget.day \in Nat /\ e <= budget.day
      /\ spent \in [Days -> Nat] /\ cost \in Nat /\ MaxActual \in Nat /\ Estimate \in Nat
    <2>1. e \in Days /\ budget.day \in Days
        BY InvFacts DEF CallerType, BudgetType
    <2>2. e \in Nat /\ budget.day \in Nat
        BY <2>1, BudgetAssumption DEF Days
    <2>3. e <= budget.day
        BY DEF AIInv, DaysOK
    <2>4. MaxActual \in Nat /\ Estimate \in Nat /\ cost \in Nat
        BY BudgetAssumption
    <2> QED
        BY <2>1, <2>2, <2>3, <2>4, InvFacts
<1>2. /\ n \in Nat /\ n > 0 /\ Cardinality(InFlight') = n - 1
      /\ \A d \in Days :
            /\ Cardinality(OnDay(d)) \in Nat
            /\ IF e = d
               THEN /\ Cardinality(OnDay(d)) > 0
                    /\ Cardinality(OnDay(d)') = Cardinality(OnDay(d)) - 1
               ELSE Cardinality(OnDay(d)') = Cardinality(OnDay(d))
    BY Countable, Leaves
<1>3. spent' \in [Days -> Nat] /\ spent'[e] = spent[e] + cost
      /\ \A d \in Days : d # e => spent'[d] = spent[d]
    BY <1>1
<1>4. caller' \in [Workers -> CallerType] /\ \A v \in Workers : caller'[v].day = caller[v].day
    BY DEF Moves
<1>5. DaysOK'
    <2>1. budget'.dayCost = spent'[budget.day]
        BY <1>1, <1>3 DEF AIInv, DaysOK
    <2>2. ASSUME NEW d \in Days, d > budget.day PROVE spent'[d] = 0
        BY <1>1, <1>3, <2>2 DEF AIInv, DaysOK, Days
    <2> QED
        BY <1>4, <2>1, <2>2 DEF AIInv, DaysOK
<1>6. ASSUME NEW m \in Nat, m > 0, NEW x \in Nat, NEW lim \in Nat,
             x + MaxActual * m <= lim + Overrun
      PROVE  (x + cost) + MaxActual * (m - 1) <= lim + Overrun
    <2> DEFINE y == MaxActual * m
    <2>1. MaxActual * (m - 1) = y - MaxActual /\ y \in Nat
        BY <1>1, <1>6, OneLess, OneMore
    <2>2. x + y <= lim + Overrun
        BY <1>6
    <2> HIDE DEF y
    <2> QED
        BY <1>1, <2>1, <2>2, OverrunType
<1>7. CoveredOK'
    <2>1. budget'.cost + MaxActual * Cardinality(InFlight') <= MaxProcessCost + Overrun
        <3>1. budget.cost \in Nat /\ MaxProcessCost \in Nat
            BY InvFacts, BudgetAssumption DEF BudgetType
        <3>2. budget.cost + MaxActual * n <= MaxProcessCost + Overrun
            BY DEF AIInv, CoveredOK
        <3> QED
            BY <1>2, <1>6, <3>1, <3>2
    <2>2. ASSUME NEW d \in Days
          PROVE  spent'[d] + MaxActual * Cardinality(OnDay(d)') <= MaxDailyCost + Overrun
        <3>1. spent[d] \in Nat /\ MaxDailyCost \in Nat
            BY <1>1, BudgetAssumption
        <3>2. spent[d] + MaxActual * Cardinality(OnDay(d)) <= MaxDailyCost + Overrun
            BY DEF AIInv, CoveredOK
        <3>3. CASE d = e
            BY <1>2, <1>3, <1>6, <3>1, <3>2, <3>3
        <3>4. CASE d # e
            BY <1>2, <1>3, <3>2, <3>4
        <3> QED
            BY <3>3, <3>4
    <2> QED
        BY <2>1, <2>2 DEF CoveredOK, Overrun
<1>8. budget'.held = Estimate * Cardinality(InFlight')
    <2>1. Estimate * (n - 1) = Estimate * n - Estimate
        BY <1>1, <1>2, OneLess
    <2> QED
        BY <1>2, <2>1, InvFacts
<1>9. budget'.dayHeld = Estimate * Cardinality(OnDay(budget.day)')
    <2> DEFINE d == budget.day
               k == Cardinality(OnDay(d))
    <2>1. OnDay(budget.day)' = {v \in InFlight' : caller'[v].day = d}
        BY DEF OnDay
    <2>2. budget.dayHeld = Estimate * k
        BY InvFacts
    <2>3. PICK f \in Days : f = d
        BY <1>1
    <2>4. OnDay(f)' = {v \in InFlight' : caller'[v].day = f}
        BY DEF OnDay
    <2>5. OnDay(budget.day)' = OnDay(f)'
        BY <2>1, <2>3, <2>4
    <2>6. CASE e = d
        <3>1. k \in Nat /\ k > 0 /\ Cardinality(OnDay(f)') = k - 1
            BY <1>2, <2>3, <2>6
        <3>2. Estimate * (k - 1) = Estimate * k - Estimate
            BY <1>1, <3>1, OneLess
        <3> QED
            BY <2>2, <2>5, <2>6, <3>1, <3>2
    <2>7. CASE e # d
        <3>1. Cardinality(OnDay(f)') = k
            BY <1>2, <2>3, <2>7
        <3> QED
            BY <2>2, <2>5, <2>7, <3>1
    <2> QED
        BY <2>6, <2>7
<1> QED
    BY <1>3, <1>4, <1>5, <1>7, <1>8, <1>9, InvFacts, InvFrom

\* What settle and cancel leave in the budget.
LEMMA FreedFacts ==
    ASSUME AIInv, NEW w \in Workers, caller[w].at = "post"
    PROVE  /\ Freed(w) \in BudgetType
           /\ Freed(w).day = budget.day
           /\ Freed(w).cost = budget.cost /\ Freed(w).dayCost = budget.dayCost
           /\ Freed(w).held = budget.held - Estimate
           /\ Freed(w).dayHeld = IF caller[w].day = budget.day THEN budget.dayHeld - Estimate
                                 ELSE budget.dayHeld
<1> DEFINE h == budget.held - Estimate
           k == IF caller[w].day = budget.day THEN budget.dayHeld - Estimate ELSE budget.dayHeld
<1>1. Estimate \in Nat /\ budget \in BudgetType /\ budget.dayHeld \in Nat
    BY InvFacts, BudgetAssumption DEF BudgetType
<1>2. h \in Nat
    <2> DEFINE n == Cardinality(InFlight)
    <2>1. n \in Nat /\ n > 0
        <3>1. IsFiniteSet(InFlight) /\ n \in Nat /\ InFlight # {}
            BY Countable DEF InFlight
        <3> QED
            BY <3>1, FS_EmptySet
    <2>2. Estimate <= Estimate * n /\ Estimate * n \in Nat
        BY <1>1, <2>1, OneLess, OneMore
    <2> QED
        BY <1>1, <2>2, InvFacts
<1>3. k \in Nat
    <2>1. CASE caller[w].day = budget.day
        <3> DEFINE n == Cardinality(OnDay(budget.day))
        <3>1. n \in Nat /\ n > 0
            <4>1. IsFiniteSet(OnDay(budget.day)) /\ n \in Nat /\ OnDay(budget.day) # {}
                BY <2>1, Countable DEF InFlight, OnDay
            <4> QED
                BY <4>1, FS_EmptySet
        <3>2. Estimate <= Estimate * n /\ Estimate * n \in Nat
            BY <1>1, <3>1, OneLess, OneMore
        <3> QED
            BY <1>1, <2>1, <3>2, InvFacts
    <2>2. CASE caller[w].day # budget.day
        BY <1>1, <2>2
    <2> QED
        BY <2>1, <2>2
<1> DEFINE c == WithHeld(budget, h, k)
<1>4. Freed(w) = c
    BY DEF Freed, WithHeld
<1> HIDE DEF h, k
<1>5. /\ c \in BudgetType
      /\ c.day = budget.day /\ c.cost = budget.cost /\ c.dayCost = budget.dayCost
      /\ c.held = h /\ c.dayHeld = k
    BY <1>1, <1>2, <1>3, HeldFields
<1> HIDE DEF c
<1> QED
    BY <1>4, <1>5 DEF h, k

\* A request that failed: cancelled, and tried again or given up.
LEMMA FailSteps ==
    ASSUME AIInv, NEW w \in Workers, Transient(w) \/ Fatal(w)
    PROVE  AIInv'
<1>1. caller[w].at = "post" /\ budget' = Freed(w) /\ today' = today /\ spent' = spent
    BY DEF Transient, Fatal
<1>2. PICK at \in {"idle", "reserve"} : Moves(w, at, caller[w].day)
    <2>1. CASE Fatal(w)
        BY <2>1, InvFacts, GotoMoves DEF Fatal
    <2>2. CASE Transient(w)
        <3> DEFINE at == IF caller[w].attempt >= MaxRetries THEN "idle" ELSE "reserve"
                   n == IF caller[w].attempt >= MaxRetries THEN caller[w].attempt
                        ELSE caller[w].attempt + 1
        <3>1. n \in 0..MaxRetries /\ at \in {"idle", "reserve"}
            BY InvFacts, BudgetAssumption DEF CallerType
        <3>2. caller' = [caller EXCEPT ![w].at = at, ![w].attempt = n]
            BY <2>2 DEF Transient
        <3> HIDE DEF at, n
        <3> QED
            BY <3>1, <3>2, InvFacts, AttemptMoves
    <2> QED
        BY <2>1, <2>2
<1>3. /\ spent' = [spent EXCEPT ![caller[w].day] = @ + 0]
      /\ budget.cost + 0 = budget.cost /\ budget.dayCost + 0 = budget.dayCost
    BY <1>1, InvFacts DEF BudgetType, CallerType
<1>4. 0 \in 0..MaxActual
    BY BudgetAssumption
<1> QED
    BY <1>1, <1>2, <1>3, <1>4, FreedFacts, BackStep

\* An answer: its cost is settled on the day of its reservation.
LEMMA AnswerStep ==
    ASSUME AIInv, NEW w \in Workers, NEW cost \in 0..MaxActual, Answer(w, cost)
    PROVE  AIInv'
<1>1. /\ caller[w].at = "post" /\ budget' = Settled(w, cost) /\ today' = today
      /\ spent' = [spent EXCEPT ![caller[w].day] = @ + cost]
    BY DEF Answer
<1>2. Moves(w, "idle", caller[w].day)
    BY InvFacts, GotoMoves DEF Answer
<1> DEFINE h == budget.cost + cost
           k == IF caller[w].day = budget.day THEN budget.dayCost + cost ELSE budget.dayCost
           b == Freed(w)
<1>3. h \in Nat /\ k \in Nat
    BY InvFacts, BudgetAssumption DEF BudgetType
<1>4. budget' = WithCost(b, h, k)
    BY <1>1, FreedFacts DEF Settled, WithCost
<1>5. /\ b \in BudgetType /\ b.day = budget.day
      /\ b.held = budget.held - Estimate
      /\ b.dayHeld = IF caller[w].day = budget.day THEN budget.dayHeld - Estimate
                     ELSE budget.dayHeld
    BY <1>1, FreedFacts
<1> HIDE DEF h, k, b
<1> DEFINE c == WithCost(b, h, k)
<1>6. /\ c \in BudgetType /\ c.day = b.day /\ c.cost = h /\ c.dayCost = k
      /\ c.held = b.held /\ c.dayHeld = b.dayHeld
    <2>1. b \in BudgetType
        BY <1>5
    <2> QED
        BY <1>3, <2>1, CostFields
<1>7. budget' = c
    BY <1>4
<1> HIDE DEF c
<1> QED
    BY <1>1, <1>2, <1>5, <1>6, <1>7, BackStep DEF h, k

-----------------------------------------------------------------------------
(* The theorems                                                            *)

\* The invariant holds in every state of every behaviour.
THEOREM AIInvariance == AISpec => []AIInv
<1>1. AIInit => AIInv
    <2> SUFFICES ASSUME AIInit PROVE AIInv
        OBVIOUS
    <2>1. AITypeOK
        BY BudgetAssumption DEF AIInit, AITypeOK, Days
    <2>2. InFlight = {} /\ \A d : OnDay(d) = {}
        BY DEF AIInit, InFlight, OnDay
    <2>3. Cardinality({}) = 0
        BY FS_EmptySet
    <2>4. HeldIsInFlight
        BY <2>2, <2>3, BudgetAssumption DEF AIInit, HeldIsInFlight, OnDay
    <2>5. DaysOK
        BY BudgetAssumption DEF AIInit, DaysOK, Days
    <2>6. CoveredOK
        <3>1. MaxActual * 0 = 0 /\ MaxProcessCost + Overrun >= 0 /\ MaxDailyCost + Overrun >= 0
            BY OverrunType, BudgetAssumption
        <3>2. budget.cost = 0 /\ \A d \in Days : spent[d] = 0
            BY DEF AIInit
        <3>3. budget.cost + MaxActual * Cardinality(InFlight) = 0
            BY <2>2, <2>3, <3>1, <3>2
        <3>4. \A d \in Days : spent[d] + MaxActual * Cardinality(OnDay(d)) = 0
            BY <2>2, <2>3, <3>1, <3>2
        <3> QED
            BY <3>1, <3>3, <3>4, OverrunType, BudgetAssumption DEF CoveredOK
    <2> QED
        BY <2>1, <2>4, <2>5, <2>6 DEF AIInv
<1>2. AIInv /\ [AINext]_aiVars => AIInv'
    <2> SUFFICES ASSUME AIInv, [AINext]_aiVars PROVE AIInv'
        OBVIOUS
    <2>1. ASSUME NEW w \in Workers, CallerStep(w) PROVE AIInv'
        BY <2>1, ReserveStep, FailSteps, AnswerStep DEF CallerStep
    <2>2. CASE NewDay \/ Snapshot \/ \E w \in Workers : Decide(w)
        BY <2>2, QuietSteps
    <2>3. CASE UNCHANGED aiVars
        BY <2>3 DEF aiVars, AIInv, AITypeOK, HeldIsInFlight, DaysOK, CoveredOK, InFlight, OnDay
    <2> QED
        BY <2>1, <2>2, <2>3 DEF AINext
<1> QED
    BY <1>1, <1>2, PTL DEF AISpec

\* Types; reserve_call allows no more calls than max_calls of the process and day.
THEOREM AITypeCorrect == AISpec => []AITypeOK
BY AIInvariance, PTL DEF AIInv

\* decide frees its reservation on every way out: the budget holds exactly what is
\* on its way.
THEOREM HeldIsWhatIsInFlight == AISpec => []HeldIsInFlight
BY AIInvariance, PTL DEF AIInv

\* UsageBudget exceeds its limits at most by the overruns of the calls that are on
\* their way together.
THEOREM SpendingIsBounded == AISpec => []SpendIsBounded
<1>1. AIInv => SpendIsBounded
    <2> SUFFICES ASSUME AIInv PROVE SpendIsBounded
        OBVIOUS
    <2>1. ASSUME NEW m \in Nat, NEW x \in Nat, NEW lim \in Nat, x + MaxActual * m <= lim + Overrun
          PROVE  x <= lim + Overrun
        <3>1. MaxActual * m \in Nat
            BY OneMore, BudgetAssumption
        <3> QED
            BY <2>1, <3>1, OverrunType
    <2>2. budget.cost <= MaxProcessCost + Overrun
        <3>1. budget.cost \in Nat /\ MaxProcessCost \in Nat /\ Cardinality(InFlight) \in Nat
            BY InvFacts, Countable, BudgetAssumption DEF BudgetType
        <3> QED
            BY <2>1, <3>1 DEF AIInv, CoveredOK
    <2>3. ASSUME NEW d \in Days PROVE spent[d] <= MaxDailyCost + Overrun
        <3>1. spent[d] \in Nat /\ MaxDailyCost \in Nat /\ Cardinality(OnDay(d)) \in Nat
            BY InvFacts, Countable, BudgetAssumption
        <3> QED
            BY <2>1, <3>1 DEF AIInv, CoveredOK
    <2> QED
        BY <2>2, <2>3 DEF SpendIsBounded
<1> QED
    BY <1>1, AIInvariance, PTL
=============================================================================
