-------------------------- MODULE MarketFeedProofs --------------------------
(***************************************************************************)
(* Proofs about MarketFeed, for every set of symbols and prices, any       *)
(* length of the minute, of the look-back and of the history, any delay of *)
(* ticks and any number of reconnects and crashes: no bar exists of a      *)
(* minute that is still running, and when the trading cycle reads the      *)
(* bars, those of every minute that the last window could complete are     *)
(* made of all the saved ticks of the minute.                              *)
(***************************************************************************)
EXTENDS MarketFeed, FiniteSetTheorems, WellFoundedInduction, TLAPS

-----------------------------------------------------------------------------
(* Minutes                                                                 *)

\* A time is within its minute.
LEMMA MinuteSpans ==
    ASSUME NEW t \in Nat
    PROVE  /\ Minute(t) \in Nat
           /\ Minute(t) * PerMinute <= t
           /\ t < (Minute(t) + 1) * PerMinute
BY FeedAssumption DEF Minute

\* Products of later minutes are later.
LEMMA LaterMinute ==
    ASSUME NEW a \in Nat, NEW b \in Nat, a <= b
    PROVE  a * PerMinute <= b * PerMinute /\ a * PerMinute \in Nat
BY FeedAssumption

\* Of the times of the history, each falls into one of its minutes.
LEMMA MinuteIn ==
    ASSUME NEW t \in Times
    PROVE  Minute(t) \in Minutes
BY FeedAssumption DEF Minute, Times, Minutes

\* A set of natural numbers that is not empty has a least element.
LEMMA LeastElement ==
    ASSUME NEW S \in SUBSET Nat, S # {}
    PROVE  \E i \in S : \A j \in S : i <= j
<1> DEFINE R == {ss \in Nat \X Nat : ss[1] < ss[2]}
<1>1. R = OpToRel(<, Nat)
  BY DEF OpToRel
<1>2. IsWellFoundedOn(R, Nat)
  BY <1>1, NatLessThanWellFounded
<1>3. PICK i \in S : \A j \in S : ~(<<j, i>> \in R)
  <2> HIDE DEF R
  <2>1. QED BY <1>2, WFMin
<1>4. ASSUME NEW j \in S PROVE i <= j
  <2>1. i \in Nat /\ j \in Nat OBVIOUS
  <2>2. j < i => <<j, i>> \in R BY <2>1
  <2>3. ~(j < i)
    <3> HIDE DEF R
    <3>1. QED BY <1>3, <2>2
  <2>4. QED BY <2>1, <2>3
<1>5. QED BY <1>4

-----------------------------------------------------------------------------
(* Saved ticks                                                             *)

TickType == [s: Symbols, t: Times, p: Prices]

TicksOK == ticks \in Seq(TickType) /\ Len(ticks) <= MaxTicks

\* A row of market_ticks.
LEMMA TickFields ==
    ASSUME TicksOK, NEW i \in DOMAIN ticks
    PROVE  /\ i \in 1..Len(ticks) /\ i \in Nat
           /\ ticks[i] \in TickType /\ ticks[i].s \in Symbols
           /\ ticks[i].t \in Times /\ ticks[i].t \in Nat /\ ticks[i].p \in Prices
<1>1. i \in 1..Len(ticks) /\ ticks[i] \in TickType
  BY DEF TicksOK
<1>2. QED BY <1>1, FeedAssumption DEF TickType, Times

\* Every tick is a duplicate of a row that GROUP BY keeps: the first like it.
LEMMA KeptRow ==
    ASSUME TicksOK, NEW i \in DOMAIN ticks
    PROVE  \E k \in Distinct(ticks[i].s) : ticks[k] = ticks[i]
<1> DEFINE S == {j \in DOMAIN ticks : ticks[j] = ticks[i]}
<1>1. S \in SUBSET Nat /\ S # {}
  BY TickFields
<1>2. PICK k \in S : \A j \in S : k <= j
  BY <1>1, LeastElement
<1>3. k \in DOMAIN ticks /\ ticks[k] = ticks[i] /\ k \in 1..Len(ticks) /\ k \in Nat
  BY <1>2, TickFields
<1>4. ASSUME NEW j \in 1..(k - 1) PROVE ticks[j] # ticks[k]
  <2>1. j \in DOMAIN ticks /\ j < k /\ j \in Nat
    BY <1>3 DEF TicksOK
  <2>2. QED BY <1>2, <1>3, <2>1
<1>5. k \in Distinct(ticks[i].s)
  BY <1>3, <1>4 DEF Distinct
<1>6. QED BY <1>3, <1>5

-----------------------------------------------------------------------------
(* What a window rebuilds                                                  *)

\* The rows of a minute that materialize_completed_bars reads.
RowsOf(s, m, asOf) ==
    {i \in Distinct(s) : /\ ticks[i].t >= asOf - Lookback
                         /\ ticks[i].t <= asOf
                         /\ Minute(ticks[i].t) = m
                         /\ Complete(m, asOf)}

\* All the rows of a minute.
MinuteRows(s, m) == {i \in Distinct(s) : Minute(ticks[i].t) = m}

\* A bar is rebuilt of the rows of its minute, if there is one.
LEMMA MaterializedBar ==
    ASSUME NEW asOf, NEW s \in Symbols, NEW m \in Minutes
    PROVE  Materialized(asOf)[s][m] =
              IF RowsOf(s, m, asOf) = {} THEN bars[s][m] ELSE Aggregate(RowsOf(s, m, asOf))
BY DEF Materialized, RowsOf

\* Of a minute within the look-back and complete, no row is left out.
LEMMA NoRowIsLeftOut ==
    ASSUME TicksOK, NEW s \in Symbols, NEW m \in Minutes, NEW asOf \in Nat,
           m * PerMinute >= asOf - Lookback, (m + 1) * PerMinute <= asOf
    PROVE  RowsOf(s, m, asOf) = MinuteRows(s, m)
<1>1. ASSUME NEW i \in MinuteRows(s, m)
      PROVE  ticks[i].t >= asOf - Lookback /\ ticks[i].t <= asOf
  <2>1. ticks[i].t \in Nat /\ Minute(ticks[i].t) = m
    BY TickFields DEF MinuteRows, Distinct
  <2>2. m * PerMinute <= ticks[i].t /\ ticks[i].t < (m + 1) * PerMinute
    BY <2>1, MinuteSpans
  <2> DEFINE a == m * PerMinute
             b == (m + 1) * PerMinute
  <2>3. a \in Nat /\ b \in Nat
    BY FeedAssumption DEF Minutes
  <2> HIDE DEF a, b
  <2>4. a <= ticks[i].t /\ ticks[i].t < b /\ a >= asOf - Lookback /\ b <= asOf
    BY <2>2 DEF a, b
  <2>5. Lookback \in Nat
    BY FeedAssumption
  <2>6. QED BY <2>1, <2>3, <2>4, <2>5
<1>2. QED BY <1>1 DEF RowsOf, MinuteRows, Complete

-----------------------------------------------------------------------------
(* Bars are made of prices                                                 *)

\* A finite set of natural numbers that is not empty has a greatest element.
LEMMA GreatestElement ==
    ASSUME NEW S \in SUBSET Nat, IsFiniteSet(S), S # {}
    PROVE  \E x \in S : \A y \in S : x >= y
<1> DEFINE Above(x) == {y \in S : y > x}
           C == {Cardinality(Above(x)) : x \in S}
<1>1. ASSUME NEW x \in S PROVE IsFiniteSet(Above(x)) /\ Cardinality(Above(x)) \in Nat
  <2>1. Above(x) \in SUBSET S OBVIOUS
  <2> HIDE DEF Above
  <2>2. QED BY <2>1, FS_Subset, FS_CardinalityType
<1>2. C \in SUBSET Nat /\ C # {}
  BY <1>1
<1>3. PICK c \in C : \A d \in C : c <= d
  <2> HIDE DEF C
  <2>1. QED BY <1>2, LeastElement
<1>4. PICK x \in S : c = Cardinality(Above(x))
  OBVIOUS
<1>5. ASSUME NEW y \in S PROVE x >= y
  <2>1. SUFFICES ASSUME y > x PROVE FALSE
    OBVIOUS
  <2>2. Above(y) \in SUBSET Above(x) /\ y \in Above(x) /\ y \notin Above(y)
    <3>1. x \in Nat /\ y \in Nat /\ \A z \in S : z \in Nat OBVIOUS
    <3>2. \A z \in S : z > y => z > x BY <2>1, <3>1
    <3>3. ~(y > y) BY <3>1
    <3>4. QED BY <2>1, <3>2, <3>3
  <2>3. Cardinality(Above(x)) <= Cardinality(Above(y))
    BY <1>3, <1>4
  <2>4. IsFiniteSet(Above(x)) /\ Cardinality(Above(x)) \in Nat /\ Cardinality(Above(y)) \in Nat
    BY <1>1
  <2> HIDE DEF Above
  <2>5. Cardinality(Above(y)) <= Cardinality(Above(x))
    BY <2>2, <2>4, FS_Subset
  <2>6. Above(x) = Above(y)
    BY <2>2, <2>3, <2>4, <2>5, FS_Subset
  <2>7. QED BY <2>2, <2>6
<1>6. QED BY <1>5

\* The first and the last of a set of rows, by time and rowid.
LEMMA FirstAndLast ==
    ASSUME TicksOK, NEW rows \in SUBSET DOMAIN ticks, rows # {}
    PROVE  /\ \E i \in rows : \A j \in rows : Before(i, j)
           /\ \E i \in rows : \A j \in rows : Before(j, i)
<1>1. \A i \in rows : i \in 1..Len(ticks) /\ ticks[i].t \in 0..MaxTime
  BY TickFields DEF Times
<1>2. MaxTime \in Nat /\ Len(ticks) \in Nat
  BY FeedAssumption DEF TicksOK
<1>3. \E i \in rows : \A j \in rows : Before(i, j)
  <2> DEFINE T == {ticks[i].t : i \in rows}
  <2>1. T \in SUBSET Nat /\ T # {} BY <1>1
  <2>2. PICK t \in T : \A u \in T : t <= u
    <3> HIDE DEF T
    <3>1. QED BY <2>1, LeastElement
  <2> DEFINE I == {i \in rows : ticks[i].t = t}
  <2>3. I \in SUBSET Nat /\ I # {} BY <1>1, <2>2
  <2>4. PICK i \in I : \A j \in I : i <= j
    <3> HIDE DEF I
    <3>1. QED BY <2>3, LeastElement
  <2>5. ASSUME NEW j \in rows PROVE Before(i, j)
    <3>1. ticks[j].t \in T /\ ticks[i].t = t BY <2>4
    <3>2. t <= ticks[j].t BY <2>2, <3>1
    <3>3. ticks[j].t = t => i <= j BY <2>4
    <3>4. t \in Nat /\ ticks[j].t \in Nat BY <1>1, <2>1, <2>2
    <3>5. QED BY <3>1, <3>2, <3>3, <3>4 DEF Before
  <2>6. QED BY <2>4, <2>5
<1>4. \E i \in rows : \A j \in rows : Before(j, i)
  <2> DEFINE T == {MaxTime - ticks[i].t : i \in rows}
  <2>1. T \in SUBSET Nat /\ T # {} BY <1>1, <1>2
  <2>2. PICK t \in T : \A u \in T : t <= u
    <3> HIDE DEF T
    <3>1. QED BY <2>1, LeastElement
  <2> DEFINE I == {Len(ticks) - i : i \in {k \in rows : MaxTime - ticks[k].t = t}}
  <2>3. I \in SUBSET Nat /\ I # {} BY <1>1, <1>2, <2>2
  <2>4. PICK n \in I : \A j \in I : n <= j
    <3> HIDE DEF I
    <3>1. QED BY <2>3, LeastElement
  <2>5. PICK i \in rows : MaxTime - ticks[i].t = t /\ n = Len(ticks) - i
    BY <2>4
  <2>6. ASSUME NEW j \in rows PROVE Before(j, i)
    <3>1. MaxTime - ticks[j].t \in T OBVIOUS
    <3>2. t <= MaxTime - ticks[j].t BY <2>2, <3>1
    <3>3. MaxTime - ticks[j].t = t => n <= Len(ticks) - j BY <2>4
    <3>4. ticks[i].t \in Nat /\ ticks[j].t \in Nat /\ i \in Nat /\ j \in Nat BY <1>1
    <3> DEFINE a == ticks[i].t
               b == ticks[j].t
    <3>5. a \in Nat /\ b \in Nat BY <3>4
    <3>6. MaxTime - a = t /\ t <= MaxTime - b BY <2>5, <3>2
    <3>7. b = a => Len(ticks) - i <= Len(ticks) - j BY <2>5, <3>3
    <3>8. Before(j, i) <=> b < a \/ (b = a /\ j <= i) BY DEF Before
    <3> HIDE DEF a, b
    <3>9. b <= a BY <1>2, <3>5, <3>6
    <3>10. b = a => j <= i BY <1>2, <3>4, <3>7
    <3>11. QED BY <3>5, <3>8, <3>9, <3>10
  <2>7. QED BY <2>5, <2>6
<1>5. QED BY <1>3, <1>4

\* _MinuteAggregate of some rows is a bar.
LEMMA AggregateIsBar ==
    ASSUME TicksOK, NEW rows \in SUBSET DOMAIN ticks, rows # {}
    PROVE  Aggregate(rows) \in Bar
<1> DEFINE first == CHOOSE i \in rows : \A j \in rows : Before(i, j)
           last == CHOOSE i \in rows : \A j \in rows : Before(j, i)
           prices == {ticks[i].p : i \in rows}
<1>1. first \in rows /\ last \in rows
  BY FirstAndLast
<1>2. \A i \in rows : ticks[i].p \in Prices
  BY TickFields
<1>3. prices \in SUBSET Prices /\ prices # {}
  BY <1>2
<1>4. Max(prices) \in Prices /\ Min(prices) \in Prices
  <2>1. prices \in SUBSET Nat /\ IsFiniteSet(prices)
    BY <1>3, FeedAssumption, FS_Subset
  <2> HIDE DEF prices
  <2>2. Max(prices) \in prices
    BY <1>3, <2>1, GreatestElement DEF Max
  <2>3. Min(prices) \in prices
    BY <1>3, <2>1, LeastElement DEF Min
  <2>4. QED BY <1>3, <2>2, <2>3
<1>5. Cardinality(rows) \in 1..MaxTicks
  <2>1. Len(ticks) \in Nat /\ DOMAIN ticks = 1..Len(ticks) /\ Len(ticks) <= MaxTicks
    BY DEF TicksOK
  <2>2. IsFiniteSet(1..Len(ticks)) /\ Cardinality(1..Len(ticks)) = Len(ticks)
    <3>1. 1 \in Int /\ Len(ticks) \in Int BY <2>1
    <3>2. /\ IsFiniteSet(1..Len(ticks))
          /\ Cardinality(1..Len(ticks)) = IF 1 > Len(ticks) THEN 0 ELSE Len(ticks) - 1 + 1
      BY <3>1, FS_Interval, Zenon
    <3>3. QED BY <2>1, <3>2
  <2>3. IsFiniteSet(rows) /\ Cardinality(rows) <= Len(ticks)
    BY <2>1, <2>2, FS_Subset
  <2>4. Cardinality(rows) \in Nat /\ Cardinality(rows) # 0
    BY <2>3, FS_CardinalityType, FS_EmptySet
  <2>5. MaxTicks \in Nat
    BY FeedAssumption
  <2>6. QED BY <2>1, <2>3, <2>4, <2>5
<1>6. Aggregate(rows) = [open |-> ticks[first].p, high |-> Max(prices), low |-> Min(prices),
                         close |-> ticks[last].p, volume |-> Cardinality(rows)]
  BY Zenon DEF Aggregate
<1>7. ticks[first].p \in Prices /\ ticks[last].p \in Prices
  BY <1>1, <1>2
<1> HIDE DEF first, last, prices
<1>8. QED BY <1>4, <1>5, <1>6, <1>7 DEF Bar

-----------------------------------------------------------------------------
(* The inductive invariant                                                 *)

Builder == [m: Minutes, open: Prices, high: Prices, low: Prices, close: Prices,
            volume: 1..MaxTicks]

WindowType == [at: {"idle", "connect", "consume", "end", "raise", "decide"},
               attempt: 0..MaxReconnects, last: Times \cup {None},
               builder: [Symbols -> Builder \cup {None}]]

\* The watermark of a window is not in the future, and a builder has counted no
\* more ticks than are saved.
WindowOK ==
    /\ win \in WindowType
    /\ win.last # None => win.last <= now
    /\ \A s \in Symbols : win.builder[s] # None => win.builder[s].volume <= Len(ticks)

StoreOK ==
    /\ now \in Times /\ mark \in Times
    /\ bars \in [Symbols -> [Minutes -> Bar \cup {None}]]

FeedInv == TicksOK /\ StoreOK /\ WindowOK /\ BarsAreOver /\ BarsAreWhole

\* What the saved ticks make does not change with anything else.
LEMMA WholeKept ==
    ASSUME ticks' = ticks, NEW s, NEW m
    PROVE  Whole(s, m)' = Whole(s, m)
BY DEF Whole, Aggregate, Distinct, Before, Minute

\* A step of the window that only moves it, or forgets it.
LEMMA MoveOK ==
    ASSUME FeedInv, UNCHANGED <<now, ticks, bars, mark>>, win' \in WindowType,
           win'.at # "decide",
           \/ win'.last = win.last /\ win'.builder = win.builder
           \/ win'.last = None /\ \A s \in Symbols : win'.builder[s] = None
    PROVE  FeedInv'
<1>1. TicksOK' /\ StoreOK' BY DEF FeedInv, TicksOK, StoreOK
<1>2. WindowOK' BY DEF FeedInv, WindowOK
<1>3. BarsAreOver' BY DEF FeedInv, BarsAreOver
<1>4. BarsAreWhole' BY DEF BarsAreWhole
<1>5. QED BY <1>1, <1>2, <1>3, <1>4 DEF FeedInv

\* The window that was not begun.
LEMMA NoWindowOK ==
    /\ NoWindow \in WindowType /\ NoWindow.last = None /\ NoWindow.at = "idle"
    /\ \A s \in Symbols : NoWindow.builder[s] = None
BY FeedAssumption DEF NoWindow, WindowType

\* Opening, losing and leaving a connection; the decision; a crash.
LEMMA WindowMoves ==
    ASSUME FeedInv, StartWindow \/ Connect \/ Disconnect \/ Deadline \/ Decide \/ Crash
    PROVE  FeedInv'
<1> win \in WindowType BY DEF FeedInv, WindowOK
<1>1. UNCHANGED <<now, ticks, bars, mark>>
  BY DEF StartWindow, Connect, Disconnect, Deadline, Decide, Crash
<1>2. CASE StartWindow
  <2>1. win' = [NoWindow EXCEPT !.at = "connect"] BY <1>2 DEF StartWindow
  <2>2. win' \in WindowType /\ win'.at = "connect" /\ win'.last = NoWindow.last
        /\ win'.builder = NoWindow.builder
    BY <2>1, NoWindowOK DEF WindowType
  <2>3. QED BY <1>1, <2>2, NoWindowOK, MoveOK
<1>3. CASE Connect \/ Deadline
  <2>1. PICK at \in {"consume", "end"} : win' = [win EXCEPT !.at = at]
    BY <1>3 DEF Connect, Deadline
  <2>2. win' \in WindowType /\ win'.at = at /\ win'.last = win.last /\ win'.builder = win.builder
    BY <2>1 DEF WindowType
  <2>3. QED BY <1>1, <2>2, MoveOK
<1>4. CASE Disconnect
  <2>1. win' \in WindowType /\ win'.at # "decide" /\ win'.last = win.last
        /\ win'.builder = win.builder
    <3>1. CASE win.attempt >= MaxReconnects
      BY <1>4, <3>1 DEF Disconnect, WindowType
    <3>2. CASE ~(win.attempt >= MaxReconnects)
      <4> DEFINE k == win.attempt + 1
      <4>1. k \in 0..MaxReconnects BY <3>2, FeedAssumption DEF WindowType
      <4>2. win' = [win EXCEPT !.at = "connect", !.attempt = k]
        BY <1>4, <3>2 DEF Disconnect, WindowType
      <4> HIDE DEF k
      <4>3. QED BY <4>1, <4>2 DEF WindowType
    <3>3. QED BY <3>1, <3>2
  <2>2. QED BY <1>1, <2>1, MoveOK
<1>5. CASE Decide \/ Crash
  <2>1. win' = NoWindow BY <1>5 DEF Decide, Crash
  <2>2. win' \in WindowType /\ win'.last = None /\ win'.at # "decide"
        /\ \A s \in Symbols : win'.builder[s] = None
    BY <2>1, NoWindowOK
  <2>3. QED BY <1>1, <2>2, MoveOK
<1>6. QED BY <1>2, <1>3, <1>4, <1>5

\* Time goes on.
LEMMA TickOK ==
    ASSUME FeedInv, Tick
    PROVE  FeedInv'
<1>1. now \in Nat /\ now' = now + 1 /\ now' \in Times
      /\ UNCHANGED <<ticks, bars, win, mark>>
  BY FeedAssumption DEF FeedInv, StoreOK, Tick, Times
<1>2. TicksOK' BY <1>1 DEF FeedInv, TicksOK
<1>3. StoreOK' BY <1>1 DEF FeedInv, StoreOK
<1>4. WindowOK'
  <2>1. win.last # None => win.last <= now' 
    <3>1. win.last # None => win.last \in Nat /\ win.last <= now
      BY FeedAssumption DEF FeedInv, WindowOK, WindowType, Times
    <3>2. QED BY <1>1, <3>1
  <2>2. QED BY <1>1, <2>1 DEF FeedInv, WindowOK
<1>5. BarsAreOver'
  <2>1. ASSUME NEW s \in Symbols, NEW m \in Minutes, bars[s][m] # None
        PROVE  (m + 1) * PerMinute <= now'
    <3> DEFINE e == (m + 1) * PerMinute
    <3>1. e \in Nat BY FeedAssumption DEF Minutes
    <3>2. e <= now BY <2>1 DEF FeedInv, BarsAreOver
    <3> HIDE DEF e
    <3>3. e <= now' BY <1>1, <3>1, <3>2
    <3>4. QED BY <3>3 DEF e
  <2>2. QED BY <1>1, <2>1 DEF BarsAreOver
<1>6. BarsAreWhole'
  <2>1. \A s, m : Whole(s, m)' = Whole(s, m) BY <1>1, WholeKept
  <2>2. QED BY <1>1, <2>1 DEF FeedInv, BarsAreWhole, Rebuilt
<1>7. QED BY <1>2, <1>3, <1>4, <1>5, <1>6 DEF FeedInv

\* The end of a window rebuilds the bars of the minutes it has completed.
LEMMA EndWindowOK ==
    ASSUME FeedInv, EndWindow
    PROVE  FeedInv'
<1> DEFINE asOf == IF win.last = None THEN now ELSE win.last
<1>1. asOf \in Times /\ asOf \in Nat /\ asOf <= now /\ now \in Nat
  <2>1. now \in Nat /\ now \in Times BY FeedAssumption DEF FeedInv, StoreOK, Times
  <2>2. win.last # None => win.last \in Times /\ win.last <= now
    BY DEF FeedInv, WindowOK, WindowType
  <2>3. QED BY <2>1, <2>2, FeedAssumption DEF Times
<1>2. bars' = Materialized(asOf) /\ mark' = asOf /\ UNCHANGED <<now, ticks>>
  BY DEF EndWindow
<1> HIDE DEF asOf
<1>3. TicksOK /\ TicksOK'
  BY <1>2 DEF FeedInv, TicksOK
<1>4. ASSUME NEW s \in Symbols, NEW m \in Minutes
      PROVE  /\ RowsOf(s, m, asOf) = {} => bars'[s][m] = bars[s][m]
             /\ RowsOf(s, m, asOf) # {} => bars'[s][m] = Aggregate(RowsOf(s, m, asOf))
  BY <1>2, MaterializedBar
<1>5. bars' \in [Symbols -> [Minutes -> Bar \cup {None}]]
  <2>1. ASSUME NEW s \in Symbols, NEW m \in Minutes PROVE bars'[s][m] \in Bar \cup {None}
    <3>1. CASE RowsOf(s, m, asOf) = {}
      BY <1>4, <3>1 DEF FeedInv, StoreOK
    <3>2. CASE RowsOf(s, m, asOf) # {}
      <4>1. RowsOf(s, m, asOf) \in SUBSET DOMAIN ticks BY DEF RowsOf, Distinct
      <4>2. QED BY <1>3, <1>4, <3>2, <4>1, AggregateIsBar
    <3>3. QED BY <3>1, <3>2
  <2>2. bars' = [s \in Symbols |-> [m \in Minutes |-> bars'[s][m]]]
    BY <1>2 DEF Materialized
  <2>3. QED BY <2>1, <2>2
<1>6. StoreOK'
  BY <1>1, <1>2, <1>5 DEF FeedInv, StoreOK
<1>7. WindowOK'
  <2>1. PICK at \in {"decide", "idle"} : win' = [NoWindow EXCEPT !.at = at]
    BY DEF EndWindow
  <2>2. win' \in WindowType /\ win'.last = NoWindow.last /\ win'.builder = NoWindow.builder
    BY <2>1, NoWindowOK DEF WindowType
  <2>3. QED BY <2>2, NoWindowOK DEF WindowOK
<1>8. BarsAreOver'
  <2>1. ASSUME NEW s \in Symbols, NEW m \in Minutes, bars'[s][m] # None
        PROVE  (m + 1) * PerMinute <= now
    <3>1. CASE RowsOf(s, m, asOf) = {}
      BY <1>4, <2>1, <3>1 DEF FeedInv, BarsAreOver
    <3>2. CASE RowsOf(s, m, asOf) # {}
      <4> DEFINE e == (m + 1) * PerMinute
      <4>1. e \in Nat BY FeedAssumption DEF Minutes
      <4>2. e <= asOf BY <3>2 DEF RowsOf, Complete
      <4> HIDE DEF e
      <4>3. e <= now BY <1>1, <4>1, <4>2
      <4>4. QED BY <4>3 DEF e
    <3>3. QED BY <3>1, <3>2
  <2>2. QED BY <1>2, <2>1 DEF BarsAreOver
<1>9. BarsAreWhole'
  <2>1. ASSUME NEW s \in Symbols, NEW m \in Minutes, Rebuilt(m)',
               NEW i \in DOMAIN ticks, ticks[i].s = s, Minute(ticks[i].t) = m
        PROVE  bars'[s][m] = Whole(s, m)
    <3>1. m * PerMinute >= asOf - Lookback /\ (m + 1) * PerMinute <= asOf
      BY <1>2, <2>1 DEF Rebuilt
    <3>2. RowsOf(s, m, asOf) = MinuteRows(s, m)
      BY <1>1, <1>3, <3>1, NoRowIsLeftOut
    <3>3. MinuteRows(s, m) # {}
      BY <1>3, <2>1, KeptRow DEF MinuteRows
    <3>4. bars'[s][m] = Aggregate(MinuteRows(s, m))
      BY <1>4, <3>2, <3>3
    <3>5. QED BY <3>4 DEF Whole, MinuteRows
  <2>2. \A s, m : Whole(s, m)' = Whole(s, m) BY <1>2, WholeKept
  <2>3. QED BY <1>2, <2>1, <2>2 DEF BarsAreWhole, Minute
<1>10. QED BY <1>3, <1>6, <1>7, <1>8, <1>9 DEF FeedInv

\* The first tick of a minute makes a builder of one tick, a further one extends
\* it by one.
LEMMA BuilderOK ==
    ASSUME NEW m \in Minutes, NEW p \in Prices, NEW k \in Nat, k < MaxTicks
    PROVE  /\ NewBar(m, p) \in Builder /\ NewBar(m, p).volume <= k + 1
           /\ \A b \in Builder : b.volume <= k =>
                 Extended(b, p) \in Builder /\ Extended(b, p).volume <= k + 1
<1>0. MaxTicks \in Nat
  BY FeedAssumption
<1>1. NewBar(m, p) \in Builder /\ NewBar(m, p).volume <= k + 1
  BY <1>0 DEF NewBar, Builder
<1>2. ASSUME NEW b \in Builder, b.volume <= k
      PROVE  Extended(b, p) \in Builder /\ Extended(b, p).volume <= k + 1
  <2> DEFINE h == IF p > b.high THEN p ELSE b.high
             l == IF p < b.low THEN p ELSE b.low
             v == b.volume + 1
  <2>1. h \in Prices /\ l \in Prices /\ v \in 1..MaxTicks /\ v <= k + 1
    BY <1>0, <1>2 DEF Builder
  <2> DEFINE b1 == [b EXCEPT !.high = h]
             b2 == [b1 EXCEPT !.low = l]
             b3 == [b2 EXCEPT !.close = p]
             b4 == [b3 EXCEPT !.volume = v]
  <2>2. b1 \in Builder /\ b1.low = b.low /\ b1.volume = b.volume
    <3> HIDE DEF h
    <3>1. QED BY <2>1 DEF Builder
  <2>3. b2 \in Builder /\ b2.volume = b.volume
    <3> HIDE DEF l, b1
    <3>1. QED BY <2>1, <2>2 DEF Builder
  <2>4. b3 \in Builder /\ b3.volume = b.volume
    <3> HIDE DEF b2
    <3>1. QED BY <2>3 DEF Builder
  <2>5. b4 \in Builder /\ b4.volume = v
    <3> HIDE DEF b3, v
    <3>1. QED BY <2>1, <2>4 DEF Builder
  <2>6. Extended(b, p) = b4
    BY DEF Extended, Builder
  <2> HIDE DEF b4
  <2>7. QED BY <2>1, <2>5, <2>6
<1>3. QED BY <1>1, <1>2

\* A tick that is saved and given to the builder of its symbol.
LEMMA ReceiveOK ==
    ASSUME FeedInv, NEW s \in Symbols, NEW p \in Prices, NEW t \in Times, Receive(s, p, t)
    PROVE  FeedInv'
<1> DEFINE b == win.builder[s]
           m == Minute(t)
           With(c) == [win EXCEPT !.last = t, !.builder[s] = c]
<1>1. /\ t \in Nat /\ now \in Nat /\ t <= now /\ UNCHANGED <<now, mark>>
      /\ ticks' = Append(ticks, [s |-> s, t |-> t, p |-> p])
      /\ Len(ticks) \in Nat /\ Len(ticks) < MaxTicks
      /\ win.at = "consume"
  BY FeedAssumption DEF Receive, FeedInv, StoreOK, TicksOK, Times
<1>2. TicksOK' /\ Len(ticks') = Len(ticks) + 1
  <2>1. [s |-> s, t |-> t, p |-> p] \in TickType BY DEF TickType
  <2>2. QED BY <1>1, <2>1, FeedAssumption DEF FeedInv, TicksOK
<1>3. m \in Minutes /\ m \in Nat /\ m * PerMinute <= t
  BY <1>1, MinuteIn, MinuteSpans
<1>4. win \in WindowType /\ b \in Builder \cup {None}
  BY DEF FeedInv, WindowOK, WindowType
<1>5. ASSUME NEW c \in Builder \cup {None}
      PROVE  /\ With(c) \in WindowType /\ With(c).at = "consume" /\ With(c).last = t
             /\ With(c).builder = [win.builder EXCEPT ![s] = c]
             /\ [With(c) EXCEPT !.at = "raise"] \in WindowType
             /\ [With(c) EXCEPT !.at = "raise"].at = "raise"
             /\ [With(c) EXCEPT !.at = "raise"].last = t
             /\ [With(c) EXCEPT !.at = "raise"].builder = [win.builder EXCEPT ![s] = c]
  BY <1>1, <1>4 DEF WindowType
<1>6. \E c \in Builder \cup {None} :
         /\ win' = With(c) \/ win' = [With(c) EXCEPT !.at = "raise"]
         /\ c # None => c.volume <= Len(ticks) + 1
         /\ \/ bars' = bars
            \/ b \in Builder /\ b.m < m /\ bars' = [bars EXCEPT ![s][b.m] = Saved(b)]
  <2>1. b # None => b \in Builder /\ b.volume <= Len(ticks)
    BY <1>4 DEF FeedInv, WindowOK
  <2>2. NewBar(m, p) \in Builder /\ NewBar(m, p).volume <= Len(ticks) + 1
    BY <1>1, <1>3, BuilderOK
  <2>3. b # None => Extended(b, p) \in Builder /\ Extended(b, p).volume <= Len(ticks) + 1
    BY <1>1, <1>3, <2>1, BuilderOK
  <2>4. b # None => b.volume <= Len(ticks) + 1
    BY <1>1, <2>1, FeedAssumption DEF Builder
  <2>5. \/ win' = With(NewBar(m, p)) /\ UNCHANGED bars
        \/ b # None /\ win' = With(Extended(b, p)) /\ UNCHANGED bars
        \/ b # None /\ b.m < m /\ win' = With(NewBar(m, p))
           /\ bars' = [bars EXCEPT ![s][b.m] = Saved(b)]
        \/ b # None /\ win' = [With(b) EXCEPT !.at = "raise"] /\ UNCHANGED bars
    BY Zenon DEF Receive
  <2> HIDE DEF With, b, m
  <2>6. QED BY <2>1, <2>2, <2>3, <2>4, <2>5
<1>7. PICK c \in Builder \cup {None} :
         /\ win' = With(c) \/ win' = [With(c) EXCEPT !.at = "raise"]
         /\ c # None => c.volume <= Len(ticks) + 1
         /\ \/ bars' = bars
            \/ b \in Builder /\ b.m < m /\ bars' = [bars EXCEPT ![s][b.m] = Saved(b)]
  BY <1>6
<1>8. /\ win' \in WindowType /\ win'.at # "decide" /\ win'.last = t
      /\ win'.builder = [win.builder EXCEPT ![s] = c]
  <2>1. CASE win' = With(c) BY <1>5, <2>1
  <2>2. CASE win' = [With(c) EXCEPT !.at = "raise"] BY <1>5, <2>2
  <2>3. QED BY <1>7, <2>1, <2>2
<1> HIDE DEF With
<1>9. WindowOK'
  <2>1. ASSUME NEW r \in Symbols, win'.builder[r] # None
        PROVE  win'.builder[r].volume <= Len(ticks')
    <3>1. CASE r = s
      <4>1. win'.builder[r] = c BY <1>4, <1>8, <3>1 DEF WindowType
      <4>2. QED BY <1>2, <1>7, <2>1, <4>1
    <3>2. CASE r # s
      <4>1. win'.builder[r] = win.builder[r] BY <1>4, <1>8, <3>2 DEF WindowType
      <4>2. win.builder[r] \in Builder /\ win.builder[r].volume <= Len(ticks)
        BY <1>4, <2>1, <4>1 DEF FeedInv, WindowOK, WindowType
      <4>3. win.builder[r].volume \in Nat BY <4>2, FeedAssumption DEF Builder
      <4>4. QED BY <1>1, <1>2, <4>1, <4>2, <4>3
    <3>3. QED BY <3>1, <3>2
  <2>2. QED BY <1>1, <1>8, <2>1 DEF WindowOK
<1>10. StoreOK' /\ BarsAreOver'
  <2>1. CASE bars' = bars
    BY <1>1, <2>1 DEF FeedInv, StoreOK, BarsAreOver
  <2>2. CASE b \in Builder /\ b.m < m /\ bars' = [bars EXCEPT ![s][b.m] = Saved(b)]
    <3>1. Saved(b) \in Bar /\ b.m \in Minutes
      BY <2>2 DEF Saved, Builder, Bar
    <3> DEFINE n == b.m
               v == Saved(b)
    <3>2. bars' = [bars EXCEPT ![s][n] = v] /\ n \in Minutes /\ v \in Bar /\ n < m
      BY <2>2, <3>1
    <3>3. (n + 1) * PerMinute <= now
      <4>1. n \in Nat /\ n + 1 \in Nat /\ n + 1 <= m
        BY <1>3, <3>2, FeedAssumption DEF Minutes
      <4> DEFINE e == (n + 1) * PerMinute
                 f == m * PerMinute
      <4>2. e <= f /\ e \in Nat /\ f \in Nat
        BY <1>3, <4>1, LaterMinute
      <4>3. f <= t
        BY <1>3
      <4> HIDE DEF e, f
      <4>4. e <= now BY <1>1, <4>2, <4>3
      <4>5. QED BY <4>4 DEF e
    <3> HIDE DEF n, v, m
    <3>4. bars \in [Symbols -> [Minutes -> Bar \cup {None}]]
      BY DEF FeedInv, StoreOK
    <3>5. bars' \in [Symbols -> [Minutes -> Bar \cup {None}]]
      BY <3>2, <3>4
    <3>6. ASSUME NEW r \in Symbols, NEW k \in Minutes
          PROVE  (r = s /\ k = n) \/ bars'[r][k] = bars[r][k]
      BY <3>2, <3>4
    <3>7. StoreOK' BY <1>1, <3>5 DEF FeedInv, StoreOK
    <3>8. BarsAreOver' BY <1>1, <3>3, <3>6 DEF FeedInv, BarsAreOver
    <3>9. QED BY <3>7, <3>8
  <2>3. QED BY <1>7, <2>1, <2>2
<1>11. BarsAreWhole'
  BY <1>8 DEF BarsAreWhole
<1>12. QED BY <1>2, <1>9, <1>10, <1>11 DEF FeedInv

-----------------------------------------------------------------------------

\* The invariant of ticks, bars and windows.
THEOREM FeedInvariance == FeedSpec => []FeedInv
<1>1. FeedInit => FeedInv
  <2> SUFFICES ASSUME FeedInit PROVE FeedInv
    OBVIOUS
  <2>1. 0 \in Times BY FeedAssumption DEF Times
  <2>2. TicksOK BY FeedAssumption DEF FeedInit, TicksOK
  <2>3. StoreOK BY <2>1 DEF FeedInit, StoreOK
  <2>4. WindowOK BY NoWindowOK DEF FeedInit, WindowOK
  <2>5. BarsAreOver BY DEF FeedInit, BarsAreOver
  <2>6. BarsAreWhole BY NoWindowOK DEF FeedInit, BarsAreWhole
  <2>7. QED BY <2>2, <2>3, <2>4, <2>5, <2>6 DEF FeedInv
<1>2. FeedInv /\ [FeedNext]_feedVars => FeedInv'
  <2>1. ASSUME FeedInv, FeedNext PROVE FeedInv'
    BY <2>1, WindowMoves, TickOK, EndWindowOK, ReceiveOK DEF FeedNext, WindowStep
  <2>2. ASSUME FeedInv, UNCHANGED feedVars PROVE FeedInv'
    <3>1. UNCHANGED <<now, ticks, bars, win, mark>> BY <2>2 DEF feedVars
    <3>2. \A s, m : Whole(s, m)' = Whole(s, m) BY <3>1, WholeKept
    <3>3. BarsAreWhole' BY <2>2, <3>1, <3>2 DEF FeedInv, BarsAreWhole, Rebuilt
    <3>4. QED BY <2>2, <3>1, <3>3 DEF FeedInv, TicksOK, StoreOK, WindowOK, BarsAreOver
  <2>3. QED BY <2>1, <2>2
<1>3. QED BY <1>1, <1>2, PTL DEF FeedSpec

\* Type correctness of ticks, bars and windows; a window reconnects at most
\* MaxReconnects times, and a bar's prices are prices of ticks.
THEOREM FeedTypeCorrect == FeedSpec => []FeedTypeOK
<1>1. FeedInv => FeedTypeOK
  BY DEF FeedInv, FeedTypeOK, TicksOK, TickType, StoreOK, WindowOK, WindowType
<1>2. QED BY <1>1, FeedInvariance, PTL

\* No bar exists of a minute that is still running, whether the builder saved it
\* or the end of a window rebuilt it.
THEOREM RunningMinutesHaveNoBar == FeedSpec => []BarsAreOver
<1>1. FeedInv => BarsAreOver
  BY DEF FeedInv
<1>2. QED BY <1>1, FeedInvariance, PTL

\* When the trading cycle reads the bars, the bar of every minute that the last
\* window could complete is made of all the saved ticks of the minute, whatever
\* was lost with a builder.
THEOREM DecisionsSeeWholeBars == FeedSpec => []BarsAreWhole
<1>1. FeedInv => BarsAreWhole
  BY DEF FeedInv
<1>2. QED BY <1>1, FeedInvariance, PTL
=============================================================================
