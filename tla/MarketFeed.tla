----------------------------- MODULE MarketFeed -----------------------------
(***************************************************************************)
(* Ticks and minute bars: the bounded collection windows of                *)
(* StreamingCollector (market/streaming_collector.py), MinuteBarBuilder,   *)
(* and materialize_completed_bars, which rebuilds bars from saved ticks at *)
(* the end of every window.  The service decides on entries in the same    *)
(* thread, after a window that ended without an exception.                 *)
(*                                                                         *)
(* PerMinute units of time make a minute.  Every tick has volume one.      *)
(***************************************************************************)
EXTENDS Integers, Sequences, FiniteSets, FiniteSetsExt

CONSTANTS
    Symbols, Prices,
    None,           \* no tick yet, no bar
    PerMinute,
    Lookback,       \* lookback_minutes, in units of time
    MaxReconnects,  \* max_reconnects of run
    MaxLag,         \* bound on how late a tick is delivered
    MaxTime, MaxTicks, MaxCrashes

ASSUME FeedAssumption ==
    /\ IsFiniteSet(Symbols) /\ IsFiniteSet(Prices) /\ Prices \subseteq Nat
    /\ PerMinute \in Nat \ {0}
    /\ {Lookback, MaxReconnects, MaxLag, MaxTime, MaxTicks, MaxCrashes} \subseteq Nat

Times == 0..MaxTime
Minutes == 0..(MaxTime \div PerMinute)
Minute(t) == t \div PerMinute

VARIABLES
    now,    \* the clock
    ticks,  \* market_ticks, in the order of rowid
    bars,   \* bars_1m
    win,    \* the window: where it is, reconnects, builders, _last_tick_at
    mark,   \* history: up to where the last window has rebuilt the bars
    crashes

feedVars == <<now, ticks, bars, win, mark, crashes>>

NoWindow == [at |-> "idle", attempt |-> 0, last |-> None,
             builder |-> [s \in Symbols |-> None]]

FeedInit ==
    /\ now = 0
    /\ ticks = <<>>
    /\ bars = [s \in Symbols |-> [m \in Minutes |-> None]]
    /\ win = NoWindow
    /\ mark = 0
    /\ crashes = 0

-----------------------------------------------------------------------------
(* Bars                                                                    *)

\* GROUP BY symbol, timestamp, price, volume: the first row of each.
Distinct(s) ==
    {i \in DOMAIN ticks :
        /\ ticks[i].s = s
        /\ \A j \in 1..(i - 1) : ticks[j] # ticks[i]}

Before(i, j) == ticks[i].t < ticks[j].t \/ (ticks[i].t = ticks[j].t /\ i <= j)

\* _MinuteAggregate of a set of rows.
Aggregate(rows) ==
    LET first == CHOOSE i \in rows : \A j \in rows : Before(i, j)
        last == CHOOSE i \in rows : \A j \in rows : Before(j, i)
        prices == {ticks[i].p : i \in rows}
    IN  [open |-> ticks[first].p, high |-> Max(prices), low |-> Min(prices),
         close |-> ticks[last].p, volume |-> Cardinality(rows)]

\* The bar that the saved ticks of a minute make.
Whole(s, m) == Aggregate({i \in Distinct(s) : Minute(ticks[i].t) = m})

\* Mutant of Complete: the running minute counts.
CompleteOnceBegun(m, asOf) == m * PerMinute <= asOf

\* A minute is complete when the watermark has left it.
Complete(m, asOf) == (m + 1) * PerMinute <= asOf

\* materialize_completed_bars: ticks of the look-back range, by symbol and minute.
Materialized(asOf) ==
    LET Rows(s, m) == {i \in Distinct(s) : /\ ticks[i].t >= asOf - Lookback
                                           /\ ticks[i].t <= asOf
                                           /\ Minute(ticks[i].t) = m
                                           /\ Complete(m, asOf)}
    IN  [s \in Symbols |-> [m \in Minutes |->
            IF Rows(s, m) = {} THEN bars[s][m] ELSE Aggregate(Rows(s, m))]]

NewBar(m, p) == [m |-> m, open |-> p, high |-> p, low |-> p, close |-> p, volume |-> 1]

\* MinuteBarBuilder.update within its minute.
Extended(b, p) ==
    [b EXCEPT !.high = IF p > @ THEN p ELSE @, !.low = IF p < @ THEN p ELSE @,
              !.close = p, !.volume = @ + 1]

Saved(b) == [open |-> b.open, high |-> b.high, low |-> b.low, close |-> b.close,
             volume |-> b.volume]

-----------------------------------------------------------------------------
(* A window                                                                *)

StartWindow ==
    /\ win.at = "idle"
    /\ win' = [NoWindow EXCEPT !.at = "connect"]
    /\ UNCHANGED <<now, ticks, bars, mark, crashes>>

\* The socket is open and every symbol subscribed.
Connect ==
    /\ win.at = "connect"
    /\ win' = [win EXCEPT !.at = "consume"]
    /\ UNCHANGED <<now, ticks, bars, mark, crashes>>

\* A transient error: another connection, after a pause, max_reconnects times.
\* The builders are kept.
Disconnect ==
    /\ win.at \in {"connect", "consume"}
    /\ win' = IF win.attempt >= MaxReconnects THEN [win EXCEPT !.at = "end"]
              ELSE [win EXCEPT !.at = "connect", !.attempt = @ + 1]
    /\ UNCHANGED <<now, ticks, bars, mark, crashes>>

\* The deadline, while connecting, consuming or pausing.
Deadline ==
    /\ win.at \in {"connect", "consume"}
    /\ win' = [win EXCEPT !.at = "end"]
    /\ UNCHANGED <<now, ticks, bars, mark, crashes>>

\* A tick is saved, then given to the builder of its symbol: a first one, one of
\* the builder's minute, of a later one (the bar is saved), of an earlier one
\* (ValueError, which ends the window).
Receive(s, p, t) ==
    /\ win.at = "consume"
    /\ Len(ticks) < MaxTicks
    /\ t <= now /\ now <= t + MaxLag
    /\ ticks' = Append(ticks, [s |-> s, t |-> t, p |-> p])
    /\ LET b == win.builder[s]
           m == Minute(t)
           With(c) == [win EXCEPT !.last = t, !.builder[s] = c]
       IN  \/ b = None /\ win' = With(NewBar(m, p)) /\ UNCHANGED bars
           \/ b # None /\ b.m = m /\ win' = With(Extended(b, p)) /\ UNCHANGED bars
           \/ b # None /\ b.m < m
              /\ win' = With(NewBar(m, p))
              /\ bars' = [bars EXCEPT ![s][b.m] = Saved(b)]
           \/ b # None /\ b.m > m
              /\ win' = [With(b) EXCEPT !.at = "raise"]
              /\ UNCHANGED bars
    /\ UNCHANGED <<now, mark, crashes>>

\* Mutant of EndWindow: the minutes left in the builders are not rebuilt.
EndWindowAsBuilt ==
    /\ win.at \in {"end", "raise"}
    /\ UNCHANGED bars
    /\ mark' = IF win.last = None THEN now ELSE win.last
    /\ win' = [NoWindow EXCEPT !.at = IF win.at = "end" THEN "decide" ELSE "idle"]
    /\ UNCHANGED <<now, ticks, crashes>>

\* Mutant of EndWindow: a window without a tick rebuilds nothing.
EndWindowIfTicks ==
    /\ win.at \in {"end", "raise"}
    /\ LET asOf == IF win.last = None THEN 0 ELSE win.last
       IN  bars' = Materialized(asOf) /\ mark' = asOf
    /\ win' = [NoWindow EXCEPT !.at = IF win.at = "end" THEN "decide" ELSE "idle"]
    /\ UNCHANGED <<now, ticks, crashes>>

\* finally: completed minutes up to the last tick, or up to now if there was none.
EndWindow ==
    /\ win.at \in {"end", "raise"}
    /\ LET asOf == IF win.last = None THEN now ELSE win.last
       IN  bars' = Materialized(asOf) /\ mark' = asOf
    /\ win' = [NoWindow EXCEPT !.at = IF win.at = "end" THEN "decide" ELSE "idle"]
    /\ UNCHANGED <<now, ticks, crashes>>

\* The trading cycle reads the bars (see EntryDecision).
Decide ==
    /\ win.at = "decide"
    /\ win' = NoWindow
    /\ UNCHANGED <<now, ticks, bars, mark, crashes>>

-----------------------------------------------------------------------------

Crash ==
    /\ crashes < MaxCrashes /\ win.at # "idle"
    /\ crashes' = crashes + 1
    /\ win' = NoWindow
    /\ UNCHANGED <<now, ticks, bars, mark>>

Tick ==
    /\ now < MaxTime
    /\ now' = now + 1
    /\ UNCHANGED <<ticks, bars, win, mark, crashes>>

WindowStep == StartWindow \/ Connect \/ Disconnect \/ Deadline \/ EndWindow \/ Decide

FeedNext ==
    \/ WindowStep \/ Crash \/ Tick
    \/ \E s \in Symbols, p \in Prices, t \in Times : Receive(s, p, t)

\* The service begins window after window; time goes on, so each meets its deadline.
FeedSpec ==
    /\ FeedInit /\ [][FeedNext]_feedVars
    /\ WF_feedVars(StartWindow) /\ WF_feedVars(EndWindow) /\ WF_feedVars(Decide)
    /\ WF_feedVars(Deadline) /\ WF_feedVars(Tick)

-----------------------------------------------------------------------------
(* Properties                                                              *)

Bar == [open: Prices, high: Prices, low: Prices, close: Prices, volume: 1..MaxTicks]

\* Types; a window reconnects at most MaxReconnects times.
FeedTypeOK ==
    /\ now \in Times /\ mark \in Times
    /\ ticks \in Seq([s: Symbols, t: Times, p: Prices])
    /\ bars \in [Symbols -> [Minutes -> Bar \cup {None}]]
    /\ win.at \in {"idle", "connect", "consume", "end", "raise", "decide"}
    /\ win.attempt \in 0..MaxReconnects
    /\ win.last \in Times \cup {None}

\* A minute within the look-back of the last window and completed before its end.
Rebuilt(m) == m * PerMinute >= mark - Lookback /\ (m + 1) * PerMinute <= mark

\* When the trading cycle reads the bars, those of every minute the last window
\* could complete are made of all the saved ticks of the minute, whatever was
\* lost with the builder of an earlier window, a reconnect or a crash.
BarsAreWhole ==
    win.at = "decide" =>
        \A s \in Symbols, m \in Minutes :
            Rebuilt(m) /\ (\E i \in DOMAIN ticks : ticks[i].s = s /\ Minute(ticks[i].t) = m)
                => bars[s][m] = Whole(s, m)

\* There is no bar of a minute that is still running.
BarsAreOver ==
    \A s \in Symbols, m \in Minutes : bars[s][m] # None => (m + 1) * PerMinute <= now

\* A bar that the builder saved without the ticks of an earlier window, or that a
\* late tick kept from being rebuilt, is put right by a later window.
BarsHeal ==
    <>[](\A s \in Symbols, m \in Minutes :
            bars[s][m] # None /\ m * PerMinute >= now - Lookback => bars[s][m] = Whole(s, m))

\* "Upsert every completed OHLCV minute represented by market_ticks": once
\* rebuilt, a bar has all the saved ticks of its minute.
EveryBarIsWhole ==
    win.at = "decide" =>
        \A s \in Symbols, m \in Minutes :
            bars[s][m] # None /\ Complete(m, mark) => bars[s][m] = Whole(s, m)

=============================================================================
