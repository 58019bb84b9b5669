---------------------------- MODULE KisTransport ----------------------------
(***************************************************************************)
(* REST calls to KIS by the threads of one process: the process-wide       *)
(* limiter and the retrying session (broker/kis_rate_limit.py), and the    *)
(* clients on top of it: paged listings of orders, holdings and realised   *)
(* P/L, single-page reads, and the two writes, an order (hash key, then    *)
(* the order) and a cancellation.                                          *)
(*                                                                         *)
(* Time is counted in units of the demo interval (0.5 s).  The limiter's   *)
(* two stamps are kept as differences from the clock: age is the time      *)
(* since the last start, cool the time left until not_before.              *)
(*                                                                         *)
(* A listing has size pages, numbered from 1; the cursor a page comes with *)
(* is its number and 0 is a blank cursor.  KIS (external) serves the page  *)
(* after the cursor it is given.  It may fail a request, lose its answer,  *)
(* send a page that cannot be read as rows, and answer that there is more  *)
(* but repeat a cursor, this or an earlier one, or leave it blank.         *)
(***************************************************************************)
EXTENDS Naturals, Sequences, FiniteSets, Functions

CONSTANTS
    Threads,
    NoThread,
    Interval,     \* KIS_REST_INTERVAL_SECONDS
    Cooldown,     \* KIS_RATE_LIMIT_COOLDOWN_SECONDS
    MaxRetries,   \* KIS_READ_MAX_RETRIES
    MaxPages,     \* max_pages of the listings
    MaxSize       \* pages a listing can have

ASSUME TransportAssumption ==
    /\ NoThread \notin Threads
    /\ Interval \in Nat \ {0} /\ Cooldown \in Nat
    /\ MaxRetries \in Nat
    /\ MaxPages \in Nat \ {0} /\ MaxSize \in Nat \ {0}

VARIABLES
    lock,   \* holder of KisRateLimiter._lock
    age,    \* now - last_call_at, up to Interval (longer ago is the same)
    cool,   \* not_before - now, 0 when it has passed
    nap,    \* what is left of the sleep of the lock's holder
    pc,     \* where each thread is
    call    \* the call it makes

vars == <<lock, age, cool, nap, pc, call>>

Listings == {"orders", "account", "pnl"}
Writes == {"submit", "cancel"}
Kinds == Listings \cup {"balance", "power"} \cup Writes

\* The pages a listing may have brought so far.
PageLists == UNION {[1..n -> 1..MaxSize] : n \in 0..MaxPages}

\* What a thread knows of its call.  reached (history) counts how often the
\* write took effect at KIS, up to 2; blank (history) that KIS left a cursor
\* out; dropped (history) that rows of a page in got were left out.
Call == [kind: Kinds, stage: {"hash", "main"}, size: 1..MaxSize,
         tries: 0..MaxRetries, cursor: 0..MaxSize, seen: SUBSET (1..MaxSize),
         got: PageLists,
         out: {"none", "rows", "done", "raised"},
         reached: 0..2, blank: BOOLEAN, dropped: BOOLEAN]

Fresh(kind, size) ==
    [kind |-> kind, stage |-> IF kind = "submit" THEN "hash" ELSE "main",
     size |-> size, tries |-> 0, cursor |-> 0, seen |-> {}, got |-> <<>>,
     out |-> "none", reached |-> 0, blank |-> FALSE, dropped |-> FALSE]

TransportInit ==
    /\ lock = NoThread
    /\ age = Interval
    /\ cool = 0
    /\ nap = 0
    /\ pc = [t \in Threads |-> "idle"]
    /\ call = [t \in Threads |-> Fresh("power", 1)]

Larger(a, b) == IF a >= b THEN a ELSE b
Less(a, b) == IF a >= b THEN a - b ELSE 0
IsRead(c) == c.kind \notin Writes

-----------------------------------------------------------------------------
\* A client method is called; its argument checks have passed.
Begin(t, kind, size) ==
    /\ pc[t] = "idle"
    /\ kind \in Writes \cup {"power"} => size = 1
    /\ call' = [call EXCEPT ![t] = Fresh(kind, size)]
    /\ pc' = [pc EXCEPT ![t] = "wait"]
    /\ UNCHANGED <<lock, age, cool, nap>>

\* What a call that is over leaves: an error takes the pages with it.
Left(c, out) ==
    IF out = "raised"
    THEN [Fresh(c.kind, c.size) EXCEPT !.stage = c.stage, !.reached = c.reached, !.out = out]
    ELSE [c EXCEPT !.out = out]

\* The call is over: it returned, or it raised.
End(t, out, c) ==
    /\ call' = [call EXCEPT ![t] = Left(c, out)]
    /\ pc' = [pc EXCEPT ![t] = "over"]
    /\ UNCHANGED <<lock, age, cool, nap>>

\* KisRateLimiter.wait takes the lock and works out how long to sleep.
WaitEnter(t) ==
    /\ pc[t] = "wait"
    /\ lock = NoThread
    /\ lock' = t
    /\ nap' = Larger(Less(Interval, age), cool)
    /\ pc' = [pc EXCEPT ![t] = "sleep"]
    /\ UNCHANGED <<age, cool, call>>

\* It has slept, with the lock held; the request is stamped and goes out.
WaitEnd(t) ==
    /\ pc[t] = "sleep"
    /\ nap = 0
    /\ age' = 0
    /\ lock' = NoThread
    /\ pc' = [pc EXCEPT ![t] = "flight"]
    /\ UNCHANGED <<cool, nap, call>>

\* Time passes (external).
Tick ==
    /\ age < Interval \/ cool > 0 \/ nap > 0
    /\ age' = IF age < Interval THEN age + 1 ELSE age
    /\ cool' = Less(cool, 1)
    /\ nap' = Less(nap, 1)
    /\ UNCHANGED <<lock, pc, call>>

-----------------------------------------------------------------------------
\* Mutant of Transient: the attempts are not counted.
TransientForever(t) ==
    /\ pc[t] = "flight"
    /\ IsRead(call[t])
    /\ pc' = [pc EXCEPT ![t] = "penalize"]
    /\ UNCHANGED <<lock, age, cool, nap, call>>

\* No connection, a timeout, a 5xx status, or KIS's own rate-limit codes: a
\* read is tried again, the last attempt's error reaches the caller.
Transient(t) ==
    /\ pc[t] = "flight"
    /\ IsRead(call[t])
    /\ \/ /\ call[t].tries < MaxRetries
          /\ call' = [call EXCEPT ![t].tries = @ + 1]
          /\ pc' = [pc EXCEPT ![t] = "penalize"]
          /\ UNCHANGED <<lock, age, cool, nap>>
       \/ /\ call[t].tries = MaxRetries
          /\ End(t, "raised", call[t])

\* Mutant of Penalize: the cooldown is set without the lock.
PenalizeUnlocked(t) ==
    /\ pc[t] = "penalize"
    /\ cool' = Larger(cool, Cooldown)
    /\ pc' = [pc EXCEPT ![t] = "wait"]
    /\ UNCHANGED <<lock, age, nap, call>>

\* KisRateLimiter.penalize, then the next attempt.
Penalize(t) ==
    /\ pc[t] = "penalize"
    /\ lock = NoThread
    /\ cool' = Larger(cool, Cooldown)
    /\ pc' = [pc EXCEPT ![t] = "wait"]
    /\ UNCHANGED <<lock, age, nap, call>>

\* A 4xx status, an rt_cd other than 0, or an answer that cannot be read.
Fatal(t) ==
    /\ pc[t] = "flight"
    /\ IsRead(call[t])
    /\ End(t, "raised", call[t])

-----------------------------------------------------------------------------
\* What the loop of each client does with a page it has added to c.got:
\* "rows" it returns, "raised" it raises, "wait" it asks for the next page.

\* get_orders: a blank cursor ends the listing, and only the cursor that was
\* just used counts as one that did not advance.
OrdersLoop(c, more, next) ==
    IF ~more \/ next = 0 THEN "rows"
    ELSE IF next = c.cursor \/ Len(c.got) = MaxPages THEN "raised" ELSE "wait"

\* Mutant of AccountLoop: as in get_orders, only the last cursor is remembered.
AccountLoopLastCursor(c, more, next) ==
    IF ~more \/ next = 0 THEN "rows"
    ELSE IF next = c.cursor \/ Len(c.got) = MaxPages THEN "raised" ELSE "wait"

\* KisAccountClient.get_snapshot: any cursor seen before did not advance.
AccountLoop(c, more, next) ==
    IF ~more \/ next = 0 THEN "rows"
    ELSE IF next \in c.seen \/ Len(c.got) = MaxPages THEN "raised" ELSE "wait"

\* KisRealizedPnlClient.get_snapshot: a blank cursor is an error, too.
PnlLoop(c, more, next) ==
    IF ~more THEN "rows"
    ELSE IF next \in c.seen \cup {0} \/ Len(c.got) = MaxPages THEN "raised" ELSE "wait"

\* KisBalanceClient.get_positions reads one page, whatever follows.
BalanceLoop(c, more, next) == "rows"

\* KisBuyingPowerClient.get_snapshot: a query about one symbol.
PowerLoop(c, more, next) == "rows"

Loop(c, more, next) ==
    CASE c.kind = "orders" -> OrdersLoop(c, more, next)
      [] c.kind = "account" -> AccountLoop(c, more, next)
      [] c.kind = "pnl" -> PnlLoop(c, more, next)
      [] c.kind = "balance" -> BalanceLoop(c, more, next)
      [] c.kind = "power" -> PowerLoop(c, more, next)

\* A page arrives, with next as the cursor for the following one.  If its
\* output1 is no list, or rows of it are malformed, these are left out (drop)
\* and the page counts as any other.
Page(t, next, drop) ==
    /\ pc[t] = "flight"
    /\ IsRead(call[t])
    /\ LET served == call[t].cursor + 1
           more == served < call[t].size
           c == [call[t] EXCEPT !.got = Append(@, served), !.tries = 0,
                                !.blank = @ \/ (more /\ next = 0),
                                !.dropped = @ \/ drop]
           then == Loop(c, more, next)
       IN  /\ next \in 0..served
           /\ drop => call[t].kind # "power"
           /\ \/ then # "wait" /\ End(t, then, c)
              \/ /\ then = "wait"
                 /\ call' = [call EXCEPT ![t] =
                               [c EXCEPT !.cursor = next, !.seen = @ \cup {next}]]
                 /\ pc' = [pc EXCEPT ![t] = "wait"]
                 /\ UNCHANGED <<lock, age, cool, nap>>

-----------------------------------------------------------------------------
\* issue_hashkey answered: the order itself waits its turn.
HashIssued(t) ==
    /\ pc[t] = "flight"
    /\ call[t].stage = "hash"
    /\ call' = [call EXCEPT ![t].stage = "main"]
    /\ pc' = [pc EXCEPT ![t] = "wait"]
    /\ UNCHANGED <<lock, age, cool, nap>>

Reached(c) == [c EXCEPT !.reached = IF @ = 2 THEN 2 ELSE @ + 1]

\* KIS takes the order and says so (its number may still be missing).
OrderPlaced(t) ==
    /\ pc[t] = "flight"
    /\ call[t].kind = "submit" /\ call[t].stage = "main"
    /\ End(t, "done", Reached(call[t]))

\* KIS takes the request to cancel and says so.
CancelTaken(t) ==
    /\ pc[t] = "flight"
    /\ call[t].kind = "cancel"
    /\ End(t, "done", Reached(call[t]))

\* Mutant of WriteFails: a write without an answer is sent again.
WriteFailsAndRetries(t, c) ==
    /\ pc[t] = "flight"
    /\ ~IsRead(call[t])
    /\ c \in {call[t]} \cup (IF call[t].stage = "main" THEN {Reached(call[t])} ELSE {})
    /\ \/ /\ call[t].tries < MaxRetries
          /\ call' = [call EXCEPT ![t] = [c EXCEPT !.tries = @ + 1]]
          /\ pc' = [pc EXCEPT ![t] = "penalize"]
          /\ UNCHANGED <<lock, age, cool, nap>>
       \/ End(t, "raised", c)

\* The write is refused, or its answer is lost after it took effect: in both
\* cases the session posts once and the error reaches the caller.
WriteFails(t, c) ==
    /\ pc[t] = "flight"
    /\ ~IsRead(call[t])
    /\ c \in {call[t]} \cup (IF call[t].stage = "main" THEN {Reached(call[t])} ELSE {})
    /\ End(t, "raised", c)

-----------------------------------------------------------------------------
Progress(t) ==
    \/ WaitEnter(t) \/ WaitEnd(t) \/ Penalize(t)
    \/ Transient(t) \/ Fatal(t)
    \/ \E next \in 0..MaxSize, drop \in BOOLEAN : Page(t, next, drop)
    \/ HashIssued(t) \/ OrderPlaced(t) \/ CancelTaken(t)
    \/ \E c \in {call[t], Reached(call[t])} : WriteFails(t, c)

TransportNext ==
    \/ Tick
    \/ \E t \in Threads :
          \/ \E kind \in Kinds, size \in 1..MaxSize : Begin(t, kind, size)
          \/ Progress(t)

(***************************************************************************)
(* Fairness: time passes, a thread that can run does, and requests are     *)
(* sent with a timeout (15 s), so a request in flight ends one way or      *)
(* another; which way is never assumed.                                    *)
(***************************************************************************)
TransportFairness ==
    /\ WF_vars(Tick)
    /\ \A t \in Threads : WF_vars(Progress(t))

TransportSpec ==
    TransportInit /\ [][TransportNext]_vars /\ TransportFairness

-----------------------------------------------------------------------------
\* The state is well formed; in particular no read is attempted more than
\* MaxRetries + 1 times for one page, and no more than MaxPages are read.
TransportTypeOK ==
    /\ lock \in Threads \cup {NoThread}
    /\ age \in 0..Interval
    /\ cool \in 0..Cooldown
    /\ nap \in 0..Larger(Interval, Cooldown)
    /\ pc \in [Threads -> {"idle", "wait", "sleep", "flight", "penalize", "over"}]
    /\ call \in [Threads -> Call]

(***************************************************************************)
(* The limiter's promise across threads (kis_rate_limit.py): no request    *)
(* starts within the interval of the one before it, whichever thread sent  *)
(* that, nor while a cooldown is in force that another thread may have     *)
(* started after this one began its own wait.                              *)
(***************************************************************************)
StartsArePaced ==
    [][\A t \in Threads :
          (pc[t] = "sleep" /\ pc'[t] = "flight") => (age = Interval /\ cool = 0)]_vars

(***************************************************************************)
(* A listing is returned only when every page of it was taken, however     *)
(* often a page had to be asked for again and wherever KIS's cursors led:  *)
(* reconciliation takes a missing row for a missing order.  Holdings and   *)
(* the realised result have each page once and in order, also when KIS     *)
(* goes back to a cursor (a holding counted twice would be a difference);  *)
(* orders may have a page again, which is harmless because they are looked *)
(* up by their number.  The exception is an answer that announces more and *)
(* leaves the cursor blank, which orders and holdings take for the end.    *)
(* This is about pages: rows of a page that could not be read are left out *)
(* of a listing that returns.                                              *)
(***************************************************************************)
ListingIsWhole ==
    \A t \in Threads :
        LET c == call[t]
        IN  (c.out = "rows" /\ c.kind \in Listings) =>
            /\ Range(c.got) = 1..c.size \/ (c.blank /\ c.kind # "pnl")
            /\ c.kind # "orders" => c.got = [i \in 1..Len(c.got) |-> i]

\* Stronger, and not so: a listing that is returned has every row.
ListingHasEveryRow ==
    \A t \in Threads :
        (call[t].out = "rows" /\ call[t].kind \in Listings) => ~call[t].dropped

(***************************************************************************)
(* A write takes effect at most once per call, took effect if the call     *)
(* returned, and an order without its hash key never went out.  The guard  *)
(* above relies on it: an error leaves one order in doubt, never two.      *)
(***************************************************************************)
WritesOnce ==
    \A t \in Threads :
        LET c == call[t]
        IN  /\ c.reached <= 1
            /\ c.out = "done" => c.reached = 1
            /\ c.stage = "hash" => c.reached = 0

(***************************************************************************)
(* Every call comes to an end, whatever KIS answers and whoever holds the  *)
(* limiter's lock asleep.                                                  *)
(***************************************************************************)
CallsEnd ==
    \A t \in Threads : (pc[t] # "idle") ~> (pc[t] = "over")
=============================================================================
