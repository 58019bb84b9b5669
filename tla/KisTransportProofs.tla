------------------------- MODULE KisTransportProofs -------------------------
(***************************************************************************)
(* Proofs about KisTransport for any number of threads, any interval and   *)
(* cooldown, any number of retries and listings of any length: requests    *)
(* are paced, a listing that is returned has its pages, and a write takes  *)
(* effect at most once.  The other parts are about KisAnswers: rows of any *)
(* size, prices of any precision, histories of any number of fills.        *)
(***************************************************************************)
EXTENDS KisAnswers, SequenceTheorems, FiniteSetTheorems, NaturalsInduction,
        WellFoundedInduction, TLAPS

-----------------------------------------------------------------------------
(* The inductive invariant                                                 *)

\* The first n pages of a listing, in order.
FirstPages(n) == [i \in 1..n |-> i]

\* The pages a listing has reach without a gap to its cursor, or further if KIS
\* has gone back to an earlier cursor since.
NoGap(c) == \E k \in 0..c.size : c.cursor <= k /\ Range(c.got) = 1..k

\* What is known of a call c whose thread is at p.  Until the call is over it
\* has had no effect; a read has pages left to read and to ask for and no gap
\* in those it has; but for the orders, it holds exactly the pages before its
\* cursor and has seen exactly their cursors.
CallOK(p, c) ==
    /\ c \in Call
    /\ c.stage = "hash" => c.kind = "submit" /\ c.reached = 0
    /\ p # "over" => c.reached = 0 /\ c.out = "none"
    /\ (p # "over" /\ IsRead(c)) =>
          /\ c.cursor < c.size /\ Len(c.got) < MaxPages
          /\ NoGap(c)
          /\ c.kind # "orders" => c.got = FirstPages(c.cursor) /\ c.seen = 1..c.cursor
    /\ c.reached <= 1
    /\ c.out = "done" => c.reached = 1
    /\ (c.out = "rows" /\ c.kind \in Listings) =>
          /\ Range(c.got) = 1..c.size \/ (c.blank /\ c.kind # "pnl")
          /\ c.kind # "orders" => c.got = FirstPages(Len(c.got))

\* The holder of the limiter's lock is the one thread that sleeps, and what is
\* left of its sleep outlasts both the interval and the cooldown.
PaceOK ==
    /\ \A t \in Threads : pc[t] = "sleep" <=> lock = t
    /\ lock # NoThread => nap + age >= Interval /\ nap >= cool

TransportInv ==
    /\ TransportTypeOK
    /\ PaceOK
    /\ \A t \in Threads : CallOK(pc[t], call[t])

-----------------------------------------------------------------------------
(* Lemmas about the operators                                              *)

\* The larger of two numbers and the difference that stops at zero.
LEMMA LargerLess ==
    ASSUME NEW a \in Nat, NEW b \in Nat
    PROVE  /\ Larger(a, b) \in Nat /\ Larger(a, b) >= a /\ Larger(a, b) >= b
           /\ Larger(a, b) = a \/ Larger(a, b) = b
           /\ Less(a, b) \in Nat /\ Less(a, b) + b >= a /\ Less(a, b) <= a
           /\ a >= b => Less(a, b) + b = a
           /\ a < b => Less(a, b) = 0
  BY DEF Larger, Less

\* The first no pages are the empty sequence.
LEMMA NoPages == FirstPages(0) = <<>>
  <1>1. FirstPages(0) \in Seq(Nat)
    BY SeqDef DEF FirstPages
  <1>2. Len(FirstPages(0)) = 0
    BY DEF FirstPages
  <1> QED BY <1>1, <1>2, EmptySeq

\* The page after the first n makes the first n + 1.
LEMMA NextPage ==
    ASSUME NEW n \in Nat
    PROVE  /\ Append(FirstPages(n), n + 1) = FirstPages(n + 1)
           /\ Len(FirstPages(n + 1)) = n + 1
           /\ FirstPages(n) \in [1..n -> 1..n]
  <1>1. FirstPages(n) \in Seq(Nat) /\ Len(FirstPages(n)) = n
    <2>1. FirstPages(n) \in [1..n -> Nat]
      BY DEF FirstPages
    <2> QED BY <2>1
  <1>2. FirstPages(n + 1) \in Seq(Nat) /\ Len(FirstPages(n + 1)) = n + 1
    <2>1. FirstPages(n + 1) \in [1..(n + 1) -> Nat]
      BY DEF FirstPages
    <2> QED BY <2>1
  <1>3. /\ Append(FirstPages(n), n + 1) \in Seq(Nat)
        /\ Len(Append(FirstPages(n), n + 1)) = n + 1
        /\ \A i \in 1..(n + 1) : Append(FirstPages(n), n + 1)[i] =
              IF i = n + 1 THEN n + 1 ELSE FirstPages(n)[i]
    BY <1>1, AppendProperties
  <1>4. \A i \in 1..(n + 1) :
           Append(FirstPages(n), n + 1)[i] = FirstPages(n + 1)[i]
    BY <1>3 DEF FirstPages
  <1>5. Append(FirstPages(n), n + 1) = FirstPages(n + 1)
    BY <1>2, <1>3, <1>4, SeqEqual
  <1>6. FirstPages(n) \in [1..n -> 1..n]
    BY DEF FirstPages
  <1> QED BY <1>2, <1>5, <1>6

\* A list of pages as a sequence.
LEMMA PageListSeq ==
    ASSUME NEW g \in PageLists
    PROVE  /\ g \in Seq(1..MaxSize) /\ Len(g) \in 0..MaxPages
           /\ DOMAIN g = 1..Len(g)
  BY TransportAssumption DEF PageLists

\* A page more is a list of pages, and adds its number to those there are.
LEMMA PageAppended ==
    ASSUME NEW g \in PageLists, Len(g) < MaxPages, NEW n \in 1..MaxSize, NEW h,
           h = Append(g, n)
    PROVE  /\ h \in PageLists /\ Len(h) = Len(g) + 1
           /\ Range(h) = Range(g) \cup {n}
  <1>1. /\ g \in Seq(1..MaxSize) /\ Len(g) \in Nat /\ MaxPages \in Nat
        /\ DOMAIN g = 1..Len(g)
    BY PageListSeq, TransportAssumption
  <1>2. /\ h \in Seq(1..MaxSize) /\ Len(h) = Len(g) + 1
        /\ \A i \in 1..(Len(g) + 1) : h[i] = IF i = Len(g) + 1 THEN n ELSE g[i]
    BY <1>1, AppendProperties
  <1>3. DOMAIN h = 1..(Len(g) + 1)
    BY <1>2
  <1>4. h \in PageLists
    <2>1. h \in [1..Len(h) -> 1..MaxSize]
      BY <1>2, LenProperties
    <2>2. Len(h) \in 0..MaxPages
      BY <1>1, <1>2
    <2> QED BY <2>1, <2>2 DEF PageLists
  <1>5. ASSUME NEW x \in Range(h) PROVE x \in Range(g) \cup {n}
    <2>1. PICK i \in DOMAIN h : x = h[i]
      BY <1>5 DEF Range
    <2> QED BY <1>1, <1>2, <1>3, <2>1 DEF Range
  <1>6. ASSUME NEW x \in Range(g) \cup {n} PROVE x \in Range(h)
    <2>1. CASE x = n
      <3>1. Len(g) + 1 \in DOMAIN h /\ h[Len(g) + 1] = n
        BY <1>1, <1>2, <1>3
      <3> QED BY <2>1, <3>1 DEF Range
    <2>2. CASE x \in Range(g)
      <3>1. PICK i \in DOMAIN g : x = g[i]
        BY <2>2 DEF Range
      <3>2. i \in DOMAIN h /\ h[i] = x
        BY <1>1, <1>2, <1>3, <3>1
      <3> QED BY <3>2 DEF Range
    <2> QED BY <2>1, <2>2
  <1> QED BY <1>2, <1>4, <1>5, <1>6

-----------------------------------------------------------------------------
(* One thread's step                                                       *)

\* A new call is in order.
LEMMA FreshOK ==
    ASSUME NEW kind \in Kinds, NEW size \in 1..MaxSize, NEW p
    PROVE  CallOK(p, Fresh(kind, size))
  <1> DEFINE c == Fresh(kind, size)
  <1>1. <<>> \in PageLists
    <2>1. <<>> \in [1..0 -> 1..MaxSize]
      BY NoPages, NextPage
    <2>2. 0 \in 0..MaxPages
      BY TransportAssumption
    <2> QED BY <2>1, <2>2 DEF PageLists
  <1>2. c \in Call
    BY <1>1, TransportAssumption DEF Fresh, Call
  <1>3. /\ c.kind = kind /\ c.stage = IF kind = "submit" THEN "hash" ELSE "main"
        /\ c.size = size /\ c.cursor = 0 /\ c.seen = {} /\ c.got = <<>>
        /\ c.out = "none" /\ c.reached = 0
    BY DEF Fresh
  <1>4. c.cursor < c.size /\ Len(c.got) < MaxPages
    BY <1>3, TransportAssumption
  <1>5. c.got = FirstPages(c.cursor) /\ c.seen = 1..c.cursor
    BY <1>3, NoPages
  <1>6. NoGap(c)
    <2>1. Range(c.got) = 1..0
      BY <1>3 DEF Range
    <2>2. 0 \in 0..c.size /\ c.cursor <= 0
      BY <1>3, TransportAssumption
    <2> QED BY <2>1, <2>2 DEF NoGap
  <1> HIDE DEF c
  <1>7. CallOK(p, c)
    BY <1>2, <1>3, <1>4, <1>5, <1>6 DEF CallOK
  <1> QED BY <1>7 DEF c

\* The outcome of a call.
WithOut(c, out) == [c EXCEPT !.out = out]

\* Settling the outcome of a call changes nothing else of it.
LEMMA OutSet ==
    ASSUME NEW c \in Call, NEW out \in {"none", "rows", "done", "raised"}, NEW f,
           f = WithOut(c, out)
    PROVE  /\ f \in Call
           /\ f.kind = c.kind /\ f.stage = c.stage /\ f.size = c.size
           /\ f.got = c.got /\ f.out = out /\ f.reached = c.reached
           /\ f.blank = c.blank
  BY DEF Call, WithOut

\* A call that raised is in order if its effect is one of a call.
LEMMA RaisedOK ==
    ASSUME NEW c \in Call, c.reached <= 1,
           c.stage = "hash" => c.kind = "submit" /\ c.reached = 0
    PROVE  CallOK("over", Left(c, "raised"))
  <1> DEFINE n == Fresh(c.kind, c.size)
             n1 == [n EXCEPT !.stage = c.stage]
             n2 == [n1 EXCEPT !.reached = c.reached]
             f == [n2 EXCEPT !.out = "raised"]
  <1>1. Left(c, "raised") = f
    BY DEF Left
  <1>2. c.kind \in Kinds /\ c.size \in 1..MaxSize /\ c.stage \in {"hash", "main"} /\ c.reached \in 0..2
    BY DEF Call
  <1>3. n \in Call /\ n.kind = c.kind
    BY <1>2, FreshOK DEF CallOK, Fresh
  <1> HIDE DEF n
  <1>4. n1 \in Call /\ n1.kind = c.kind /\ n1.stage = c.stage
    BY <1>2, <1>3 DEF Call
  <1> HIDE DEF n1
  <1>5. n2 \in Call /\ n2.kind = c.kind /\ n2.stage = c.stage /\ n2.reached = c.reached
    BY <1>2, <1>4 DEF Call
  <1> HIDE DEF n2
  <1>6. f \in Call /\ f.kind = c.kind /\ f.stage = c.stage /\ f.reached = c.reached /\ f.out = "raised"
    BY <1>5 DEF Call
  <1> HIDE DEF f
  <1>7. CallOK("over", f)
    BY <1>6 DEF CallOK
  <1> QED BY <1>1, <1>7

\* A step of thread t alone, at which its call becomes c and the thread moves
\* to p neither from nor to its sleep, keeps the invariant.
LEMMA ThreadStep ==
    ASSUME TransportInv, NEW t \in Threads, NEW c, NEW p,
           p \in {"idle", "wait", "flight", "penalize", "over"},
           pc[t] # "sleep",
           CallOK(p, c),
           pc' = [pc EXCEPT ![t] = p],
           call' = [call EXCEPT ![t] = c],
           UNCHANGED <<lock, age, cool, nap>>
    PROVE  TransportInv'
  <1>1. c \in Call
    BY DEF CallOK
  <1>2. TransportTypeOK'
    BY <1>1 DEF TransportInv, TransportTypeOK
  <1>3. PaceOK'
    BY DEF TransportInv, TransportTypeOK, PaceOK
  <1>4. \A u \in Threads : CallOK(pc'[u], call'[u])
    BY DEF TransportInv, TransportTypeOK
  <1> QED BY <1>2, <1>3, <1>4 DEF TransportInv

\* A call that ends, with what it ends with.
LEMMA EndStep ==
    ASSUME TransportInv, NEW t \in Threads, NEW c, NEW out,
           pc[t] # "sleep",
           CallOK("over", Left(c, out)),
           End(t, out, c)
    PROVE  TransportInv'
  BY ThreadStep DEF End

-----------------------------------------------------------------------------
(* The actions                                                             *)

\* A call begins.
LEMMA BeginInv ==
    ASSUME TransportInv, NEW t \in Threads, NEW kind \in Kinds,
           NEW size \in 1..MaxSize, Begin(t, kind, size)
    PROVE  TransportInv'
  BY FreshOK, ThreadStep DEF Begin

\* The limiter: taking the lock works out a sleep that is long enough, and the
\* lock is let go when it is over.
LEMMA LimiterInv ==
    ASSUME TransportInv, NEW t \in Threads, WaitEnter(t) \/ WaitEnd(t)
    PROVE  TransportInv'
  <1>1. /\ age \in Nat /\ age <= Interval /\ cool \in Nat /\ cool <= Cooldown
        /\ Interval \in Nat /\ Cooldown \in Nat
    BY TransportAssumption DEF TransportInv, TransportTypeOK
  <1>2. \A u \in Threads : CallOK(pc'[u], call'[u])
    BY DEF TransportInv, TransportTypeOK, WaitEnter, WaitEnd, CallOK
  <1>3. CASE WaitEnter(t)
    <2>1. /\ nap' \in Nat /\ nap' + age >= Interval /\ nap' >= cool
          /\ nap' <= Larger(Interval, Cooldown)
      BY <1>1, <1>3 DEF WaitEnter, Larger, Less
    <2>2. TransportTypeOK'
      <3>1. nap' \in 0..Larger(Interval, Cooldown)
        BY <1>1, <2>1, LargerLess
      <3> QED BY <1>3, <3>1 DEF TransportInv, TransportTypeOK, WaitEnter
    <2>3. PaceOK'
      BY <1>3, <2>1, TransportAssumption
         DEF TransportInv, TransportTypeOK, PaceOK, WaitEnter
    <2> QED BY <1>2, <2>2, <2>3 DEF TransportInv
  <1>4. CASE WaitEnd(t)
    <2>1. TransportTypeOK'
      BY <1>1, <1>4 DEF TransportInv, TransportTypeOK, WaitEnd
    <2>2. PaceOK'
      BY <1>4, TransportAssumption DEF TransportInv, TransportTypeOK, PaceOK, WaitEnd
    <2> QED BY <1>2, <2>1, <2>2 DEF TransportInv
  <1> QED BY <1>3, <1>4

\* Time passes for the sleeper, the interval and the cooldown alike.
LEMMA TickInv ==
    ASSUME TransportInv, Tick
    PROVE  TransportInv'
  <1>1. /\ age \in Nat /\ age <= Interval /\ cool \in Nat /\ cool <= Cooldown
        /\ nap \in Nat /\ Larger(Interval, Cooldown) \in Nat
        /\ nap <= Larger(Interval, Cooldown)
        /\ Interval \in Nat /\ Cooldown \in Nat
    BY TransportAssumption, LargerLess DEF TransportInv, TransportTypeOK
  <1>2. /\ cool' = Less(cool, 1) /\ nap' = Less(nap, 1)
        /\ age' = IF age < Interval THEN age + 1 ELSE age
        /\ lock' = lock /\ pc' = pc /\ call' = call
    BY DEF Tick
  <1>3. TransportTypeOK'
    <2>1. age' \in 0..Interval /\ cool' \in 0..Cooldown
      BY <1>1, <1>2 DEF Less
    <2>2. nap' \in 0..Larger(Interval, Cooldown)
      <3>1. nap' \in Nat /\ nap' <= nap
        BY <1>1, <1>2 DEF Less
      <3> QED BY <1>1, <3>1
    <2> QED BY <1>2, <2>1, <2>2 DEF TransportInv, TransportTypeOK
  <1>4. ASSUME lock # NoThread
        PROVE  nap' + age' >= Interval /\ nap' >= cool'
    <2>1. nap + age >= Interval /\ nap >= cool
      BY <1>4 DEF TransportInv, PaceOK
    <2> QED BY <1>1, <1>2, <2>1 DEF Less
  <1>5. PaceOK'
    BY <1>2, <1>4 DEF TransportInv, PaceOK
  <1> QED BY <1>2, <1>3, <1>5 DEF TransportInv

\* An attempt that failed is counted, within the number of retries.
LEMMA TransientInv ==
    ASSUME TransportInv, NEW t \in Threads, Transient(t) \/ Fatal(t)
    PROVE  TransportInv'
  <1>1. pc[t] = "flight" /\ IsRead(call[t]) /\ CallOK(pc[t], call[t])
    BY DEF Transient, Fatal, TransportInv
  <1>2. call[t] \in Call
    BY <1>1 DEF CallOK
  <1>3. CallOK("over", Left(call[t], "raised"))
    BY <1>1, <1>2, RaisedOK DEF CallOK
  <1>4. CASE End(t, "raised", call[t])
    BY <1>1, <1>3, <1>4, EndStep
  <1>5. CASE /\ call[t].tries < MaxRetries
             /\ call' = [call EXCEPT ![t].tries = @ + 1]
             /\ pc' = [pc EXCEPT ![t] = "penalize"]
             /\ UNCHANGED <<lock, age, cool, nap>>
    <2> DEFINE c == [call[t] EXCEPT !.tries = call[t].tries + 1]
    <2>1. c \in Call
      BY <1>2, <1>5, TransportAssumption DEF Call
    <2>2. /\ c.stage = call[t].stage /\ c.kind = call[t].kind
          /\ c.size = call[t].size /\ c.cursor = call[t].cursor
          /\ c.got = call[t].got /\ c.seen = call[t].seen
          /\ c.out = call[t].out /\ c.reached = call[t].reached
          /\ c.blank = call[t].blank
      BY <1>2 DEF Call
    <2>3. call' = [call EXCEPT ![t] = c]
      BY <1>5
    <2> HIDE DEF c
    <2>4. CallOK("penalize", c)
      BY <1>1, <2>1, <2>2 DEF CallOK, IsRead, NoGap
    <2> QED BY <1>1, <1>5, <2>3, <2>4, ThreadStep
  <1> QED BY <1>4, <1>5 DEF Transient, Fatal

\* A cooldown starts while nobody sleeps.
LEMMA PenalizeInv ==
    ASSUME TransportInv, NEW t \in Threads, Penalize(t)
    PROVE  TransportInv'
  <1>1. cool \in 0..Cooldown /\ Cooldown \in Nat
    BY TransportAssumption DEF TransportInv, TransportTypeOK
  <1>2. cool' \in 0..Cooldown
    BY <1>1 DEF Penalize, Larger
  <1>3. TransportTypeOK'
    BY <1>2 DEF TransportInv, TransportTypeOK, Penalize
  <1>4. PaceOK'
    BY DEF TransportInv, TransportTypeOK, PaceOK, Penalize
  <1>5. \A u \in Threads : CallOK(pc'[u], call'[u])
    BY DEF TransportInv, TransportTypeOK, Penalize, CallOK
  <1> QED BY <1>3, <1>4, <1>5 DEF TransportInv

\* The records a page makes of a call.
WithPage(d, g, b, o) == [d EXCEPT !.got = g, !.tries = 0, !.blank = b, !.dropped = o]
WithCursor(c, n, s) == [c EXCEPT !.cursor = n, !.seen = s]

\* Adding a page changes the pages, the attempts and the two flags of a call only.
LEMMA PageAdded ==
    ASSUME NEW d \in Call, NEW g \in PageLists, NEW b \in BOOLEAN, NEW o \in BOOLEAN, NEW c,
           c = WithPage(d, g, b, o)
    PROVE  /\ c \in Call
           /\ c.kind = d.kind /\ c.stage = d.stage /\ c.size = d.size
           /\ c.cursor = d.cursor /\ c.seen = d.seen /\ c.got = g
           /\ c.out = d.out /\ c.reached = d.reached /\ c.blank = b
  <1>1. c \in Call
    <2> DEFINE c1 == [d EXCEPT !.got = g]
               c2 == [c1 EXCEPT !.tries = 0]
               c3 == [c2 EXCEPT !.blank = b]
               c4 == [c3 EXCEPT !.dropped = o]
    <2>1. c1 \in Call
      BY DEF Call
    <2>2. c = c4
      BY DEF WithPage
    <2> HIDE DEF c1
    <2>3. c2 \in Call
      BY <2>1, TransportAssumption DEF Call
    <2> HIDE DEF c2
    <2>4. c3 \in Call
      BY <2>3 DEF Call
    <2> HIDE DEF c3
    <2>5. c4 \in Call
      BY <2>4 DEF Call
    <2> QED BY <2>2, <2>5
  <1>2. c.blank = b
    BY Zenon DEF WithPage, Call
  <1>3. /\ c.kind = d.kind /\ c.stage = d.stage /\ c.size = d.size
        /\ c.cursor = d.cursor /\ c.seen = d.seen /\ c.got = g
        /\ c.out = d.out /\ c.reached = d.reached
    BY DEF WithPage, Call
  <1> QED BY <1>1, <1>2, <1>3, Zenon

\* Moving the cursor changes nothing of a call but the cursors.
LEMMA CursorSet ==
    ASSUME NEW c \in Call, NEW n \in 0..MaxSize, NEW s \in SUBSET (1..MaxSize), NEW e,
           e = WithCursor(c, n, s)
    PROVE  /\ e \in Call
           /\ e.kind = c.kind /\ e.stage = c.stage /\ e.size = c.size
           /\ e.cursor = n /\ e.seen = s /\ e.got = c.got
           /\ e.out = c.out /\ e.reached = c.reached /\ e.blank = c.blank
  BY DEF WithCursor, Call

\* What each loop answers: it goes on only if there is more, with pages left to
\* ask for and, but for the orders, a cursor it has not seen, and returns only
\* at the end of the listing or at a blank cursor, which the P/L listing refuses.
LEMMA LoopAnswers ==
    ASSUME NEW c, c.kind \in Kinds \ Writes, NEW more \in BOOLEAN, NEW next
    PROVE  /\ Loop(c, more, next) \in {"rows", "raised", "wait"}
           /\ Loop(c, more, next) = "wait" =>
                /\ c.kind \in Listings
                /\ more /\ next # 0 /\ Len(c.got) # MaxPages
                /\ c.kind # "orders" => next \notin c.seen
           /\ (Loop(c, more, next) = "rows" /\ c.kind \in Listings) =>
                ~more \/ (next = 0 /\ c.kind # "pnl")
  <1>1. c.kind \in {"orders", "account", "pnl", "balance", "power"}
    BY DEF Kinds, Listings, Writes
  <1>2. CASE c.kind = "orders"
    <2>1. Loop(c, more, next) = OrdersLoop(c, more, next)
      BY <1>2 DEF Loop
    <2> QED BY <1>2, <2>1 DEF OrdersLoop, Listings
  <1>3. CASE c.kind = "account"
    <2>1. Loop(c, more, next) = AccountLoop(c, more, next)
      BY <1>3 DEF Loop
    <2> QED BY <1>3, <2>1 DEF AccountLoop, Listings
  <1>4. CASE c.kind = "pnl"
    <2>1. Loop(c, more, next) = PnlLoop(c, more, next)
      BY <1>4 DEF Loop
    <2> QED BY <1>4, <2>1 DEF PnlLoop, Listings
  <1>5. CASE c.kind \in {"balance", "power"}
    <2>1. Loop(c, more, next) = "rows"
      BY <1>5 DEF Loop, BalanceLoop, PowerLoop
    <2> QED BY <1>5, <2>1 DEF Listings
  <1> QED BY <1>1, <1>2, <1>3, <1>4, <1>5

\* A page arrives: it adds to the pages without leaving a gap, and when the loop
\* asks for another than the orders', it does so with this page's cursor.
LEMMA PageInv ==
    ASSUME TransportInv, NEW t \in Threads, NEW next, NEW drop \in BOOLEAN, Page(t, next, drop)
    PROVE  TransportInv'
  <1> DEFINE d == call[t]
             served == d.cursor + 1
             more == served < d.size
             b == d.blank \/ (more /\ next = 0)
             o == d.dropped \/ drop
             g == Append(d.got, served)
             c == [d EXCEPT !.got = g, !.tries = 0, !.blank = b, !.dropped = o]
             e == [c EXCEPT !.cursor = next, !.seen = c.seen \cup {next}]
  <1>1. pc[t] = "flight" /\ IsRead(d) /\ CallOK(pc[t], d)
    BY DEF Page, TransportInv
  <1>2. d \in Call
    BY <1>1 DEF CallOK
  <1>3. /\ d.kind \in Kinds \ Writes /\ d.stage \in {"hash", "main"}
        /\ d.size \in 1..MaxSize /\ d.cursor \in 0..MaxSize
        /\ d.got \in PageLists /\ d.seen \in SUBSET (1..MaxSize)
        /\ d.blank \in BOOLEAN /\ d.dropped \in BOOLEAN /\ d.out = "none"
    BY <1>1, <1>2 DEF Call, IsRead, CallOK
  <1>4. /\ d.cursor \in Nat /\ d.size \in Nat /\ MaxPages \in Nat /\ MaxSize \in Nat
        /\ d.cursor < d.size /\ Len(d.got) < MaxPages /\ d.size <= MaxSize
        /\ NoGap(d)
        /\ d.kind # "orders" => d.got = FirstPages(d.cursor) /\ d.seen = 1..d.cursor
        /\ d.stage = "main" /\ d.reached = 0
    <2>1. d.stage # "hash"
      BY <1>1 DEF CallOK, IsRead, Writes
    <2> QED BY <1>1, <1>3, <2>1, TransportAssumption DEF CallOK
  <1>5. /\ served \in Nat /\ served <= d.size /\ served \in 1..MaxSize
        /\ more \in BOOLEAN /\ b \in BOOLEAN /\ o \in BOOLEAN
    BY <1>3, <1>4
  <1>6. /\ next \in 0..served
        /\ \/ Loop(c, more, next) # "wait" /\ End(t, Loop(c, more, next), c)
           \/ /\ Loop(c, more, next) = "wait"
              /\ call' = [call EXCEPT ![t] = e]
              /\ pc' = [pc EXCEPT ![t] = "wait"]
              /\ UNCHANGED <<lock, age, cool, nap>>
    BY DEF Page
  <1>7. /\ g \in PageLists /\ Len(g) = Len(d.got) + 1 /\ Len(g) \in Nat /\ Len(g) <= MaxPages
        /\ Range(g) = Range(d.got) \cup {served}
    <2> HIDE DEF served, d
    <2>1. /\ g \in PageLists /\ Len(g) = Len(d.got) + 1
          /\ Range(g) = Range(d.got) \cup {served}
      BY <1>3, <1>4, <1>5, PageAppended
    <2>2. Len(d.got) \in Nat
      BY <1>3, PageListSeq
    <2> QED BY <1>4, <2>1, <2>2
  <1>8. d.kind # "orders" => g = FirstPages(served) /\ Len(g) = served
    BY <1>4, NextPage
  <1>9. /\ \E k \in 0..d.size : served <= k /\ Range(g) = 1..k
        /\ ~more => Range(g) = 1..d.size
    <2>1. PICK k \in 0..d.size : d.cursor <= k /\ Range(d.got) = 1..k
      BY <1>4 DEF NoGap
    <2> HIDE DEF g, d
    <2>2. CASE served <= k
      <3>1. Range(g) = 1..k
        BY <1>5, <1>7, <2>1, <2>2
      <3>2. ~more => k = d.size
        BY <1>4, <1>5, <2>1, <2>2
      <3> QED BY <2>2, <3>1, <3>2
    <2>3. CASE ~(served <= k)
      <3>1. served = k + 1
        BY <1>4, <2>1, <2>3
      <3>2. Range(g) = 1..served
        BY <1>4, <1>7, <2>1, <3>1
      <3>3. ~more => served = d.size
        BY <1>4, <1>5
      <3>4. served \in 0..d.size
        BY <1>4, <1>5
      <3> QED BY <1>5, <3>2, <3>3, <3>4
    <2> QED BY <2>2, <2>3
  <1> HIDE DEF g, b, o
  <1>10. /\ c \in Call
         /\ c.kind = d.kind /\ c.stage = "main" /\ c.size = d.size
         /\ c.cursor = d.cursor /\ c.seen = d.seen /\ c.got = g
         /\ c.out = "none" /\ c.reached = 0 /\ c.blank = b
    <2>1. c = WithPage(d, g, b, o)
      BY DEF WithPage
    <2> HIDE DEF c, d
    <2>2. /\ c \in Call
          /\ c.kind = d.kind /\ c.stage = d.stage /\ c.size = d.size
          /\ c.cursor = d.cursor /\ c.seen = d.seen /\ c.got = g
          /\ c.out = d.out /\ c.reached = d.reached /\ c.blank = b
      BY <1>2, <1>5, <1>7, <2>1, PageAdded
    <2> QED BY <1>3, <1>4, <2>2, Zenon
  <1> HIDE DEF c, served, more
  <1>11. CASE Loop(c, more, next) = "raised"
    <2>1. CallOK("over", Left(c, "raised"))
      BY <1>10, RaisedOK
    <2> QED BY <1>1, <1>6, <1>11, <2>1, EndStep
  <1>12. CASE Loop(c, more, next) = "rows"
    <2> DEFINE f == WithOut(c, "rows")
    <2>1. c.kind \in Listings => ~more \/ (next = 0 /\ c.kind # "pnl")
      BY <1>3, <1>5, <1>10, <1>12, LoopAnswers
    <2>2. /\ f \in Call /\ f.kind = c.kind /\ f.stage = c.stage /\ f.size = c.size
          /\ f.got = c.got /\ f.out = "rows" /\ f.reached = c.reached /\ f.blank = c.blank
      BY <1>10, OutSet
    <2>3. Left(c, "rows") = f
      BY DEF Left, WithOut
    <2> HIDE DEF f
    <2>4. more /\ next = 0 => b
      BY DEF b
    <2>5. f.kind \in Listings => Range(f.got) = 1..f.size \/ (f.blank /\ f.kind # "pnl")
      BY <1>5, <1>9, <1>10, <2>1, <2>2, <2>4
    <2>6. f.kind # "orders" => f.got = FirstPages(Len(f.got))
      BY <1>8, <1>10, <2>2
    <2>7. CallOK("over", f)
      BY <1>10, <2>2, <2>5, <2>6 DEF CallOK
    <2> QED BY <1>1, <1>6, <1>12, <2>3, <2>7, EndStep
  <1>13. CASE Loop(c, more, next) = "wait"
    <2>1. /\ more /\ next # 0 /\ Len(c.got) # MaxPages
          /\ c.kind # "orders" => next \notin c.seen
      BY <1>3, <1>5, <1>10, <1>13, LoopAnswers
    <2>2. next \in Nat /\ next <= served /\ next < d.size /\ Len(g) < MaxPages
      BY <1>4, <1>5, <1>6, <1>7, <1>10, <2>1 DEF more
    <2>3. next \in 0..MaxSize /\ c.seen \cup {next} \in SUBSET (1..MaxSize)
      BY <1>3, <1>4, <1>10, <2>1, <2>2
    <2>4. d.kind # "orders" => next = served /\ c.seen \cup {next} = 1..next
      BY <1>4, <1>5, <1>10, <2>1, <2>2 DEF served
    <2>5. /\ e \in Call /\ e.kind = c.kind /\ e.stage = c.stage /\ e.size = c.size
          /\ e.got = c.got /\ e.out = c.out /\ e.reached = c.reached
          /\ e.blank = c.blank /\ e.cursor = next /\ e.seen = c.seen \cup {next}
      <3> DEFINE s == c.seen \cup {next}
      <3>1. s \in SUBSET (1..MaxSize) /\ e = WithCursor(c, next, s)
        BY <2>3 DEF WithCursor
      <3> HIDE DEF s, e
      <3>2. /\ e \in Call /\ e.kind = c.kind /\ e.stage = c.stage /\ e.size = c.size
            /\ e.got = c.got /\ e.out = c.out /\ e.reached = c.reached
            /\ e.blank = c.blank /\ e.cursor = next /\ e.seen = s
        BY <1>10, <2>3, <3>1, CursorSet
      <3> QED BY <3>2 DEF s
    <2> HIDE DEF e
    <2>6. NoGap(e)
      <3>1. PICK k \in 0..d.size : served <= k /\ Range(g) = 1..k
        BY <1>9
      <3>2. next <= k
        BY <1>4, <1>5, <2>2, <3>1
      <3> QED BY <1>10, <2>5, <3>1, <3>2 DEF NoGap
    <2>7. CallOK("wait", e)
      BY <1>8, <1>10, <2>2, <2>4, <2>5, <2>6 DEF CallOK
    <2> QED BY <1>1, <1>6, <1>13, <2>7, ThreadStep
  <1> QED BY <1>3, <1>5, <1>10, <1>11, <1>12, <1>13, LoopAnswers

\* The hash key is there: nothing has happened at KIS yet.
LEMMA HashInv ==
    ASSUME TransportInv, NEW t \in Threads, HashIssued(t)
    PROVE  TransportInv'
  <1> DEFINE d == call[t]
             c == [d EXCEPT !.stage = "main"]
  <1>1. /\ pc[t] = "flight" /\ d.stage = "hash" /\ CallOK(pc[t], d)
        /\ call' = [call EXCEPT ![t] = c] /\ pc' = [pc EXCEPT ![t] = "wait"]
        /\ UNCHANGED <<lock, age, cool, nap>>
    BY DEF HashIssued, TransportInv
  <1>2. d \in Call /\ d.kind = "submit" /\ d.reached = 0 /\ d.out = "none"
    BY <1>1 DEF CallOK
  <1>3. /\ c \in Call /\ c.kind = "submit" /\ c.reached = 0 /\ c.out = "none"
        /\ c.stage = "main"
    BY <1>2 DEF Call
  <1> HIDE DEF c, d
  <1>4. CallOK("wait", c)
    BY <1>3 DEF CallOK, IsRead, Writes, Listings
  <1> QED BY <1>1, <1>4, ThreadStep DEF d

\* Whatever answer a write gets or does not get, it is over, and it took effect
\* at most once and never without its hash key.
LEMMA WriteInv ==
    ASSUME TransportInv, NEW t \in Threads,
           \/ OrderPlaced(t) \/ CancelTaken(t)
           \/ \E c \in {call[t], Reached(call[t])} : WriteFails(t, c)
    PROVE  TransportInv'
  <1> DEFINE d == call[t]
             r == Reached(d)
  <1>1. pc[t] = "flight" /\ CallOK(pc[t], d) /\ d.kind \in Writes /\ d \in Call
    <2>1. pc[t] = "flight" /\ d.kind \in Writes
      BY DEF OrderPlaced, CancelTaken, WriteFails, IsRead, Writes
    <2> QED BY <2>1 DEF TransportInv, CallOK
  <1>2. d.reached = 0 /\ d.out = "none" /\ (d.stage = "hash" => d.kind = "submit")
    BY <1>1 DEF CallOK
  <1>3. /\ r \in Call /\ r.kind = d.kind /\ r.stage = d.stage /\ r.reached = 1
    BY <1>1, <1>2 DEF Reached, Call
  <1> HIDE DEF d, r
  <1>4. ASSUME d.stage = "main"
        PROVE  CallOK("over", Left(r, "done")) /\ CallOK("over", Left(r, "raised"))
    <2> DEFINE f == WithOut(r, "done")
    <2>1. /\ f \in Call /\ f.kind = r.kind /\ f.stage = r.stage
          /\ f.out = "done" /\ f.reached = r.reached
      BY <1>3, OutSet
    <2>2. Left(r, "done") = f
      BY DEF Left, WithOut
    <2> HIDE DEF f
    <2>3. CallOK("over", f)
      BY <1>3, <1>4, <2>1 DEF CallOK
    <2>4. CallOK("over", Left(r, "raised"))
      BY <1>3, <1>4, RaisedOK
    <2> QED BY <2>2, <2>3, <2>4
  <1>5. CallOK("over", Left(d, "raised"))
    BY <1>1, <1>2, RaisedOK
  <1>6. \/ End(t, "raised", d)
        \/ d.stage = "main" /\ (End(t, "done", r) \/ End(t, "raised", r))
    <2>1. CASE OrderPlaced(t)
      BY <2>1 DEF OrderPlaced, d, r
    <2>2. CASE CancelTaken(t)
      <3>1. d.stage = "main"
        BY <1>1, <1>2, <2>2 DEF CancelTaken, Call, d
      <3> QED BY <2>2, <3>1 DEF CancelTaken, d, r
    <2>3. CASE \E c \in {call[t], Reached(call[t])} : WriteFails(t, c)
      BY <2>3 DEF WriteFails, d, r
    <2> QED BY <2>1, <2>2, <2>3
  <1> QED BY <1>1, <1>4, <1>5, <1>6, EndStep

-----------------------------------------------------------------------------
(* The theorems                                                            *)

\* The invariant holds at the start.
LEMMA TransportInitInv == TransportInit => TransportInv
  <1> SUFFICES ASSUME TransportInit
               PROVE  TransportInv
    OBVIOUS
  <1>1. "power" \in Kinds /\ 1 \in 1..MaxSize
    BY TransportAssumption DEF Kinds
  <1>2. \A p : CallOK(p, Fresh("power", 1))
    BY <1>1, FreshOK
  <1>3. Fresh("power", 1) \in Call
    BY <1>2 DEF CallOK
  <1>4. TransportTypeOK
    <2>1. /\ age \in 0..Interval /\ cool \in 0..Cooldown
          /\ nap \in 0..Larger(Interval, Cooldown)
      BY TransportAssumption, LargerLess DEF TransportInit
    <2> QED BY <1>3, <2>1 DEF TransportInit, TransportTypeOK
  <1>5. PaceOK
    BY TransportAssumption DEF TransportInit, PaceOK
  <1> QED BY <1>2, <1>4, <1>5 DEF TransportInit, TransportInv

\* Every step keeps it.
LEMMA TransportNextInv == TransportInv /\ [TransportNext]_vars => TransportInv'
  <1> SUFFICES ASSUME TransportInv, [TransportNext]_vars
               PROVE  TransportInv'
    OBVIOUS
  <1>1. CASE Tick
    BY <1>1, TickInv
  <1>2. CASE \E t \in Threads, kind \in Kinds, size \in 1..MaxSize : Begin(t, kind, size)
    BY <1>2, BeginInv
  <1>3. CASE \E t \in Threads : Progress(t)
    <2>1. PICK t \in Threads : Progress(t)
      BY <1>3
    <2>2. CASE WaitEnter(t) \/ WaitEnd(t)
      BY <2>2, LimiterInv
    <2>3. CASE Penalize(t)
      BY <2>3, PenalizeInv
    <2>4. CASE Transient(t) \/ Fatal(t)
      BY <2>4, TransientInv
    <2>5. CASE \E next \in 0..MaxSize, drop \in BOOLEAN : Page(t, next, drop)
      BY <2>5, PageInv
    <2>6. CASE HashIssued(t)
      BY <2>6, HashInv
    <2>7. CASE \/ OrderPlaced(t) \/ CancelTaken(t)
               \/ \E c \in {call[t], Reached(call[t])} : WriteFails(t, c)
      BY <2>7, WriteInv
    <2> QED BY <2>1, <2>2, <2>3, <2>4, <2>5, <2>6, <2>7 DEF Progress
  <1>4. CASE UNCHANGED vars
    BY <1>4 DEF vars, TransportInv, TransportTypeOK, PaceOK
  <1> QED BY <1>1, <1>2, <1>3, <1>4 DEF TransportNext

\* The invariant holds throughout.
THEOREM TransportInvariance == TransportSpec => []TransportInv
  <1> QED BY TransportInitInv, TransportNextInv, PTL DEF TransportSpec

\* The state stays well formed: a page is attempted at most MaxRetries + 1
\* times (RateLimitedKisSession._request) and at most MaxPages are kept.
THEOREM TransportTypeCorrect == TransportSpec => []TransportTypeOK
  <1>1. TransportInv => TransportTypeOK
    BY DEF TransportInv
  <1> QED BY <1>1, TransportInvariance, PTL

\* Whatever the number of threads, the timing of their failures and the cursors
\* KIS sends, a listing that is returned has every page, but for a blank cursor,
\* and holdings and the realised result have each page once and in order.
THEOREM ListingsAreWhole == TransportSpec => []ListingIsWhole
  <1>1. TransportInv => ListingIsWhole
    BY DEF TransportInv, CallOK, ListingIsWhole, FirstPages
  <1> QED BY <1>1, TransportInvariance, PTL

\* A write takes effect at most once for each call, and did if it returned.
THEOREM WritesTakeEffectOnce == TransportSpec => []WritesOnce
  <1>1. TransportInv => WritesOnce
    BY DEF TransportInv, CallOK, WritesOnce
  <1> QED BY <1>1, TransportInvariance, PTL

\* No request starts within the interval of the one before it or during a
\* cooldown, whichever threads sent the one and caused the other: with the lock
\* held asleep, neither can get ahead of the sleep that was worked out.
THEOREM RequestsArePaced == TransportSpec => StartsArePaced
  <1> DEFINE Paced == \A t \in Threads :
                        (pc[t] = "sleep" /\ pc'[t] = "flight") => (age = Interval /\ cool = 0)
  <1>1. TransportInv /\ [TransportNext]_vars => [Paced]_vars
    <2> SUFFICES ASSUME TransportInv, TransportNext, NEW t \in Threads,
                        pc[t] = "sleep", pc'[t] = "flight"
                 PROVE  age = Interval /\ cool = 0
      OBVIOUS
    <2>1. pc \in [Threads -> {"idle", "wait", "sleep", "flight", "penalize", "over"}]
      BY DEF TransportInv, TransportTypeOK
    <2>2. WaitEnd(t)
      <3>1. ~Tick
        BY DEF Tick
      <3>2. ASSUME NEW u \in Threads, u # t,
                   \/ \E kind \in Kinds, size \in 1..MaxSize : Begin(u, kind, size)
                   \/ Progress(u)
            PROVE  FALSE
        BY <2>1, <3>2 DEF Begin, Progress, WaitEnter, WaitEnd, Penalize, Transient, Fatal,
                  End, Page, HashIssued, OrderPlaced, CancelTaken, WriteFails
      <3>3. ASSUME NEW kind \in Kinds, NEW size \in 1..MaxSize, Begin(t, kind, size)
            PROVE  FALSE
        BY <3>3 DEF Begin
      <3>4. Progress(t)
        BY <3>1, <3>2, <3>3 DEF TransportNext
      <3> QED BY <3>4 DEF Progress, WaitEnter, Penalize, Transient, Fatal, Page,
                          HashIssued, OrderPlaced, CancelTaken, WriteFails
    <2>3. lock = t /\ lock # NoThread
      BY TransportAssumption DEF TransportInv, PaceOK
    <2>4. /\ nap = 0 /\ nap + age >= Interval /\ nap >= cool
          /\ age \in 0..Interval /\ cool \in 0..Cooldown
      BY <2>2, <2>3 DEF WaitEnd, TransportInv, PaceOK, TransportTypeOK
    <2> QED BY <2>4, TransportAssumption
  <1>2. StartsArePaced <=> [][Paced]_vars
    BY DEF StartsArePaced
  <1> QED BY <1>1, <1>2, TransportInvariance, PTL DEF TransportSpec

-----------------------------------------------------------------------------
(* What is computed of the answers                                         *)

\* The bands of krx_tick_size: where the tick is t, a price is at least 200
\* ticks, from 200 won on, and a band begins with a price of its own ladder.
TickBand(w, t) ==
    \/ t = 1 /\ w < 2000
    \/ t = 5 /\ 2000 <= w /\ w < 5000
    \/ t = 10 /\ 5000 <= w /\ w < 20000
    \/ t = 50 /\ 20000 <= w /\ w < 50000
    \/ t = 100 /\ 50000 <= w /\ w < 200000
    \/ t = 500 /\ 200000 <= w /\ w < 500000
    \/ t = 1000 /\ 500000 <= w

Ticks == {1, 5, 10, 50, 100, 500, 1000}

\* krx_tick_size gives the tick of the price's band.
LEMMA TickOf ==
    ASSUME NEW w \in Nat
    PROVE  /\ krx_tick_size(w) \in Ticks
           /\ TickBand(w, krx_tick_size(w))
           /\ \A t \in Ticks : TickBand(w, t) => krx_tick_size(w) = t
  BY DEF krx_tick_size, TickBand, Ticks

\* What is on the ladder.
LEMMA LadderOf ==
    ASSUME NEW w \in Nat, w > 0, NEW t \in Ticks, TickBand(w, t), w % t = 0
    PROVE  OnLadder(w)
  BY DEF OnLadder, Ladder, TickBand, Ticks

\* A price on the ladder normalises to itself, either way.
LEMMA NormalIsFixed ==
    ASSUME NEW w \in Nat, NEW t \in Ticks, TickBand(w, t), w % t = 0
    PROVE  NormalizeBuy(w, 1) = w /\ NormalizeSell(w, 1) = w
  <1>1. w \div 1 = w /\ krx_tick_size(w) = t
    BY TickOf
  <1>2. (w \div t) * t = w /\ ((w + t - 1) \div t) * t = w
    BY DEF Ticks
  <1>3. t * 1 = t /\ t \in Nat
    BY DEF Ticks
  <1> QED BY <1>1, <1>2, <1>3 DEF NormalizeBuy, NormalizeSell

\* Division by a positive number.
LEMMA Quotient ==
    ASSUME NEW r \in Nat, NEW d \in Nat \ {0}
    PROVE  r \div d \in Nat /\ d * (r \div d) <= r /\ r < d * (r \div d + 1)
  OBVIOUS

\* Multiplication by a positive number is monotonic.
LEMMA Cancel ==
    ASSUME NEW d \in Nat \ {0}, NEW a \in Int, NEW b \in Int, d * a < d * b
    PROVE  a < b
  OBVIOUS

\* The tick divides both ends of its band, so rounding down stays inside it.
LEMMA DownInBand ==
    ASSUME NEW w \in Nat, NEW t \in Ticks, TickBand(w, t),
           NEW p \in Nat, p % t = 0, p <= w, w < p + t
    PROVE  TickBand(p, t)
  BY DEF TickBand, Ticks

\* Rounding down (_floor_to_tick): the price is at most one tick lower, on the
\* ladder, and in the same band.
LEMMA RoundDown ==
    ASSUME NEW d \in Nat \ {0}, NEW r \in Nat, r >= d
    PROVE  LET p == NormalizeBuy(r, d)
               t == krx_tick_size(r \div d)
           IN  /\ p \in Nat /\ p > 0 /\ t \in Ticks
               /\ d * p <= r /\ r < d * (p + t)
               /\ TickBand(r \div d, t) /\ TickBand(p, t)
               /\ OnLadder(p) /\ NormalizeBuy(p, 1) = p
  <1> DEFINE w == r \div d
             t == krx_tick_size(w)
             k == r \div (t * d)
             p == k * t
  <1>1. w \in Nat /\ d * w <= r /\ r < d * (w + 1) /\ w > 0
    <2>1. w \in Nat /\ d * w <= r /\ r < d * (w + 1)
      BY Quotient
    <2>2. d * 0 < d * (w + 1) /\ d * 1 < d * (w + 1)
      BY <2>1
    <2>3. 1 < w + 1
      BY <2>1, <2>2, Cancel
    <2> QED BY <2>1, <2>3
  <1> HIDE DEF w
  <1>2. t \in Ticks /\ TickBand(w, t)
    BY <1>1, TickOf
  <1> HIDE DEF t
  <1>3. t \in Nat \ {0}
    BY <1>2 DEF Ticks
  <1>4. t * d \in Nat \ {0}
    BY <1>3
  <1>5. k \in Nat /\ (t * d) * k <= r /\ r < (t * d) * (k + 1)
    BY <1>4, Quotient
  <1> HIDE DEF k
  <1>6. p \in Nat /\ (t * d) * k = d * p /\ (t * d) * (k + 1) = d * (p + t)
    BY <1>3, <1>5
  <1>7. p % t = 0
    BY <1>2, <1>5 DEF Ticks
  <1>8. d * p <= r /\ r < d * (p + t)
    BY <1>5, <1>6
  <1> HIDE DEF p
  <1>9. p <= w
    <2>1. d * p < d * (w + 1)
      BY <1>1, <1>6, <1>8
    <2>2. p < w + 1
      BY <1>1, <1>6, <2>1, Cancel
    <2> QED BY <1>1, <1>6, <2>2
  <1>10. w < p + t
    <2>1. d * w < d * (p + t)
      BY <1>1, <1>3, <1>6, <1>8
    <2> QED BY <1>1, <1>3, <1>6, <2>1, Cancel
  <1>11. TickBand(p, t)
    BY <1>1, <1>2, <1>6, <1>7, <1>9, <1>10, DownInBand
  <1>12. p > 0
    BY <1>1, <1>2, <1>6, <1>9, <1>10 DEF TickBand, Ticks
  <1>13. OnLadder(p) /\ NormalizeBuy(p, 1) = p
    BY <1>2, <1>6, <1>7, <1>11, <1>12, LadderOf, NormalIsFixed
  <1>14. NormalizeBuy(r, d) = p
    BY DEF NormalizeBuy, p, k, t, w
  <1> QED BY <1>2, <1>6, <1>8, <1>11, <1>12, <1>13, <1>14 DEF t, w

\* The next price of the ladder above one of its prices, or above a price in
\* between, is on the ladder of its own band: bands begin on both ladders.
LEMMA UpInBand ==
    ASSUME NEW w \in Nat, w > 0, NEW t \in Ticks, TickBand(w, t),
           NEW c \in Nat, c % t = 0, w <= c, c < w + 1 + t
    PROVE  \E u \in Ticks : TickBand(c, u) /\ c % u = 0
  BY DEF TickBand, Ticks

\* Rounding up: the price is not lower, and on the ladder.
LEMMA RoundUp ==
    ASSUME NEW d \in Nat \ {0}, NEW r \in Nat, r >= d
    PROVE  LET c == NormalizeSell(r, d)
           IN  /\ c \in Nat /\ r <= d * c
               /\ OnLadder(c) /\ NormalizeSell(c, 1) = c
  <1> DEFINE w == r \div d
             t == krx_tick_size(w)
             q == r + t * d - 1
             k == q \div (t * d)
             c == k * t
  <1>1. w \in Nat /\ d * w <= r /\ r < d * (w + 1) /\ w > 0
    <2>1. w \in Nat /\ d * w <= r /\ r < d * (w + 1)
      BY Quotient
    <2>2. d * 1 < d * (w + 1)
      BY <2>1
    <2>3. 1 < w + 1
      BY <2>1, <2>2, Cancel
    <2> QED BY <2>1, <2>3
  <1> HIDE DEF w
  <1>2. t \in Ticks /\ TickBand(w, t)
    BY <1>1, TickOf
  <1> HIDE DEF t
  <1>3. t \in Nat \ {0}
    BY <1>2 DEF Ticks
  <1>4. t * d \in Nat \ {0} /\ q \in Nat
    BY <1>3
  <1>5. k \in Nat /\ (t * d) * k <= q /\ q < (t * d) * (k + 1)
    BY <1>4, Quotient
  <1> HIDE DEF k
  <1>6. c \in Nat /\ (t * d) * k = d * c /\ (t * d) * (k + 1) = d * c + t * d
    BY <1>3, <1>5
  <1>7. c % t = 0
    BY <1>2, <1>5 DEF Ticks
  <1>8. r <= d * c /\ d * c < r + t * d
    BY <1>3, <1>4, <1>5, <1>6
  <1> HIDE DEF c
  <1>9. w <= c
    <2>1. d * w < d * (c + 1)
      BY <1>1, <1>6, <1>8
    <2>2. w < c + 1
      BY <1>1, <1>6, <2>1, Cancel
    <2> QED BY <1>1, <1>6, <2>2
  <1>10. c < w + 1 + t
    <2>1. d * c < d * (w + 1 + t)
      BY <1>1, <1>3, <1>6, <1>8
    <2> QED BY <1>1, <1>3, <1>6, <2>1, Cancel
  <1>11. PICK u \in Ticks : TickBand(c, u) /\ c % u = 0
    BY <1>1, <1>2, <1>6, <1>7, <1>9, <1>10, UpInBand
  <1>12. OnLadder(c) /\ NormalizeSell(c, 1) = c
    BY <1>1, <1>6, <1>9, <1>11, LadderOf, NormalIsFixed
  <1>13. NormalizeSell(r, d) = c
    BY DEF NormalizeSell, c, k, t, w
  <1> QED BY <1>6, <1>8, <1>12, <1>13

\* An exit's limit is within the slippage: a tick is at most half a percent of
\* any price from 200 won on.
LEMMA SellsArePlanned ==
    ASSUME NEW d \in Nat \ {0}, NEW r \in Nat, r >= 200 * d
    PROVE  SellPlanned(r, d) /\ OnLadder(SellLimit(r, d))
  <1> DEFINE w == r \div d
             t == krx_tick_size(w)
             p == NormalizeBuy(r, d)
  <1>1. r >= d
    OBVIOUS
  <1>2. /\ p \in Nat /\ p > 0 /\ t \in Ticks /\ d * p <= r /\ r < d * (p + t)
        /\ TickBand(w, t) /\ OnLadder(p)
    BY <1>1, RoundDown
  <1>3. w \in Nat /\ d * w <= r /\ r < d * (w + 1)
    BY Quotient
  <1>4. SellLimit(r, d) = p
    BY DEF SellLimit
  <1> HIDE DEF w, t, p
  <1>5. w >= 200
    <2>1. d * 200 < d * (w + 1)
      BY <1>3
    <2>2. 200 < w + 1
      BY <1>3, <2>1, Cancel
    <2> QED BY <1>3, <2>2
  <1>6. 200 * t <= w
    BY <1>2, <1>3, <1>5 DEF TickBand, Ticks
  <1>7. 200 * (d * t) <= r
    <2>1. t \in Nat
      BY <1>2 DEF Ticks
    <2>2. d * (200 * t) <= d * w
      BY <1>3, <1>6, <2>1
    <2>3. d * (200 * t) = 200 * (d * t) /\ d * t \in Nat
      BY <2>1
    <2> QED BY <1>3, <2>2, <2>3
  <1>8. r - d * p < d * t /\ d * t \in Nat /\ d * p \in Nat
    <2>1. t \in Nat
      BY <1>2 DEF Ticks
    <2>2. d * (p + t) = d * p + d * t /\ d * t \in Nat /\ d * p \in Nat
      BY <1>2, <2>1
    <2> QED BY <1>2, <2>2
  <1> DEFINE x == d * p
             y == d * t
  <1>9. x \in Nat /\ y \in Nat /\ r - x < y /\ 200 * y <= r
    BY <1>7, <1>8
  <1> HIDE DEF x, y
  <1>10. (r - x) * 10000 <= 50 * r
    BY <1>9
  <1> QED BY <1>2, <1>4, <1>10 DEF SellPlanned, SlippageBps, x

\* The plan of a BUY at two won or more.
LEMMA PlanOfEntry ==
    ASSUME NEW d \in Nat \ {0}, NEW r \in Nat, r >= 2 * d
    PROVE  PlanSurvives(r, d)
  <1> DEFINE e == NormalizeBuy(r, d)
             t == krx_tick_size(r \div d)
  <1>1. /\ e \in Nat /\ e > 0 /\ t \in Ticks /\ d * e <= r /\ r < d * (e + t)
        /\ TickBand(r \div d, t) /\ TickBand(e, t) /\ OnLadder(e) /\ NormalizeBuy(e, 1) = e
    <2>1. r >= d
      OBVIOUS
    <2> QED BY <2>1, RoundDown
  <1> HIDE DEF e, t
  <1>2. e >= 2
    <2>1. CASE t = 1
      <3>1. d * 2 < d * (e + 1)
        BY <1>1, <2>1
      <3>2. 2 < e + 1
        BY <1>1, <3>1, Cancel
      <3> QED BY <1>1, <3>2
    <2>2. CASE t # 1
      BY <1>1, <2>2 DEF TickBand, Ticks
    <2> QED BY <2>1, <2>2
  <1>3. ASSUME NEW stop \in Stops(e)
        PROVE  /\ stop \in Nat /\ 1000 * stop <= 992 * e
               /\ OnLadder(stop) /\ NormalizeBuy(stop, 1) = stop
    <2>1. PICK x \in {0, 1} : stop = NormalizeBuy(e * 992 - x, 1000)
      <3>1. e * 992 - 0 = e * 992
        BY <1>1
      <3>2. stop = NormalizeBuy(e * 992 - 0, 1000) \/ stop = NormalizeBuy(e * 992 - 1, 1000)
        BY <3>1 DEF Stops
      <3> QED BY <3>2
    <2> DEFINE q == e * 992 - x
    <2>2. q \in Nat /\ q >= 1000 /\ q <= 992 * e
      BY <1>1, <1>2
    <2>3. stop = NormalizeBuy(q, 1000)
      BY <2>1
    <2> HIDE DEF q
    <2>4. 1000 \in Nat \ {0}
      OBVIOUS
    <2>5. stop \in Nat /\ 1000 * stop <= q /\ OnLadder(stop) /\ NormalizeBuy(stop, 1) = stop
      BY <2>2, <2>3, <2>4, RoundDown
    <2> QED BY <1>1, <2>2, <2>5
  <1>4. ASSUME NEW stop \in Stops(e), NEW take \in Takes(e, stop)
        PROVE  OnLadder(take) /\ NormalizeSell(take, 1) = take /\ RiskRewardOK(e, take, stop)
    <2>1. stop \in Nat /\ 1000 * stop <= 992 * e
      BY <1>3
    <2>2. PICK x \in {0, 1} : take = NormalizeSell(e * 10 + 16 * (e - stop) + x, 10)
      BY DEF Takes
    <2> DEFINE q == e * 10 + 16 * (e - stop) + x
    <2>3. q \in Nat /\ q >= 10 /\ q >= e * 10 + 16 * (e - stop)
      BY <1>1, <1>2, <2>1
    <2>4. take = NormalizeSell(q, 10)
      BY <2>2
    <2> HIDE DEF q
    <2>5. take \in Nat /\ q <= 10 * take /\ OnLadder(take) /\ NormalizeSell(take, 1) = take
      BY <2>3, <2>4, RoundUp
    <2>6. RiskRewardOK(e, take, stop)
      BY <1>1, <1>2, <2>1, <2>3, <2>5 DEF RiskRewardOK
    <2> QED BY <2>5, <2>6
  <1> QED BY <1>1, <1>3, <1>4 DEF PlanSurvives, e

\* What WorkingIsNotTerminal says of one row.
ReadSafely(row, status, word, flag, named, whole) ==
    /\ (row.rmn > 0 /\ status \in {"FILLED", "CANCELLED", "REJECTED"}) =>
           \/ status = word
           \/ word = NoWord /\ flag /\ status = "REJECTED"
    /\ named => status # "IGNORED"
    /\ (named /\ whole /\ word \in {NoWord, Meant(row)} /\ (flag => row.rjct > 0)) =>
           status = Meant(row)

\* A row with shares still working is read as ended only by its own word or
\* flag, whatever is missing or garbled, and a row that is whole and true is
\* read as what became of the order.
LEMMA RowIsReadSafely ==
    ASSUME NEW row \in Rows, NEW missing \in SUBSET Fields, NEW garbled \in SUBSET Fields,
           NEW word \in Words, NEW flag \in BOOLEAN, NEW named \in BOOLEAN
    PROVE  ReadSafely(row, StatusOf(row, missing, garbled, word, flag, named),
                      word, flag, named, missing \cup garbled = {})
  <1> DEFINE status == StatusOf(row, missing, garbled, word, flag, named)
             ordered == IntValue(row, "ord", missing, garbled)
             filled == IntValue(row, "ccld", missing, garbled)
             remaining == Remaining(row, missing, garbled)
             cancelled == IntValue(row, "cncl", missing, garbled)
             rejected == IntValue(row, "rjct", missing, garbled)
  <1>1. /\ {row.ord, row.ccld, row.cncl, row.rjct, row.rmn} \subseteq Nat /\ row.ord > 0
        /\ row.ccld + row.cncl + row.rjct + row.rmn = row.ord
        /\ row.cncl > 0 => row.rmn = 0 /\ row.rjct = 0
        /\ row.rjct > 0 => row.rjct = row.ord
    BY MaxSharesAssumption DEF Rows, Fields
  <1>2. named => status = ParseStatus(word, flag, ordered, filled, remaining, cancelled, rejected)
    BY DEF StatusOf
  <1>3. ~named => status = "IGNORED"
    BY DEF StatusOf
  <1>4. ASSUME row.rmn > 0
        PROVE  /\ ~(rejected > 0) /\ ~(cancelled > 0)
               /\ ~(ordered > 0 /\ filled >= ordered /\ remaining = 0)
    BY <1>1, <1>4 DEF Remaining, IntValue, Fields
  <1>5. ASSUME missing \cup garbled = {}
        PROVE  /\ ordered = row.ord /\ filled = row.ccld /\ remaining = row.rmn
               /\ cancelled = row.cncl /\ rejected = row.rjct
    BY <1>5 DEF Remaining, IntValue
  <1> HIDE DEF status, ordered, filled, remaining, cancelled, rejected
  <1>6. ASSUME row.rmn > 0, status \in {"FILLED", "CANCELLED", "REJECTED"}
        PROVE  status = word \/ (word = NoWord /\ flag /\ status = "REJECTED")
    <2>1. named
      BY <1>3, <1>6
    <2> QED BY <1>2, <1>4, <1>6, <2>1 DEF ParseStatus
  <1>7. ASSUME named PROVE status # "IGNORED"
    BY <1>2, <1>7 DEF ParseStatus, Words, NoWord
  <1>8. ASSUME named, missing \cup garbled = {}, word \in {NoWord, Meant(row)},
               flag => row.rjct > 0
        PROVE  status = Meant(row)
    <2>1. CASE word # NoWord
      BY <1>2, <1>8, <2>1 DEF ParseStatus
    <2>2. CASE word = NoWord
      <3>1. (rejected > 0 \/ flag) <=> row.rjct > 0
        BY <1>5, <1>8
      <3>2. status = IF row.rjct > 0 THEN "REJECTED"
                     ELSE IF row.cncl > 0 /\ row.rmn = 0 THEN "CANCELLED"
                     ELSE IF row.ord > 0 /\ row.ccld >= row.ord /\ row.rmn = 0 THEN "FILLED"
                     ELSE IF row.ccld > 0 THEN "PARTIALLY_FILLED"
                     ELSE IF row.rmn > 0 \/ row.ord > 0 THEN "UNFILLED" ELSE "UNKNOWN"
        BY <1>2, <1>5, <1>8, <2>2, <3>1 DEF ParseStatus
      <3>3. CASE row.rjct > 0
        BY <1>1, <3>2, <3>3 DEF Meant
      <3>4. CASE ~(row.rjct > 0) /\ row.cncl > 0
        BY <1>1, <3>2, <3>4 DEF Meant
      <3>5. CASE ~(row.rjct > 0) /\ ~(row.cncl > 0)
        BY <1>1, <3>2, <3>5 DEF Meant
      <3> QED BY <3>3, <3>4, <3>5
    <2> QED BY <2>1, <2>2
  <1>9. ReadSafely(row, status, word, flag, named, missing \cup garbled = {})
    BY <1>6, <1>7, <1>8 DEF ReadSafely
  <1> QED BY <1>9 DEF status

\* The three kinds of input are told apart by their fields.
InputOK ==
    \/ "price" \notin DOMAIN input /\ "row" \notin DOMAIN input
    \/ PriceInput
    \/ RowInput

\* Which of them is at hand never changes.
LEMMA InputStays == AnswersSpec => []InputOK
  <1>1. AnswersInit => InputOK
    <2> SUFFICES ASSUME AnswersInit PROVE InputOK
      OBVIOUS
    <2>1. CASE input = <<>>
      BY <2>1 DEF InputOK
    <2>2. CASE FillsInput
      <3>1. PICK f, g, h : input = [fills |-> f, down |-> g, through |-> h]
        BY <2>2 DEF FillsInput
      <3>2. DOMAIN input = {"fills", "down", "through"}
        BY <3>1
      <3> QED BY <3>2 DEF InputOK
    <2> QED BY <2>1, <2>2 DEF AnswersInit, InputOK
  <1>2. InputOK /\ [AnswersNext]_<<vars, input>> => InputOK'
    BY DEF InputOK, PriceInput, RowInput, AnswersNext
  <1> QED BY <1>1, <1>2, PTL DEF AnswersSpec

\* Reading a row of the order listing errs on the safe side, for orders of any
\* size (parse_order_status).
THEOREM RowsAreReadSafely == AnswersSpec => []WorkingIsNotTerminal
  <1>1. InputOK => WorkingIsNotTerminal
    <2> SUFFICES ASSUME InputOK, "row" \in DOMAIN input
                 PROVE  WorkingIsNotTerminal
      BY DEF WorkingIsNotTerminal
    <2>1. CASE RowInput
      <3>1. PICK row \in Rows, m \in SUBSET Fields, word \in Words,
                 flag \in BOOLEAN, named \in BOOLEAN :
              \E g \in SUBSET (Fields \ m) :
                  input = [row |-> row, missing |-> m, garbled |-> g,
                           word |-> word, flag |-> flag, named |-> named]
        BY <2>1 DEF RowInput
      <3>2. PICK g \in SUBSET (Fields \ m) :
              input = [row |-> row, missing |-> m, garbled |-> g,
                       word |-> word, flag |-> flag, named |-> named]
        BY <3>1
      <3>3. /\ input.row = row /\ input.missing = m /\ input.garbled = g /\ input.word = word
        BY <3>2
      <3>4. input.flag = flag /\ input.named = named
        BY <3>2, Zenon
      <3>5. g \in SUBSET Fields
        OBVIOUS
      <3>6. ReadSafely(row, StatusOf(row, m, g, word, flag, named), word, flag, named,
                       m \cup g = {})
        BY <3>5, RowIsReadSafely
      <3> QED BY <3>3, <3>4, <3>6, Zenon DEF WorkingIsNotTerminal, ReadSafely
    <2>2. CASE PriceInput
      BY <2>2 DEF PriceInput
    <2> QED BY <2>1, <2>2 DEF InputOK
  <1> QED BY <1>1, InputStays, PTL

\* A price at hand is one of Prices.
LEMMA PriceAtHand ==
    ASSUME InputOK, "price" \in DOMAIN input
    PROVE  /\ input.price \in Nat /\ input.price >= 2 * Decimals
           /\ Decimals \in Nat \ {0}
  <1>1. ~RowInput
    <2>1. ASSUME NEW r, NEW m, NEW g, NEW w, NEW f, NEW n,
                 input = [row |-> r, missing |-> m, garbled |-> g, word |-> w, flag |-> f, named |-> n]
          PROVE  DOMAIN input = {"row", "missing", "garbled", "word", "flag", "named"}
      BY <2>1
    <2> QED BY <2>1 DEF RowInput
  <1>2. input.price \in Prices
    BY <1>1 DEF InputOK, PriceInput
  <1> QED BY <1>2, PricesAssumption

\* The plan of a BUY keeps its three prices, on the ladder, through the second
\* normalisation and validate_risk_reward, at every entry price of two won or
\* more with any number of decimals (_normalize_buy_risk_plan).
THEOREM PlansAreKept == AnswersSpec => []PlansSurvive
  <1>1. InputOK => PlansSurvive
    BY PriceAtHand, PlanOfEntry DEF PlansSurvive
  <1> QED BY <1>1, InputStays, PTL

\* The limit of a protective SELL is within the policy's slippage at every last
\* price of 200 won or more (plan_sell_limit).
THEOREM ExitsAreAccepted == AnswersSpec => []ExitsAreNotPricedOut
  <1>1. InputOK => ExitsAreNotPricedOut
    BY PriceAtHand, SellsArePlanned DEF ExitsAreNotPricedOut
  <1> QED BY <1>1, InputStays, PTL

-----------------------------------------------------------------------------
(* Induction over the natural numbers, without an operator parameter       *)

\* A set of naturals that is not empty has a least element.
LEMMA LeastNumber ==
    ASSUME NEW S \in SUBSET Nat, S # {}
    PROVE  \E i \in S : \A j \in S : i <= j
  <1> DEFINE R == {p \in Nat \X Nat : p[1] < p[2]}
  <1>1. R = OpToRel(<, Nat)
    BY DEF OpToRel
  <1>2. IsWellFoundedOn(R, Nat)
    BY <1>1, NatLessThanWellFounded
  <1>3. PICK i \in S : \A j \in S : ~(<<j, i>> \in R)
    <2> HIDE DEF R
    <2> QED BY <1>2, WFMin
  <1>4. ASSUME NEW j \in S PROVE i <= j
    <2>1. i \in Nat /\ j \in Nat
      OBVIOUS
    <2>2. j < i => <<j, i>> \in R
      BY <2>1
    <2>3. ~(j < i)
      <3> HIDE DEF R
      <3> QED BY <1>3, <2>2
    <2> QED BY <2>1, <2>3
  <1> QED BY <1>4

\* A set with 0 and with every successor has every natural number.
LEMMA Induction ==
    ASSUME NEW S \in SUBSET Nat, 0 \in S, \A n \in S : n + 1 \in S
    PROVE  \A n \in Nat : n \in S
  <1> SUFFICES ASSUME Nat \ S # {} PROVE FALSE
    OBVIOUS
  <1>1. PICK n \in Nat \ S : \A j \in Nat \ S : n <= j
    BY LeastNumber
  <1>2. n \in Nat /\ n # 0 /\ n - 1 \in Nat
    BY <1>1
  <1>3. n - 1 \in S
    BY <1>1, <1>2
  <1>4. (n - 1) + 1 = n
    BY <1>2
  <1> QED BY <1>1, <1>3, <1>4

\* The greatest of a set of indices.
LEMMA LastIndex ==
    ASSUME NEW N \in Nat, NEW s \in SUBSET (1..N), s # {}
    PROVE  Max(s) \in s /\ \A y \in s : y <= Max(s)
  <1> DEFINE B == {m \in Nat : \A y \in s : y <= m}
  <1>1. B \in SUBSET Nat /\ N \in B
    OBVIOUS
  <1>2. PICK m \in B : \A j \in B : m <= j
    BY <1>1, LeastNumber
  <1>3. m \in s
    <2> SUFFICES ASSUME m \notin s PROVE FALSE
      OBVIOUS
    <2>1. PICK y \in s : TRUE
      OBVIOUS
    <2>2. y \in Nat /\ y >= 1 /\ y <= m /\ m \in Nat
      BY <1>2
    <2>3. \A z \in s : z <= m - 1
      BY <1>2
    <2>4. m - 1 \in B
      BY <2>2, <2>3
    <2> QED BY <1>2, <2>2, <2>4
  <1>4. \E x \in s : \A y \in s : x >= y
    BY <1>2, <1>3
  <1>5. Max(s) \in s /\ \A y \in s : Max(s) >= y
    BY <1>4 DEF Max
  <1> QED BY <1>5

-----------------------------------------------------------------------------
(* Folds over finite sets                                                  *)

\* it[s] is the fold over the part s of D, where pick chooses the element that
\* is taken off; F is the folded operator as a function.
FoldValue(F, b, pick, it, s) == IF s = {} THEN b ELSE F[<<it[s \ {pick[s]}], pick[s]>>]

IsFold(F, b, D, pick, U, it) ==
    /\ it \in [SUBSET D -> U]
    /\ \A s \in SUBSET D : it[s] = FoldValue(F, b, pick, it, s)

IsPick(D, pick) == \A s \in SUBSET D : s # {} => pick[s] \in s

\* Indices are finitely many.
LEMMA IndicesFinite ==
    ASSUME NEW N \in Nat
    PROVE  IsFiniteSet(1..N) /\ Cardinality(1..N) = N
  <1>1. 1 \in Int /\ N \in Int
    OBVIOUS
  <1>2. IsFiniteSet(1..N) /\ Cardinality(1..N) = IF 1 > N THEN 0 ELSE N - 1 + 1
    BY <1>1, FS_Interval
  <1> QED BY <1>2

\* What is left of a part is smaller by one.
LEMMA PickOne ==
    ASSUME NEW D, IsFiniteSet(D), NEW s \in SUBSET D, NEW x \in s
    PROVE  /\ x \in D /\ s \ {x} \in SUBSET D
           /\ Cardinality(s) \in Nat
           /\ Cardinality(s \ {x}) = Cardinality(s) - 1
  <1>1. IsFiniteSet(s)
    BY FS_Subset
  <1> QED BY <1>1, FS_RemoveElement, FS_CardinalityType

\* Every part has a size.
LEMMA PartSizes ==
    ASSUME NEW D, IsFiniteSet(D), NEW s \in SUBSET D
    PROVE  /\ Cardinality(s) \in Nat /\ (Cardinality(s) = 0 <=> s = {})
           /\ Cardinality(D) \in Nat /\ Cardinality(s) <= Cardinality(D)
  <1>1. IsFiniteSet(s) /\ Cardinality(s) <= Cardinality(D)
    BY FS_Subset
  <1> QED BY <1>1, FS_CardinalityType, FS_EmptySet

\* There is such a function: by induction on the size of the parts.
LEMMA FoldExists ==
    ASSUME NEW D, IsFiniteSet(D), NEW pick, IsPick(D, pick),
           NEW U, NEW b \in U, NEW F \in [U \X D -> U]
    PROVE  \E it : IsFold(F, b, D, pick, U, it)
  <1> DEFINE P == SUBSET D
             N == Cardinality(D)
             Upto(g, n) == \A s \in P : Cardinality(s) <= n => g[s] = FoldValue(F, b, pick, g, s)
             Good == {n \in Nat : \E g \in [P -> U] : Upto(g, n)}
  <1>1. \A s \in P : Cardinality(s) \in Nat /\ (Cardinality(s) = 0 <=> s = {})
                     /\ N \in Nat /\ Cardinality(s) <= N
    BY PartSizes
  <1>2. 0 \in Good
    <2> DEFINE g == [s \in P |-> b]
    <2>1. g \in [P -> U]
      OBVIOUS
    <2>2. Upto(g, 0)
      BY <1>1 DEF FoldValue
    <2> QED BY <2>1, <2>2
  <1>3. ASSUME NEW n \in Good PROVE n + 1 \in Good
    <2>1. PICK g \in [P -> U] : Upto(g, n)
      BY <1>3
    <2> DEFINE h == [s \in P |-> IF Cardinality(s) <= n THEN g[s] ELSE FoldValue(F, b, pick, g, s)]
    <2>2. ASSUME NEW s \in P PROVE FoldValue(F, b, pick, g, s) \in U
      <3>1. CASE s = {}
        BY <3>1 DEF FoldValue
      <3>2. CASE s # {}
        <4>1. pick[s] \in D /\ s \ {pick[s]} \in P
          BY <3>2 DEF IsPick
        <4>2. g[s \ {pick[s]}] \in U
          BY <4>1
        <4> QED BY <3>2, <4>1, <4>2 DEF FoldValue
      <3> QED BY <3>1, <3>2
    <2>3. h \in [P -> U]
      BY <2>2
    <2>4. ASSUME NEW s \in P, Cardinality(s) <= n + 1 PROVE h[s] = FoldValue(F, b, pick, h, s)
      <3>1. h[s] = FoldValue(F, b, pick, g, s)
        BY <2>1
      <3>2. CASE s = {}
        BY <3>1, <3>2 DEF FoldValue
      <3>3. CASE s # {}
        <4>0. pick[s] \in s
          BY <3>3 DEF IsPick
        <4>1. /\ s \ {pick[s]} \in P /\ Cardinality(s) \in Nat
              /\ Cardinality(s \ {pick[s]}) = Cardinality(s) - 1
          BY <4>0, PickOne
        <4>2. Cardinality(s \ {pick[s]}) <= n
          BY <2>4, <4>1
        <4>3. h[s \ {pick[s]}] = g[s \ {pick[s]}]
          BY <4>1, <4>2
        <4> HIDE DEF h
        <4> QED BY <3>1, <3>3, <4>3 DEF FoldValue
      <3> QED BY <3>2, <3>3
    <2> HIDE DEF h
    <2>5. Upto(h, n + 1)
      BY <2>4
    <2>6. \E k \in [P -> U] : Upto(k, n + 1)
      BY <2>3, <2>5
    <2>7. n + 1 \in Nat
      OBVIOUS
    <2> HIDE DEF P, Upto
    <2> QED BY <2>6, <2>7
  <1>4. N \in Good
    <2>1. Good \in SUBSET Nat /\ N \in Nat
      BY <1>1
    <2> HIDE DEF Good, N
    <2> QED BY <1>2, <1>3, <2>1, Induction
  <1>5. PICK g \in [P -> U] : Upto(g, N)
    BY <1>4
  <1>6. IsFold(F, b, D, pick, U, g)
    BY <1>1, <1>5 DEF IsFold
  <1> QED BY <1>6

\* The last of some indices.
LastOf(N) == [s \in SUBSET (1..N) |-> Max(s)]

\* A fold over indices takes them from the last one down.
LEMMA LastIsPicked ==
    ASSUME NEW N \in Nat
    PROVE  IsPick(1..N, LastOf(N)) /\ \A s \in SUBSET (1..N) : LastOf(N)[s] = Max(s)
  BY LastIndex DEF IsPick, LastOf

\* The fold over the indices 1..N.
IsIndexFold(F, b, N, U, it) ==
    /\ it \in [SUBSET (1..N) -> U]
    /\ it[{}] = b
    /\ \A s \in SUBSET (1..N) : s # {} =>
          /\ Max(s) \in 1..N /\ s \ {Max(s)} \in SUBSET (1..N)
          /\ it[s \ {Max(s)}] \in U
          /\ it[s] = F[<<it[s \ {Max(s)}], Max(s)>>]

\* There is one.
LEMMA IndexFold ==
    ASSUME NEW N \in Nat, NEW U, NEW b \in U, NEW F \in [U \X (1..N) -> U]
    PROVE  \E it : IsIndexFold(F, b, N, U, it)
  <1>1. PICK it : IsFold(F, b, 1..N, LastOf(N), U, it)
    BY FoldExists, IndicesFinite, LastIsPicked
  <1>2. it \in [SUBSET (1..N) -> U] /\ \A s \in SUBSET (1..N) : it[s] = FoldValue(F, b, LastOf(N), it, s)
    BY <1>1 DEF IsFold
  <1>3. it[{}] = b
    BY <1>2 DEF FoldValue
  <1>4. ASSUME NEW s \in SUBSET (1..N), s # {}
        PROVE  /\ Max(s) \in 1..N /\ s \ {Max(s)} \in SUBSET (1..N)
               /\ it[s] = F[<<it[s \ {Max(s)}], Max(s)>>]
    <2>1. LastOf(N)[s] = Max(s) /\ Max(s) \in s
      BY <1>4, LastIsPicked, LastIndex
    <2>2. it[s] = F[<<it[s \ {Max(s)}], Max(s)>>]
      BY <1>2, <1>4, <2>1 DEF FoldValue
    <2> QED BY <2>1, <2>2
  <1>5. IsIndexFold(F, b, N, U, it)
    BY <1>2, <1>3, <1>4 DEF IsIndexFold
  <1> QED BY <1>5

\* The last index of an initial segment.
LEMMA SegmentLast ==
    ASSUME NEW N \in Nat, NEW j \in 1..N
    PROVE  /\ 1..j \in SUBSET (1..N) /\ 1..j # {} /\ Max(1..j) = j
           /\ (1..j) \ {Max(1..j)} = 1..(j - 1)
  <1>1. 1..j \in SUBSET (1..N) /\ 1..j # {} /\ j \in 1..j
    OBVIOUS
  <1>2. Max(1..j) \in 1..j /\ j <= Max(1..j)
    BY <1>1, LastIndex
  <1>3. Max(1..j) = j
    BY <1>2
  <1> QED BY <1>1, <1>3

\* What every step of a chain keeps holds along the chain.
LEMMA ChainIn ==
    ASSUME NEW N \in Nat, NEW U, NEW g, g[0] \in U,
           \A j \in 1..N : g[j - 1] \in U => g[j] \in U
    PROVE  \A j \in 0..N : g[j] \in U
  <1> DEFINE S == {n \in Nat : n <= N => g[n] \in U}
  <1>1. 0 \in S
    OBVIOUS
  <1>2. ASSUME NEW n \in S PROVE n + 1 \in S
    <2>1. n \in Nat /\ n + 1 \in Nat /\ (n + 1) - 1 = n
      OBVIOUS
    <2>2. n + 1 <= N => g[n + 1] \in U
      BY <2>1
    <2> QED BY <2>1, <2>2
  <1>3. S \in SUBSET Nat
    OBVIOUS
  <1>4. \A n \in Nat : n \in S
    <2> HIDE DEF S
    <2> QED BY <1>1, <1>2, <1>3, Induction
  <1> QED BY <1>4

-----------------------------------------------------------------------------
(* Types                                                                   *)

Lot == [qty: Nat \ {0}, price: Nat]
Match == [remaining: Nat, price: Nat, outcomes: Seq(Int), lots: Seq(Lot)]

\* Products of integers are integers.
LEMMA NetType ==
    ASSUME NEW n \in Int, NEW p \in Int, NEW q \in Int
    PROVE  Net(n, p, q) \in Int
  <1> DEFINE x == 10000 * (q - p) - BuyCostBps * p - SellCostBps * q
  <1>1. x \in Int
    BY DEF BuyCostBps, SellCostBps
  <1> HIDE DEF x
  <1>2. n * x \in Int
    BY <1>1
  <1> USE DEF x
  <1> QED BY <1>2 DEF Net

\* What one round of the loop does with a lot.
LEMMA MatchStep ==
    ASSUME NEW m \in Match, NEW lot \in Lot
    PROVE  LET n == Lesser(m.remaining, lot.qty)
               r == MatchLot(m, lot)
           IN  /\ r \in Match /\ r.price = m.price
               /\ n \in Nat /\ n <= m.remaining /\ n <= lot.qty
               /\ n = m.remaining \/ n = lot.qty
               /\ r.remaining = m.remaining - n
               /\ r.outcomes = IF n = 0 THEN m.outcomes
                               ELSE Append(m.outcomes, Net(n, lot.price, m.price))
               /\ r.lots = IF n = lot.qty THEN m.lots
                           ELSE Append(m.lots, [qty |-> lot.qty - n, price |-> lot.price])
  <1> DEFINE n == Lesser(m.remaining, lot.qty)
             r == MatchLot(m, lot)
             rest == [qty |-> lot.qty - n, price |-> lot.price]
  <1>1. /\ m.remaining \in Nat /\ m.price \in Nat /\ m.outcomes \in Seq(Int) /\ m.lots \in Seq(Lot)
        /\ lot.qty \in Nat \ {0} /\ lot.price \in Nat
    BY DEF Match, Lot
  <1>2. /\ n \in Nat /\ n <= m.remaining /\ n <= lot.qty
        /\ n = m.remaining \/ n = lot.qty
    BY <1>1 DEF Lesser
  <1>3. [lot EXCEPT !.qty = lot.qty - n] = rest
    BY DEF Lot
  <1>4. r = [m EXCEPT !.remaining = m.remaining - n,
                      !.outcomes = IF n = 0 THEN m.outcomes
                                   ELSE Append(m.outcomes, Net(n, lot.price, m.price)),
                      !.lots = IF n = lot.qty THEN m.lots
                               ELSE Append(m.lots, [lot EXCEPT !.qty = lot.qty - n])]
    BY DEF MatchLot
  <1>5. Net(n, lot.price, m.price) \in Int
    <2>1. n \in Int /\ lot.price \in Int /\ m.price \in Int
      BY <1>1, <1>2
    <2> HIDE DEF n
    <2> QED BY <2>1, NetType
  <1>6. n # lot.qty => rest \in Lot
    BY <1>1, <1>2 DEF Lot
  <1> HIDE DEF n, rest
  <1>7. /\ (IF n = 0 THEN m.outcomes ELSE Append(m.outcomes, Net(n, lot.price, m.price))) \in Seq(Int)
        /\ (IF n = lot.qty THEN m.lots ELSE Append(m.lots, rest)) \in Seq(Lot)
        /\ m.remaining - n \in Nat
    BY <1>1, <1>2, <1>5, <1>6
  <1>8. /\ r \in Match /\ r.price = m.price
        /\ r.remaining = m.remaining - n
        /\ r.outcomes = IF n = 0 THEN m.outcomes
                        ELSE Append(m.outcomes, Net(n, lot.price, m.price))
        /\ r.lots = IF n = lot.qty THEN m.lots ELSE Append(m.lots, rest)
    BY <1>3, <1>4, <1>7 DEF Match
  <1> USE DEF n, rest
  <1> QED BY <1>2, <1>8

\* Matching the lots of a queue is a chain of such rounds.
LEMMA MatchFold ==
    ASSUME NEW lots \in Seq(Lot), NEW m0 \in Match
    PROVE  \E g \in [0..Len(lots) -> Match] :
              /\ g[0] = m0 /\ g[Len(lots)] = FoldLeft(MatchLot, m0, lots)
              /\ \A j \in 1..Len(lots) : g[j] = MatchLot(g[j - 1], lots[j])
  <1> DEFINE N == Len(lots)
             P == SUBSET (1..N)
             F == [p \in Match \X (1..N) |-> MatchLot(p[1], lots[p[2]])]
             IsIt(it) == it = [s \in P |-> IF s = {} THEN m0
                                           ELSE MatchLot(it[s \ {Max(s)}], lots[Max(s)])]
             it == CHOOSE x : IsIt(x)
             g == [j \in 0..N |-> it[1..j]]
  <1>1. N \in Nat /\ DOMAIN lots = 1..N /\ \A j \in 1..N : lots[j] \in Lot
    OBVIOUS
  <1>2. FoldLeft(MatchLot, m0, lots) = it[1..N]
    BY <1>1 DEF FoldLeft, MapThenFoldSet
  <1>3. F \in [Match \X (1..N) -> Match]
    BY <1>1, MatchStep
  <1>4. \E x : IsIt(x)
    <2>1. PICK x : IsIndexFold(F, m0, N, Match, x)
      <3> HIDE DEF F, N
      <3> QED BY <1>1, <1>3, IndexFold
    <2>2. ASSUME NEW s \in P, s # {} PROVE x[s] = MatchLot(x[s \ {Max(s)}], lots[Max(s)])
      <3>1. /\ Max(s) \in 1..N /\ x[s \ {Max(s)}] \in Match
            /\ x[s] = F[<<x[s \ {Max(s)}], Max(s)>>]
        <4> HIDE DEF F
        <4> QED BY <2>1, <2>2 DEF IsIndexFold
      <3> QED BY <3>1
    <2>3. \A s \in P : x[s] = IF s = {} THEN m0 ELSE MatchLot(x[s \ {Max(s)}], lots[Max(s)])
      BY <2>1, <2>2 DEF IsIndexFold
    <2>4. IsIt(x)
      BY <2>1, <2>3 DEF IsIndexFold
    <2> QED BY <2>4
  <1>5. IsIt(it)
    BY <1>4
  <1>6. \A s \in P : it[s] = IF s = {} THEN m0 ELSE MatchLot(it[s \ {Max(s)}], lots[Max(s)])
    <2> HIDE DEF it
    <2> QED BY <1>5
  <1> HIDE DEF it
  <1>7. it[1..0] = m0
    <2>1. 1..0 = {} /\ {} \in P
      OBVIOUS
    <2> QED BY <1>6, <2>1
  <1>8. ASSUME NEW j \in 1..N PROVE it[1..j] = MatchLot(it[1..(j - 1)], lots[j])
    BY <1>1, <1>6, SegmentLast
  <1>9. g[0] = m0 /\ \A j \in 1..N : g[j] = MatchLot(g[j - 1], lots[j])
    BY <1>1, <1>7, <1>8
  <1>10. \A j \in 0..N : g[j] \in Match
    <2>1. \A j \in 1..N : g[j - 1] \in Match => g[j] \in Match
      BY <1>1, <1>9, MatchStep
    <2> HIDE DEF g, N
    <2> QED BY <1>1, <1>9, <2>1, ChainIn
  <1>11. g \in [0..N -> Match] /\ g[N] = FoldLeft(MatchLot, m0, lots)
    BY <1>1, <1>2, <1>10
  <1> HIDE DEF g
  <1> QED BY <1>9, <1>11

-----------------------------------------------------------------------------
(* Chains of values and the shares of a history                            *)

\* g[j] is the value after j steps of F from b.
IsChain(F, b, N, U, g) ==
    /\ g \in [0..N -> U]
    /\ g[0] = b
    /\ \A j \in 1..N : g[j] = F[<<g[j - 1], j>>]

\* There is such a chain.
LEMMA ChainExists ==
    ASSUME NEW N \in Nat, NEW U, NEW b \in U, NEW F \in [U \X (1..N) -> U]
    PROVE  \E g : IsChain(F, b, N, U, g)
  <1>1. PICK it : IsIndexFold(F, b, N, U, it)
    BY IndexFold
  <1>2. /\ it \in [SUBSET (1..N) -> U]
        /\ \A s \in SUBSET (1..N) : it[s] = IF s = {} THEN b ELSE F[<<it[s \ {Max(s)}], Max(s)>>]
    BY <1>1 DEF IsIndexFold
  <1> DEFINE g == [j \in 0..N |-> it[1..j]]
  <1>3. \A j \in 0..N : 1..j \in SUBSET (1..N)
    OBVIOUS
  <1>4. g \in [0..N -> U]
    BY <1>2, <1>3
  <1>5. g[0] = b
    <2>1. 1..0 = {} /\ {} \in SUBSET (1..N)
      OBVIOUS
    <2>2. it[{}] = b
      BY <1>2, <2>1
    <2>3. g[0] = it[1..0]
      OBVIOUS
    <2> QED BY <2>1, <2>2, <2>3
  <1>6. ASSUME NEW j \in 1..N PROVE g[j] = F[<<g[j - 1], j>>]
    <2>1. it[1..j] = F[<<it[1..(j - 1)], j>>]
      BY <1>2, SegmentLast
    <2>2. g[j] = it[1..j] /\ g[j - 1] = it[1..(j - 1)]
      OBVIOUS
    <2> HIDE DEF g
    <2> QED BY <2>1, <2>2
  <1>7. IsChain(F, b, N, U, g)
    <2> HIDE DEF g
    <2> QED BY <1>4, <1>5, <1>6 DEF IsChain
  <1> QED BY <1>7

\* Fills of these symbols.
Fill(Y) == [symbol: Y, side: {"BUY", "SELL"}, qty: Nat \ {0}, price: Nat, today: BOOLEAN]

\* The shares of a symbol that one fill, and the first i fills, bought or sold.
Part(fills, s, d, i) == IF fills[i].symbol = s /\ fills[i].side = d THEN fills[i].qty ELSE 0

IsCount(fills, s, d, c) ==
    /\ c \in [0..Len(fills) -> Nat]
    /\ c[0] = 0
    /\ \A i \in 1..Len(fills) : c[i] = c[i - 1] + Part(fills, s, d, i)

Count(fills, s, d) == CHOOSE c : IsCount(fills, s, d, c)

\* A fill is part of a count with its whole quantity, or not at all.
LEMMA PartType ==
    ASSUME NEW Y, NEW fills \in Seq(Fill(Y)), NEW i \in 1..Len(fills), NEW s, NEW d
    PROVE  /\ fills[i] \in Fill(Y) /\ Part(fills, s, d, i) \in Nat
           /\ Part(fills, s, d, i) > 0 <=> fills[i].symbol = s /\ fills[i].side = d
           /\ Part(fills, s, d, i) > 0 => Part(fills, s, d, i) = fills[i].qty
  <1>1. fills[i] \in Fill(Y)
    OBVIOUS
  <1>2. fills[i].qty \in Nat \ {0}
    BY <1>1 DEF Fill
  <1> QED BY <1>1, <1>2 DEF Part

\* There is such a count.
LEMMA CountExists ==
    ASSUME NEW Y, NEW fills \in Seq(Fill(Y)), NEW s, NEW d
    PROVE  IsCount(fills, s, d, Count(fills, s, d))
  <1> DEFINE N == Len(fills)
             F == [p \in Nat \X (1..N) |-> p[1] + Part(fills, s, d, p[2])]
  <1>1. N \in Nat /\ \A i \in 1..N : Part(fills, s, d, i) \in Nat
    BY PartType
  <1>2. F \in [Nat \X (1..N) -> Nat]
    BY <1>1
  <1>3. PICK c : IsChain(F, 0, N, Nat, c)
    <2> HIDE DEF F, N
    <2> QED BY <1>1, <1>2, ChainExists
  <1>4. c \in [0..N -> Nat] /\ c[0] = 0 /\ \A i \in 1..N : c[i] = F[<<c[i - 1], i>>]
    BY <1>3 DEF IsChain
  <1>5. ASSUME NEW i \in 1..N PROVE c[i] = c[i - 1] + Part(fills, s, d, i)
    <2>1. c[i - 1] \in Nat
      BY <1>1, <1>4
    <2> QED BY <1>1, <1>4, <2>1
  <1>6. IsCount(fills, s, d, c)
    BY <1>4, <1>5 DEF IsCount
  <1> QED BY <1>6 DEF Count

\* It grows.
LEMMA CountGrows ==
    ASSUME NEW Y, NEW fills \in Seq(Fill(Y)), NEW s, NEW d,
           NEW c, IsCount(fills, s, d, c),
           NEW i \in 0..Len(fills), NEW j \in 0..Len(fills), i <= j
    PROVE  c[i] <= c[j]
  <1> DEFINE N == Len(fills)
             S == {n \in Nat : i + n <= N => c[i] <= c[i + n]}
  <1>a. N \in Nat /\ \A k \in 1..N : Part(fills, s, d, k) \in Nat
    BY PartType
  <1>b. /\ \A k \in 0..N : c[k] \in Nat
        /\ \A k \in 1..N : c[k] = c[k - 1] + Part(fills, s, d, k)
    BY DEF IsCount
  <1>1. /\ N \in Nat
        /\ \A k \in 1..N : Part(fills, s, d, k) \in Nat
        /\ \A k \in 0..N : c[k] \in Nat
        /\ \A k \in 1..N : c[k] = c[k - 1] + Part(fills, s, d, k)
    BY <1>a, <1>b
  <1>2. 0 \in S
    BY <1>1
  <1>3. ASSUME NEW n \in S PROVE n + 1 \in S
    <2>1. n \in Nat /\ i \in Nat /\ (i + (n + 1)) - 1 = i + n
      OBVIOUS
    <2>2. ASSUME i + (n + 1) <= N PROVE c[i] <= c[i + (n + 1)]
      <3>1. i + n \in 0..N /\ i + (n + 1) \in 1..N /\ c[i] <= c[i + n]
        BY <1>1, <2>1, <2>2
      <3>2. c[i + (n + 1)] = c[i + n] + Part(fills, s, d, i + (n + 1))
        BY <1>1, <2>1, <3>1
      <3> QED BY <1>1, <3>1, <3>2
    <2> QED BY <2>1, <2>2
  <1>4. S \in SUBSET Nat
    OBVIOUS
  <1>5. j - i \in Nat /\ i + (j - i) = j
    OBVIOUS
  <1>6. j - i \in S
    <2> HIDE DEF S
    <2> QED BY <1>2, <1>3, <1>4, <1>5, Induction
  <1> QED BY <1>5, <1>6

\* The k-th share is of one fill only.
LEMMA OneOrigin ==
    ASSUME NEW Y, NEW fills \in Seq(Fill(Y)), NEW s, NEW d,
           NEW c, IsCount(fills, s, d, c), NEW k \in Nat,
           NEW i \in 1..Len(fills), c[i - 1] < k, k <= c[i],
           NEW j \in 1..Len(fills), c[j - 1] < k, k <= c[j]
    PROVE  i = j
  <1>1. /\ \A x \in 0..Len(fills) : c[x] \in Nat
        /\ i - 1 \in 0..Len(fills) /\ j - 1 \in 0..Len(fills)
        /\ i \in 0..Len(fills) /\ j \in 0..Len(fills)
    BY DEF IsCount
  <1>2. ASSUME i < j PROVE FALSE
    <2>1. c[i] <= c[j - 1]
      BY <1>1, <1>2, CountGrows
    <2> QED BY <1>1, <2>1
  <1>3. ASSUME j < i PROVE FALSE
    <2>1. c[j] <= c[i - 1]
      BY <1>1, <1>3, CountGrows
    <2> QED BY <1>1, <2>1
  <1> QED BY <1>2, <1>3

\* A share as the reference has it, and the fill it came with.
Share == [at: Nat, price: Nat, today: BOOLEAN]

OfFill(fills, c, k, w) ==
    /\ w.at \in 1..Len(fills) /\ c[w.at - 1] < k /\ k <= c[w.at]
    /\ w.price = fills[w.at].price /\ w.today = fills[w.at].today

\* w lists the shares of the first j fills.
Lists(fills, c, j, w) ==
    /\ w \in Seq(Share) /\ Len(w) = c[j]
    /\ \A k \in 1..c[j] : OfFill(fills, c, k, w[k])

\* The shares of one fill.
PartShares(fills, s, d, i) ==
    IF fills[i].symbol = s /\ fills[i].side = d
    THEN [k \in 1..fills[i].qty |-> [at |-> i, price |-> fills[i].price, today |-> fills[i].today]]
    ELSE <<>>

\* They are as many as the count says, and all of that fill.
LEMMA PartSharesOf ==
    ASSUME NEW Y, NEW fills \in Seq(Fill(Y)), NEW i \in 1..Len(fills), NEW s, NEW d
    PROVE  /\ PartShares(fills, s, d, i) \in Seq(Share)
           /\ Len(PartShares(fills, s, d, i)) = Part(fills, s, d, i)
           /\ \A k \in 1..Part(fills, s, d, i) : PartShares(fills, s, d, i)[k] =
                [at |-> i, price |-> fills[i].price, today |-> fills[i].today]
  <1> DEFINE w == [at |-> i, price |-> fills[i].price, today |-> fills[i].today]
  <1>1. fills[i].qty \in Nat /\ fills[i].price \in Nat /\ fills[i].today \in BOOLEAN
    BY PartType DEF Fill
  <1>2. w \in Share
    BY <1>1 DEF Share
  <1> HIDE DEF w
  <1>3. CASE fills[i].symbol = s /\ fills[i].side = d
    <2>1. PartShares(fills, s, d, i) = [k \in 1..fills[i].qty |-> w] /\ Part(fills, s, d, i) = fills[i].qty
      BY <1>3 DEF PartShares, Part, w
    <2>2. PartShares(fills, s, d, i) \in [1..fills[i].qty -> Share]
      BY <1>2, <2>1
    <2>3. PartShares(fills, s, d, i) \in Seq(Share) /\ Len(PartShares(fills, s, d, i)) = fills[i].qty
      BY <1>1, <2>2
    <2> QED BY <2>1, <2>3 DEF w
  <1>4. CASE ~(fills[i].symbol = s /\ fills[i].side = d)
    <2>1. PartShares(fills, s, d, i) = <<>> /\ Part(fills, s, d, i) = 0
      BY <1>4 DEF PartShares, Part
    <2> QED BY <2>1
  <1> QED BY <1>3, <1>4

\* Adding the shares of the next fill.
LEMMA ListsNext ==
    ASSUME NEW Y, NEW fills \in Seq(Fill(Y)), NEW s, NEW d, NEW c, IsCount(fills, s, d, c),
           NEW j \in 1..Len(fills), NEW w, Lists(fills, c, j - 1, w)
    PROVE  Lists(fills, c, j, w \o PartShares(fills, s, d, j))
  <1> DEFINE p == PartShares(fills, s, d, j)
             q == Part(fills, s, d, j)
             rec == [at |-> j, price |-> fills[j].price, today |-> fills[j].today]
  <1>1. p \in Seq(Share) /\ Len(p) = q /\ \A k \in 1..q : p[k] = rec
    BY PartSharesOf
  <1>2. q \in Nat /\ c[j - 1] \in Nat /\ c[j] = c[j - 1] + q /\ c[j] \in Nat
    BY PartType DEF IsCount
  <1>3. w \in Seq(Share) /\ Len(w) = c[j - 1] /\ \A k \in 1..c[j - 1] : OfFill(fills, c, k, w[k])
    BY DEF Lists
  <1> HIDE DEF p, q
  <1>4. /\ w \o p \in Seq(Share) /\ Len(w \o p) = c[j]
        /\ \A k \in 1..c[j - 1] : (w \o p)[k] = w[k]
        /\ \A k \in 1..q : (w \o p)[c[j - 1] + k] = p[k]
    <2>1. /\ w \o p \in Seq(Share) /\ Len(w \o p) = Len(w) + Len(p)
          /\ \A k \in 1..Len(w) : (w \o p)[k] = w[k]
          /\ \A k \in 1..Len(p) : (w \o p)[Len(w) + k] = p[k]
      <3>1. w \in Seq(Share) /\ p \in Seq(Share)
        BY <1>1, <1>3
      <3> QED BY <3>1
    <2>2. Len(w) = c[j - 1] /\ Len(p) = q
      BY <1>1, <1>3
    <2> QED BY <1>2, <2>1, <2>2, Zenon
  <1>5. ASSUME NEW k \in 1..c[j] PROVE OfFill(fills, c, k, (w \o p)[k])
    <2>1. CASE k <= c[j - 1]
      <3>1. k \in 1..c[j - 1]
        BY <1>2, <2>1
      <3> QED BY <1>3, <1>4, <3>1
    <2>2. CASE k > c[j - 1]
      <3>1. k - c[j - 1] \in 1..q /\ k = c[j - 1] + (k - c[j - 1])
        BY <1>2, <2>2
      <3>2. (w \o p)[c[j - 1] + (k - c[j - 1])] = rec
        BY <1>1, <1>4, <3>1
      <3>3. (w \o p)[k] = rec
        BY <3>1, <3>2
      <3>4. rec.at = j /\ rec.price = fills[j].price /\ rec.today = fills[j].today
        OBVIOUS
      <3> HIDE DEF rec
      <3>5. OfFill(fills, c, k, rec)
        BY <1>2, <2>2, <3>4 DEF OfFill
      <3> QED BY <3>3, <3>5, Zenon
    <2>3. k <= c[j - 1] \/ k > c[j - 1]
      BY <1>2
    <2> QED BY <2>1, <2>2, <2>3, Zenon
  <1>6. Lists(fills, c, j, w \o p)
    BY <1>4, <1>5 DEF Lists
  <1> QED BY <1>6 DEF p

\* Shares lists the shares of all the fills.
LEMMA SharesOf ==
    ASSUME NEW Y, NEW fills \in Seq(Fill(Y)), NEW s, NEW d, NEW c, IsCount(fills, s, d, c)
    PROVE  Lists(fills, c, Len(fills), Shares(fills, s, d))
  <1> DEFINE N == Len(fills)
             seqs == [i \in 1..N |-> PartShares(fills, s, d, i)]
             IsFl(fl) == fl = [i \in 1..N |-> IF i = 1 THEN seqs[i] ELSE fl[i - 1] \o seqs[i]]
             fl == CHOOSE x : IsFl(x)
  <1>1. N \in Nat /\ Len(seqs) = N
    OBVIOUS
  <1>2. Shares(fills, s, d) = FlattenSeq(seqs)
    BY DEF Shares, PartShares
  <1>3. Lists(fills, c, 0, <<>>)
    <2>1. c[0] = 0
      BY DEF IsCount
    <2> QED BY <2>1 DEF Lists
  <1>4. CASE N = 0
    <2>1. seqs = <<>>
      BY <1>4
    <2>2. Shares(fills, s, d) = <<>>
      BY <1>1, <1>2, <1>4, <2>1 DEF FlattenSeq
    <2> QED BY <1>3, <1>4, <2>2
  <1>5. CASE N # 0
    <2>1. Shares(fills, s, d) = fl[N]
      <3>1. FlattenSeq(seqs) = (CHOOSE x : x = [i \in 1..Len(seqs) |-> IF i = 1 THEN seqs[i] ELSE x[i - 1] \o seqs[i]])[Len(seqs)]
        <4> HIDE DEF seqs
        <4> QED BY <1>1, <1>5 DEF FlattenSeq
      <3> HIDE DEF seqs
      <3> QED BY <1>1, <1>2, <3>1
    <2>2. \E x : IsFl(x)
      <3> DEFINE U == Seq(Share)
                 F == [p \in U \X (1..N) |-> p[1] \o seqs[p[2]]]
      <3>1. \A i \in 1..N : seqs[i] \in U
        BY PartSharesOf
      <3>2. <<>> \in U /\ \A u \in U, v \in U : u \o v \in U
        OBVIOUS
      <3>3. F \in [U \X (1..N) -> U]
        BY <3>1, <3>2
      <3>4. PICK g : IsChain(F, <<>>, N, U, g)
        <4> HIDE DEF F, N, U
        <4> QED BY <1>1, <3>2, <3>3, ChainExists
      <3>5. g \in [0..N -> U] /\ g[0] = <<>> /\ \A j \in 1..N : g[j] = F[<<g[j - 1], j>>]
        BY <3>4 DEF IsChain
      <3>6. ASSUME NEW j \in 1..N PROVE g[j] = g[j - 1] \o seqs[j]
        <4>1. g[j - 1] \in U
          BY <3>5
        <4> HIDE DEF seqs, U
        <4> QED BY <3>5, <4>1
      <3> DEFINE x == [i \in 1..N |-> g[i]]
      <3>7. ASSUME NEW j \in 1..N PROVE x[j] = IF j = 1 THEN seqs[j] ELSE x[j - 1] \o seqs[j]
        <4>1. CASE j = 1
          <5>1. g[1] = <<>> \o seqs[1]
            <6>1. g[1] = g[0] \o seqs[1]
              <7>1. 1 \in 1..N /\ 1 - 1 = 0
                BY <4>1
              <7>2. g[1] = g[1 - 1] \o seqs[1]
                BY <3>6, <7>1
              <7> HIDE DEF seqs
              <7> QED BY <7>1, <7>2
            <6> HIDE DEF seqs
            <6> QED BY <3>5, <6>1
          <5>2. <<>> \o seqs[1] = seqs[1]
            BY <3>1, <4>1
          <5> HIDE DEF seqs
          <5> QED BY <4>1, <5>1, <5>2
        <4>2. CASE j # 1
          <5>1. j - 1 \in 1..N /\ x[j] = g[j] /\ x[j - 1] = g[j - 1]
            BY <4>2
          <5> HIDE DEF seqs, x
          <5> QED BY <3>6, <4>2, <5>1
        <4> QED BY <4>1, <4>2
      <3>8. IsFl(x)
        <4> HIDE DEF seqs
        <4> QED BY <3>7
      <3> QED BY <3>8
    <2>3. IsFl(fl)
      BY <2>2
    <2>4. \A i \in 1..N : fl[i] = IF i = 1 THEN seqs[i] ELSE fl[i - 1] \o seqs[i]
      <3> HIDE DEF fl, seqs
      <3> QED BY <2>3
    <2> HIDE DEF fl
    <2> DEFINE S == {n \in Nat : n + 1 <= N => Lists(fills, c, n + 1, fl[n + 1])}
    <2>5. 0 \in S
      <3>1. 1 \in 1..N /\ 0 + 1 = 1 /\ 1 - 1 = 0
        BY <1>1, <1>5
      <3>2. fl[1] = PartShares(fills, s, d, 1)
        BY <2>4, <3>1
      <3>3. PartShares(fills, s, d, 1) \in Seq(Share)
        BY <3>1, PartSharesOf
      <3>4. <<>> \o PartShares(fills, s, d, 1) = PartShares(fills, s, d, 1)
        BY <3>3
      <3>5. Lists(fills, c, 1, <<>> \o PartShares(fills, s, d, 1))
        BY <1>3, <3>1, ListsNext
      <3> QED BY <3>1, <3>2, <3>4, <3>5
    <2>6. ASSUME NEW n \in S PROVE n + 1 \in S
      <3>1. n \in Nat /\ n + 1 \in Nat
        OBVIOUS
      <3>2. ASSUME (n + 1) + 1 <= N PROVE Lists(fills, c, (n + 1) + 1, fl[(n + 1) + 1])
        <4> DEFINE j == (n + 1) + 1
        <4>1. j \in 1..N /\ j # 1 /\ j - 1 = n + 1 /\ Lists(fills, c, n + 1, fl[n + 1])
          BY <1>1, <3>1, <3>2
        <4>2. fl[j] = fl[j - 1] \o PartShares(fills, s, d, j)
          BY <2>4, <4>1
        <4> HIDE DEF j
        <4>3. Lists(fills, c, j, fl[j - 1] \o PartShares(fills, s, d, j))
          BY <4>1, ListsNext
        <4>4. Lists(fills, c, j, fl[j])
          BY <4>2, <4>3
        <4> QED BY <4>4 DEF j
      <3> QED BY <3>1, <3>2
    <2>7. S \in SUBSET Nat
      OBVIOUS
    <2>8. N - 1 \in Nat /\ (N - 1) + 1 = N
      BY <1>1, <1>5
    <2>9. N - 1 \in S
      <3> HIDE DEF S
      <3> QED BY <2>5, <2>6, <2>7, <2>8, Induction
    <2>10. Lists(fills, c, N, fl[N])
      BY <2>8, <2>9
    <2> QED BY <2>1, <2>10
  <1> QED BY <1>4, <1>5

-----------------------------------------------------------------------------
(* What the outcomes of a SELL add up to                                   *)

\* g[j] is the sum of the first j numbers.
AddUp(o, g) ==
    /\ g \in [0..Len(o) -> Int]
    /\ g[0] = 0
    /\ \A j \in 1..Len(o) : g[j] = g[j - 1] + o[j]

IsTotal(o, t) == \E g : AddUp(o, g) /\ t = g[Len(o)]

\* The program's sum is the total.
LEMMA TotalFold ==
    ASSUME NEW o \in Seq(Int)
    PROVE  IsTotal(o, FoldLeft(+, 0, o))
  <1> DEFINE N == Len(o)
             P == SUBSET (1..N)
             F == [p \in Int \X (1..N) |-> p[1] + o[p[2]]]
             IsIt(it) == it = [s \in P |-> IF s = {} THEN 0 ELSE it[s \ {Max(s)}] + o[Max(s)]]
             it == CHOOSE x : IsIt(x)
             g == [j \in 0..N |-> it[1..j]]
  <1>1. N \in Nat /\ DOMAIN o = 1..N /\ \A j \in 1..N : o[j] \in Int
    OBVIOUS
  <1>2. FoldLeft(+, 0, o) = it[1..N]
    BY <1>1 DEF FoldLeft, MapThenFoldSet
  <1>3. F \in [Int \X (1..N) -> Int]
    BY <1>1
  <1>4. \E x : IsIt(x)
    <2>1. PICK x : IsIndexFold(F, 0, N, Int, x)
      <3>1. 0 \in Int
        OBVIOUS
      <3> HIDE DEF F, N
      <3> QED BY <1>1, <1>3, <3>1, IndexFold
    <2>2. ASSUME NEW s \in P, s # {} PROVE x[s] = x[s \ {Max(s)}] + o[Max(s)]
      <3>1. /\ Max(s) \in 1..N /\ x[s \ {Max(s)}] \in Int
            /\ x[s] = F[<<x[s \ {Max(s)}], Max(s)>>]
        <4> HIDE DEF F
        <4> QED BY <2>1, <2>2 DEF IsIndexFold
      <3> QED BY <3>1
    <2>3. \A s \in P : x[s] = IF s = {} THEN 0 ELSE x[s \ {Max(s)}] + o[Max(s)]
      BY <2>1, <2>2 DEF IsIndexFold
    <2>4. IsIt(x)
      BY <2>1, <2>3 DEF IsIndexFold
    <2> QED BY <2>4
  <1>5. IsIt(it)
    BY <1>4
  <1>6. \A s \in P : it[s] = IF s = {} THEN 0 ELSE it[s \ {Max(s)}] + o[Max(s)]
    <2> HIDE DEF it
    <2> QED BY <1>5
  <1> HIDE DEF it
  <1>7. it[1..0] = 0
    <2>1. 1..0 = {} /\ {} \in P
      OBVIOUS
    <2> QED BY <1>6, <2>1
  <1>8. ASSUME NEW j \in 1..N PROVE it[1..j] = it[1..(j - 1)] + o[j]
    BY <1>1, <1>6, SegmentLast
  <1>9. g[0] = 0 /\ \A j \in 1..N : g[j] = g[j - 1] + o[j]
    BY <1>1, <1>7, <1>8
  <1>10. \A j \in 0..N : g[j] \in Int
    <2>1. g[0] \in Int
      BY <1>9
    <2> HIDE DEF g
    <2>2. \A j \in 1..N : g[j - 1] \in Int => g[j] \in Int
      BY <1>1, <1>9
    <2> HIDE DEF N
    <2> QED BY <1>1, <2>1, <2>2, ChainIn
  <1>11. g \in [0..N -> Int] /\ g[N] = it[1..N]
    BY <1>1, <1>10
  <1>12. AddUp(o, g)
    <2> HIDE DEF g
    <2> QED BY <1>9, <1>11 DEF AddUp
  <1>13. IsTotal(o, it[1..N])
    <2> HIDE DEF g
    <2> QED BY <1>11, <1>12 DEF IsTotal
  <1> QED BY <1>2, <1>13, Zenon

\* Numbers have one total.
LEMMA OneTotal ==
    ASSUME NEW o \in Seq(Int), NEW t, NEW u, IsTotal(o, t), IsTotal(o, u)
    PROVE  t = u /\ t \in Int
  <1> DEFINE N == Len(o)
  <1>1. PICK g : AddUp(o, g) /\ t = g[N]
    BY DEF IsTotal
  <1>2. PICK h : AddUp(o, h) /\ u = h[N]
    BY DEF IsTotal
  <1> DEFINE S == {n \in Nat : n <= N => g[n] = h[n]}
  <1>3. N \in Nat /\ S \in SUBSET Nat
    OBVIOUS
  <1>4. 0 \in S
    BY <1>1, <1>2 DEF AddUp
  <1>5. ASSUME NEW n \in S PROVE n + 1 \in S
    <2>1. n \in Nat /\ (n + 1) - 1 = n /\ (n + 1 <= N => n + 1 \in 1..N)
      OBVIOUS
    <2>2. ASSUME n + 1 <= N PROVE g[n + 1] = h[n + 1]
      <3>1. g[n] = h[n]
        BY <1>3, <2>1, <2>2
      <3>2. g[n + 1] = g[n] + o[n + 1] /\ h[n + 1] = h[n] + o[n + 1]
        BY <1>1, <1>2, <2>1, <2>2 DEF AddUp
      <3> QED BY <3>1, <3>2
    <2> QED BY <2>1, <2>2
  <1>6. N \in S
    <2> HIDE DEF S, N
    <2> QED BY <1>3, <1>4, <1>5, Induction
  <1>7. g[N] \in Int
    BY <1>1, <1>3 DEF AddUp
  <1> QED BY <1>1, <1>2, <1>3, <1>6, <1>7

\* One more number.
LEMMA TotalAppend ==
    ASSUME NEW o \in Seq(Int), NEW t, IsTotal(o, t), NEW v \in Int
    PROVE  IsTotal(Append(o, v), t + v)
  <1> DEFINE N == Len(o)
             p == Append(o, v)
  <1>1. PICK g : AddUp(o, g) /\ t = g[N]
    BY DEF IsTotal
  <1>2. /\ N \in Nat /\ p \in Seq(Int) /\ Len(p) = N + 1 /\ p[N + 1] = v
        /\ \A j \in 1..N : p[j] = o[j]
    OBVIOUS
  <1> DEFINE h == [j \in 0..(N + 1) |-> IF j <= N THEN g[j] ELSE g[N] + v]
  <1>3. g \in [0..N -> Int] /\ g[0] = 0 /\ \A j \in 1..N : g[j] = g[j - 1] + o[j]
    BY <1>1 DEF AddUp
  <1> HIDE DEF p, N
  <1>4. h \in [0..(N + 1) -> Int] /\ h[0] = 0 /\ h[N + 1] = g[N] + v /\ h[N] = g[N]
    BY <1>2, <1>3
  <1>5. \A j \in 1..(N + 1) : h[j] = h[j - 1] + p[j]
    <2> SUFFICES ASSUME NEW j \in 1..(N + 1) PROVE h[j] = h[j - 1] + p[j]
      OBVIOUS
    <2>1. CASE j <= N
      <3>1. j \in 1..N /\ j - 1 \in 0..N /\ j \in 0..(N + 1) /\ j - 1 \in 0..(N + 1)
        BY <1>2, <2>1
      <3>2. h[j] = g[j] /\ h[j - 1] = g[j - 1]
        BY <2>1, <3>1
      <3> QED BY <1>2, <1>3, <3>1, <3>2
    <2>2. CASE j = N + 1
      BY <1>2, <1>4, <2>2
    <2> QED BY <1>2, <2>1, <2>2
  <1>6. AddUp(p, h) /\ t + v = h[Len(p)]
    <2> HIDE DEF h
    <2> QED BY <1>1, <1>2, <1>4, <1>5 DEF AddUp
  <1>7. IsTotal(p, t + v)
    BY <1>6 DEF IsTotal
  <1> QED BY <1>7 DEF p

\* No number, no total.
LEMMA TotalOfNone == IsTotal(<<>>, 0)
  <1> DEFINE g == [j \in 0..0 |-> 0]
  <1>1. AddUp(<<>>, g) /\ 0 = g[Len(<<>>)]
    BY DEF AddUp
  <1> QED BY <1>1 DEF IsTotal

-----------------------------------------------------------------------------
(* The book after each fill                                                *)

\* What is left of a SELL, and of the lots, once they are matched.
Matched(lots, f) ==
    FoldLeft(MatchLot, [remaining |-> f.qty, price |-> f.price,
                        outcomes |-> <<>>, lots |-> <<>>], lots)

Gain(o) == FoldLeft(+, 0, o)

Books(Y) == [lots: [Y -> Seq(Lot)], outcomes: Seq(Int), today: Int, ok: BOOLEAN]

EmptyBook(Y) == [lots |-> [s \in Y |-> <<>>], outcomes |-> <<>>, today |-> 0, ok |-> TRUE]

\* A book that failed stays as it is.
LEMMA ApplyNot ==
    ASSUME NEW Y, NEW f \in Fill(Y), NEW b \in Books(Y), ~b.ok
    PROVE  Apply(b, f) = b
  BY DEF Apply

\* A BUY opens a lot.
BuyLots(b, f) ==
    [b.lots EXCEPT ![f.symbol] = Append(b.lots[f.symbol], [qty |-> f.qty, price |-> f.price])]

\* What a BUY leaves of the book.
LEMMA ApplyBuy ==
    ASSUME NEW Y, NEW f \in Fill(Y), NEW b \in Books(Y), b.ok, f.side = "BUY"
    PROVE  /\ Apply(b, f) \in Books(Y)
           /\ Apply(b, f).lots = BuyLots(b, f)
           /\ Apply(b, f).outcomes = b.outcomes
           /\ Apply(b, f).today = b.today
           /\ Apply(b, f).ok
  <1> DEFINE lots == b.lots[f.symbol]
             lot == [qty |-> f.qty, price |-> f.price]
             new == BuyLots(b, f)
  <1>1. f.symbol \in Y /\ f.qty \in Nat \ {0} /\ f.price \in Nat
    BY DEF Fill
  <1>2. /\ b.lots \in [Y -> Seq(Lot)] /\ b.outcomes \in Seq(Int) /\ b.today \in Int /\ b.ok \in BOOLEAN
        /\ lots \in Seq(Lot) /\ lot \in Lot
    BY <1>1 DEF Books, Lot
  <1>3. Append(lots, lot) \in Seq(Lot)
    BY <1>2
  <1>4. new \in [Y -> Seq(Lot)]
    <2>1. new = [b.lots EXCEPT ![f.symbol] = Append(lots, lot)]
      BY DEF BuyLots
    <2> HIDE DEF lots, lot, new
    <2> QED BY <1>1, <1>2, <1>3, <2>1
  <1>5. Apply(b, f) = [b EXCEPT !.lots = new]
    BY DEF Apply, BuyLots
  <1> HIDE DEF new
  <1>6. /\ Apply(b, f) \in Books(Y) /\ Apply(b, f).lots = new /\ Apply(b, f).outcomes = b.outcomes
        /\ Apply(b, f).today = b.today /\ Apply(b, f).ok = b.ok
    BY <1>2, <1>4, <1>5 DEF Books
  <1> QED BY <1>6 DEF new

\* A SELL closes lots and says what that brought.
SellLots(b, f, m) == [b.lots EXCEPT ![f.symbol] = m.lots]
SellToday(b, f, m) == b.today + (IF f.today THEN Gain(m.outcomes) ELSE 0)

\* The SELL f leaves m of the lots of b, and the book a.
Closes(b, f, m, a) ==
    /\ m \in Match
    /\ a.outcomes = b.outcomes \o m.outcomes
    /\ a.today = SellToday(b, f, m)
    /\ a.ok <=> m.remaining = 0

\* What a SELL leaves of the book.
LEMMA ApplySell ==
    ASSUME NEW Y, NEW f \in Fill(Y), NEW b \in Books(Y), b.ok, f.side = "SELL",
           NEW m, m = Matched(b.lots[f.symbol], f)
    PROVE  /\ m \in Match
           /\ Apply(b, f) \in Books(Y)
           /\ Apply(b, f).lots = SellLots(b, f, m)
           /\ Apply(b, f).outcomes = b.outcomes \o m.outcomes
           /\ Apply(b, f).today = SellToday(b, f, m)
           /\ Apply(b, f).ok <=> m.remaining = 0
           /\ Closes(b, f, m, Apply(b, f))
  <1> DEFINE lots == b.lots[f.symbol]
             m0 == [remaining |-> f.qty, price |-> f.price, outcomes |-> <<>>, lots |-> <<>>]
             gain == Gain(m.outcomes)
  <1>1. /\ f.symbol \in Y /\ f.qty \in Nat \ {0} /\ f.price \in Nat /\ f.today \in BOOLEAN
    BY DEF Fill
  <1>2. /\ b.lots \in [Y -> Seq(Lot)] /\ b.outcomes \in Seq(Int) /\ b.today \in Int /\ b.ok \in BOOLEAN
        /\ lots \in Seq(Lot)
    BY <1>1 DEF Books
  <1>3. m0 \in Match
    BY <1>1 DEF Match
  <1>4. m \in Match
    <2> HIDE DEF lots
    <2>1. PICK g \in [0..Len(lots) -> Match] : g[Len(lots)] = FoldLeft(MatchLot, m0, lots)
      <3> HIDE DEF m0
      <3> QED BY <1>2, <1>3, MatchFold
    <2>2. g[Len(lots)] \in Match
      <3>1. Len(lots) \in 0..Len(lots)
        BY <1>2
      <3> QED BY <2>1, <3>1
    <2>3. m = g[Len(lots)]
      BY <2>1, Zenon DEF Matched, lots
    <2> QED BY <2>2, <2>3
  <1>5. m.outcomes \in Seq(Int) /\ m.lots \in Seq(Lot) /\ m.remaining \in Nat
    BY <1>4 DEF Match
  <1>6. gain \in Int
    <2> DEFINE o == m.outcomes
    <2>1. o \in Seq(Int)
      BY <1>5
    <2> HIDE DEF o
    <2>2. IsTotal(o, Gain(o))
      BY <2>1, TotalFold, Zenon DEF Gain
    <2>3. Gain(o) \in Int
      BY <2>1, <2>2, OneTotal
    <2> QED BY <2>3 DEF o
  <1> DEFINE L == SellLots(b, f, m)
             O == b.outcomes \o m.outcomes
             T == SellToday(b, f, m)
             K == m.remaining = 0
  <1>7. Apply(b, f) = [lots |-> L, outcomes |-> O, today |-> T, ok |-> K]
    <2>1. Apply(b, f) = [lots |-> [b.lots EXCEPT ![f.symbol] = m.lots],
                         outcomes |-> b.outcomes \o m.outcomes,
                         today |-> b.today + (IF f.today THEN FoldLeft(+, 0, m.outcomes) ELSE 0),
                         ok |-> m.remaining = 0]
      BY DEF Apply, Matched
    <2> QED BY <2>1, Zenon DEF Gain, SellLots, SellToday
  <1> HIDE DEF gain
  <1>8. L \in [Y -> Seq(Lot)] /\ O \in Seq(Int) /\ T \in Int /\ K \in BOOLEAN
    BY <1>1, <1>2, <1>5, <1>6 DEF SellLots, SellToday, gain
  <1> HIDE DEF L, O, T, K
  <1>9. Apply(b, f) \in Books(Y)
    BY <1>7, <1>8 DEF Books
  <1>10. Apply(b, f).lots = L /\ Apply(b, f).outcomes = O /\ Apply(b, f).today = T
    BY <1>7
  <1>11. Apply(b, f).ok = K
    BY <1>7
  <1> USE DEF L, O, T, K
  <1>12. Closes(b, f, m, Apply(b, f))
    BY <1>4, <1>10, <1>11, Zenon DEF Closes
  <1> QED BY <1>4, <1>9, <1>10, <1>11, <1>12, Zenon

\* The type of what is computed.
LEMMA ApplyType ==
    ASSUME NEW Y, NEW f \in Fill(Y), NEW b \in Books(Y)
    PROVE  Apply(b, f) \in Books(Y)
  <1>1. f.side = "BUY" \/ f.side = "SELL"
    BY DEF Fill
  <1>2. CASE ~b.ok
    <2>1. Apply(b, f) = b
      BY <1>2, ApplyNot
    <2> QED BY <2>1
  <1>3. CASE b.ok /\ f.side = "BUY"
    BY <1>3, ApplyBuy
  <1>4. CASE b.ok /\ f.side = "SELL"
    BY <1>4, ApplySell
  <1> QED BY <1>1, <1>2, <1>3, <1>4

\* g[i] is the book after i fills.
IsBook(fills, Y, g) ==
    /\ g \in [0..Len(fills) -> Books(Y)]
    /\ g[0] = EmptyBook(Y)
    /\ \A i \in 1..Len(fills) : g[i] = Apply(g[i - 1], fills[i])
    /\ g[Len(fills)] = Book(fills, Y)

\* There is such a sequence of books.
LEMMA BookChain ==
    ASSUME NEW Y, NEW fills \in Seq(Fill(Y))
    PROVE  \E g : IsBook(fills, Y, g)
  <1> DEFINE N == Len(fills)
             U == Books(Y)
             b0 == EmptyBook(Y)
             P == SUBSET (1..N)
             F == [p \in U \X (1..N) |-> Apply(p[1], fills[p[2]])]
             IsIt(it) == it = [s \in P |-> IF s = {} THEN b0
                                           ELSE Apply(it[s \ {Max(s)}], fills[Max(s)])]
             it == CHOOSE x : IsIt(x)
             g == [j \in 0..N |-> it[1..j]]
  <1>1. N \in Nat /\ DOMAIN fills = 1..N /\ \A j \in 1..N : fills[j] \in Fill(Y)
    OBVIOUS
  <1>2. Book(fills, Y) = it[1..N]
    BY <1>1 DEF Book, EmptyBook, FoldLeft, MapThenFoldSet
  <1>3. F \in [U \X (1..N) -> U] /\ b0 \in U
    <2>1. ASSUME NEW p \in U \X (1..N) PROVE Apply(p[1], fills[p[2]]) \in U
      <3>1. p[1] \in U /\ fills[p[2]] \in Fill(Y)
        BY <1>1
      <3> QED BY <3>1, ApplyType
    <2>2. b0 \in U
      BY DEF Books, EmptyBook
    <2> HIDE DEF U
    <2> QED BY <2>1, <2>2
  <1>4. \E x : IsIt(x)
    <2>1. PICK x : IsIndexFold(F, b0, N, U, x)
      <3> HIDE DEF F, N, U, b0
      <3> QED BY <1>1, <1>3, IndexFold
    <2>2. ASSUME NEW s \in P, s # {} PROVE x[s] = Apply(x[s \ {Max(s)}], fills[Max(s)])
      <3>1. /\ Max(s) \in 1..N /\ x[s \ {Max(s)}] \in U
            /\ x[s] = F[<<x[s \ {Max(s)}], Max(s)>>]
        <4> HIDE DEF F, U
        <4> QED BY <2>1, <2>2 DEF IsIndexFold
      <3> HIDE DEF U
      <3> QED BY <3>1
    <2>3. \A s \in P : x[s] = IF s = {} THEN b0 ELSE Apply(x[s \ {Max(s)}], fills[Max(s)])
      BY <2>1, <2>2 DEF IsIndexFold
    <2>4. IsIt(x)
      BY <2>1, <2>3 DEF IsIndexFold
    <2> QED BY <2>4
  <1>5. IsIt(it)
    BY <1>4
  <1>6. \A s \in P : it[s] = IF s = {} THEN b0 ELSE Apply(it[s \ {Max(s)}], fills[Max(s)])
    <2> HIDE DEF it
    <2> QED BY <1>5
  <1> HIDE DEF it, U, b0
  <1>7. it[1..0] = b0
    <2>1. 1..0 = {} /\ {} \in P
      OBVIOUS
    <2> QED BY <1>6, <2>1
  <1>8. ASSUME NEW j \in 1..N PROVE it[1..j] = Apply(it[1..(j - 1)], fills[j])
    BY <1>1, <1>6, SegmentLast
  <1>9. g[0] = b0 /\ \A j \in 1..N : g[j] = Apply(g[j - 1], fills[j])
    BY <1>1, <1>7, <1>8
  <1>10. \A j \in 0..N : g[j] \in U
    <2>1. g[0] \in U
      BY <1>3, <1>9
    <2> HIDE DEF g
    <2>2. \A j \in 1..N : g[j - 1] \in U => g[j] \in U
      <3> SUFFICES ASSUME NEW j \in 1..N, g[j - 1] \in U PROVE g[j] \in U
        OBVIOUS
      <3>1. fills[j] \in Fill(Y) /\ g[j - 1] \in Books(Y)
        BY <1>1 DEF U
      <3>2. Apply(g[j - 1], fills[j]) \in Books(Y)
        BY <3>1, ApplyType
      <3> QED BY <1>9, <3>2 DEF U
    <2> HIDE DEF N
    <2> QED BY <1>1, <2>1, <2>2, ChainIn
  <1>11. g \in [0..N -> U] /\ g[N] = Book(fills, Y)
    BY <1>1, <1>2, <1>10
  <1>12. IsBook(fills, Y, g)
    <2> HIDE DEF g
    <2> QED BY <1>9, <1>11 DEF IsBook, U, b0
  <1> QED BY <1>12

-----------------------------------------------------------------------------
(* Oversold, by the counts                                                 *)

\* The shares of the first i fills are as many as the count says.
LEMMA PrefixCount ==
    ASSUME NEW Y, NEW fills \in Seq(Fill(Y)), NEW s, NEW d, NEW i \in 1..Len(fills)
    PROVE  Len(Shares(SubSeq(fills, 1, i), s, d)) = Count(fills, s, d)[i]
  <1> DEFINE u == SubSeq(fills, 1, i)
             c == Count(fills, s, d)
             e == [j \in 0..i |-> c[j]]
  <1>1. u \in Seq(Fill(Y)) /\ Len(u) = i /\ \A j \in 1..i : u[j] = fills[j]
    OBVIOUS
  <1>2. /\ c \in [0..Len(fills) -> Nat] /\ c[0] = 0
        /\ \A j \in 1..Len(fills) : c[j] = c[j - 1] + Part(fills, s, d, j)
    BY CountExists DEF IsCount
  <1> HIDE DEF u, c
  <1>3. e \in [0..i -> Nat] /\ e[0] = 0 /\ e[i] = c[i]
    BY <1>2
  <1>4. ASSUME NEW j \in 1..i PROVE e[j] = e[j - 1] + Part(u, s, d, j)
    <2>1. Part(u, s, d, j) = Part(fills, s, d, j)
      BY <1>1 DEF Part
    <2>2. j \in 1..Len(fills) /\ e[j] = c[j] /\ e[j - 1] = c[j - 1]
      OBVIOUS
    <2> HIDE DEF e
    <2> QED BY <1>2, <2>1, <2>2
  <1>5. IsCount(u, s, d, e)
    <2> HIDE DEF e
    <2> QED BY <1>1, <1>3, <1>4 DEF IsCount
  <1>6. Lists(u, e, Len(u), Shares(u, s, d))
    <2> HIDE DEF e
    <2> QED BY <1>1, <1>5, SharesOf
  <1>7. Len(Shares(u, s, d)) = e[i]
    <2> HIDE DEF e
    <2> QED BY <1>1, <1>6 DEF Lists
  <1> QED BY <1>3, <1>7 DEF u, c

\* After no fill has more been sold than bought.
NeverOver(fills, Y, n) ==
    \A s \in Y, i \in 1..n : Count(fills, s, "SELL")[i] <= Count(fills, s, "BUY")[i]

\* In terms of the counts.
LEMMA OversoldIs ==
    ASSUME NEW Y, NEW fills \in Seq(Fill(Y))
    PROVE  Oversold(fills, Y) <=> ~NeverOver(fills, Y, Len(fills))
  <1>1. ASSUME NEW s \in Y, NEW i \in 1..Len(fills)
        PROVE  Len(Shares(SubSeq(fills, 1, i), s, "SELL")) > Len(Shares(SubSeq(fills, 1, i), s, "BUY"))
                  <=> ~(Count(fills, s, "SELL")[i] <= Count(fills, s, "BUY")[i])
    <2>1. /\ Len(Shares(SubSeq(fills, 1, i), s, "SELL")) = Count(fills, s, "SELL")[i]
          /\ Len(Shares(SubSeq(fills, 1, i), s, "BUY")) = Count(fills, s, "BUY")[i]
      BY PrefixCount
    <2>2. Count(fills, s, "SELL")[i] \in Nat /\ Count(fills, s, "BUY")[i] \in Nat
      <3>1. IsCount(fills, s, "SELL", Count(fills, s, "SELL")) /\ IsCount(fills, s, "BUY", Count(fills, s, "BUY"))
        BY CountExists
      <3> QED BY <3>1 DEF IsCount
    <2> QED BY <2>1, <2>2
  <1>2. Oversold(fills, Y) <=> \E s \in Y, i \in 1..Len(fills) :
            Len(Shares(SubSeq(fills, 1, i), s, "SELL")) > Len(Shares(SubSeq(fills, 1, i), s, "BUY"))
    BY Zenon DEF Oversold
  <1>3. Oversold(fills, Y) <=> \E s \in Y, i \in 1..Len(fills) :
            ~(Count(fills, s, "SELL")[i] <= Count(fills, s, "BUY")[i])
    BY <1>1, <1>2, Zenon
  <1> QED BY <1>3, Zenon DEF NeverOver

-----------------------------------------------------------------------------
(* The open lots of a symbol are the shares bought and not yet sold        *)

\* lot is what is left, the shares x+1..y, of what fill a bought.
LotAt(fills, c, lot, x, y, a) ==
    /\ a \in 1..Len(fills) /\ x \in Nat /\ y \in Nat
    /\ y = x + lot.qty
    /\ c[a - 1] \in Nat /\ c[a - 1] <= x /\ y = c[a]
    /\ lot.price = fills[a].price

\* lots are the shares from+1..to; h has their ends and A their fills.
Span(fills, c, from, to, lots, h, A) ==
    /\ h \in [0..Len(lots) -> Nat]
    /\ h[0] = from /\ h[Len(lots)] = to
    /\ \A j \in 1..Len(lots) : LotAt(fills, c, lots[j], h[j - 1], h[j], A[j])

Cover(fills, c, from, to, lots) == \E h, A : Span(fills, c, from, to, lots, h, A)

\* No lots for no shares.
LEMMA CoverNone ==
    ASSUME NEW fills, NEW c, NEW x \in Nat
    PROVE  Cover(fills, c, x, x, <<>>)
  <1> DEFINE h == [j \in 0..0 |-> x]
  <1>1. Span(fills, c, x, x, <<>>, h, <<>>)
    BY DEF Span
  <1> QED BY <1>1 DEF Cover

\* One lot more at the end.
LEMMA CoverAppend ==
    ASSUME NEW fills, NEW c, NEW x, NEW y, NEW z, NEW lots \in Seq(Lot), NEW lot \in Lot, NEW a,
           Cover(fills, c, x, y, lots), LotAt(fills, c, lot, y, z, a)
    PROVE  Cover(fills, c, x, z, Append(lots, lot))
  <1> DEFINE N == Len(lots)
             l2 == Append(lots, lot)
  <1>1. PICK h, A : Span(fills, c, x, y, lots, h, A)
    BY DEF Cover
  <1>2. /\ h \in [0..N -> Nat] /\ h[0] = x /\ h[N] = y
        /\ \A j \in 1..N : LotAt(fills, c, lots[j], h[j - 1], h[j], A[j])
    BY <1>1 DEF Span
  <1>3. N \in Nat /\ Len(l2) = N + 1 /\ l2[N + 1] = lot /\ \A j \in 1..N : l2[j] = lots[j]
    OBVIOUS
  <1>4. z \in Nat
    BY DEF LotAt
  <1> DEFINE h2 == [j \in 0..(N + 1) |-> IF j <= N THEN h[j] ELSE z]
             A2 == [j \in 1..(N + 1) |-> IF j <= N THEN A[j] ELSE a]
  <1> HIDE DEF N, l2
  <1>5. h2 \in [0..(N + 1) -> Nat] /\ h2[0] = x /\ h2[N + 1] = z
    BY <1>2, <1>3, <1>4
  <1>6. ASSUME NEW j \in 1..(N + 1) PROVE LotAt(fills, c, l2[j], h2[j - 1], h2[j], A2[j])
    <2>1. CASE j <= N
      <3>1. j \in 1..N /\ h2[j - 1] = h[j - 1] /\ h2[j] = h[j] /\ A2[j] = A[j] /\ l2[j] = lots[j]
        BY <1>3, <2>1
      <3> HIDE DEF h2, A2
      <3> QED BY <1>2, <3>1
    <2>2. CASE j = N + 1
      <3>1. h2[j - 1] = y /\ h2[j] = z /\ A2[j] = a /\ l2[j] = lot
        BY <1>2, <1>3, <2>2
      <3> HIDE DEF h2, A2
      <3> QED BY <3>1
    <2> QED BY <1>3, <2>1, <2>2
  <1>7. Span(fills, c, x, z, l2, h2, A2)
    <2> HIDE DEF h2, A2
    <2> QED BY <1>3, <1>5, <1>6 DEF Span
  <1>8. Cover(fills, c, x, z, l2)
    BY <1>7 DEF Cover
  <1> QED BY <1>8 DEF l2

\* A SELL of q shares from start on, matched with the lots up to x: what is
\* left over of these are lots, and what is left of the SELL waits for x.
Pos(start, q, m) == start + (q - m.remaining)

RoundOK(fills, c, start, q, x, m) ==
    /\ m \in Match
    /\ m.remaining <= q
    /\ Pos(start, q, m) <= x
    /\ Cover(fills, c, Pos(start, q, m), x, m.lots)
    /\ m.remaining > 0 => m.lots = <<>> /\ Pos(start, q, m) = x

\* The next lot.
LEMMA RoundLots ==
    ASSUME NEW fills, NEW c, NEW start \in Nat, NEW q \in Nat, NEW x, NEW y, NEW a,
           NEW m, RoundOK(fills, c, start, q, x, m),
           NEW lot \in Lot, LotAt(fills, c, lot, x, y, a)
    PROVE  RoundOK(fills, c, start, q, y, MatchLot(m, lot))
  <1> DEFINE r == MatchLot(m, lot)
             n == Lesser(m.remaining, lot.qty)
             rest == [qty |-> lot.qty - n, price |-> lot.price]
             p == Pos(start, q, m)
             p2 == Pos(start, q, r)
  <1>1. /\ m \in Match /\ m.remaining <= q /\ p <= x /\ Cover(fills, c, p, x, m.lots)
        /\ m.remaining > 0 => m.lots = <<>> /\ p = x
    BY DEF RoundOK
  <1>2. /\ a \in 1..Len(fills) /\ x \in Nat /\ y \in Nat /\ y = x + lot.qty
        /\ c[a - 1] \in Nat /\ c[a - 1] <= x /\ y = c[a] /\ lot.price = fills[a].price
    BY DEF LotAt
  <1>3. /\ r \in Match /\ n \in Nat /\ n <= m.remaining /\ n <= lot.qty
        /\ n = m.remaining \/ n = lot.qty
        /\ r.remaining = m.remaining - n
        /\ r.lots = IF n = lot.qty THEN m.lots ELSE Append(m.lots, rest)
    BY <1>1, MatchStep
  <1>4. /\ m.remaining \in Nat /\ lot.qty \in Nat \ {0} /\ lot.price \in Nat /\ m.lots \in Seq(Lot)
        /\ r.remaining \in Nat
    BY <1>1, <1>3 DEF Match, Lot
  <1> HIDE DEF r, n
  <1>5. p2 = p + n /\ p \in Nat /\ p2 \in Nat /\ r.remaining <= q
    <2>1. p = start + (q - m.remaining) /\ p2 = start + (q - r.remaining)
      BY Zenon DEF Pos
    <2> HIDE DEF p, p2
    <2>2. r.remaining = m.remaining - n /\ n <= m.remaining /\ n \in Nat
      BY <1>3
    <2>3. m.remaining <= q /\ m.remaining \in Nat
      BY <1>1, <1>4
    <2> QED BY <2>1, <2>2, <2>3
  <1> HIDE DEF p, p2
  <1>6. CASE m.remaining = 0
    <2>1. n = 0 /\ r.remaining = 0 /\ p2 = p /\ n # lot.qty
      BY <1>3, <1>4, <1>5, <1>6
    <2>2. rest = lot
      BY <1>4, <2>1 DEF Lot
    <2>3. r.lots = Append(m.lots, lot)
      BY <1>3, <2>1, <2>2
    <2>4. Cover(fills, c, p2, y, r.lots)
      BY <1>1, <1>4, <2>1, <2>3, CoverAppend
    <2>5. p2 <= y
      BY <1>1, <1>2, <1>4, <1>5, <2>1
    <2> QED BY <1>3, <1>5, <2>1, <2>4, <2>5 DEF RoundOK, p2, r
  <1>7. CASE m.remaining > 0
    <2>1. m.lots = <<>> /\ p = x
      BY <1>1, <1>7
    <2>2. CASE n = lot.qty
      <3>1. p2 = y /\ r.lots = <<>>
        BY <1>2, <1>3, <1>4, <1>5, <2>1, <2>2
      <3>2. Cover(fills, c, p2, y, r.lots)
        BY <1>2, <3>1, CoverNone
      <3>3. p2 <= y
        BY <1>2, <3>1
      <3> QED BY <1>3, <1>5, <3>1, <3>2, <3>3 DEF RoundOK, p2, r
    <2>3. CASE n # lot.qty
      <3>1. n < lot.qty /\ r.remaining = 0 /\ r.lots = Append(<<>>, rest) /\ p2 = x + n
        BY <1>3, <1>4, <1>5, <2>1, <2>3
      <3>2. rest \in Lot
        BY <1>3, <1>4, <3>1 DEF Lot
      <3>3. LotAt(fills, c, rest, p2, y, a)
        <4>1. rest.qty = lot.qty - n /\ rest.price = lot.price
          OBVIOUS
        <4>1a. y = p2 + (lot.qty - n)
          BY <1>2, <1>3, <1>4, <3>1
        <4>2. c[a - 1] <= p2
          BY <1>2, <1>3, <3>1
        <4> HIDE DEF rest
        <4> QED BY <1>2, <1>5, <4>1, <4>1a, <4>2 DEF LotAt
      <3>4. Cover(fills, c, p2, p2, <<>>)
        BY <1>5, CoverNone
      <3>5. Cover(fills, c, p2, y, Append(<<>>, rest))
        <4>1. <<>> \in Seq(Lot)
          OBVIOUS
        <4> HIDE DEF rest
        <4> QED BY <3>2, <3>3, <3>4, <4>1, CoverAppend
      <3>6. Cover(fills, c, p2, y, r.lots)
        BY <3>1, <3>5
      <3>7. p2 <= y
        BY <1>2, <1>3, <1>4, <3>1
      <3> QED BY <1>3, <1>5, <3>1, <3>6, <3>7 DEF RoundOK, p2, r
    <2> QED BY <2>2, <2>3
  <1> QED BY <1>4, <1>6, <1>7

\* All the lots of a symbol in turn.
IsRounds(fills, c, start, f, lots, h, g) ==
    /\ g[0] = [remaining |-> f.qty, price |-> f.price, outcomes |-> <<>>, lots |-> <<>>]
    /\ g[Len(lots)] = Matched(lots, f)
    /\ \A j \in 0..Len(lots) : RoundOK(fills, c, start, f.qty, h[j], g[j])
    /\ \A j \in 1..Len(lots) : g[j] = MatchLot(g[j - 1], lots[j])

\* The states of the loop, from the fill to what Matched returns.
LEMMA Rounds ==
    ASSUME NEW Y, NEW f \in Fill(Y), NEW fills, NEW c, NEW start \in Nat, NEW to,
           NEW lots \in Seq(Lot), NEW h, NEW A, Span(fills, c, start, to, lots, h, A)
    PROVE  \E g : IsRounds(fills, c, start, f, lots, h, g)
  <1> DEFINE N == Len(lots)
             m0 == [remaining |-> f.qty, price |-> f.price, outcomes |-> <<>>, lots |-> <<>>]
  <1>1. f.qty \in Nat \ {0} /\ f.price \in Nat
    BY DEF Fill
  <1>2. m0 \in Match /\ m0.remaining = f.qty /\ m0.lots = <<>>
    BY <1>1 DEF Match
  <1>3. PICK g \in [0..N -> Match] :
              /\ g[0] = m0 /\ g[N] = FoldLeft(MatchLot, m0, lots)
              /\ \A j \in 1..N : g[j] = MatchLot(g[j - 1], lots[j])
    <2> HIDE DEF m0
    <2> QED BY <1>2, MatchFold
  <1>4. g[N] = Matched(lots, f)
    BY <1>3, Zenon DEF Matched
  <1>5. /\ N \in Nat /\ h[0] = start /\ \A j \in 1..N : lots[j] \in Lot
        /\ \A j \in 1..N : LotAt(fills, c, lots[j], h[j - 1], h[j], A[j])
    BY DEF Span
  <1> DEFINE R == {n \in Nat : n <= N => RoundOK(fills, c, start, f.qty, h[n], g[n])}
  <1>6. 0 \in R
    <2>1. Pos(start, f.qty, m0) = start
      BY <1>1, <1>2 DEF Pos
    <2>2. Cover(fills, c, start, start, <<>>)
      BY CoverNone
    <2> HIDE DEF m0
    <2>3. RoundOK(fills, c, start, f.qty, start, m0)
      BY <1>1, <1>2, <2>1, <2>2 DEF RoundOK
    <2> QED BY <1>3, <1>5, <2>3
  <1>7. ASSUME NEW n \in R PROVE n + 1 \in R
    <2>1. n \in Nat /\ n + 1 \in Nat /\ (n + 1) - 1 = n
      OBVIOUS
    <2>2. ASSUME n + 1 <= N PROVE RoundOK(fills, c, start, f.qty, h[n + 1], g[n + 1])
      <3>1. n + 1 \in 1..N /\ RoundOK(fills, c, start, f.qty, h[n], g[n])
        BY <1>5, <2>1, <2>2
      <3>2. /\ g[n + 1] = MatchLot(g[n], lots[n + 1]) /\ lots[n + 1] \in Lot
            /\ LotAt(fills, c, lots[n + 1], h[n], h[n + 1], A[n + 1])
        <4> HIDE DEF m0, N
        <4> QED BY <1>3, <1>5, <2>1, <3>1
      <3>3. RoundOK(fills, c, start, f.qty, h[n + 1], MatchLot(g[n], lots[n + 1]))
        BY <1>1, <3>1, <3>2, RoundLots
      <3> QED BY <3>2, <3>3
    <2> QED BY <2>1, <2>2
  <1>8. R \in SUBSET Nat
    OBVIOUS
  <1>9. \A j \in 0..N : RoundOK(fills, c, start, f.qty, h[j], g[j])
    <2>1. \A n \in Nat : n \in R
      <3> HIDE DEF R
      <3> QED BY <1>6, <1>7, <1>8, Induction
    <2> QED BY <1>5, <2>1
  <1>10. IsRounds(fills, c, start, f, lots, h, g)
    BY <1>3, <1>4, <1>9, Zenon DEF IsRounds
  <1> QED BY <1>10

-----------------------------------------------------------------------------
(* There is a figure unless more was sold than bought                      *)

\* What one fill adds to a count.
LEMMA CountStep ==
    ASSUME NEW Y, NEW fills \in Seq(Fill(Y)), NEW s, NEW d, NEW i \in 1..Len(fills)
    PROVE  /\ Count(fills, s, d)[i] \in Nat /\ Count(fills, s, d)[i - 1] \in Nat
           /\ fills[i].symbol = s /\ fills[i].side = d =>
                 Count(fills, s, d)[i] = Count(fills, s, d)[i - 1] + fills[i].qty
           /\ ~(fills[i].symbol = s /\ fills[i].side = d) =>
                 Count(fills, s, d)[i] = Count(fills, s, d)[i - 1]
  <1> DEFINE c == Count(fills, s, d)
  <1>1. IsCount(fills, s, d, c)
    BY CountExists
  <1> HIDE DEF c
  <1>2. c[i] \in Nat /\ c[i - 1] \in Nat /\ c[i] = c[i - 1] + Part(fills, s, d, i)
    BY <1>1 DEF IsCount
  <1> QED BY <1>2 DEF Part, c

BookOK(fills, Y, i, b) ==
    /\ b.ok <=> NeverOver(fills, Y, i)
    /\ b.ok => \A s \in Y : Cover(fills, Count(fills, s, "BUY"), Count(fills, s, "SELL")[i],
                                  Count(fills, s, "BUY")[i], b.lots[s])

\* The fills before the next one.
LEMMA NeverOverNext ==
    ASSUME NEW Y, NEW fills \in Seq(Fill(Y)), NEW i \in 1..Len(fills)
    PROVE  /\ NeverOver(fills, Y, i) <=>
                 /\ NeverOver(fills, Y, i - 1)
                 /\ \A s \in Y : Count(fills, s, "SELL")[i] <= Count(fills, s, "BUY")[i]
           /\ NeverOver(fills, Y, i - 1) =>
                 \A s \in Y : Count(fills, s, "SELL")[i - 1] <= Count(fills, s, "BUY")[i - 1]
  <1>1. 1..i = (1..(i - 1)) \cup {i} /\ i - 1 \in Nat
    OBVIOUS
  <1>2. CASE i - 1 = 0
    <2>1. ASSUME NEW s \in Y PROVE Count(fills, s, "SELL")[0] <= Count(fills, s, "BUY")[0]
      <3>1. IsCount(fills, s, "SELL", Count(fills, s, "SELL")) /\ IsCount(fills, s, "BUY", Count(fills, s, "BUY"))
        BY CountExists
      <3>2. Count(fills, s, "SELL")[0] = 0 /\ Count(fills, s, "BUY")[0] = 0
        BY <3>1 DEF IsCount
      <3> QED BY <3>2
    <2> QED BY <1>1, <1>2, <2>1 DEF NeverOver
  <1>3. CASE i - 1 # 0
    <2>1. i - 1 \in 1..(i - 1)
      BY <1>1, <1>3
    <2> QED BY <1>1, <2>1 DEF NeverOver
  <1> QED BY <1>2, <1>3

\* No fill leaves the book wrong.
LEMMA BookStep ==
    ASSUME NEW Y, NEW fills \in Seq(Fill(Y)), NEW i \in 1..Len(fills),
           NEW b \in Books(Y), BookOK(fills, Y, i - 1, b)
    PROVE  BookOK(fills, Y, i, Apply(b, fills[i]))
  <1> DEFINE f == fills[i]
             Cb(s) == Count(fills, s, "BUY")
             Cs(s) == Count(fills, s, "SELL")
             r == Apply(b, f)
  <1>1. f \in Fill(Y) /\ f.symbol \in Y /\ f.qty \in Nat \ {0} /\ f.price \in Nat
        /\ f.side \in {"BUY", "SELL"}
    <2>1. f \in Fill(Y)
      OBVIOUS
    <2> HIDE DEF f
    <2> QED BY <2>1 DEF Fill
  <1>2. /\ b.ok <=> NeverOver(fills, Y, i - 1)
        /\ b.ok => \A s \in Y : Cover(fills, Cb(s), Cs(s)[i - 1], Cb(s)[i - 1], b.lots[s])
    BY DEF BookOK
  <1>3. b.lots \in [Y -> Seq(Lot)]
    BY DEF Books
  <1>4. ASSUME NEW s \in Y
        PROVE  /\ Cs(s)[i] \in Nat /\ Cs(s)[i - 1] \in Nat /\ Cb(s)[i] \in Nat /\ Cb(s)[i - 1] \in Nat
               /\ f.symbol = s /\ f.side = "SELL" => Cs(s)[i] = Cs(s)[i - 1] + f.qty
               /\ ~(f.symbol = s /\ f.side = "SELL") => Cs(s)[i] = Cs(s)[i - 1]
               /\ f.symbol = s /\ f.side = "BUY" => Cb(s)[i] = Cb(s)[i - 1] + f.qty
               /\ ~(f.symbol = s /\ f.side = "BUY") => Cb(s)[i] = Cb(s)[i - 1]
    <2>1. /\ Cs(s)[i] \in Nat /\ Cs(s)[i - 1] \in Nat
          /\ f.symbol = s /\ f.side = "SELL" => Cs(s)[i] = Cs(s)[i - 1] + f.qty
          /\ ~(f.symbol = s /\ f.side = "SELL") => Cs(s)[i] = Cs(s)[i - 1]
      BY CountStep
    <2>2. /\ Cb(s)[i] \in Nat /\ Cb(s)[i - 1] \in Nat
          /\ f.symbol = s /\ f.side = "BUY" => Cb(s)[i] = Cb(s)[i - 1] + f.qty
          /\ ~(f.symbol = s /\ f.side = "BUY") => Cb(s)[i] = Cb(s)[i - 1]
      BY CountStep
    <2> HIDE DEF Cs, Cb, f
    <2> QED BY <2>1, <2>2
  <1>5. CASE ~b.ok
    <2>1. r = b
      BY <1>1, <1>5, ApplyNot, Zenon
    <2>2. ~NeverOver(fills, Y, i)
      BY <1>2, <1>5, NeverOverNext
    <2> HIDE DEF r
    <2>3. BookOK(fills, Y, i, r)
      BY <1>5, <2>1, <2>2 DEF BookOK
    <2> QED BY <2>3 DEF r
  <1>6. CASE b.ok /\ f.side = "BUY"
    <2> DEFINE lot == [qty |-> f.qty, price |-> f.price]
               s0 == f.symbol
    <2>1. r.ok /\ r.lots = [b.lots EXCEPT ![s0] = Append(b.lots[s0], lot)]
      <3> HIDE DEF f
      <3>1. f \in Fill(Y) /\ b.ok /\ f.side = "BUY"
        BY <1>1, <1>6
      <3>2. Apply(b, f).lots = BuyLots(b, f) /\ Apply(b, f).ok
        BY <3>1, ApplyBuy
      <3> QED BY <3>2, Zenon DEF BuyLots
    <2> HIDE DEF r
    <2>2. NeverOver(fills, Y, i)
      <3>1. \A s \in Y : Cs(s)[i - 1] <= Cb(s)[i - 1]
        BY <1>2, <1>6, NeverOverNext
      <3>2. ASSUME NEW s \in Y PROVE Cs(s)[i] <= Cb(s)[i]
        <4>1. Cs(s)[i] = Cs(s)[i - 1]
          BY <1>4, <1>6
        <4>2. Cb(s)[i] >= Cb(s)[i - 1]
          BY <1>1, <1>4
        <4> HIDE DEF Cs, Cb
        <4> QED BY <1>4, <3>1, <4>1, <4>2
      <3> QED BY <1>2, <1>6, <3>2, NeverOverNext
    <2>3. ASSUME NEW s \in Y PROVE Cover(fills, Cb(s), Cs(s)[i], Cb(s)[i], r.lots[s])
      <3>1. Cs(s)[i] = Cs(s)[i - 1]
        BY <1>4, <1>6
      <3>2. Cover(fills, Cb(s), Cs(s)[i - 1], Cb(s)[i - 1], b.lots[s])
        BY <1>2, <1>6
      <3>3. CASE s # s0
        <4>1. r.lots[s] = b.lots[s] /\ Cb(s)[i] = Cb(s)[i - 1]
          BY <1>1, <1>3, <1>4, <2>1, <3>3
        <4> HIDE DEF Cs, Cb
        <4> QED BY <3>1, <3>2, <4>1
      <3>4. CASE s = s0
        <4>1. r.lots[s] = Append(b.lots[s], lot)
          <5> HIDE DEF lot
          <5> QED BY <1>1, <1>3, <2>1, <3>4
        <4>2. Cb(s)[i] = Cb(s)[i - 1] + f.qty
          BY <1>4, <1>6, <3>4
        <4>3. lot \in Lot /\ lot.qty = f.qty /\ lot.price = f.price
          BY <1>1 DEF Lot
        <4> HIDE DEF lot, Cs, Cb
        <4>4. LotAt(fills, Cb(s), lot, Cb(s)[i - 1], Cb(s)[i], i)
          BY <1>4, <4>2, <4>3 DEF LotAt
        <4>5. Cover(fills, Cb(s), Cs(s)[i - 1], Cb(s)[i], Append(b.lots[s], lot))
          BY <1>3, <3>2, <4>3, <4>4, CoverAppend
        <4> QED BY <3>1, <4>1, <4>5
      <3> QED BY <3>3, <3>4
    <2>4. BookOK(fills, Y, i, r)
      BY <2>1, <2>2, <2>3 DEF BookOK
    <2> QED BY <2>4 DEF r
  <1>7. CASE b.ok /\ f.side = "SELL"
    <2> DEFINE s0 == f.symbol
               lots == b.lots[s0]
               m == Matched(lots, f)
               c == Cb(s0)
               start == Cs(s0)[i - 1]
    <2>1. /\ m \in Match /\ r.lots = [b.lots EXCEPT ![s0] = m.lots]
          /\ r.ok <=> m.remaining = 0
      <3> HIDE DEF f
      <3>1. f \in Fill(Y) /\ b.ok /\ f.side = "SELL" /\ m = Matched(b.lots[f.symbol], f)
        BY <1>1, <1>7
      <3> HIDE DEF m
      <3>2. m \in Match /\ Apply(b, f).lots = SellLots(b, f, m) /\ (Apply(b, f).ok <=> m.remaining = 0)
        BY <3>1, ApplySell
      <3> QED BY <3>2, Zenon DEF SellLots
    <2>2. lots \in Seq(Lot) /\ start \in Nat /\ Cover(fills, c, start, c[i - 1], lots)
      BY <1>1, <1>2, <1>3, <1>4, <1>7
    <2>3. /\ Cs(s0)[i] = start + f.qty /\ c[i] = c[i - 1] /\ c[i] \in Nat
      BY <1>1, <1>4, <1>7
    <2> HIDE DEF lots, c, start, m, r
    <2>4. PICK h, A : Span(fills, c, start, c[i - 1], lots, h, A)
      BY <2>2 DEF Cover
    <2>5. PICK g : IsRounds(fills, c, start, f, lots, h, g)
      BY <1>1, <2>2, <2>4, Rounds
    <2>6. RoundOK(fills, c, start, f.qty, c[i], m)
      <3>1. Len(lots) \in 0..Len(lots) /\ h[Len(lots)] = c[i]
        BY <2>2, <2>3, <2>4 DEF Span
      <3>2. RoundOK(fills, c, start, f.qty, h[Len(lots)], g[Len(lots)])
        BY <2>5, <3>1 DEF IsRounds
      <3>3. g[Len(lots)] = m
        BY <2>5, Zenon DEF IsRounds, m
      <3> QED BY <3>1, <3>2, <3>3
    <2>7. /\ m.remaining \in Nat /\ m.remaining <= f.qty
          /\ Pos(start, f.qty, m) <= c[i] /\ Cover(fills, c, Pos(start, f.qty, m), c[i], m.lots)
          /\ m.remaining > 0 => Pos(start, f.qty, m) = c[i]
          /\ Pos(start, f.qty, m) = Cs(s0)[i] - m.remaining
      <3>1. /\ m.remaining \in Nat /\ m.remaining <= f.qty
            /\ Pos(start, f.qty, m) <= c[i] /\ Cover(fills, c, Pos(start, f.qty, m), c[i], m.lots)
            /\ m.remaining > 0 => Pos(start, f.qty, m) = c[i]
        BY <2>6 DEF RoundOK, Match
      <3>2. Pos(start, f.qty, m) = Cs(s0)[i] - m.remaining
        BY <1>1, <2>2, <2>3, <3>1 DEF Pos
      <3> QED BY <3>1, <3>2
    <2>8. m.remaining = 0 <=> Cs(s0)[i] <= c[i]
      <3>1. Cs(s0)[i] \in Nat
        BY <1>1, <2>2, <2>3
      <3> QED BY <2>3, <2>7, <3>1
    <2>9. ASSUME NEW s \in Y, s # s0
          PROVE  Cs(s)[i] = Cs(s)[i - 1] /\ Cb(s)[i] = Cb(s)[i - 1] /\ r.lots[s] = b.lots[s]
      BY <1>1, <1>3, <1>4, <2>1, <2>9
    <2>10. NeverOver(fills, Y, i) <=> Cs(s0)[i] <= c[i]
      <3>1. \A s \in Y : Cs(s)[i - 1] <= Cb(s)[i - 1]
        BY <1>2, <1>7, NeverOverNext
      <3>2. \A s \in Y : s # s0 => Cs(s)[i] <= Cb(s)[i]
        <4> HIDE DEF Cs, Cb
        <4> QED BY <2>9, <3>1
      <3> QED BY <1>1, <1>2, <1>7, <3>2, NeverOverNext DEF c
    <2>11. r.ok <=> NeverOver(fills, Y, i)
      BY <2>1, <2>8, <2>10
    <2>12. ASSUME r.ok, NEW s \in Y PROVE Cover(fills, Cb(s), Cs(s)[i], Cb(s)[i], r.lots[s])
      <3>1. CASE s # s0
        <4>1. Cover(fills, Cb(s), Cs(s)[i - 1], Cb(s)[i - 1], b.lots[s])
          BY <1>2, <1>7
        <4> HIDE DEF Cs, Cb
        <4> QED BY <2>9, <3>1, <4>1
      <3>2. CASE s = s0
        <4>1. m.remaining = 0
          BY <2>1, <2>12
        <4>2. r.lots[s] = m.lots
          BY <1>1, <1>3, <2>1, <3>2
        <4>3. Pos(start, f.qty, m) = Cs(s0)[i]
          <5>1. Cs(s0)[i] \in Nat
            BY <1>1, <2>2, <2>3
          <5> QED BY <2>7, <4>1, <5>1
        <4>4. Cover(fills, c, Cs(s0)[i], c[i], m.lots)
          BY <2>7, <4>3
        <4> HIDE DEF Cs, Cb
        <4> QED BY <3>2, <4>2, <4>4 DEF c
      <3> QED BY <3>1, <3>2
    <2>13. BookOK(fills, Y, i, r)
      BY <2>11, <2>12 DEF BookOK
    <2> QED BY <2>13 DEF r
  <1>8. ~b.ok \/ (b.ok /\ f.side = "BUY") \/ (b.ok /\ f.side = "SELL")
    BY <1>1
  <1> QED BY <1>5, <1>6, <1>7, <1>8, Zenon

\* Nothing is bought or sold before the first fill.
LEMMA CountStart ==
    ASSUME NEW Y, NEW fills \in Seq(Fill(Y)), NEW s, NEW d
    PROVE  Count(fills, s, d)[0] = 0
  <1>1. IsCount(fills, s, d, Count(fills, s, d))
    BY CountExists
  <1> QED BY <1>1 DEF IsCount

\* The book is right after every fill.
LEMMA BooksOK ==
    ASSUME NEW Y, NEW fills \in Seq(Fill(Y)), NEW g, IsBook(fills, Y, g)
    PROVE  \A i \in 0..Len(fills) : BookOK(fills, Y, i, g[i])
  <1> DEFINE N == Len(fills)
             S == {n \in Nat : n <= N => BookOK(fills, Y, n, g[n])}
  <1>1. /\ N \in Nat /\ \A i \in 0..N : g[i] \in Books(Y)
        /\ g[0] = EmptyBook(Y) /\ \A i \in 1..N : g[i] = Apply(g[i - 1], fills[i])
    BY DEF IsBook
  <1>2. 0 \in S
    <2>1. EmptyBook(Y).ok /\ \A s \in Y : EmptyBook(Y).lots[s] = <<>>
      BY DEF EmptyBook
    <2>2. ASSUME NEW s \in Y
          PROVE  Cover(fills, Count(fills, s, "BUY"), Count(fills, s, "SELL")[0],
                       Count(fills, s, "BUY")[0], <<>>)
      <3>1. Count(fills, s, "SELL")[0] = 0 /\ Count(fills, s, "BUY")[0] = 0
        BY CountStart
      <3>2. Cover(fills, Count(fills, s, "BUY"), 0, 0, <<>>)
        <4>1. 0 \in Nat
          OBVIOUS
        <4> QED BY <4>1, CoverNone
      <3> QED BY <3>1, <3>2
    <2>3. NeverOver(fills, Y, 0)
      BY DEF NeverOver
    <2>4. BookOK(fills, Y, 0, EmptyBook(Y))
      BY <2>1, <2>2, <2>3 DEF BookOK
    <2> QED BY <1>1, <2>4
  <1>3. ASSUME NEW n \in S PROVE n + 1 \in S
    <2>1. n \in Nat /\ n + 1 \in Nat /\ (n + 1) - 1 = n
      OBVIOUS
    <2>2. ASSUME n + 1 <= N PROVE BookOK(fills, Y, n + 1, g[n + 1])
      <3>1. n + 1 \in 1..N /\ n \in 0..N /\ BookOK(fills, Y, n, g[n])
        BY <1>1, <2>1, <2>2
      <3>2. g[n] \in Books(Y) /\ g[n + 1] = Apply(g[n], fills[n + 1])
        BY <1>1, <2>1, <3>1
      <3>3. BookOK(fills, Y, n + 1, Apply(g[n], fills[n + 1]))
        BY <2>1, <3>1, <3>2, BookStep
      <3> QED BY <3>2, <3>3
    <2> QED BY <2>1, <2>2
  <1>4. S \in SUBSET Nat
    OBVIOUS
  <1>5. \A n \in Nat : n \in S
    <2> HIDE DEF S
    <2> QED BY <1>2, <1>3, <1>4, Induction
  <1> QED BY <1>1, <1>5

\* There is an answer exactly if more was never sold than bought.
LEMMA AnswersWhenSound ==
    ASSUME NEW Y, NEW fills \in Seq(Fill(Y))
    PROVE  /\ Book(fills, Y) \in Books(Y)
           /\ Book(fills, Y).ok <=> ~Oversold(fills, Y)
  <1>1. PICK g : IsBook(fills, Y, g)
    BY BookChain
  <1>2. Len(fills) \in 0..Len(fills)
    OBVIOUS
  <1>3. g[Len(fills)] = Book(fills, Y) /\ g[Len(fills)] \in Books(Y)
    BY <1>1, <1>2 DEF IsBook
  <1>4. BookOK(fills, Y, Len(fills), g[Len(fills)])
    BY <1>1, <1>2, BooksOK
  <1>5. BookOK(fills, Y, Len(fills), Book(fills, Y))
    BY <1>3, <1>4
  <1> QED BY <1>3, <1>5, OversoldIs DEF BookOK

-----------------------------------------------------------------------------
(* Sums over finite sets                                                   *)

One(s) == CHOOSE x \in s : TRUE

\* g[s] is the sum of w over the part s of D.
IsSum(D, w, g) ==
    /\ g \in [SUBSET D -> Int]
    /\ g[{}] = 0
    /\ \A s \in SUBSET D : \A x \in s : g[s] = w[x] + g[s \ {x}]

\* The order in which FoldFunction adds does not matter.
LEMMA SumIs ==
    ASSUME NEW D, IsFiniteSet(D), NEW w \in [D -> Int]
    PROVE  \E g : IsSum(D, w, g) /\ FoldFunction(+, 0, w) = g[D]
  <1> DEFINE P == SUBSET D
             F == [p \in Int \X D |-> w[p[2]] + p[1]]
             pick == [s \in P |-> One(s)]
             IsIt(it) == it = [s \in P |-> IF s = {} THEN 0 ELSE w[One(s)] + it[s \ {One(s)}]]
             g == CHOOSE x : IsIt(x)
  <1>1. FoldFunction(+, 0, w) = g[D]
    BY DEF FoldFunction, FoldFunctionOnSet, MapThenFoldSet, One
  <1>2. \A s \in P : s # {} => One(s) \in s /\ One(s) \in D /\ s \ {One(s)} \in P
    BY DEF One
  <1>3. IsPick(D, pick) /\ \A s \in P : pick[s] = One(s)
    BY <1>2 DEF IsPick
  <1>4. F \in [Int \X D -> Int] /\ 0 \in Int
    OBVIOUS
  <1>5. \E x : IsIt(x) /\ x \in [P -> Int]
    <2>1. PICK x : IsFold(F, 0, D, pick, Int, x)
      <3> HIDE DEF F, pick
      <3> QED BY <1>3, <1>4, FoldExists
    <2>2. x \in [P -> Int] /\ \A s \in P : x[s] = FoldValue(F, 0, pick, x, s)
      BY <2>1 DEF IsFold
    <2>3. ASSUME NEW s \in P PROVE x[s] = IF s = {} THEN 0 ELSE w[One(s)] + x[s \ {One(s)}]
      <3>1. CASE s = {}
        BY <2>2, <3>1 DEF FoldValue
      <3>2. CASE s # {}
        <4>1. x[s] = F[<<x[s \ {One(s)}], One(s)>>]
          <5> HIDE DEF F, pick
          <5> QED BY <1>3, <2>2, <3>2 DEF FoldValue
        <4>2. x[s \ {One(s)}] \in Int /\ One(s) \in D
          BY <1>2, <2>2, <3>2
        <4> QED BY <3>2, <4>1, <4>2
      <3> QED BY <3>1, <3>2
    <2>4. IsIt(x)
      BY <2>2, <2>3
    <2> QED BY <2>2, <2>4
  <1>6. IsIt(g)
    BY <1>5
  <1> HIDE DEF g
  <1>7. \A s \in P : g[s] = IF s = {} THEN 0 ELSE w[One(s)] + g[s \ {One(s)}]
    BY <1>6
  <1>a. g[{}] = 0 /\ \A s \in P : s = {} => g[s] \in Int
    <2>1. {} \in P /\ 0 \in Int
      OBVIOUS
    <2> QED BY <1>7, <2>1
  <1> DEFINE Adds(s) == g[s] \in Int /\ \A x \in s : g[s] = w[x] + g[s \ {x}]
             S == {n \in Nat : \A s \in P : Cardinality(s) <= n => Adds(s)}
  <1>8. \A s \in P : Cardinality(s) \in Nat /\ (Cardinality(s) = 0 <=> s = {})
                     /\ Cardinality(D) \in Nat /\ Cardinality(s) <= Cardinality(D)
    BY PartSizes
  <1>9. 0 \in S
    <2>1. ASSUME NEW s \in P, Cardinality(s) <= 0 PROVE Adds(s)
      <3>1. s = {}
        BY <1>8, <2>1
      <3> QED BY <1>a, <3>1
    <2> QED BY <2>1
  <1>10. ASSUME NEW n \in S PROVE n + 1 \in S
    <2>1. n \in Nat /\ n + 1 \in Nat /\ \A s \in P : Cardinality(s) <= n => Adds(s)
      OBVIOUS
    <2>2. ASSUME NEW s \in P, Cardinality(s) <= n + 1 PROVE Adds(s)
      <3>1. CASE s = {}
        BY <1>a, <3>1
      <3>2. CASE s # {}
        <4> DEFINE y == One(s)
        <4>1. y \in s /\ y \in D /\ s \ {y} \in P /\ g[s] = w[y] + g[s \ {y}]
          BY <1>2, <1>7, <3>2
        <4> HIDE DEF y
        <4>2. ASSUME NEW x \in s PROVE s \ {x} \in P /\ Adds(s \ {x})
          <5>1. /\ s \ {x} \in SUBSET D /\ Cardinality(s) \in Nat
                /\ Cardinality(s \ {x}) = Cardinality(s) - 1
            BY PickOne
          <5>2. Cardinality(s \ {x}) <= n
            BY <2>1, <2>2, <5>1
          <5> QED BY <2>1, <5>1, <5>2
        <4>3. g[s] \in Int
          <5>1. g[s \ {y}] \in Int
            BY <4>1, <4>2
          <5>2. w[y] \in Int
            BY <4>1
          <5> QED BY <4>1, <5>1, <5>2
        <4>4. ASSUME NEW x \in s PROVE g[s] = w[x] + g[s \ {x}]
          <5>1. CASE x = y
            BY <4>1, <5>1
          <5>2. CASE x # y
            <6>1. (s \ {y}) \ {x} = (s \ {x}) \ {y} /\ x \in s \ {y} /\ y \in s \ {x}
              BY <4>1, <5>2
            <6>2. g[s \ {y}] = w[x] + g[(s \ {y}) \ {x}]
              BY <4>1, <4>2, <6>1
            <6>3. g[s \ {x}] = w[y] + g[(s \ {x}) \ {y}]
              BY <4>2, <6>1
            <6>4. (s \ {y}) \ {x} \in P /\ g[(s \ {y}) \ {x}] \in Int
              <7>1. IsFiniteSet(s) /\ IsFiniteSet(s \ {y})
                BY <4>1, FS_Subset
              <7>2. (s \ {y}) \ {x} \in P
                OBVIOUS
              <7>3. Cardinality((s \ {y}) \ {x}) <= n
                <8>1. /\ Cardinality(s \ {y}) = Cardinality(s) - 1
                      /\ Cardinality((s \ {y}) \ {x}) = Cardinality(s \ {y}) - 1
                      /\ Cardinality(s) \in Nat
                  BY <4>1, <6>1, PickOne
                <8> QED BY <2>1, <2>2, <8>1
              <7> QED BY <2>1, <7>2, <7>3
            <6>5. w[x] \in Int /\ w[y] \in Int
              BY <4>1
            <6> DEFINE e == g[(s \ {y}) \ {x}]
            <6>6. g[s] = w[y] + (w[x] + e) /\ g[s \ {x}] = w[y] + e /\ e \in Int
              BY <4>1, <6>1, <6>2, <6>3, <6>4
            <6> HIDE DEF e
            <6> QED BY <6>5, <6>6
          <5> QED BY <5>1, <5>2
        <4> QED BY <4>3, <4>4
      <3> QED BY <3>1, <3>2
    <2> QED BY <2>1, <2>2
  <1>11. S \in SUBSET Nat
    OBVIOUS
  <1>12. Cardinality(D) \in S
    <2>1. Cardinality(D) \in Nat
      BY <1>8
    <2> HIDE DEF S
    <2> QED BY <1>9, <1>10, <1>11, <2>1, Induction
  <1>13. \A s \in P : Adds(s)
    BY <1>8, <1>12
  <1>14. g \in [P -> Int] /\ g[{}] = 0
    <2>1. DOMAIN g = P /\ g = [s \in P |-> g[s]]
      BY <1>6
    <2>2. \A s \in P : g[s] \in Int
      BY <1>13
    <2>3. g[{}] = 0
      BY <1>7
    <2> QED BY <2>1, <2>2, <2>3
  <1>15. IsSum(D, w, g)
    BY <1>13, <1>14 DEF IsSum
  <1> QED BY <1>1, <1>15, Zenon

\* A block of equal terms.
Values(e, n) == {e[k] : k \in 1..n}

IsBlock(D, w, s, e, n, v) ==
    /\ e \in [1..n -> D]
    /\ \A k \in 1..n : e[k] \notin s /\ w[e[k]] = v
    /\ \A k, l \in 1..n : e[k] = e[l] => k = l

\* Adding a block of n terms adds n times one.
LEMMA SumBlock ==
    ASSUME NEW D, NEW w \in [D -> Int], NEW g, IsSum(D, w, g), NEW n \in Nat, NEW v \in Int,
           NEW s \in SUBSET D, NEW e, IsBlock(D, w, s, e, n, v)
    PROVE  g[s \cup Values(e, n)] = g[s] + n * v
  <1> USE DEF IsBlock
  <1> DEFINE Block(j) == s \cup {e[k] : k \in 1..j}
             S == {j \in Nat : j <= n => g[Block(j)] = g[s] + j * v}
  <1>1. g[s] \in Int /\ \A t \in SUBSET D : g[t] \in Int /\ \A x \in t : g[t] = w[x] + g[t \ {x}]
    BY DEF IsSum
  <1>2. 0 \in S
    <2>1. Block(0) = s
      OBVIOUS
    <2>2. 0 * v = 0
      OBVIOUS
    <2> HIDE DEF Block
    <2>3. g[Block(0)] = g[s] + 0 * v
      BY <1>1, <2>1, <2>2
    <2> QED BY <2>3
  <1>3. ASSUME NEW j \in S PROVE j + 1 \in S
    <2>1. j \in Nat /\ j + 1 \in Nat
      OBVIOUS
    <2>2. ASSUME j + 1 <= n PROVE g[Block(j + 1)] = g[s] + (j + 1) * v
      <3>1. j + 1 \in 1..n /\ 1..(j + 1) = (1..j) \cup {j + 1} /\ j + 1 \notin 1..j /\ 1..j \in SUBSET (1..n)
        BY <2>1, <2>2
      <3>2. e[j + 1] \notin Block(j)
        BY <3>1
      <3>3. Block(j + 1) \in SUBSET D /\ e[j + 1] \in Block(j + 1) /\ Block(j + 1) \ {e[j + 1]} = Block(j)
        BY <3>1, <3>2
      <3>4. g[Block(j)] = g[s] + j * v
        BY <2>1, <2>2
      <3> HIDE DEF Block
      <3>5. g[Block(j + 1)] = v + (g[s] + j * v)
        <4>1. g[Block(j + 1)] = w[e[j + 1]] + g[Block(j + 1) \ {e[j + 1]}]
          BY <1>1, <3>3
        <4>2. w[e[j + 1]] = v
          BY <3>1
        <4> QED BY <3>3, <3>4, <4>1, <4>2
      <3>6. j * v \in Int /\ (j + 1) * v = j * v + v
        BY <2>1
      <3> QED BY <1>1, <3>5, <3>6
    <2> HIDE DEF Block
    <2> QED BY <2>1, <2>2
  <1>4. S \in SUBSET Nat
    OBVIOUS
  <1>5. n \in S
    <2> HIDE DEF S
    <2> QED BY <1>2, <1>3, <1>4, Induction
  <1> QED BY <1>5 DEF Values

BlockAdds(g, s, e, n, v) == g[s \cup Values(e, n)] = g[s] + n * v

\* The same, under a name.
LEMMA SumBlockIs ==
    ASSUME NEW D, NEW w \in [D -> Int], NEW g, IsSum(D, w, g), NEW n \in Nat, NEW v \in Int,
           NEW s \in SUBSET D, NEW e, IsBlock(D, w, s, e, n, v)
    PROVE  BlockAdds(g, s, e, n, v)
  BY SumBlock DEF BlockAdds

-----------------------------------------------------------------------------
(* The shares sold, by the counts                                          *)

SaleRecs(fills) ==
    [sell: 1..Len(fills), buy: 1..Len(fills), share: Nat, today: BOOLEAN, net: Int]

\* x.share is among the shares that fill i bought or sold of the symbol s.
ShareOf(fills, s, d, k, i) ==
    Count(fills, s, d)[i - 1] < k /\ k <= Count(fills, s, d)[i]

OfSale(fills, x) ==
    /\ ShareOf(fills, fills[x.sell].symbol, "SELL", x.share, x.sell)
    /\ ShareOf(fills, fills[x.sell].symbol, "BUY", x.share, x.buy)
    /\ x.today = fills[x.sell].today
    /\ x.net = Net(1, fills[x.buy].price, fills[x.sell].price)

\* The k-th share bought or sold.
LEMMA ShareAt ==
    ASSUME NEW Y, NEW fills \in Seq(Fill(Y)), NEW s, NEW d,
           NEW k \in 1..Count(fills, s, d)[Len(fills)]
    PROVE  LET w == Shares(fills, s, d)[k]
           IN  /\ w.at \in 1..Len(fills) /\ ShareOf(fills, s, d, k, w.at)
               /\ w.price = fills[w.at].price /\ w.today = fills[w.at].today
               /\ fills[w.at].symbol = s
  <1> DEFINE c == Count(fills, s, d)
             w == Shares(fills, s, d)[k]
  <1>1. IsCount(fills, s, d, c)
    BY CountExists
  <1> HIDE DEF c
  <1>2. Lists(fills, c, Len(fills), Shares(fills, s, d))
    BY <1>1, SharesOf
  <1>3. k \in 1..c[Len(fills)]
    BY DEF c
  <1>4. OfFill(fills, c, k, w)
    BY <1>2, <1>3 DEF Lists
  <1> HIDE DEF w
  <1>5. /\ w.at \in 1..Len(fills) /\ c[w.at - 1] < k /\ k <= c[w.at]
        /\ w.price = fills[w.at].price /\ w.today = fills[w.at].today
    BY <1>4 DEF OfFill
  <1>6. fills[w.at].symbol = s
    <2>1. /\ c[w.at] \in Nat /\ c[w.at - 1] \in Nat
          /\ ~(fills[w.at].symbol = s /\ fills[w.at].side = d) => c[w.at] = c[w.at - 1]
      BY <1>5, CountStep DEF c
    <2> QED BY <1>5, <2>1
  <1> QED BY <1>5, <1>6 DEF ShareOf, c, w

\* There are as many as the count says.
LEMMA SharesLen ==
    ASSUME NEW Y, NEW fills \in Seq(Fill(Y)), NEW s, NEW d
    PROVE  Len(Shares(fills, s, d)) = Count(fills, s, d)[Len(fills)]
  <1>1. IsCount(fills, s, d, Count(fills, s, d))
    BY CountExists
  <1>2. Lists(fills, Count(fills, s, d), Len(fills), Shares(fills, s, d))
    BY <1>1, SharesOf
  <1> QED BY <1>2 DEF Lists

\* A share of one fill is a share of the whole.
LEMMA ShareBounds ==
    ASSUME NEW Y, NEW fills \in Seq(Fill(Y)), NEW s, NEW d, NEW k \in Nat,
           NEW i \in 1..Len(fills), ShareOf(fills, s, d, k, i)
    PROVE  /\ k \in 1..Count(fills, s, d)[Len(fills)]
           /\ Count(fills, s, d)[Len(fills)] \in Nat
           /\ fills[i].symbol = s /\ fills[i].side = d
  <1> DEFINE c == Count(fills, s, d)
  <1>1. IsCount(fills, s, d, c)
    BY CountExists
  <1>2. /\ c[i] \in Nat /\ c[i - 1] \in Nat
        /\ ~(fills[i].symbol = s /\ fills[i].side = d) => c[i] = c[i - 1]
    BY CountStep
  <1>3. c[i - 1] < k /\ k <= c[i]
    BY DEF ShareOf
  <1> HIDE DEF c
  <1>4. i \in 0..Len(fills) /\ Len(fills) \in 0..Len(fills) /\ i <= Len(fills)
    OBVIOUS
  <1>5. c[i] <= c[Len(fills)] /\ c[Len(fills)] \in Nat
    <2>1. c[i] <= c[Len(fills)]
      BY <1>1, <1>4, CountGrows
    <2> QED BY <1>1, <1>4, <2>1 DEF IsCount
  <1>6. k \in 1..c[Len(fills)]
    BY <1>2, <1>3, <1>5
  <1>7. fills[i].symbol = s /\ fills[i].side = d
    BY <1>2, <1>3
  <1> QED BY <1>5, <1>6, <1>7 DEF c

\* A share is of one fill only.
LEMMA OneFill ==
    ASSUME NEW Y, NEW fills \in Seq(Fill(Y)), NEW s, NEW d, NEW k \in Nat,
           NEW i \in 1..Len(fills), ShareOf(fills, s, d, k, i),
           NEW j \in 1..Len(fills), ShareOf(fills, s, d, k, j)
    PROVE  i = j
  <1>1. IsCount(fills, s, d, Count(fills, s, d))
    BY CountExists
  <1>2. /\ Count(fills, s, d)[i - 1] < k /\ k <= Count(fills, s, d)[i]
        /\ Count(fills, s, d)[j - 1] < k /\ k <= Count(fills, s, d)[j]
    BY DEF ShareOf
  <1> QED BY <1>1, <1>2, OneOrigin

\* Every share sold was bought.
LEMMA SoldWasBought ==
    ASSUME NEW Y, NEW fills \in Seq(Fill(Y)), NeverOver(fills, Y, Len(fills)), NEW s \in Y,
           NEW k \in 1..Count(fills, s, "SELL")[Len(fills)]
    PROVE  k \in Nat /\ k \in 1..Count(fills, s, "BUY")[Len(fills)]
  <1> DEFINE N == Len(fills)
  <1>1. CASE N = 0
    <2>1. Count(fills, s, "SELL")[0] = 0
      BY CountStart
    <2> QED BY <1>1, <2>1
  <1>2. CASE N # 0
    <2>1. N \in 1..N
      BY <1>2
    <2>2. Count(fills, s, "SELL")[N] <= Count(fills, s, "BUY")[N]
      BY <2>1 DEF NeverOver
    <2>3. Count(fills, s, "SELL")[N] \in Nat /\ Count(fills, s, "BUY")[N] \in Nat
      BY <2>1, CountStep
    <2> QED BY <2>2, <2>3
  <1> QED BY <1>1, <1>2

SaleOf(fills, s, k) ==
    LET sold == Shares(fills, s, "SELL")
        bought == Shares(fills, s, "BUY")
    IN  [sell |-> sold[k].at, buy |-> bought[k].at, share |-> k, today |-> sold[k].today,
         net |-> Net(1, bought[k].price, sold[k].price)]

\* What Sales has.
LEMMA SaleIn ==
    ASSUME NEW Y, NEW fills \in Seq(Fill(Y))
    PROVE  \A x : x \in Sales(fills, Y) <=>
              \E s \in Y : \E k \in 1..Len(Shares(fills, s, "SELL")) : x = SaleOf(fills, s, k)
  <1> DEFINE Of(s) == {SaleOf(fills, s, k) : k \in 1..Len(Shares(fills, s, "SELL"))}
  <1>1. Sales(fills, Y) = UNION {Of(s) : s \in Y}
    BY DEF Sales, SaleOf
  <1>2. \A x : \A s \in Y : x \in Of(s) <=> \E k \in 1..Len(Shares(fills, s, "SELL")) : x = SaleOf(fills, s, k)
    OBVIOUS
  <1>3. \A x : x \in UNION {Of(s) : s \in Y} <=> \E s \in Y : x \in Of(s)
    <2> HIDE DEF Of
    <2> QED OBVIOUS
  <1> HIDE DEF Of
  <1> QED BY <1>1, <1>2, <1>3

\* Sales has exactly the records that the counts allow.
LEMMA SalesAre ==
    ASSUME NEW Y, NEW fills \in Seq(Fill(Y)), NeverOver(fills, Y, Len(fills))
    PROVE  Sales(fills, Y) = {x \in SaleRecs(fills) : OfSale(fills, x)}
  <1> DEFINE N == Len(fills)
  <1>1. ASSUME NEW s \in Y, NEW k \in 1..Len(Shares(fills, s, "SELL"))
        PROVE  SaleOf(fills, s, k) \in SaleRecs(fills) /\ OfSale(fills, SaleOf(fills, s, k))
    <2> DEFINE a == Shares(fills, s, "SELL")[k]
               b == Shares(fills, s, "BUY")[k]
               x == SaleOf(fills, s, k)
    <2>1. k \in 1..Count(fills, s, "SELL")[N] /\ k \in Nat
      BY SharesLen
    <2>2. k \in 1..Count(fills, s, "BUY")[N]
      BY <2>1, SoldWasBought
    <2>3. /\ a.at \in 1..N /\ ShareOf(fills, s, "SELL", k, a.at)
          /\ a.price = fills[a.at].price /\ a.today = fills[a.at].today
          /\ fills[a.at].symbol = s
      BY <2>1, ShareAt
    <2>4. /\ b.at \in 1..N /\ ShareOf(fills, s, "BUY", k, b.at)
          /\ b.price = fills[b.at].price
      BY <2>2, ShareAt
    <2>5. x = [sell |-> a.at, buy |-> b.at, share |-> k, today |-> a.today, net |-> Net(1, b.price, a.price)]
      BY DEF SaleOf
    <2> HIDE DEF a, b, x
    <2>6. a.price \in Nat /\ b.price \in Nat /\ a.today \in BOOLEAN
      <3>1. fills[a.at] \in Fill(Y) /\ fills[b.at] \in Fill(Y)
        BY <2>3, <2>4
      <3>2. /\ fills[a.at].price \in Nat /\ fills[a.at].today \in BOOLEAN /\ fills[b.at].price \in Nat
        BY <3>1 DEF Fill
      <3> QED BY <2>3, <2>4, <3>2
    <2>7. Net(1, b.price, a.price) \in Int
      <3>1. 1 \in Int /\ b.price \in Int /\ a.price \in Int
        BY <2>6
      <3> QED BY <3>1, NetType
    <2>8. x \in SaleRecs(fills)
      BY <2>1, <2>3, <2>4, <2>5, <2>6, <2>7 DEF SaleRecs
    <2>9. /\ x.sell = a.at /\ x.buy = b.at /\ x.share = k /\ x.today = a.today
          /\ x.net = Net(1, b.price, a.price)
      BY <2>5
    <2>10. OfSale(fills, x)
      BY <2>3, <2>4, <2>9, Zenon DEF OfSale
    <2> QED BY <2>8, <2>10 DEF x
  <1>2. ASSUME NEW x \in SaleRecs(fills), OfSale(fills, x)
        PROVE  \E s \in Y : \E k \in 1..Len(Shares(fills, s, "SELL")) : x = SaleOf(fills, s, k)
    <2> DEFINE s == fills[x.sell].symbol
               k == x.share
               a == Shares(fills, s, "SELL")[k]
               b == Shares(fills, s, "BUY")[k]
    <2>1. /\ x.sell \in 1..N /\ x.buy \in 1..N /\ k \in Nat
          /\ x = [sell |-> x.sell, buy |-> x.buy, share |-> k, today |-> x.today, net |-> x.net]
      BY DEF SaleRecs
    <2>2. s \in Y
      <3>1. fills[x.sell] \in Fill(Y)
        BY <2>1
      <3> QED BY <3>1 DEF Fill
    <2>3. /\ ShareOf(fills, s, "SELL", k, x.sell) /\ ShareOf(fills, s, "BUY", k, x.buy)
          /\ x.today = fills[x.sell].today /\ x.net = Net(1, fills[x.buy].price, fills[x.sell].price)
      BY <1>2 DEF OfSale
    <2> HIDE DEF s, k
    <2>4. k \in 1..Count(fills, s, "SELL")[N] /\ k \in 1..Count(fills, s, "BUY")[N]
      BY <2>1, <2>3, ShareBounds
    <2>5. /\ a.at \in 1..N /\ ShareOf(fills, s, "SELL", k, a.at)
          /\ a.price = fills[a.at].price /\ a.today = fills[a.at].today
      BY <2>4, ShareAt
    <2>6. /\ b.at \in 1..N /\ ShareOf(fills, s, "BUY", k, b.at)
          /\ b.price = fills[b.at].price
      BY <2>4, ShareAt
    <2> HIDE DEF a, b
    <2>7. a.at = x.sell /\ b.at = x.buy
      BY <2>1, <2>3, <2>5, <2>6, OneFill
    <2>8. SaleOf(fills, s, k) = [sell |-> a.at, buy |-> b.at, share |-> k, today |-> a.today,
                                 net |-> Net(1, b.price, a.price)]
      BY Zenon DEF SaleOf, a, b
    <2>9. x = SaleOf(fills, s, k)
      BY <2>1, <2>3, <2>5, <2>6, <2>7, <2>8
    <2>10. k \in 1..Len(Shares(fills, s, "SELL"))
      BY <2>4, SharesLen
    <2> QED BY <2>2, <2>9, <2>10
  <1> QED BY <1>1, <1>2, SaleIn

AreSales(fills, D) == D = {x \in SaleRecs(fills) : OfSale(fills, x)}

\* A share sold is one record.
LEMMA OneSale ==
    ASSUME NEW Y, NEW fills \in Seq(Fill(Y)), NEW x \in SaleRecs(fills), OfSale(fills, x),
           NEW y \in SaleRecs(fills), OfSale(fills, y), x.sell = y.sell, x.share = y.share
    PROVE  x = y
  <1> DEFINE s == fills[x.sell].symbol
  <1>1. /\ x.buy \in 1..Len(fills) /\ y.buy \in 1..Len(fills) /\ x.share \in Nat
        /\ x = [sell |-> x.sell, buy |-> x.buy, share |-> x.share, today |-> x.today, net |-> x.net]
        /\ y = [sell |-> y.sell, buy |-> y.buy, share |-> y.share, today |-> y.today, net |-> y.net]
    BY DEF SaleRecs
  <1>2. /\ ShareOf(fills, s, "BUY", x.share, x.buy) /\ ShareOf(fills, s, "BUY", x.share, y.buy)
        /\ x.today = y.today
    BY DEF OfSale
  <1>3. x.buy = y.buy
    <2> HIDE DEF s
    <2> QED BY <1>1, <1>2, OneFill
  <1>4. x.net = y.net
    BY <1>3 DEF OfSale
  <1> QED BY <1>1, <1>2, <1>3, <1>4

\* The shares sold are finitely many: those of one fill are numbered.
LEMMA SalesFinite ==
    ASSUME NEW Y, NEW fills \in Seq(Fill(Y))
    PROVE  IsFiniteSet({x \in SaleRecs(fills) : OfSale(fills, x)})
  <1> DEFINE N == Len(fills)
             D == {x \in SaleRecs(fills) : OfSale(fills, x)}
             Of(i) == {x \in D : x.sell = i}
             UpTo(i) == {x \in D : x.sell <= i}
             S == {n \in Nat : n <= N => IsFiniteSet(UpTo(n))}
  <1>1. \A x \in D : x.sell \in 1..N /\ x.share \in Nat
    BY DEF SaleRecs
  <1>2. ASSUME NEW i \in 1..N PROVE IsFiniteSet(Of(i))
    <2> DEFINE M == Count(fills, fills[i].symbol, "SELL")[N]
               e == [x \in Of(i) |-> x.share]
    <2>1. ASSUME NEW x \in Of(i) PROVE x.share \in 1..M /\ M \in Nat
      <3>1. ShareOf(fills, fills[i].symbol, "SELL", x.share, i) /\ x.share \in Nat
        BY <1>1 DEF OfSale
      <3> QED BY <3>1, ShareBounds
    <2>2. M \in Nat
      <3>1. N \in 1..N
        OBVIOUS
      <3> QED BY <3>1, CountStep
    <2>3. \A x, y \in Of(i) : x.share = y.share => x = y
      BY OneSale
    <2> HIDE DEF M
    <2>4. e \in [Of(i) -> 1..M] /\ \A x, y \in Of(i) : e[x] = e[y] => x = y
      BY <2>1, <2>3
    <2>5. e \in Injection(Of(i), 1..M)
      <3> HIDE DEF e, Of
      <3> QED BY <2>4 DEF Injection, IsInjective
    <2>6. IsFiniteSet(1..M)
      BY <2>2, IndicesFinite
    <2> HIDE DEF e, Of
    <2> QED BY <2>5, <2>6, FS_Injection
  <1>3. 0 \in S
    <2>1. UpTo(0) = {}
      BY <1>1
    <2>2. IsFiniteSet(UpTo(0))
      BY <2>1, FS_EmptySet
    <2> QED BY <2>2
  <1>4. ASSUME NEW n \in S PROVE n + 1 \in S
    <2>1. n \in Nat /\ n + 1 \in Nat
      OBVIOUS
    <2>2. ASSUME n + 1 <= N PROVE IsFiniteSet(UpTo(n + 1))
      <3>1. IsFiniteSet(UpTo(n)) /\ n + 1 \in 1..N
        BY <2>1, <2>2
      <3>2. UpTo(n + 1) = UpTo(n) \cup Of(n + 1)
        BY <1>1, <2>1
      <3>3. IsFiniteSet(Of(n + 1))
        BY <1>2, <3>1
      <3> HIDE DEF UpTo, Of
      <3> QED BY <3>1, <3>2, <3>3, FS_Union
    <2> HIDE DEF UpTo
    <2> QED BY <2>1, <2>2
  <1>5. S \in SUBSET Nat /\ N \in Nat
    OBVIOUS
  <1>6. N \in S
    <2> HIDE DEF S, N
    <2> QED BY <1>3, <1>4, <1>5, Induction
  <1>7. UpTo(N) = D
    BY <1>1
  <1> HIDE DEF D
  <1>8. IsFiniteSet(UpTo(N))
    <2> HIDE DEF UpTo
    <2> QED BY <1>5, <1>6
  <1> QED BY <1>7, <1>8 DEF D

-----------------------------------------------------------------------------
(* What one round of a SELL adds                                           *)

\* The shares sold before fill i, and by fill i up to its share p.
Done(D, i, p) == {x \in D : x.sell < i \/ (x.sell = i /\ x.share <= p)}

\* Fill i sells the shares p+1..p+n, which fill a bought.
Sold(fills, i, a, p, k) ==
    [sell |-> i, buy |-> a, share |-> p + k, today |-> fills[i].today,
     net |-> Net(1, fills[a].price, fills[i].price)]

SoldSet(fills, i, a, p, n) == {Sold(fills, i, a, p, k) : k \in 1..n}

\* They are records of Sales not seen so far, and all up to p+n.
LEMMA SoldBlock ==
    ASSUME NEW Y, NEW fills \in Seq(Fill(Y)),
           NEW i \in 1..Len(fills), NEW a \in 1..Len(fills), NEW p \in Nat, NEW n \in Nat,
           NEW s, s = fills[i].symbol,
           Count(fills, s, "SELL")[i - 1] <= p, p + n <= Count(fills, s, "SELL")[i],
           Count(fills, s, "BUY")[a - 1] <= p, p + n <= Count(fills, s, "BUY")[a],
           NEW D, AreSales(fills, D)
    PROVE  /\ \A k \in 1..n : Sold(fills, i, a, p, k) \in D
           /\ \A k \in 1..n : Sold(fills, i, a, p, k) \notin Done(D, i, p)
           /\ \A k, l \in 1..n : Sold(fills, i, a, p, k) = Sold(fills, i, a, p, l) => k = l
           /\ Done(D, i, p + n) = Done(D, i, p) \cup SoldSet(fills, i, a, p, n)
  <1> USE DEF AreSales
  <1>1. /\ Count(fills, s, "SELL")[i - 1] \in Nat /\ Count(fills, s, "SELL")[i] \in Nat
        /\ Count(fills, s, "BUY")[a - 1] \in Nat /\ Count(fills, s, "BUY")[a] \in Nat
    BY CountStep
  <1>2. fills[i] \in Fill(Y) /\ fills[a] \in Fill(Y)
    OBVIOUS
  <1>3. fills[i].today \in BOOLEAN /\ fills[i].price \in Int /\ fills[a].price \in Int
    BY <1>2 DEF Fill
  <1>4. Net(1, fills[a].price, fills[i].price) \in Int
    <2>1. 1 \in Int
      OBVIOUS
    <2> QED BY <1>3, <2>1, NetType
  <1>5. ASSUME NEW k \in 1..n
        PROVE  LET x == Sold(fills, i, a, p, k)
               IN  /\ x.sell = i /\ x.buy = a /\ x.share = p + k /\ x.today = fills[i].today
                   /\ x.net = Net(1, fills[a].price, fills[i].price)
    BY DEF Sold
  <1>6. ASSUME NEW k \in 1..n PROVE Sold(fills, i, a, p, k) \in D
    <2> DEFINE x == Sold(fills, i, a, p, k)
    <2>1. x \in SaleRecs(fills)
      BY <1>3, <1>4 DEF Sold, SaleRecs
    <2>2. /\ x.sell = i /\ x.buy = a /\ x.share = p + k /\ x.today = fills[i].today
          /\ x.net = Net(1, fills[a].price, fills[i].price)
      BY <1>5
    <2>3. ShareOf(fills, s, "SELL", p + k, i) /\ ShareOf(fills, s, "BUY", p + k, a)
      BY <1>1 DEF ShareOf
    <2> HIDE DEF x
    <2>4. OfSale(fills, x)
      BY <2>2, <2>3, Zenon DEF OfSale
    <2> QED BY <2>1, <2>4 DEF x
  <1>7. ASSUME NEW k \in 1..n PROVE Sold(fills, i, a, p, k) \notin Done(D, i, p)
    BY <1>5 DEF Done
  <1>8. ASSUME NEW k \in 1..n, NEW l \in 1..n, Sold(fills, i, a, p, k) = Sold(fills, i, a, p, l)
        PROVE  k = l
    <2>1. Sold(fills, i, a, p, k).share = p + k /\ Sold(fills, i, a, p, l).share = p + l
      BY <1>5
    <2> QED BY <1>8, <2>1
  <1>9. ASSUME NEW x \in D, x.sell = i, x.share > p, x.share <= p + n
        PROVE  \E k \in 1..n : x = Sold(fills, i, a, p, k)
    <2>1. x \in SaleRecs(fills) /\ OfSale(fills, x) /\ x.share \in Nat
      BY DEF SaleRecs
    <2>2. x.share - p \in 1..n /\ p + (x.share - p) = x.share
      BY <1>9, <2>1
    <2> DEFINE k == x.share - p
               y == Sold(fills, i, a, p, k)
    <2>3. y \in D /\ y.sell = i /\ y.share = x.share
      BY <1>5, <1>6, <2>2
    <2> HIDE DEF y
    <2>4. y \in SaleRecs(fills) /\ OfSale(fills, y)
      BY <2>3
    <2>5. x = y
      BY <1>9, <2>1, <2>3, <2>4, OneSale
    <2> QED BY <2>2, <2>5 DEF y
  <1>10. \A x \in D : x.share \in Nat /\ x.sell \in Nat
    BY DEF SaleRecs
  <1>11. ASSUME NEW x PROVE x \in Done(D, i, p + n) <=>
              x \in Done(D, i, p) \/ \E k \in 1..n : x = Sold(fills, i, a, p, k)
    <2>1. ASSUME x \in Done(D, i, p + n), x \notin Done(D, i, p)
          PROVE  \E k \in 1..n : x = Sold(fills, i, a, p, k)
      <3>1. x \in D /\ x.sell = i /\ x.share > p /\ x.share <= p + n
        BY <1>10, <2>1 DEF Done
      <3> QED BY <1>9, <3>1
    <2>2. ASSUME x \in Done(D, i, p) PROVE x \in Done(D, i, p + n)
      BY <1>10, <2>2 DEF Done
    <2>3. ASSUME NEW k \in 1..n, x = Sold(fills, i, a, p, k) PROVE x \in Done(D, i, p + n)
      <3>1. x \in D /\ x.sell = i /\ x.share = p + k
        BY <1>5, <1>6, <2>3
      <3> QED BY <3>1 DEF Done
    <2> QED BY <2>1, <2>2, <2>3
  <1>12. Done(D, i, p + n) = Done(D, i, p) \cup {Sold(fills, i, a, p, k) : k \in 1..n}
    BY <1>11
  <1> QED BY <1>6, <1>7, <1>8, <1>12 DEF SoldSet

SoldNext(fills, D, i, a, p, n) ==
    /\ \A k \in 1..n : Sold(fills, i, a, p, k) \in D
    /\ \A k \in 1..n : Sold(fills, i, a, p, k) \notin Done(D, i, p)
    /\ \A k, l \in 1..n : Sold(fills, i, a, p, k) = Sold(fills, i, a, p, l) => k = l
    /\ Done(D, i, p + n) = Done(D, i, p) \cup SoldSet(fills, i, a, p, n)

InFills(fills, s, i, a, p, n) ==
    /\ Count(fills, s, "SELL")[i - 1] <= p /\ p + n <= Count(fills, s, "SELL")[i]
    /\ Count(fills, s, "BUY")[a - 1] <= p /\ p + n <= Count(fills, s, "BUY")[a]

\* The same, under a name.
LEMMA SoldBlockIs ==
    ASSUME NEW Y, NEW fills \in Seq(Fill(Y)),
           NEW i \in 1..Len(fills), NEW a \in 1..Len(fills), NEW p \in Nat, NEW n \in Nat,
           NEW s, s = fills[i].symbol, InFills(fills, s, i, a, p, n),
           NEW D, AreSales(fills, D)
    PROVE  SoldNext(fills, D, i, a, p, n)
  <1>1. /\ Count(fills, s, "SELL")[i - 1] <= p /\ p + n <= Count(fills, s, "SELL")[i]
        /\ Count(fills, s, "BUY")[a - 1] <= p /\ p + n <= Count(fills, s, "BUY")[a]
    BY DEF InFills
  <1> QED BY <1>1, SoldBlock DEF SoldNext

\* The lots closed, in order: outcome k is that of the lot P[k].
Piece(x) == [sell |-> x.sell, buy |-> x.buy, net |-> x.net]
Pieces == [sell: Nat, buy: Nat, net: Int]
Before(p, q) == p.sell < q.sell \/ (p.sell = q.sell /\ p.buy < q.buy)

Ordered(D, outs, P) ==
    /\ P \in [1..Len(outs) -> Pieces]
    /\ \A k \in 1..Len(outs) : outs[k] >= 0 <=> P[k].net >= 0
    /\ \A k, l \in 1..Len(outs) : k < l => Before(P[k], P[l])
    /\ \A k \in 1..Len(outs) : \E x \in D : P[k] = Piece(x)
    /\ \A x \in D : \E k \in 1..Len(outs) : P[k] = Piece(x)

HasOrder(D, outs) == \E P : Ordered(D, outs, P)

\* One more lot.
LEMMA OrderAppend ==
    ASSUME NEW D, NEW D2, NEW outs \in Seq(Int), HasOrder(D, outs), NEW v \in Int, NEW q \in Pieces,
           v >= 0 <=> q.net >= 0,
           D \subseteq D2, \A x \in D2 : x \in D \/ Piece(x) = q,
           \E x \in D2 : Piece(x) = q,
           \A x \in D : Before(Piece(x), q)
    PROVE  HasOrder(D2, Append(outs, v))
  <1> DEFINE N == Len(outs)
             o2 == Append(outs, v)
  <1>1. PICK P : Ordered(D, outs, P)
    BY DEF HasOrder
  <1>2. /\ P \in [1..N -> Pieces]
        /\ \A k \in 1..N : outs[k] >= 0 <=> P[k].net >= 0
        /\ \A k, l \in 1..N : k < l => Before(P[k], P[l])
        /\ \A k \in 1..N : \E x \in D : P[k] = Piece(x)
        /\ \A x \in D : \E k \in 1..N : P[k] = Piece(x)
    BY <1>1 DEF Ordered
  <1>3. N \in Nat /\ Len(o2) = N + 1 /\ o2[N + 1] = v /\ \A k \in 1..N : o2[k] = outs[k]
    OBVIOUS
  <1> DEFINE Q == [k \in 1..(N + 1) |-> IF k <= N THEN P[k] ELSE q]
  <1> HIDE DEF N, o2
  <1>4. /\ Q \in [1..(N + 1) -> Pieces] /\ Q[N + 1] = q /\ \A k \in 1..N : Q[k] = P[k]
        /\ N + 1 \in 1..(N + 1) /\ \A k \in 1..(N + 1) : k \in 1..N \/ k = N + 1
        /\ \A k \in 1..N : k \in 1..(N + 1)
    BY <1>2, <1>3
  <1> HIDE DEF Q
  <1>5. ASSUME NEW k \in 1..(N + 1) PROVE o2[k] >= 0 <=> Q[k].net >= 0
    <2>1. CASE k \in 1..N
      <3>1. o2[k] = outs[k] /\ Q[k] = P[k]
        BY <1>3, <1>4, <2>1
      <3> QED BY <1>2, <2>1, <3>1
    <2>2. CASE k = N + 1
      BY <1>3, <1>4, <2>2
    <2> QED BY <1>4, <2>1, <2>2
  <1>6. ASSUME NEW k \in 1..(N + 1), NEW l \in 1..(N + 1), k < l PROVE Before(Q[k], Q[l])
    <2>1. CASE l \in 1..N
      <3>1. k \in 1..N
        BY <1>3, <1>6, <2>1
      <3> QED BY <1>2, <1>4, <1>6, <2>1, <3>1
    <2>2. CASE l = N + 1
      <3>1. k \in 1..N
        BY <1>3, <1>6, <2>2
      <3>2. PICK x \in D : P[k] = Piece(x)
        BY <1>2, <3>1
      <3> QED BY <1>4, <2>2, <3>1, <3>2
    <2> QED BY <1>4, <2>1, <2>2
  <1>7. ASSUME NEW k \in 1..(N + 1) PROVE \E x \in D2 : Q[k] = Piece(x)
    <2>1. CASE k \in 1..N
      <3>1. PICK x \in D : P[k] = Piece(x)
        BY <1>2, <2>1
      <3>2. x \in D2 /\ Q[k] = Piece(x)
        BY <1>4, <2>1, <3>1
      <3> QED BY <3>2
    <2>2. CASE k = N + 1
      BY <1>4, <2>2
    <2> QED BY <1>4, <2>1, <2>2
  <1>8. ASSUME NEW x \in D2 PROVE \E k \in 1..(N + 1) : Q[k] = Piece(x)
    <2>1. CASE x \in D
      <3>1. PICK k \in 1..N : P[k] = Piece(x)
        BY <1>2, <2>1
      <3>2. k \in 1..(N + 1) /\ Q[k] = Piece(x)
        BY <1>4, <3>1
      <3> QED BY <3>2
    <2>2. CASE Piece(x) = q
      BY <1>4, <2>2
    <2> QED BY <2>1, <2>2
  <1>9. Ordered(D2, o2, Q)
    BY <1>3, <1>4, <1>5, <1>6, <1>7, <1>8 DEF Ordered
  <1>10. HasOrder(D2, o2)
    BY <1>9 DEF HasOrder
  <1> QED BY <1>10 DEF o2

\* n shares bring n times what one brings.
LEMMA NetTimes ==
    ASSUME NEW n \in Nat \ {0}, NEW p \in Int, NEW q \in Int
    PROVE  /\ Net(1, p, q) \in Int /\ Net(n, p, q) = n * Net(1, p, q)
           /\ Net(n, p, q) >= 0 <=> Net(1, p, q) >= 0
           /\ Net(n, p, q) \in Int
  <1> DEFINE x == 10000 * (q - p) - BuyCostBps * p - SellCostBps * q
  <1>1. x \in Int
    BY DEF BuyCostBps, SellCostBps
  <1>2. Net(1, p, q) = 1 * x /\ Net(n, p, q) = n * x
    BY DEF Net
  <1> HIDE DEF x
  <1>3. 1 * x = x /\ n * x \in Int
    BY <1>1
  <1>4. x >= 0 => n * x >= 0
    BY <1>1
  <1>5. x < 0 => n * x < 0
    BY <1>1
  <1> QED BY <1>1, <1>2, <1>3, <1>4, <1>5

SaleState(fills, D, g, i, prev, T0, p, m) ==
    /\ HasOrder(Done(D, i, p), prev \o m.outcomes)
    /\ \E T : /\ IsTotal(m.outcomes, T)
              /\ g[Done(D, i, p)] = T0 + (IF fills[i].today THEN T ELSE 0)

TodayOf(D) == [x \in D |-> IF x.today THEN x.net ELSE 0]

\* A piece sold by the same fill before p was bought before fill a.
LEMMA EarlierBuy ==
    ASSUME NEW Y, NEW fills \in Seq(Fill(Y)), NEW s,
           NEW a \in 1..Len(fills), NEW e \in 1..Len(fills), NEW j \in 1..Len(fills), NEW k \in Nat,
           ShareOf(fills, s, "BUY", k, j), k <= Count(fills, s, "BUY")[e],
           Count(fills, s, "BUY")[e] < Count(fills, s, "BUY")[a]
    PROVE  j < a
  <1> DEFINE c == Count(fills, s, "BUY")
  <1>1. IsCount(fills, s, "BUY", c)
    BY CountExists
  <1>2. c[j - 1] < k /\ k <= c[j]
    BY DEF ShareOf
  <1>3. k <= c[e] /\ c[e] < c[a]
    OBVIOUS
  <1> HIDE DEF c
  <1>4. /\ \A z \in 0..Len(fills) : c[z] \in Nat
        /\ a \in 0..Len(fills) /\ e \in 0..Len(fills) /\ j - 1 \in 0..Len(fills)
    BY <1>1 DEF IsCount
  <1>5. ~(e <= j - 1)
    <2> SUFFICES ASSUME e <= j - 1 PROVE FALSE
      OBVIOUS
    <2>1. c[e] <= c[j - 1]
      BY <1>1, <1>4, CountGrows
    <2>2. c[e] \in Nat /\ c[j - 1] \in Nat
      BY <1>4
    <2> QED BY <1>2, <1>3, <2>1, <2>2
  <1>6. ~(a <= e)
    <2> SUFFICES ASSUME a <= e PROVE FALSE
      OBVIOUS
    <2>1. c[a] <= c[e]
      BY <1>1, <1>4, CountGrows
    <2>2. c[e] \in Nat /\ c[a] \in Nat
      BY <1>4
    <2> QED BY <1>3, <2>1, <2>2
  <1> QED BY <1>5, <1>6

\* A number more at the end of two sequences.
LEMMA ConcatAppend ==
    ASSUME NEW u \in Seq(Int), NEW v \in Seq(Int), NEW k \in Int
    PROVE  u \o Append(v, k) = Append(u \o v, k)
  <1>1. Append(v, k) = v \o <<k>> /\ <<k>> \in Seq(Int) /\ u \o v \in Seq(Int)
    BY AppendIsConcat
  <1>2. Append(u \o v, k) = (u \o v) \o <<k>>
    BY <1>1, AppendIsConcat
  <1>3. (u \o v) \o <<k>> = u \o (v \o <<k>>)
    BY <1>1, ConcatAssociative
  <1> QED BY <1>1, <1>2, <1>3

\* Fill i sells q shares of s from start on; c counts what was bought of it.
SellOf(fills, i, s, c, start, q) ==
    /\ fills[i].side = "SELL" /\ s = fills[i].symbol /\ q = fills[i].qty
    /\ c = Count(fills, s, "BUY") /\ start = Count(fills, s, "SELL")[i - 1]

\* Lots begin where a fill ended, or where the SELL began.
AtEdge(fills, c, start, x) == x = start \/ \E e \in 1..Len(fills) : x = c[e]

\* What this says of the fill and the counts.
LEMMA SellFacts ==
    ASSUME NEW Y, NEW fills \in Seq(Fill(Y)), NEW i \in 1..Len(fills),
           NEW s, NEW c, NEW start, NEW q, SellOf(fills, i, s, c, start, q)
    PROVE  /\ fills[i] \in Fill(Y) /\ fills[i].price \in Nat /\ fills[i].today \in BOOLEAN
           /\ s \in Y /\ q \in Nat \ {0} /\ start \in Nat
           /\ Count(fills, s, "SELL")[i] = start + q
           /\ Count(fills, s, "BUY")[i] = Count(fills, s, "BUY")[i - 1]
           /\ c[i] \in Nat
  <1>1. fills[i] \in Fill(Y)
    OBVIOUS
  <1>2. /\ fills[i].price \in Nat /\ fills[i].today \in BOOLEAN /\ fills[i].qty \in Nat \ {0}
        /\ fills[i].symbol \in Y
    BY <1>1 DEF Fill
  <1>3. /\ fills[i].side = "SELL" /\ s = fills[i].symbol /\ q = fills[i].qty
        /\ c = Count(fills, s, "BUY") /\ start = Count(fills, s, "SELL")[i - 1]
    BY DEF SellOf
  <1>4. start \in Nat /\ Count(fills, s, "SELL")[i] = start + q
    BY <1>3, CountStep
  <1>5. Count(fills, s, "BUY")[i] = Count(fills, s, "BUY")[i - 1] /\ c[i] \in Nat
    BY <1>3, CountStep
  <1> QED BY <1>1, <1>2, <1>3, <1>4, <1>5

\* A round of the loop closes the next piece and adds what it brought.
LEMMA SaleRound ==
    ASSUME NEW Y, NEW fills \in Seq(Fill(Y)), NEW i \in 1..Len(fills),
           NEW s, NEW c, NEW start, NEW q, SellOf(fills, i, s, c, start, q),
           NEW D, AreSales(fills, D),
           NEW g, IsSum(D, TodayOf(D), g),
           NEW prev \in Seq(Int), NEW T0 \in Int,
           NEW x, NEW y, NEW a, NEW lot \in Lot, LotAt(fills, c, lot, x, y, a),
           AtEdge(fills, c, start, x),
           NEW m, RoundOK(fills, c, start, q, x, m), m.price = fills[i].price,
           SaleState(fills, D, g, i, prev, T0, Pos(start, q, m), m)
    PROVE  /\ MatchLot(m, lot).price = fills[i].price
           /\ SaleState(fills, D, g, i, prev, T0, Pos(start, q, MatchLot(m, lot)), MatchLot(m, lot))
  <1> DEFINE r == MatchLot(m, lot)
             n == Lesser(m.remaining, lot.qty)
             p == Pos(start, q, m)
             p2 == Pos(start, q, r)
             f == fills[i]
             val == Net(n, lot.price, m.price)
  <1>1. /\ m \in Match /\ m.remaining <= q /\ p <= x /\ (m.remaining > 0 => p = x)
    BY DEF RoundOK
  <1>2. /\ a \in 1..Len(fills) /\ x \in Nat /\ y \in Nat /\ y = x + lot.qty
        /\ c[a - 1] \in Nat /\ c[a - 1] <= x /\ y = c[a] /\ lot.price = fills[a].price
    BY DEF LotAt
  <1>3. /\ r \in Match /\ r.price = m.price
        /\ n \in Nat /\ n <= m.remaining /\ n <= lot.qty
        /\ n = m.remaining \/ n = lot.qty
        /\ r.remaining = m.remaining - n
        /\ r.outcomes = IF n = 0 THEN m.outcomes ELSE Append(m.outcomes, val)
    BY <1>1, MatchStep
  <1>4. /\ m.remaining \in Nat /\ lot.qty \in Nat \ {0} /\ lot.price \in Nat /\ m.price \in Nat
        /\ r.remaining \in Nat /\ m.outcomes \in Seq(Int)
    BY <1>1, <1>3 DEF Match, Lot
  <1>5. f \in Fill(Y) /\ f.price \in Nat /\ f.today \in BOOLEAN /\ q \in Nat
    BY SellFacts
  <1>6. start \in Nat /\ Count(fills, s, "SELL")[i] = start + q
    BY SellFacts
  <1> HIDE DEF r, n, val
  <1>7. p2 = p + n /\ p \in Nat /\ p2 \in Nat /\ start <= p /\ p2 <= start + q
    <2>1. p = start + (q - m.remaining) /\ p2 = start + (q - r.remaining)
      BY Zenon DEF Pos
    <2> HIDE DEF p, p2
    <2>2. r.remaining = m.remaining - n /\ n <= m.remaining /\ n \in Nat
      BY <1>3
    <2>3. m.remaining <= q /\ m.remaining \in Nat /\ r.remaining \in Nat
      BY <1>1, <1>4
    <2>4. start \in Nat /\ q \in Nat
      BY <1>5, <1>6
    <2>5. p2 = p + n
      BY <2>1, <2>2, <2>3, <2>4
    <2>6. p \in Nat
      BY <2>1, <2>3, <2>4
    <2>7. start <= p
      BY <2>1, <2>3, <2>4
    <2>8. p2 <= start + q
      BY <2>1, <2>3, <2>4
    <2>9. p2 \in Nat
      BY <2>2, <2>5, <2>6
    <2> QED BY <2>5, <2>6, <2>7, <2>8, <2>9
  <1>8. SaleState(fills, D, g, i, prev, T0, p, m)
    OBVIOUS
  <1> HIDE DEF p, p2
  <1>9. PICK T : IsTotal(m.outcomes, T) /\ g[Done(D, i, p)] = T0 + (IF f.today THEN T ELSE 0)
    BY <1>8 DEF SaleState
  <1>10. HasOrder(Done(D, i, p), prev \o m.outcomes) /\ T \in Int
    <2>1. T \in Int
      BY <1>4, <1>9, OneTotal
    <2> QED BY <1>8, <2>1 DEF SaleState
  <1>11. CASE n = 0
    <2>1. p2 = p /\ r.outcomes = m.outcomes
      BY <1>3, <1>7, <1>11
    <2>2. SaleState(fills, D, g, i, prev, T0, p2, r)
      BY <1>8, <2>1 DEF SaleState
    <2> QED BY <1>3, <2>2 DEF r, p2
  <1>12. CASE n # 0
    <2> DEFINE one == Net(1, fills[a].price, f.price)
               E == Done(D, i, p)
               E2 == Done(D, i, p2)
               v == IF f.today THEN one ELSE 0
               piece == [sell |-> i, buy |-> a, net |-> one]
               sold == [k \in 1..n |-> Sold(fills, i, a, p, k)]
    <2>1. p = x /\ n \in Nat \ {0} /\ r.outcomes = Append(m.outcomes, val)
      <3>1. n \in Nat \ {0} /\ n <= m.remaining /\ m.remaining \in Nat
        BY <1>3, <1>4, <1>12
      <3>2. m.remaining > 0
        BY <3>1
      <3> QED BY <1>1, <1>3, <1>12, <3>1, <3>2
    <2>2. /\ one \in Int /\ val = n * one /\ val \in Int /\ (val >= 0 <=> one >= 0)
      <3>1. val = Net(n, fills[a].price, f.price)
        BY <1>2 DEF val
      <3>2. fills[a].price \in Int /\ f.price \in Int
        BY <1>2, <1>4, <1>5
      <3> DEFINE bp == fills[a].price
                 sp == f.price
      <3>3. n \in Nat \ {0}
        BY <2>1
      <3> HIDE DEF bp, sp
      <3>4. /\ Net(1, bp, sp) \in Int /\ Net(n, bp, sp) = n * Net(1, bp, sp)
            /\ Net(n, bp, sp) >= 0 <=> Net(1, bp, sp) >= 0
            /\ Net(n, bp, sp) \in Int
        BY <3>2, <3>3, NetTimes DEF bp, sp
      <3> QED BY <3>1, <3>4, Zenon DEF bp, sp
    <2>3. /\ \A k \in 1..n : Sold(fills, i, a, p, k) \in D
          /\ \A k \in 1..n : Sold(fills, i, a, p, k) \notin E
          /\ \A k, l \in 1..n : Sold(fills, i, a, p, k) = Sold(fills, i, a, p, l) => k = l
          /\ E2 = E \cup SoldSet(fills, i, a, p, n)
      <3>1. /\ Count(fills, s, "SELL")[i - 1] <= p /\ p + n <= Count(fills, s, "SELL")[i]
            /\ Count(fills, s, "BUY")[a - 1] <= p /\ p + n <= Count(fills, s, "BUY")[a]
        <4>1. start <= p /\ p + n <= start + q
          BY <1>7
        <4>2. c[a - 1] <= p /\ p + n <= c[a]
          <5>1. n <= lot.qty /\ n \in Nat /\ lot.qty \in Nat /\ p = x
            BY <1>3, <1>4, <2>1
          <5>2. x + n <= x + lot.qty
            BY <1>2, <5>1
          <5> QED BY <1>2, <5>1, <5>2
        <4>3. start = Count(fills, s, "SELL")[i - 1] /\ c = Count(fills, s, "BUY")
          BY DEF SellOf
        <4> QED BY <1>6, <4>1, <4>2, <4>3
      <3>2. p + n = p2
        BY <1>7
      <3>3. s = fills[i].symbol /\ n \in Nat
        BY <1>3 DEF SellOf
      <3>4. InFills(fills, s, i, a, p, n)
        BY <3>1 DEF InFills
      <3>5. a \in 1..Len(fills) /\ p \in Nat
        BY <1>2, <1>7
      <3>6. SoldNext(fills, D, i, a, p, n)
        BY <3>3, <3>4, <3>5, SoldBlockIs
      <3>7. E2 = Done(D, i, p + n)
        BY <3>2
      <3> QED BY <3>6, <3>7 DEF SoldNext
    <2>4. ASSUME NEW k \in 1..n
          PROVE  /\ Piece(Sold(fills, i, a, p, k)) = piece
                 /\ Sold(fills, i, a, p, k).today = f.today /\ Sold(fills, i, a, p, k).net = one
      BY DEF Sold, Piece
    <2> HIDE DEF one
    <2>5. g[E2] = g[E] + n * v
      <3>1. sold \in [1..n -> D]
        BY <2>3
      <3>2. \A z \in D : z.today \in BOOLEAN /\ z.net \in Int
        BY DEF SaleRecs, AreSales
      <3>3. TodayOf(D) \in [D -> Int]
        BY <3>2 DEF TodayOf
      <3>4. \A k \in 1..n : sold[k] \notin E /\ TodayOf(D)[sold[k]] = v
        BY <2>3, <2>4 DEF TodayOf
      <3>5. \A k, l \in 1..n : sold[k] = sold[l] => k = l
        BY <2>3
      <3>6. E \in SUBSET D /\ v \in Int
        BY <2>2, <1>5 DEF Done
      <3>7. Values(sold, n) = SoldSet(fills, i, a, p, n)
        BY DEF Values, SoldSet
      <3>8. g[E \cup Values(sold, n)] = g[E] + n * v
        <4> HIDE DEF sold, E, v
        <4> DEFINE w == TodayOf(D)
        <4>1. IsBlock(D, w, E, sold, n, v)
          BY <3>1, <3>4, <3>5 DEF IsBlock
        <4>2. n \in Nat /\ w \in [D -> Int] /\ IsSum(D, w, g)
          BY <1>3, <3>3
        <4> HIDE DEF w
        <4>3. E \in SUBSET D /\ v \in Int
          BY <3>6
        <4>4. BlockAdds(g, E, sold, n, v)
          BY <4>1, <4>2, <4>3, SumBlockIs
        <4> QED BY <4>4, Zenon DEF BlockAdds
      <3> HIDE DEF sold, E, E2, v
      <3> QED BY <2>3, <3>7, <3>8
    <2>6. g[E2] = T0 + (IF f.today THEN T + val ELSE 0)
      <3>1. CASE f.today
        <4>1. v = one /\ g[E] = T0 + T
          BY <1>9, <3>1
        <4> HIDE DEF v, E, E2
        <4>2. g[E2] = T0 + T + val
          BY <2>2, <2>5, <4>1
        <4> QED BY <1>10, <2>2, <3>1, <4>2
      <3>2. CASE ~f.today
        <4>1. v = 0 /\ g[E] = T0 + 0
          BY <1>9, <3>2
        <4>2. n * 0 = 0
          BY <1>3
        <4> HIDE DEF v, E, E2
        <4> QED BY <2>5, <3>2, <4>1, <4>2
      <3> QED BY <3>1, <3>2
    <2>7. IsTotal(r.outcomes, T + val)
      BY <1>4, <1>9, <2>1, <2>2, TotalAppend
    <2>8. HasOrder(E2, Append(prev \o m.outcomes, val))
      <3>1. prev \o m.outcomes \in Seq(Int)
        BY <1>4
      <3>2. piece \in Pieces /\ piece.net = one
        BY <1>2, <2>2 DEF Pieces
      <3>3. E \subseteq E2 /\ \A z \in E2 : z \in E \/ Piece(z) = piece
        <4> HIDE DEF E, E2, piece
        <4> QED BY <2>3, <2>4 DEF SoldSet
      <3>4. \E z \in E2 : Piece(z) = piece
        <4>1. 1 \in 1..n
          BY <2>1
        <4> HIDE DEF E, E2, piece
        <4>2. Sold(fills, i, a, p, 1) \in E2 /\ Piece(Sold(fills, i, a, p, 1)) = piece
          BY <2>3, <2>4, <4>1 DEF SoldSet
        <4> QED BY <4>2
      <3>5. ASSUME NEW z \in E PROVE Before(Piece(z), piece)
        <4>1. z \in SaleRecs(fills) /\ OfSale(fills, z) /\ (z.sell < i \/ (z.sell = i /\ z.share <= p))
          BY DEF Done, AreSales
        <4>2. z.sell \in Nat /\ z.buy \in 1..Len(fills) /\ z.share \in Nat
          BY <4>1 DEF SaleRecs
        <4>3. Piece(z).sell = z.sell /\ Piece(z).buy = z.buy /\ piece.sell = i /\ piece.buy = a
          BY DEF Piece
        <4> HIDE DEF piece
        <4>4. CASE z.sell < i
          BY <4>3, <4>4 DEF Before
        <4>5. CASE z.sell = i /\ z.share <= p
          <5>1. ShareOf(fills, s, "SELL", z.share, i) /\ ShareOf(fills, s, "BUY", z.share, z.buy)
            BY <4>1, <4>5 DEF OfSale, SellOf
          <5>2. start < z.share
            BY <5>1 DEF ShareOf, SellOf
          <5>3. x # start
            BY <1>6, <2>1, <4>2, <4>5, <5>2
          <5>4. PICK e \in 1..Len(fills) : x = c[e]
            BY <5>3 DEF AtEdge
          <5>5. z.share <= Count(fills, s, "BUY")[e] /\ Count(fills, s, "BUY")[e] < Count(fills, s, "BUY")[a]
            <6>1. c[e] < c[a]
              BY <1>2, <1>4, <5>4
            <6> QED BY <2>1, <4>5, <5>4, <6>1 DEF SellOf
          <5>6. z.buy < a
            BY <1>2, <4>2, <5>1, <5>5, EarlierBuy
          <5> QED BY <4>3, <4>5, <5>6 DEF Before
        <4> QED BY <4>1, <4>4, <4>5
      <3> HIDE DEF E, E2, piece
      <3>6. HasOrder(E, prev \o m.outcomes)
        BY <1>10 DEF E
      <3>7. val >= 0 <=> piece.net >= 0
        BY <2>2, <3>2
      <3> QED BY <2>2, <3>1, <3>2, <3>3, <3>4, <3>5, <3>6, <3>7, OrderAppend
    <2>9. prev \o r.outcomes = Append(prev \o m.outcomes, val)
      <3>1. prev \in Seq(Int) /\ m.outcomes \in Seq(Int) /\ val \in Int
        BY <1>4, <2>2
      <3>2. prev \o Append(m.outcomes, val) = Append(prev \o m.outcomes, val)
        BY <3>1, ConcatAppend
      <3> QED BY <2>1, <3>2
    <2>10. SaleState(fills, D, g, i, prev, T0, p2, r)
      <3> HIDE DEF E2
      <3>1. HasOrder(E2, prev \o r.outcomes)
        BY <2>8, <2>9
      <3>2. \E U : IsTotal(r.outcomes, U) /\ g[E2] = T0 + (IF fills[i].today THEN U ELSE 0)
        BY <2>6, <2>7
      <3> QED BY <3>1, <3>2, Zenon DEF SaleState, E2
    <2> QED BY <1>3, <2>10 DEF r, p2
  <1> QED BY <1>11, <1>12

\* A SELL, lot after lot.
LEMMA SaleRounds ==
    ASSUME NEW Y, NEW fills \in Seq(Fill(Y)), NEW i \in 1..Len(fills),
           NEW s, NEW c, NEW start, NEW q, SellOf(fills, i, s, c, start, q),
           NEW D, AreSales(fills, D),
           NEW g, IsSum(D, TodayOf(D), g),
           NEW prev \in Seq(Int), NEW T0 \in Int,
           NEW to, NEW lots \in Seq(Lot), NEW h, NEW A, Span(fills, c, start, to, lots, h, A),
           NEW r, IsRounds(fills, c, start, fills[i], lots, h, r),
           SaleState(fills, D, g, i, prev, T0, start, r[0])
    PROVE  SaleState(fills, D, g, i, prev, T0, Pos(start, q, r[Len(lots)]), r[Len(lots)])
  <1> DEFINE N == Len(lots)
             Good(n) == /\ r[n].price = fills[i].price
                        /\ SaleState(fills, D, g, i, prev, T0, Pos(start, q, r[n]), r[n])
             S == {n \in Nat : n <= N => Good(n)}
  <1>1. /\ N \in Nat /\ h[0] = start /\ \A j \in 1..N : lots[j] \in Lot
        /\ \A j \in 1..N : LotAt(fills, c, lots[j], h[j - 1], h[j], A[j])
    BY DEF Span
  <1>2. /\ \A j \in 0..N : RoundOK(fills, c, start, q, h[j], r[j])
        /\ \A j \in 1..N : r[j] = MatchLot(r[j - 1], lots[j])
        /\ r[0].remaining = q /\ r[0].price = fills[i].price
    BY DEF IsRounds, SellOf
  <1>3. q \in Nat /\ start \in Nat
    BY SellFacts
  <1>4. 0 \in S
    <2>1. Pos(start, q, r[0]) = start
      BY <1>2, <1>3 DEF Pos
    <2>2. SaleState(fills, D, g, i, prev, T0, Pos(start, q, r[0]), r[0])
      BY <2>1
    <2> QED BY <1>2, <2>2
  <1>5. ASSUME NEW j \in 0..N, j + 1 <= N PROVE AtEdge(fills, c, start, h[j])
    <2>1. CASE j = 0
      BY <1>1, <2>1 DEF AtEdge
    <2>2. CASE j # 0
      <3>1. j \in 1..N
        BY <1>1, <2>2
      <3>2. LotAt(fills, c, lots[j], h[j - 1], h[j], A[j])
        BY <1>1, <3>1
      <3>3. A[j] \in 1..Len(fills) /\ h[j] = c[A[j]]
        BY <3>2 DEF LotAt
      <3> QED BY <3>3 DEF AtEdge
    <2> QED BY <2>1, <2>2
  <1>6. ASSUME NEW n \in S PROVE n + 1 \in S
    <2>1. n \in Nat /\ n + 1 \in Nat /\ (n + 1) - 1 = n
      OBVIOUS
    <2>2. ASSUME n + 1 <= N PROVE Good(n + 1)
      <3>1. n + 1 \in 1..N /\ n \in 0..N /\ Good(n)
        BY <1>1, <2>1, <2>2
      <3>2. /\ r[n + 1] = MatchLot(r[n], lots[n + 1]) /\ lots[n + 1] \in Lot
            /\ LotAt(fills, c, lots[n + 1], h[n], h[n + 1], A[n + 1])
            /\ RoundOK(fills, c, start, q, h[n], r[n])
        <4> HIDE DEF N
        <4> QED BY <1>1, <1>2, <2>1, <3>1
      <3>3. AtEdge(fills, c, start, h[n])
        BY <1>5, <2>2, <3>1
      <3> DEFINE m == r[n]
                 lot == lots[n + 1]
                 x == h[n]
                 y == h[n + 1]
                 a == A[n + 1]
      <3>4. /\ lot \in Lot /\ LotAt(fills, c, lot, x, y, a) /\ RoundOK(fills, c, start, q, x, m)
            /\ AtEdge(fills, c, start, x) /\ m.price = fills[i].price
            /\ SaleState(fills, D, g, i, prev, T0, Pos(start, q, m), m)
        BY <3>1, <3>2, <3>3
      <3>5. r[n + 1] = MatchLot(m, lot)
        BY <3>2
      <3> HIDE DEF m, lot, x, y, a, N, S, Good
      <3>6. /\ MatchLot(m, lot).price = fills[i].price
            /\ SaleState(fills, D, g, i, prev, T0, Pos(start, q, MatchLot(m, lot)), MatchLot(m, lot))
        BY <3>4, SaleRound
      <3> QED BY <3>5, <3>6, Zenon DEF Good
    <2> QED BY <2>1, <2>2
  <1>7. S \in SUBSET Nat
    OBVIOUS
  <1>8. \A n \in Nat : n \in S
    <2> HIDE DEF S
    <2> QED BY <1>4, <1>6, <1>7, Induction
  <1>9. Good(N)
    <2> HIDE DEF Good
    <2> QED BY <1>1, <1>8
  <1> QED BY <1>9

\* The shares sold by the first i fills.
UpTo(D, i) == {x \in D : x.sell <= i}

\* Between two fills.
LEMMA DoneIs ==
    ASSUME NEW Y, NEW fills \in Seq(Fill(Y)), NEW i \in 1..Len(fills),
           NEW s, NEW c, NEW start, NEW q, SellOf(fills, i, s, c, start, q),
           NEW D, AreSales(fills, D)
    PROVE  Done(D, i, start) = UpTo(D, i - 1) /\ Done(D, i, start + q) = UpTo(D, i)
  <1>1. start \in Nat /\ q \in Nat /\ Count(fills, s, "SELL")[i] = start + q
    BY SellFacts
  <1>2. start = Count(fills, s, "SELL")[i - 1] /\ s = fills[i].symbol
    BY DEF SellOf
  <1>3. ASSUME NEW x \in D
        PROVE  /\ x.sell \in Nat /\ x.share \in Nat
               /\ x.sell = i => start < x.share /\ x.share <= start + q
    <2>1. x \in SaleRecs(fills) /\ OfSale(fills, x)
      BY DEF AreSales
    <2>2. x.sell \in Nat /\ x.share \in Nat
      BY <2>1 DEF SaleRecs
    <2>3. ASSUME x.sell = i PROVE start < x.share /\ x.share <= start + q
      <3>1. ShareOf(fills, s, "SELL", x.share, i)
        BY <1>2, <2>1, <2>3 DEF OfSale
      <3> QED BY <1>1, <1>2, <3>1 DEF ShareOf
    <2> QED BY <2>2, <2>3
  <1>4. \A x \in D : (x.sell < i \/ (x.sell = i /\ x.share <= start)) <=> x.sell <= i - 1
    BY <1>1, <1>3
  <1>5. \A x \in D : (x.sell < i \/ (x.sell = i /\ x.share <= start + q)) <=> x.sell <= i
    BY <1>1, <1>3
  <1> QED BY <1>4, <1>5 DEF Done, UpTo

\* A BUY sells nothing.
LEMMA BuySells ==
    ASSUME NEW Y, NEW fills \in Seq(Fill(Y)), NEW i \in 1..Len(fills), fills[i].side = "BUY",
           NEW D, AreSales(fills, D)
    PROVE  UpTo(D, i) = UpTo(D, i - 1)
  <1>1. ASSUME NEW x \in D PROVE x.sell \in Nat /\ x.sell # i
    <2>1. x \in SaleRecs(fills) /\ OfSale(fills, x)
      BY DEF AreSales
    <2>2. x.sell \in Nat /\ x.share \in Nat
      BY <2>1 DEF SaleRecs
    <2>3. ASSUME x.sell = i PROVE FALSE
      <3> DEFINE s == fills[i].symbol
      <3>1. ShareOf(fills, s, "SELL", x.share, i)
        BY <2>1, <2>3 DEF OfSale
      <3>2. Count(fills, s, "SELL")[i] = Count(fills, s, "SELL")[i - 1] /\ Count(fills, s, "SELL")[i] \in Nat
        BY CountStep
      <3> QED BY <2>2, <3>1, <3>2 DEF ShareOf
    <2> QED BY <2>2, <2>3
  <1>2. \A x \in D : x.sell <= i <=> x.sell <= i - 1
    BY <1>1
  <1> QED BY <1>2 DEF UpTo

\* The book tells what the shares sold so far brought.
BookTells(D, g, i, b) == HasOrder(UpTo(D, i), b.outcomes) /\ b.today = g[UpTo(D, i)]

\* No fill leaves it wrong.
LEMMA TellStep ==
    ASSUME NEW Y, NEW fills \in Seq(Fill(Y)), NEW i \in 1..Len(fills),
           NEW D, AreSales(fills, D),
           NEW g, IsSum(D, TodayOf(D), g),
           NEW b \in Books(Y), BookOK(fills, Y, i - 1, b), BookTells(D, g, i - 1, b),
           Apply(b, fills[i]).ok
    PROVE  BookTells(D, g, i, Apply(b, fills[i]))
  <1> DEFINE f == fills[i]
  <1>1. f \in Fill(Y) /\ f.symbol \in Y /\ f.qty \in Nat \ {0} /\ f.today \in BOOLEAN
        /\ f.side \in {"BUY", "SELL"}
    <2>1. f \in Fill(Y)
      OBVIOUS
    <2> HIDE DEF f
    <2> QED BY <2>1 DEF Fill
  <1>2. Apply(b, f).ok
    OBVIOUS
  <1>3. b.ok
    <2> SUFFICES ASSUME ~b.ok PROVE FALSE
      OBVIOUS
    <2> HIDE DEF f
    <2>1. Apply(b, f) = b
      BY <1>1, ApplyNot
    <2> QED BY <1>2, <2>1
  <1>4. HasOrder(UpTo(D, i - 1), b.outcomes) /\ b.today = g[UpTo(D, i - 1)]
    BY DEF BookTells
  <1>5. b.outcomes \in Seq(Int) /\ b.today \in Int /\ b.lots \in [Y -> Seq(Lot)]
    BY DEF Books
  <1>6. CASE f.side = "BUY"
    <2>1. UpTo(D, i) = UpTo(D, i - 1)
      BY <1>6, BuySells
    <2>2. Apply(b, f).outcomes = b.outcomes /\ Apply(b, f).today = b.today
      <3> HIDE DEF f
      <3> QED BY <1>1, <1>3, <1>6, ApplyBuy
    <2> QED BY <1>4, <2>1, <2>2 DEF BookTells
  <1>7. CASE f.side = "SELL"
    <2> DEFINE s == f.symbol
               lots == b.lots[s]
               m == Matched(lots, f)
               c == Count(fills, s, "BUY")
               start == Count(fills, s, "SELL")[i - 1]
               q == f.qty
               a == Apply(b, f)
    <2>1. /\ m \in Match /\ a.outcomes = b.outcomes \o m.outcomes /\ a.today = SellToday(b, f, m)
          /\ m.remaining = 0
      <3>1. m = Matched(b.lots[f.symbol], f)
        OBVIOUS
      <3> HIDE DEF f, m
      <3>2. f \in Fill(Y) /\ b.ok /\ f.side = "SELL"
        BY <1>1, <1>3, <1>7
      <3>3. /\ m \in Match /\ Apply(b, f).outcomes = b.outcomes \o m.outcomes
            /\ Apply(b, f).today = SellToday(b, f, m) /\ (Apply(b, f).ok <=> m.remaining = 0)
        <4>1. Closes(b, f, m, Apply(b, f))
          BY <3>1, <3>2, ApplySell
        <4> QED BY <4>1, Zenon DEF Closes
      <3> QED BY <1>2, <3>3, Zenon
    <2>2. SellOf(fills, i, s, c, start, q)
      BY <1>7 DEF SellOf
    <2>3. lots \in Seq(Lot) /\ Cover(fills, c, start, c[i - 1], lots)
      BY <1>1, <1>3, <1>5 DEF BookOK
    <2>4. start \in Nat /\ q \in Nat
      BY <1>1, <2>2, SellFacts
    <2> HIDE DEF lots, m, c, start, q, a, s
    <2>5. PICK h, A : Span(fills, c, start, c[i - 1], lots, h, A)
      BY <2>3 DEF Cover
    <2>6. PICK r : IsRounds(fills, c, start, f, lots, h, r)
      BY <1>1, <2>3, <2>4, <2>5, Rounds
    <2>7. /\ r[0].outcomes = <<>> /\ r[Len(lots)] = m
      <3>1. r[0] = [remaining |-> f.qty, price |-> f.price, outcomes |-> <<>>, lots |-> <<>>]
        BY <2>6 DEF IsRounds
      <3>2. r[Len(lots)] = m
        BY <2>6, Zenon DEF IsRounds, m
      <3> QED BY <3>1, <3>2
    <2>8. Done(D, i, start) = UpTo(D, i - 1) /\ Done(D, i, start + q) = UpTo(D, i)
      BY <2>2, DoneIs
    <2>9. SaleState(fills, D, g, i, b.outcomes, b.today, start, r[0])
      <3>1. b.outcomes \o <<>> = b.outcomes
        BY <1>5, ConcatEmptySeq
      <3>2. HasOrder(Done(D, i, start), b.outcomes \o r[0].outcomes)
        BY <1>4, <2>7, <2>8, <3>1
      <3>3. IsTotal(r[0].outcomes, 0)
        BY <2>7, TotalOfNone
      <3>4. g[Done(D, i, start)] = b.today + (IF fills[i].today THEN 0 ELSE 0)
        <4>1. b.today + 0 = b.today
          BY <1>5
        <4> QED BY <1>4, <2>8, <4>1
      <3> QED BY <3>2, <3>3, <3>4 DEF SaleState
    <2>10. SaleState(fills, D, g, i, b.outcomes, b.today, Pos(start, q, m), m)
      <3> DEFINE prev == b.outcomes
                 T0 == b.today
      <3>1. prev \in Seq(Int) /\ T0 \in Int /\ SaleState(fills, D, g, i, prev, T0, start, r[0])
        BY <1>5, <2>9
      <3> HIDE DEF prev, T0
      <3>2. SaleState(fills, D, g, i, prev, T0, Pos(start, q, r[Len(lots)]), r[Len(lots)])
        BY <2>2, <2>3, <2>5, <2>6, <3>1, SaleRounds
      <3> QED BY <2>7, <3>2 DEF prev, T0
    <2>11. Pos(start, q, m) = start + q
      BY <2>1, <2>4 DEF Pos
    <2>12. SaleState(fills, D, g, i, b.outcomes, b.today, start + q, m)
      BY <2>10, <2>11
    <2>13. HasOrder(UpTo(D, i), a.outcomes)
      BY <2>1, <2>8, <2>12 DEF SaleState
    <2>14. PICK T : IsTotal(m.outcomes, T) /\ g[UpTo(D, i)] = b.today + (IF fills[i].today THEN T ELSE 0)
      BY <2>8, <2>12 DEF SaleState
    <2>15. T = Gain(m.outcomes)
      <3> DEFINE o == m.outcomes
      <3>1. o \in Seq(Int) /\ IsTotal(o, T)
        BY <2>1, <2>14 DEF Match
      <3> HIDE DEF o
      <3>2. IsTotal(o, Gain(o))
        BY <3>1, TotalFold, Zenon DEF Gain
      <3>3. T = Gain(o)
        BY <3>1, <3>2, OneTotal
      <3> QED BY <3>3 DEF o
    <2>16. a.today = g[UpTo(D, i)]
      BY <2>1, <2>14, <2>15 DEF SellToday
    <2>17. BookTells(D, g, i, a)
      BY <2>13, <2>16 DEF BookTells
    <2> QED BY <2>17 DEF a
  <1> QED BY <1>1, <1>6, <1>7

\* No sales yet.
LEMMA NoOrder == HasOrder({}, <<>>)
  <1> DEFINE P == [k \in 1..0 |-> [sell |-> 0, buy |-> 0, net |-> 0]]
  <1>1. Len(<<>>) = 0 /\ 1..0 = {}
    OBVIOUS
  <1>2. P \in [1..0 -> Pieces]
    BY DEF Pieces
  <1>3. Ordered({}, <<>>, P)
    <2> HIDE DEF P
    <2> QED BY <1>1, <1>2 DEF Ordered
  <1> QED BY <1>3 DEF HasOrder

\* The book tells what all the shares sold brought.
LEMMA BookTellsAll ==
    ASSUME NEW Y, NEW fills \in Seq(Fill(Y)), ~Oversold(fills, Y),
           NEW D, AreSales(fills, D), NEW g, IsSum(D, TodayOf(D), g)
    PROVE  HasOrder(D, Book(fills, Y).outcomes) /\ Book(fills, Y).today = g[D]
  <1> DEFINE N == Len(fills)
  <1>1. PICK b : IsBook(fills, Y, b)
    BY BookChain
  <1>2. /\ N \in Nat /\ \A i \in 0..N : b[i] \in Books(Y)
        /\ b[0] = EmptyBook(Y) /\ \A i \in 1..N : b[i] = Apply(b[i - 1], fills[i])
        /\ b[N] = Book(fills, Y)
    BY <1>1 DEF IsBook
  <1>3. \A i \in 0..N : BookOK(fills, Y, i, b[i])
    BY <1>1, BooksOK
  <1>4. \A i \in 0..N : b[i].ok
    <2> SUFFICES ASSUME NEW i \in 0..N PROVE b[i].ok
      OBVIOUS
    <2>1. NeverOver(fills, Y, N)
      BY OversoldIs
    <2>2. NeverOver(fills, Y, i)
      <3>1. \A j \in 1..i : j \in 1..N
        BY <1>2
      <3> QED BY <2>1, <3>1 DEF NeverOver
    <2> QED BY <1>3, <2>2 DEF BookOK
  <1>5. \A x \in D : x.sell \in 1..N
    BY DEF AreSales, SaleRecs
  <1>6. UpTo(D, 0) = {} /\ UpTo(D, N) = D
    BY <1>2, <1>5 DEF UpTo
  <1> DEFINE S == {n \in Nat : n <= N => BookTells(D, g, n, b[n])}
  <1>7. 0 \in S
    <2>1. EmptyBook(Y).outcomes = <<>> /\ EmptyBook(Y).today = 0
      BY DEF EmptyBook
    <2>2. g[{}] = 0
      BY DEF IsSum
    <2>3. b[0].outcomes = <<>> /\ b[0].today = 0
      BY <1>2, <2>1
    <2>4. BookTells(D, g, 0, b[0])
      BY <1>6, <2>2, <2>3, NoOrder DEF BookTells
    <2> QED BY <2>4
  <1>8. ASSUME NEW n \in S PROVE n + 1 \in S
    <2>1. n \in Nat /\ n + 1 \in Nat /\ (n + 1) - 1 = n
      OBVIOUS
    <2>2. ASSUME n + 1 <= N PROVE BookTells(D, g, n + 1, b[n + 1])
      <3> DEFINE i == n + 1
                 bb == b[n]
      <3>1. i \in 1..N /\ n \in 0..N /\ i \in 0..N /\ BookTells(D, g, i - 1, bb) /\ i - 1 = n
        BY <1>2, <2>1, <2>2
      <3>2. bb \in Books(Y) /\ b[i] = Apply(bb, fills[i]) /\ b[i].ok /\ BookOK(fills, Y, i - 1, bb)
        <4> HIDE DEF i
        <4>1. b[n] \in Books(Y) /\ BookOK(fills, Y, n, b[n]) /\ b[i].ok
          BY <1>2, <1>3, <1>4, <3>1
        <4>2. b[i] = Apply(b[i - 1], fills[i])
          BY <1>2, <3>1
        <4> QED BY <3>1, <4>1, <4>2
      <3>3. Apply(bb, fills[i]).ok
        BY <3>2
      <3> HIDE DEF i, bb
      <3>4. BookTells(D, g, i, Apply(bb, fills[i]))
        BY <3>1, <3>2, <3>3, TellStep
      <3>5. BookTells(D, g, i, b[i])
        BY <3>2, <3>4
      <3> QED BY <3>5 DEF i
    <2> QED BY <2>1, <2>2
  <1>9. S \in SUBSET Nat
    OBVIOUS
  <1>10. \A n \in Nat : n \in S
    <2> HIDE DEF S
    <2> QED BY <1>7, <1>8, <1>9, Induction
  <1>11. BookTells(D, g, N, b[N])
    BY <1>2, <1>10
  <1> QED BY <1>2, <1>6, <1>11 DEF BookTells

\* Today's result is that of the shares sold today.
LEMMA TodayIsTrue ==
    ASSUME NEW Y, NEW fills \in Seq(Fill(Y)), ~Oversold(fills, Y)
    PROVE  /\ Book(fills, Y).today = ResultToday(fills, Y)
           /\ HasOrder(Sales(fills, Y), Book(fills, Y).outcomes)
  <1> DEFINE D == Sales(fills, Y)
             w == TodayOf(D)
  <1>1. AreSales(fills, D)
    BY OversoldIs, SalesAre DEF AreSales
  <1>2. IsFiniteSet(D)
    BY <1>1, SalesFinite DEF AreSales
  <1>3. ResultToday(fills, Y) = FoldFunction(+, 0, w)
    BY Zenon DEF ResultToday, TodayOf
  <1> HIDE DEF D
  <1>4. \A x \in D : x.today \in BOOLEAN /\ x.net \in Int
    BY <1>1 DEF AreSales, SaleRecs
  <1>5. w \in [D -> Int]
    BY <1>4 DEF TodayOf
  <1> HIDE DEF w
  <1>6. PICK g : IsSum(D, w, g) /\ FoldFunction(+, 0, w) = g[D]
    BY <1>2, <1>5, SumIs
  <1>7. HasOrder(D, Book(fills, Y).outcomes) /\ Book(fills, Y).today = g[D]
    BY <1>1, <1>6, BookTellsAll DEF w
  <1>8. Book(fills, Y).today = ResultToday(fills, Y)
    BY <1>3, <1>6, <1>7, Zenon
  <1> QED BY <1>7, <1>8 DEF D

LastGain(outs) == SelectLastInSeq(outs, LAMBDA o : o >= 0)

\* The last lot that was not sold at a loss, if there is one.
LEMMA LastGainIs ==
    ASSUME NEW outs \in Seq(Int)
    PROVE  /\ LastGain(outs) \in 0..Len(outs)
           /\ LastGain(outs) # 0 => outs[LastGain(outs)] >= 0
           /\ \A k \in 1..Len(outs) : outs[k] >= 0 => k <= LastGain(outs)
  <1> DEFINE N == Len(outs)
             I == {k \in 1..N : outs[k] >= 0}
  <1>1. LastGain(outs) = IF I # {} THEN Max(I) ELSE 0
    BY DEF LastGain, SelectLastInSeq
  <1>2. N \in Nat /\ I \in SUBSET (1..N)
    OBVIOUS
  <1> HIDE DEF N
  <1>3. CASE I # {}
    <2>1. Max(I) \in I /\ \A y \in I : y <= Max(I)
      <3> HIDE DEF I
      <3> QED BY <1>2, <1>3, LastIndex
    <2>2. LastGain(outs) \in I /\ \A y \in I : y <= LastGain(outs)
      <3> HIDE DEF I
      <3> QED BY <1>1, <1>3, <2>1
    <2> HIDE DEF LastGain
    <2> QED BY <2>2 DEF N
  <1>4. CASE I = {}
    <2>1. LastGain(outs) = 0
      BY <1>1, <1>4
    <2> QED BY <1>2, <1>4, <2>1 DEF N
  <1> QED BY <1>3, <1>4

\* What LostSince counts.
Lost(D) ==
    LET pieces == {Piece(x) : x \in D}
    IN  {q \in pieces : q.net < 0 /\ \A p \in pieces : p.net >= 0 => ~Before(q, p)}

\* The lots sold at a loss since are the outcomes after the last gain.
LEMMA LostAre ==
    ASSUME NEW D, NEW outs \in Seq(Int), HasOrder(D, outs)
    PROVE  Cardinality(Lost(D)) = Len(outs) - LastGain(outs)
  <1> DEFINE N == Len(outs)
             last == LastGain(outs)
             pieces == {Piece(x) : x \in D}
             L == {q \in pieces : q.net < 0 /\ \A p \in pieces : p.net >= 0 => ~Before(q, p)}
             n == N - last
  <1>1. PICK P : Ordered(D, outs, P)
    BY DEF HasOrder
  <1>2. /\ P \in [1..N -> Pieces]
        /\ \A k \in 1..N : outs[k] >= 0 <=> P[k].net >= 0
        /\ \A k, l \in 1..N : k < l => Before(P[k], P[l])
        /\ \A k \in 1..N : P[k] \in pieces
        /\ \A q \in pieces : \E k \in 1..N : P[k] = q
    BY <1>1 DEF Ordered
  <1>3. /\ last \in 0..N /\ (last # 0 => outs[last] >= 0) /\ N \in Nat
        /\ \A k \in 1..N : outs[k] >= 0 => k <= last
        /\ \A k \in 1..N : outs[k] \in Int
    BY LastGainIs
  <1>4. \A p, q \in Pieces : Before(p, q) => ~Before(q, p)
    BY DEF Pieces, Before
  <1> HIDE DEF N, last, pieces
  <1>5. \A k \in 1..N : P[k] \in Pieces /\ P[k].net \in Int
    BY <1>2 DEF Pieces
  <1>6. ASSUME NEW k \in 1..N, last < k PROVE P[k] \in L
    <2>1. outs[k] < 0 /\ P[k].net < 0
      BY <1>2, <1>3, <1>5, <1>6
    <2>2. ASSUME NEW p \in pieces, p.net >= 0 PROVE ~Before(P[k], p)
      <3>1. PICK l \in 1..N : P[l] = p
        BY <1>2
      <3>2. l <= last
        BY <1>2, <1>3, <2>2, <3>1
      <3>3. l < k
        BY <1>3, <1>6, <3>2
      <3>4. Before(P[l], P[k])
        BY <1>2, <3>3
      <3> QED BY <1>4, <1>5, <3>1, <3>4
    <2> QED BY <1>2, <2>1, <2>2
  <1>7. ASSUME NEW q \in L PROVE \E k \in 1..N : last < k /\ P[k] = q
    <2>1. q \in pieces /\ q.net < 0 /\ \A p \in pieces : p.net >= 0 => ~Before(q, p)
      OBVIOUS
    <2>2. PICK k \in 1..N : P[k] = q
      BY <1>2, <2>1
    <2>3. ~(k <= last)
      <3> SUFFICES ASSUME k <= last PROVE FALSE
        OBVIOUS
      <3>1. last \in 1..N /\ last # 0
        BY <1>3
      <3>2. outs[last] >= 0 /\ P[last].net >= 0 /\ P[last] \in pieces
        BY <1>2, <1>3, <3>1
      <3>3. CASE k = last
        BY <1>5, <2>1, <2>2, <3>2, <3>3
      <3>4. CASE k < last
        <4>1. Before(P[k], P[last])
          BY <1>2, <3>1, <3>4
        <4> QED BY <2>1, <2>2, <3>2, <4>1
      <3> QED BY <3>1, <3>3, <3>4
    <2> QED BY <1>3, <2>2, <2>3
  <1> DEFINE f == [j \in 1..n |-> P[last + j]]
  <1>8. n \in Nat /\ \A j \in 1..n : last + j \in 1..N /\ last < last + j
    BY <1>3
  <1>9. f \in [1..n -> L]
    <2> HIDE DEF n, L
    <2> QED BY <1>6, <1>8
  <1>10. ASSUME NEW j \in 1..n, NEW k \in 1..n, f[j] = f[k] PROVE j = k
    <2>1. last + j \in 1..N /\ last + k \in 1..N /\ P[last + j] = P[last + k]
      BY <1>8, <1>10
    <2>2. ASSUME NEW u \in 1..N, NEW v \in 1..N, P[u] = P[v] PROVE ~(u < v)
      BY <1>2, <1>4, <1>5, <2>2
    <2>3. ~(last + j < last + k) /\ ~(last + k < last + j)
      BY <2>1, <2>2
    <2> QED BY <1>3, <1>8, <2>3
  <1>11. \A q \in L : \E j \in 1..n : f[j] = q
    <2> SUFFICES ASSUME NEW q \in L PROVE \E j \in 1..n : f[j] = q
      OBVIOUS
    <2>1. PICK k \in 1..N : last < k /\ P[k] = q
      BY <1>7
    <2>2. k - last \in 1..n /\ last + (k - last) = k
      BY <1>3, <2>1
    <2>3. f[k - last] = q
      BY <2>1, <2>2
    <2> QED BY <2>2, <2>3
  <1>12. ExistsBijection(1..n, L)
    <2> HIDE DEF f, L, n
    <2>1. f \in Bijection(1..n, L)
      BY <1>9, <1>10, <1>11 DEF Bijection, Injection, Surjection, IsInjective
    <2> QED BY <2>1 DEF ExistsBijection
  <1>13. Cardinality(L) = n
    <2> HIDE DEF L, n
    <2> QED BY <1>8, <1>12, FS_CountingElements
  <1>14. Lost(D) = L
    BY DEF Lost, pieces
  <1> HIDE DEF L
  <1> QED BY <1>13, <1>14 DEF N, last

\* The run of losses is that of the lots sold since the last gain.
LEMMA RunIsTrue ==
    ASSUME NEW Y, NEW fills \in Seq(Fill(Y)), ~Oversold(fills, Y)
    PROVE  LossRun(fills, Y) = Figure(LostSince(fills, Y))
  <1> DEFINE D == Sales(fills, Y)
             b == Book(fills, Y)
             outs == b.outcomes
  <1>1. b.ok /\ b \in Books(Y) /\ HasOrder(D, outs)
    BY AnswersWhenSound, TodayIsTrue
  <1>2. outs \in Seq(Int)
    BY <1>1 DEF Books
  <1>3. LossRun(fills, Y) = IF b.ok THEN Figure(Len(outs) - LastGain(outs)) ELSE None
    BY Zenon DEF LossRun, LastGain
  <1>4. LostSince(fills, Y) = Cardinality(Lost(D))
    <2> DEFINE pieces == {[sell |-> x.sell, buy |-> x.buy, net |-> x.net] : x \in D}
    <2>1. pieces = {Piece(x) : x \in D}
      BY DEF Piece
    <2>2. LostSince(fills, Y) = Cardinality({q \in pieces :
              q.net < 0 /\ \A p \in pieces : p.net >= 0 =>
                  ~(q.sell < p.sell \/ (q.sell = p.sell /\ q.buy < p.buy))})
      BY Zenon DEF LostSince
    <2>3. Lost(D) = {q \in pieces :
              q.net < 0 /\ \A p \in pieces : p.net >= 0 =>
                  ~(q.sell < p.sell \/ (q.sell = p.sell /\ q.buy < p.buy))}
      BY <2>1 DEF Lost, Before
    <2> QED BY <2>2, <2>3, Zenon
  <1> HIDE DEF D, outs
  <1>5. Cardinality(Lost(D)) = Len(outs) - LastGain(outs)
    BY <1>1, <1>2, LostAre
  <1> QED BY <1>1, <1>3, <1>4, <1>5

-----------------------------------------------------------------------------
(* The figures of the risk gate                                            *)

\* A history at hand has rows that are not refused.
HistoryOK ==
    "fills" \in DOMAIN input =>
        /\ input.fills \in Seq(Fill(Symbols))
        /\ input.down \in BOOLEAN
        /\ input.through \in {Len(input.fills), Len(input.fills) - 1}

\* Dating a history leaves its rows as they are.
LEMMA DatedFills ==
    ASSUME NEW h \in Histories, NEW first \in Nat
    PROVE  LET d == Dated(h, first)
           IN  Len(d) = Len(h) /\ d \in Seq(Fill(Symbols))
  <1> DEFINE d == Dated(h, first)
             N == Len(h)
             R == [symbol: Symbols, side: {"BUY", "SELL"}, qty: Nat \ {0}, price: Nat \ {0}]
  <1>1. h \in Seq(R)
    BY HistoriesAssumption
  <1>2. N \in Nat /\ DOMAIN h = 1..N /\ \A i \in 1..N : h[i] \in R
    <2> HIDE DEF R
    <2> QED BY <1>1
  <1> HIDE DEF N
  <1>3. DOMAIN d = 1..N
    BY <1>2 DEF Dated
  <1>4. ASSUME NEW i \in 1..N
        PROVE  d[i] = [symbol |-> h[i].symbol, side |-> h[i].side, qty |-> h[i].qty,
                       price |-> h[i].price, today |-> i >= first]
    BY <1>2 DEF Dated
  <1>5. ASSUME NEW i \in 1..N PROVE d[i] \in Fill(Symbols)
    <2> DEFINE t == i >= first
    <2>1. h[i] \in R /\ t \in BOOLEAN
      BY <1>2
    <2>2. d[i] = [symbol |-> h[i].symbol, side |-> h[i].side, qty |-> h[i].qty,
                  price |-> h[i].price, today |-> t]
      BY <1>4
    <2> HIDE DEF t, d
    <2> QED BY <2>1, <2>2 DEF Fill
  <1>6. d = [i \in 1..N |-> d[i]]
    <2>1. d = [i \in DOMAIN d |-> d[i]]
      BY DEF Dated
    <2> QED BY <1>3, <2>1
  <1> HIDE DEF d
  <1>7. d \in Seq(Fill(Symbols))
    BY <1>2, <1>5, <1>6
  <1>8. Len(d) = N
    BY <1>2, <1>3, <1>7
  <1> QED BY <1>7, <1>8 DEF d, N

\* Which history is at hand never changes.
LEMMA HistoryStays == AnswersSpec => []HistoryOK
  <1>1. AnswersInit => HistoryOK
    <2> SUFFICES ASSUME AnswersInit, "fills" \in DOMAIN input PROVE HistoryOK
      BY DEF HistoryOK
    <2>1. CASE input = <<>>
      BY <2>1
    <2>2. CASE PriceInput
      BY <2>2 DEF PriceInput
    <2>3. CASE RowInput
      <3>1. PICK r, m, g, w, f, n :
              input = [row |-> r, missing |-> m, garbled |-> g, word |-> w, flag |-> f, named |-> n]
        BY <2>3 DEF RowInput
      <3>2. DOMAIN input = {"row", "missing", "garbled", "word", "flag", "named"}
        BY <3>1
      <3> QED BY <3>2
    <2>4. CASE FillsInput
      <3>1. PICK h \in Histories, down \in BOOLEAN, behind \in 0..1 :
              \E first \in 1..(Len(h) + 1) :
                  input = [fills |-> Dated(h, first), down |-> down, through |-> Len(h) - behind]
        BY <2>4 DEF FillsInput
      <3>2. PICK first \in 1..(Len(h) + 1) :
              input = [fills |-> Dated(h, first), down |-> down, through |-> Len(h) - behind]
        BY <3>1
      <3> DEFINE d == Dated(h, first)
      <3>3. input.fills = d /\ input.down = down /\ input.through = Len(h) - behind
        BY <3>2
      <3>4. Len(d) = Len(h) /\ d \in Seq(Fill(Symbols))
        BY DatedFills
      <3>5. Len(h) \in Nat
        BY HistoriesAssumption
      <3> HIDE DEF d
      <3>6. Len(h) - behind \in {Len(d), Len(d) - 1}
        BY <3>4, <3>5
      <3> QED BY <3>3, <3>4, <3>6 DEF HistoryOK
    <2> QED BY <2>1, <2>2, <2>3, <2>4 DEF AnswersInit
  <1>2. HistoryOK /\ [AnswersNext]_<<vars, input>> => HistoryOK'
    BY DEF HistoryOK, AnswersNext
  <1> QED BY <1>1, <1>2, PTL DEF AnswersSpec

\* However the exchange cuts orders into fills, and however many there are,
\* today's result and the run of losses are those of the single shares, first
\* bought first sold; where more was sold than bought there is neither, and
\* no result where fills are not reconciled (_consecutive_losses,
\* calculate_local_daily_realized_pnl).
THEOREM FiguresAreThoseOfTheShares == AnswersSpec => []RiskFiguresAreTrue
  <1>1. HistoryOK => RiskFiguresAreTrue
    <2> SUFFICES ASSUME HistoryOK, "fills" \in DOMAIN input
                 PROVE  RiskFiguresAreTrue
      BY DEF RiskFiguresAreTrue
    <2> DEFINE f == input.fills
               y == Symbols
               down == input.down
               through == input.through
               b == Book(f, y)
    <2>1. f \in Seq(Fill(y)) /\ down \in BOOLEAN /\ through \in {Len(f), Len(f) - 1} /\ Len(f) \in Nat
      BY DEF HistoryOK
    <2> HIDE DEF f, y, down, through
    <2>3. b.ok <=> ~Oversold(f, y)
      BY <2>1, AnswersWhenSound
    <2>4. DayResult(f, y, down, through) =
              IF down /\ through >= Len(f) /\ b.ok THEN Figure(b.today) ELSE None
      BY Zenon DEF DayResult
    <2>5. through >= Len(f) <=> through = Len(f)
      BY <2>1
    <2>6. ASSUME Oversold(f, y)
          PROVE  DayResult(f, y, down, through) = None /\ LossRun(f, y) = None
      BY <2>3, <2>4, <2>6 DEF LossRun
    <2>7. ASSUME ~Oversold(f, y)
          PROVE  /\ DayResult(f, y, down, through) =
                        IF down /\ through = Len(f) THEN Figure(ResultToday(f, y)) ELSE None
                 /\ LossRun(f, y) = Figure(LostSince(f, y))
      <3>1. b.today = ResultToday(f, y)
        BY <2>1, <2>7, TodayIsTrue
      <3>2. LossRun(f, y) = Figure(LostSince(f, y))
        BY <2>1, <2>7, RunIsTrue
      <3>3. b.ok
        BY <2>3, <2>7
      <3> HIDE DEF b
      <3> QED BY <2>4, <2>5, <3>1, <3>2, <3>3, Zenon
    <2> QED BY <2>6, <2>7, Zenon DEF RiskFiguresAreTrue, f, y, down, through
  <1> QED BY <1>1, HistoryStays, PTL

=============================================================================
