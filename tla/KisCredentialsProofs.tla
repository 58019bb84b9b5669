----------------------- MODULE KisCredentialsProofs -----------------------
(***************************************************************************)
(* Proofs about the lock file and the cache of authenticate_read_only, for *)
(* any number of callers and deaths and all the timings that the           *)
(* assumption on the constants allows.                                     *)
(***************************************************************************)
EXTENDS KisCredentials, TLAPS

-----------------------------------------------------------------------------
(* The inductive invariant                                                 *)

\* Each caller: where it is and for how long.  A caller inside has been there for
\* MaxHold at most, one that sleeps has time left to wait.
Places == {"out", "open", "stat", "sleep", "unlink", "dead",
           "read", "token", "tokenWrite", "key", "keyWrite",
           "tokenRefused", "keyRefused", "release"}

Calls == [at: Places, time: Nat, refresh: BOOLEAN, token: 0..Life]

CallsOK ==
    /\ call \in [Callers -> Calls]
    /\ \A p \in Callers :
          /\ Inside(p) => call[p].time <= MaxHold
          /\ ~Inside(p) => call[p].time <= LockWait
          /\ call[p].at = "sleep" => call[p].time < LockWait

\* Until the lock of a living caller is removed, whoever is inside has the lock
\* file, and the file is as old as the visit.
LockOK ==
    stolen \/ \A p \in Callers : Inside(p) => lock.by = p /\ lock.age = call[p].time

\* The token of a caller was fresh when the visit began.
TokenOK ==
    \A p \in Callers :
        call[p].at \in {"tokenWrite", "key", "keyWrite", "release"} /\ call[p].token > 0 =>
            call[p].token + call[p].time > Margin

\* A refusal that the cache does not show yet is that of the owner of the lock,
\* who still has to write it down or has died; the lock is then hardly older
\* than the refusal.
Unwritten ==
    \E p \in Callers :
        /\ lock.by = p
        /\ call[p].at \in {"tokenRefused", "keyRefused", "dead"}
        /\ quiet + MaxHold >= lock.age

CoolOK ==
    \/ stolen \/ young
    \/ /\ quiet + cache.cooldown + MaxHold >= Cooldown \/ Unwritten
       /\ \A p \in Callers :
             call[p].at \in {"token", "tokenWrite", "key", "keyWrite"} =>
                 quiet + MaxHold >= Cooldown

CredInv ==
    /\ lock \in [by: Callers \cup {NoOne}, age: 0..Stale]
    /\ cache \in [token: 0..Life, key: BOOLEAN, cooldown: 0..Cooldown]
    /\ quiet \in 0..Cooldown
    /\ stolen \in BOOLEAN /\ young \in BOOLEAN
    /\ CallsOK /\ LockOK /\ TokenOK /\ CoolOK

-----------------------------------------------------------------------------
(* What a step does to the callers                                         *)

\* Only p moves: to a, with time t spent there and token k.
Moves(p, a, t, k) ==
    /\ call' \in [Callers -> Calls]
    /\ call'[p].at = a /\ call'[p].time = t /\ call'[p].token = k
    /\ \A q \in Callers \ {p} : call'[q] = call[q]

\* A record is rewritten as a whole.
LEMMA MoveAll ==
    ASSUME call \in [Callers -> Calls], NEW p \in Callers, NEW c \in Calls,
           call' = [call EXCEPT ![p] = c]
    PROVE  Moves(p, c.at, c.time, c.token)
BY DEF Moves

\* Goto
LEMMA MoveAt ==
    ASSUME call \in [Callers -> Calls], NEW p \in Callers, NEW a \in Places, Goto(p, a)
    PROVE  Moves(p, a, call[p].time, call[p].token)
<1> DEFINE c == [call[p] EXCEPT !.at = a]
<1>1. c \in Calls /\ c.at = a /\ c.time = call[p].time /\ c.token = call[p].token
    BY DEF Calls
<1>2. call' = [call EXCEPT ![p] = c]
    BY DEF Goto
<1> QED
    BY <1>1, <1>2, MoveAll

\* A move with a new token.
LEMMA MoveToken ==
    ASSUME call \in [Callers -> Calls], NEW p \in Callers, NEW a \in Places, NEW k \in 0..Life,
           call' = [call EXCEPT ![p].at = a, ![p].token = k]
    PROVE  Moves(p, a, call[p].time, k)
<1> DEFINE b == [call[p] EXCEPT !.at = a]
           c == [b EXCEPT !.token = k]
<1>1. b \in Calls /\ b.at = a /\ b.time = call[p].time
    BY DEF Calls
<1>2. call' = [call EXCEPT ![p] = c]
    OBVIOUS
<1> HIDE DEF b
<1>3. c \in Calls /\ c.at = a /\ c.time = call[p].time /\ c.token = k
    BY <1>1 DEF Calls
<1> HIDE DEF c
<1> QED
    BY <1>2, <1>3, MoveAll

\* A move that starts the clock.
LEMMA MoveStart ==
    ASSUME call \in [Callers -> Calls], NEW p \in Callers, NEW a \in Places,
           call' = [call EXCEPT ![p].at = a, ![p].time = 0]
    PROVE  Moves(p, a, 0, call[p].token)
<1> DEFINE b == [call[p] EXCEPT !.at = a]
           c == [b EXCEPT !.time = 0]
<1>1. b \in Calls /\ b.at = a /\ b.token = call[p].token
    BY DEF Calls
<1>2. call' = [call EXCEPT ![p] = c]
    OBVIOUS
<1> HIDE DEF b
<1>3. c \in Calls /\ c.at = a /\ c.time = 0 /\ c.token = call[p].token
    BY <1>1 DEF Calls
<1> HIDE DEF c
<1> QED
    BY <1>2, <1>3, MoveAll

\* Out with another place and refresh_token.
OutAt(a, r) == [Out EXCEPT !.at = a, !.refresh = r]

\* A caller that has just come or gone has no token and no time on its clock.
LEMMA OutCalls ==
    ASSUME NEW a \in Places, NEW r \in BOOLEAN
    PROVE  OutAt(a, r) \in Calls /\ OutAt(a, r).at = a /\ OutAt(a, r).time = 0 /\ OutAt(a, r).token = 0
<1>1. 0 \in 0..Life
    BY CredAssumption
<1>2. Out \in Calls
    BY <1>1 DEF Out, Calls, Places
<1> DEFINE b == [Out EXCEPT !.at = a]
           c == [b EXCEPT !.refresh = r]
<1>3. b \in Calls /\ b.at = a /\ b.time = 0 /\ b.token = 0
    BY <1>2 DEF Calls, Out
<1>4. OutAt(a, r) = c
    BY DEF OutAt
<1> HIDE DEF b
<1>5. c \in Calls /\ c.at = a /\ c.time = 0 /\ c.token = 0
    BY <1>3 DEF Calls
<1> QED
    BY <1>4, <1>5

\* A move keeps the bounds on the times, and the tokens fresh, if the mover does.
LEMMA MovesCalls ==
    ASSUME CallsOK, TokenOK,
           NEW p \in Callers, NEW a \in Places, NEW t \in Nat, NEW k \in 0..Life,
           Moves(p, a, t, k),
           Inside(p)' => t <= MaxHold,
           ~Inside(p)' => t <= LockWait,
           a = "sleep" => t < LockWait,
           a \in {"tokenWrite", "key", "keyWrite", "release"} /\ k > 0 => k + t > Margin
    PROVE  CallsOK' /\ TokenOK'
<1>1. CallsOK'
    BY DEF CallsOK, Moves, Inside
<1>2. TokenOK'
    BY DEF TokenOK, Moves
<1> QED
    BY <1>1, <1>2

\* The types that the lemmas of the steps need of a caller.
LEMMA CallerTypes ==
    ASSUME CredInv, NEW p \in Callers
    PROVE  /\ call \in [Callers -> Calls]
           /\ call[p].at \in Places /\ call[p].time \in Nat
           /\ call[p].token \in 0..Life /\ call[p].refresh \in BOOLEAN
BY DEF CredInv, CallsOK, Calls

\* authenticate_read_only is called.
LEMMA CallStep ==
    ASSUME CredInv, NEW p \in Callers, NEW r \in BOOLEAN, Call(p, r)
    PROVE  CredInv'
<1> USE DEF CredInv
<1>1. Moves(p, "open", 0, 0)
    <2>1. call' = [call EXCEPT ![p] = OutAt("open", r)]
        BY DEF Call, OutAt
    <2>2. "open" \in Places /\ call \in [Callers -> Calls]
        BY CallerTypes DEF Places
    <2> DEFINE c == OutAt("open", r)
    <2>3. c \in Calls /\ c.at = "open" /\ c.time = 0 /\ c.token = 0
        BY <2>2, OutCalls
    <2> HIDE DEF c
    <2>4. Moves(p, c.at, c.time, c.token)
        BY <2>1, <2>2, <2>3, MoveAll DEF c
    <2> QED
        BY <2>3, <2>4
<1>2. CallsOK' /\ TokenOK'
    <2>1. ~Inside(p)'
        BY <1>1 DEF Moves, Inside
    <2> QED
        BY <1>1, <2>1, MovesCalls, CredAssumption DEF Places
<1>3. UNCHANGED <<lock, cache, quiet, stolen, young>>
    BY DEF Call
<1>4. LockOK'
    BY <1>1, <1>3 DEF LockOK, Moves, Inside
<1>5. CoolOK'
    BY <1>1, <1>3 DEF CoolOK, Unwritten, Moves, Call
<1> QED
    BY <1>2, <1>3, <1>4, <1>5

\* The lock file is created, or found.
LEMMA OpenStep ==
    ASSUME CredInv, NEW p \in Callers, Open(p)
    PROVE  CredInv'
<1> USE DEF CredInv
<1>1. CASE lock.by = NoOne
    <2>1. Moves(p, "read", 0, call[p].token)
        BY <1>1, CallerTypes, MoveStart DEF Open, Places
    <2>2. CallsOK' /\ TokenOK'
        <3>1. Inside(p)'
            BY <2>1 DEF Moves, Inside
        <3> QED
            BY <2>1, <3>1, CallerTypes, MovesCalls, CredAssumption DEF Places
    <2>3. lock' = [by |-> p, age |-> 0] /\ UNCHANGED <<cache, quiet, stolen, young>>
        BY <1>1 DEF Open
    <2>4. LockOK'
        BY <1>1, <2>1, <2>3, CredAssumption DEF LockOK, Moves, Inside
    <2>5. CoolOK'
        BY <1>1, <2>1, <2>3, CredAssumption DEF CoolOK, Unwritten, Moves
    <2> QED
        BY <2>2, <2>3, <2>4, <2>5, CredAssumption
<1>2. CASE lock.by # NoOne
    <2>1. Moves(p, "stat", call[p].time, call[p].token)
        BY <1>2, CallerTypes, MoveAt DEF Open, Places
    <2>2. CallsOK' /\ TokenOK'
        <3>1. ~Inside(p)' /\ ~Inside(p)
            BY <2>1 DEF Moves, Inside, Open
        <3>2. call[p].time <= LockWait
            BY <3>1 DEF CallsOK
        <3> QED
            BY <2>1, <3>1, <3>2, CallerTypes, MovesCalls DEF Places
    <2>3. UNCHANGED <<lock, cache, quiet, stolen, young>>
        BY <1>2 DEF Open
    <2>4. LockOK'
        BY <2>1, <2>3 DEF LockOK, Moves, Inside
    <2>5. CoolOK'
        BY <2>1, <2>3 DEF CoolOK, Unwritten, Moves, Open
    <2> QED
        BY <2>2, <2>3, <2>4, <2>5
<1> QED
    BY <1>1, <1>2

\* The age of the lock file is looked at.
LEMMA StatStep ==
    ASSUME CredInv, NEW p \in Callers, Stat(p)
    PROVE  CredInv'
<1> USE DEF CredInv
<1>1. PICK a \in {"open", "unlink", "out", "sleep"} :
          /\ Goto(p, a)
          /\ a = "sleep" => call[p].time < LockWait
    <2>1. call[p].time \in Nat /\ LockWait \in Nat /\ lock.age \in Nat /\ Stale \in Nat
        BY CallerTypes, CredAssumption
    <2> QED
        BY <2>1 DEF Stat
<1>2. Moves(p, a, call[p].time, call[p].token)
    BY <1>1, CallerTypes, MoveAt DEF Places
<1>3. ~Inside(p)' /\ ~Inside(p)
    BY <1>2 DEF Moves, Inside, Stat
<1>4. CallsOK' /\ TokenOK'
    <2>1. call[p].time <= LockWait
        BY <1>3 DEF CallsOK
    <2> QED
        BY <1>1, <1>2, <1>3, <2>1, CallerTypes, MovesCalls DEF Places
<1>5. UNCHANGED <<lock, cache, quiet, stolen, young>>
    BY DEF Stat
<1>6. LockOK'
    BY <1>2, <1>3, <1>5 DEF LockOK, Moves, Inside
<1>7. CoolOK'
    BY <1>2, <1>5 DEF CoolOK, Unwritten, Moves, Stat
<1> QED
    BY <1>4, <1>5, <1>6, <1>7

\* The lock file is removed, whosever it is by now.
LEMMA UnlinkStep ==
    ASSUME CredInv, NEW p \in Callers, Unlink(p)
    PROVE  CredInv'
<1> USE DEF CredInv
<1>1. Moves(p, "open", call[p].time, call[p].token)
    BY CallerTypes, MoveAt DEF Unlink, Places
<1>2. ~Inside(p)' /\ ~Inside(p)
    BY <1>1 DEF Moves, Inside, Unlink
<1>3. CallsOK' /\ TokenOK'
    <2>1. call[p].time <= LockWait
        BY <1>2 DEF CallsOK
    <2> QED
        BY <1>1, <1>2, <2>1, CallerTypes, MovesCalls DEF Places
<1>4. /\ lock' = NoLock
      /\ UNCHANGED <<cache, quiet>>
      /\ stolen' = (stolen \/ lock.by \notin Dead \cup {NoOne})
      /\ young' = (young \/ (lock.by # NoOne /\ lock.age < Stale))
    BY Zenon DEF Unlink
<1>5. stolen' \in BOOLEAN /\ young' \in BOOLEAN
    BY <1>4, Zenon
<1>6. lock' \in [by: Callers \cup {NoOne}, age: 0..Stale]
    BY <1>4, CredAssumption DEF NoLock
<1>7. LockOK'
    <2> SUFFICES ASSUME ~stolen', NEW q \in Callers, Inside(q)'
                 PROVE  lock'.by = q /\ lock'.age = call'[q].time
        BY Zenon DEF LockOK
    <2>1. ~stolen /\ lock.by \in Dead \cup {NoOne}
        BY <1>4, Zenon
    <2>2. Inside(q)
        BY <1>1, <1>2 DEF Moves, Inside
    <2>3. lock.by = q
        BY <2>1, <2>2 DEF LockOK
    <2> QED
        BY <2>1, <2>2, <2>3, CredAssumption DEF Dead, Inside
<1>8. CoolOK'
    <2> SUFFICES ASSUME ~stolen', ~young'
                 PROVE  /\ quiet' + cache'.cooldown + MaxHold >= Cooldown
                        /\ \A q \in Callers :
                              call'[q].at \in {"token", "tokenWrite", "key", "keyWrite"} =>
                                  quiet' + MaxHold >= Cooldown
        BY Zenon DEF CoolOK
    <2>1. ~stolen /\ ~young /\ (lock.by = NoOne \/ lock.age >= Stale)
        <3>1. ~stolen /\ ~young /\ ~(lock.by # NoOne /\ lock.age < Stale)
            BY <1>4, Zenon
        <3> QED
            BY <3>1, CredAssumption
    <2>2. quiet + cache.cooldown + MaxHold >= Cooldown
        BY <2>1, CredAssumption DEF CoolOK, Unwritten
    <2>3. ASSUME NEW q \in Callers, call'[q].at \in {"token", "tokenWrite", "key", "keyWrite"}
          PROVE  quiet + MaxHold >= Cooldown
        BY <1>1, <2>1, <2>3 DEF CoolOK, Moves
    <2> QED
        BY <1>4, <2>2, <2>3
<1> QED
    BY <1>3, <1>4, <1>5, <1>6, <1>7, <1>8

\* A step inside the section that leaves the lock and the refusals alone, and
\* does not shorten a cooldown before the time.
LEMMA InsideStep ==
    ASSUME CredInv, NEW p \in Callers, Inside(p),
           NEW a \in Places, NEW k \in 0..Life, Moves(p, a, call[p].time, k),
           Inside(p)',
           a \in {"tokenWrite", "key", "keyWrite", "release"} /\ k > 0 => k + call[p].time > Margin,
           cache' \in [token: 0..Life, key: BOOLEAN, cooldown: 0..Cooldown],
           UNCHANGED <<lock, quiet, stolen, young>>,
           stolen \/ young \/ a \notin {"token", "tokenWrite", "key", "keyWrite"}
               \/ quiet + MaxHold >= Cooldown,
           \/ stolen \/ young
           \/ quiet + cache'.cooldown + MaxHold >= Cooldown
           \/ cache'.cooldown = cache.cooldown /\ call[p].at \notin {"tokenRefused", "keyRefused"}
    PROVE  CredInv'
<1> USE DEF CredInv
<1>1. CallsOK' /\ TokenOK'
    <2>1. call[p].time <= MaxHold
        BY DEF CallsOK
    <2>2. a # "sleep"
        BY DEF Moves, Inside
    <2> QED
        BY <2>1, <2>2, CallerTypes, MovesCalls
<1>2. LockOK'
    BY DEF LockOK, Moves, Inside
<1>3. CoolOK'
    <2> SUFFICES ASSUME ~stolen, ~young PROVE CoolOK'
        BY DEF CoolOK
    <2>1. ASSUME NEW q \in Callers, call'[q].at \in {"token", "tokenWrite", "key", "keyWrite"}
          PROVE  quiet' + MaxHold >= Cooldown
        <3>1. CASE q = p
            BY <2>1, <3>1 DEF Moves
        <3>2. CASE q # p
            BY <2>1, <3>2 DEF CoolOK, Moves
        <3> QED
            BY <3>1, <3>2
    <2>2. quiet' + cache'.cooldown + MaxHold >= Cooldown \/ Unwritten'
        <3>1. CASE quiet + cache'.cooldown + MaxHold >= Cooldown
            BY <3>1
        <3>2. CASE /\ cache'.cooldown = cache.cooldown
                   /\ call[p].at \notin {"tokenRefused", "keyRefused"}
                   /\ ~(quiet + cache'.cooldown + MaxHold >= Cooldown)
            <4>1. Unwritten
                BY <3>2 DEF CoolOK
            <4>2. PICK q \in Callers :
                      /\ lock.by = q
                      /\ call[q].at \in {"tokenRefused", "keyRefused", "dead"}
                      /\ quiet + MaxHold >= lock.age
                BY <4>1 DEF Unwritten
            <4>3. q # p
                BY <3>2, <4>2 DEF Inside
            <4> QED
                BY <4>2, <4>3 DEF Unwritten, Moves
        <3> QED
            BY <3>1, <3>2
    <2> QED
        BY <2>1, <2>2 DEF CoolOK
<1> QED
    BY <1>1, <1>2, <1>3

\* The cache is read: what it has is used, its cooldown obeyed.
LEMMA ReadStep ==
    ASSUME CredInv, NEW p \in Callers, Read(p)
    PROVE  CredInv'
<1> USE DEF CredInv
<1> DEFINE cached == ~call[p].refresh /\ TokenValid(0)
           k == IF cached /\ (cache.key \/ cache.cooldown = 0) THEN cache.token ELSE 0
           a == CASE cached /\ cache.key -> "release"
                  [] ~(cached /\ cache.key) /\ cache.cooldown > 0 -> "release"
                  [] cached /\ ~cache.key /\ cache.cooldown = 0 -> "key"
                  [] ~cached /\ cache.cooldown = 0 -> "token"
           b == [call[p] EXCEPT !.refresh = FALSE]
           c == [b EXCEPT !.token = k]
           d == [c EXCEPT !.at = a]
<1>1. /\ a \in {"release", "key", "token"}
      /\ a \in {"key", "token"} => cache.cooldown = 0
    BY CredAssumption
<1>2. k \in 0..Life /\ (k > 0 => k > Margin)
    BY CredAssumption DEF TokenValid
<1>3. call' = [call EXCEPT ![p].refresh = FALSE, ![p].token = k, ![p].at = a]
    BY DEF Read
<1>4. b \in Calls /\ b.time = call[p].time
    <2>1. call[p] \in Calls
        BY CallerTypes
    <2> QED
        BY <2>1 DEF Calls
<1> HIDE DEF a, k
<1>5. call' = [call EXCEPT ![p] = d]
    BY <1>3
<1> HIDE DEF b
<1>6. c \in Calls /\ c.time = call[p].time /\ c.token = k
    BY <1>2, <1>4 DEF Calls
<1> HIDE DEF c
<1>7. d \in Calls /\ d.time = call[p].time /\ d.token = k /\ d.at = a
    BY <1>1, <1>6 DEF Calls, Places
<1> HIDE DEF d
<1>8. Moves(p, a, call[p].time, k)
    BY <1>7, <1>5, CallerTypes, MoveAll
<1>9. Inside(p) /\ Inside(p)'
    BY <1>1, <1>8 DEF Inside, Moves, Read
<1>10. UNCHANGED <<lock, cache, quiet, stolen, young>>
    BY DEF Read
<1>11. stolen \/ young \/ a \notin {"token", "tokenWrite", "key", "keyWrite"}
          \/ quiet + MaxHold >= Cooldown
    <2> SUFFICES ASSUME ~stolen, ~young, a \in {"key", "token"}
                 PROVE  quiet + MaxHold >= Cooldown
        BY <1>1
    <2>1. lock.by = p
        BY <1>9 DEF LockOK
    <2>2. ~Unwritten
        BY <2>1 DEF Unwritten, Read
    <2> QED
        BY <1>1, <2>2, CredAssumption DEF CoolOK
<1>12. a \in Places /\ (k > 0 => k + call[p].time > Margin)
    BY <1>1, <1>2, CallerTypes, CredAssumption DEF Places
<1> QED
    BY <1>2, <1>8, <1>9, <1>10, <1>11, <1>12, InsideStep DEF Read

\* The steps that issue: other errors, an answer, the writes of the cache.
LEMMA IssueSteps ==
    ASSUME CredInv, NEW p \in Callers,
           \/ Fails(p) \/ TokenIssued(p) \/ TokenWrite(p) \/ KeyIssued(p) \/ KeyWrite(p)
    PROVE  CredInv'
<1> USE DEF CredInv
<1>1. /\ call \in [Callers -> Calls]
      /\ call[p].time \in Nat /\ call[p].token \in 0..Life
      /\ 0 \in 0..Life
    BY CallerTypes, CredAssumption
<1>2. Inside(p) /\ call[p].at \in {"token", "tokenWrite", "key", "keyWrite"}
    BY DEF Inside, Fails, TokenIssued, TokenWrite, KeyIssued, KeyWrite
<1>3. call[p].time <= MaxHold
    BY <1>2 DEF CallsOK
<1>4. stolen \/ young \/ quiet + MaxHold >= Cooldown
    BY <1>2 DEF CoolOK
<1>5. CASE Fails(p)
    <2>1. Moves(p, "release", call[p].time, 0)
        BY <1>1, <1>5, MoveToken DEF Fails, Raise, Places
    <2>2. Inside(p)'
        BY <2>1 DEF Moves, Inside
    <2> QED
        BY <1>1, <1>2, <1>4, <1>5, <2>1, <2>2, InsideStep DEF Fails, Places
<1>6. CASE TokenIssued(p)
    <2> DEFINE k == Life - call[p].time
    <2>1. k \in 0..Life /\ k + call[p].time > Margin
        BY <1>1, <1>3, CredAssumption
    <2>2. call' = [call EXCEPT ![p].at = "tokenWrite", ![p].token = k]
        BY <1>6 DEF TokenIssued
    <2> HIDE DEF k
    <2>3. Moves(p, "tokenWrite", call[p].time, k)
        BY <1>1, <2>1, <2>2, MoveToken DEF Places
    <2>4. Inside(p)'
        BY <2>3 DEF Moves, Inside
    <2> QED
        BY <1>1, <1>2, <1>4, <1>6, <2>1, <2>3, <2>4, InsideStep DEF TokenIssued, Places
<1>7. CASE TokenWrite(p)
    <2>1. Moves(p, "key", call[p].time, call[p].token)
        BY <1>1, <1>7, MoveAt DEF TokenWrite, Places
    <2>2. Inside(p)'
        BY <2>1 DEF Moves, Inside
    <2>3. cache' = [token |-> call[p].token, key |-> FALSE, cooldown |-> 0]
        BY <1>7 DEF TokenWrite
    <2>4. /\ cache' \in [token: 0..Life, key: BOOLEAN, cooldown: 0..Cooldown]
          /\ cache'.cooldown = 0
        BY <1>1, <2>3, CredAssumption
    <2>5. stolen \/ young \/ quiet + cache'.cooldown + MaxHold >= Cooldown
        BY <1>4, <2>4, CredAssumption
    <2>6. call[p].token > 0 => call[p].token + call[p].time > Margin
        BY <1>7 DEF TokenOK, TokenWrite
    <2> QED
        BY <1>1, <1>2, <1>4, <1>7, <2>1, <2>2, <2>4, <2>5, <2>6, InsideStep DEF TokenWrite, Places
<1>8. CASE KeyIssued(p)
    <2>1. Moves(p, "keyWrite", call[p].time, call[p].token)
        BY <1>1, <1>8, MoveAt DEF KeyIssued, Places
    <2>2. Inside(p)'
        BY <2>1 DEF Moves, Inside
    <2>3. call[p].token > 0 => call[p].token + call[p].time > Margin
        BY <1>8 DEF TokenOK, KeyIssued
    <2> QED
        BY <1>1, <1>2, <1>4, <1>8, <2>1, <2>2, <2>3, InsideStep DEF KeyIssued, Places
<1>9. CASE KeyWrite(p)
    <2>1. Moves(p, "release", call[p].time, call[p].token)
        BY <1>1, <1>9, MoveAt DEF KeyWrite, Places
    <2>2. Inside(p)'
        BY <2>1 DEF Moves, Inside
    <2>3. cache' = [token |-> call[p].token, key |-> TRUE, cooldown |-> 0]
        BY <1>9 DEF KeyWrite
    <2>4. /\ cache' \in [token: 0..Life, key: BOOLEAN, cooldown: 0..Cooldown]
          /\ cache'.cooldown = 0
        BY <1>1, <2>3, CredAssumption
    <2>5. stolen \/ young \/ quiet + cache'.cooldown + MaxHold >= Cooldown
        BY <1>4, <2>4, CredAssumption
    <2>6. call[p].token > 0 => call[p].token + call[p].time > Margin
        BY <1>9 DEF TokenOK, KeyWrite
    <2> QED
        BY <1>1, <1>2, <1>4, <1>9, <2>1, <2>2, <2>4, <2>5, <2>6, InsideStep DEF KeyWrite, Places
<1> QED
    BY <1>5, <1>6, <1>7, <1>8, <1>9

\* The cooldown is written down.
LEMMA CooldownStep ==
    ASSUME CredInv, NEW p \in Callers, CooldownWrite(p)
    PROVE  CredInv'
<1> USE DEF CredInv
<1>1. /\ call \in [Callers -> Calls]
      /\ call[p].time \in Nat
      /\ 0 \in 0..Life
    BY CallerTypes, CredAssumption
<1>2. Inside(p)
    BY DEF Inside, CooldownWrite
<1>3. call[p].time <= MaxHold
    BY <1>2 DEF CallsOK
<1>4. Moves(p, "release", call[p].time, 0)
    BY <1>1, MoveToken DEF CooldownWrite, Raise, Places
<1>5. Inside(p)'
    BY <1>4 DEF Moves, Inside
<1>6. /\ cache' \in [token: 0..Life, key: BOOLEAN, cooldown: 0..Cooldown]
      /\ cache'.cooldown = Cooldown - call[p].time
    <2> DEFINE k == IF call[p].at = "keyRefused" /\ TokenValid(call[p].time) THEN cache.token ELSE 0
               n == Cooldown - call[p].time
    <2>1. k \in 0..Life
        BY <1>1
    <2>2. n \in 0..Cooldown
        BY <1>1, <1>3, CredAssumption
    <2>3. cache' = [token |-> k, key |-> FALSE, cooldown |-> n]
        BY DEF CooldownWrite
    <2> HIDE DEF k, n
    <2>4. /\ cache' \in [token: 0..Life, key: BOOLEAN, cooldown: 0..Cooldown]
          /\ cache'.cooldown = n
        BY <2>1, <2>2, <2>3
    <2> QED
        BY <2>4 DEF n
<1>7. quiet + cache'.cooldown + MaxHold >= Cooldown
    BY <1>1, <1>3, <1>6, CredAssumption
<1> QED
    BY <1>1, <1>2, <1>4, <1>5, <1>6, <1>7, InsideStep DEF CooldownWrite, Places

\* KIS refuses: the refusal is that of the owner of the lock.
LEMMA RefusedStep ==
    ASSUME CredInv, NEW p \in Callers, Refused(p)
    PROVE  CredInv'
<1> USE DEF CredInv
<1>1. PICK a \in {"tokenRefused", "keyRefused"} : Goto(p, a)
    BY DEF Refused
<1>2. Moves(p, a, call[p].time, call[p].token)
    BY <1>1, CallerTypes, MoveAt DEF Places
<1>3. Inside(p) /\ Inside(p)'
    BY <1>2 DEF Inside, Moves, Refused
<1>4. call[p].time <= MaxHold /\ call[p].time \in Nat
    BY <1>3, CallerTypes DEF CallsOK
<1>5. CallsOK' /\ TokenOK'
    BY <1>2, <1>3, <1>4, CallerTypes, MovesCalls DEF Places
<1>6. quiet' = 0 /\ UNCHANGED <<lock, cache, stolen, young>>
    BY DEF Refused
<1>7. LockOK'
    BY <1>2, <1>3, <1>6 DEF LockOK, Moves, Inside
<1>8. CoolOK'
    <2> SUFFICES ASSUME ~stolen
                 PROVE  /\ Unwritten'
                        /\ \A q \in Callers :
                              call'[q].at \notin {"token", "tokenWrite", "key", "keyWrite"}
        BY <1>6 DEF CoolOK
    <2>1. lock.by = p /\ lock.age = call[p].time
        BY <1>3 DEF LockOK
    <2>2. Unwritten'
        BY <1>2, <1>4, <1>6, <2>1, CredAssumption DEF Unwritten, Moves
    <2>3. ASSUME NEW q \in Callers, call'[q].at \in {"token", "tokenWrite", "key", "keyWrite"}
          PROVE  FALSE
        <3>1. q # p /\ Inside(q)
            BY <1>2, <2>3 DEF Moves, Inside
        <3> QED
            BY <2>1, <3>1 DEF LockOK
    <2> QED
        BY <2>2, <2>3
<1>9. quiet' \in 0..Cooldown
    BY <1>6, CredAssumption
<1> QED
    BY <1>5, <1>6, <1>7, <1>8, <1>9

\* The section is left: with the lock goes nothing that is not written.
LEMMA ReleaseStep ==
    ASSUME CredInv, NEW p \in Callers, Release(p)
    PROVE  CredInv'
<1> USE DEF CredInv
<1>1. Moves(p, "out", 0, 0)
    <2>1. Out \in Calls /\ Out.at = "out" /\ Out.time = 0 /\ Out.token = 0
        BY CredAssumption DEF Out, Calls, Places
    <2>2. call' = [call EXCEPT ![p] = Out]
        BY DEF Release
    <2>3. Moves(p, Out.at, Out.time, Out.token)
        BY <2>1, <2>2, CallerTypes, MoveAll
    <2> QED
        BY <2>1, <2>3
<1>2. Inside(p) /\ ~Inside(p)'
    BY <1>1 DEF Inside, Moves, Release
<1>3. CallsOK' /\ TokenOK'
    BY <1>1, <1>2, MovesCalls, CredAssumption DEF Places
<1>4. lock' = NoLock /\ UNCHANGED <<cache, quiet, stolen, young>>
    BY DEF Release
<1>5. lock' \in [by: Callers \cup {NoOne}, age: 0..Stale]
    BY <1>4, CredAssumption DEF NoLock
<1>6. ASSUME ~stolen, NEW q \in Callers PROVE ~Inside(q)'
    <2>1. lock.by = p
        BY <1>2, <1>6 DEF LockOK
    <2>2. Inside(q) => q = p
        BY <1>6, <2>1 DEF LockOK
    <2> QED
        BY <1>1, <1>2, <2>2 DEF Moves, Inside
<1>7. LockOK'
    BY <1>4, <1>6 DEF LockOK
<1>8. CoolOK'
    <2> SUFFICES ASSUME ~stolen, ~young
                 PROVE  /\ quiet + cache.cooldown + MaxHold >= Cooldown
                        /\ \A q \in Callers :
                              call'[q].at \notin {"token", "tokenWrite", "key", "keyWrite"}
        BY <1>4 DEF CoolOK
    <2>1. lock.by = p
        BY <1>2 DEF LockOK
    <2>2. ~Unwritten
        BY <2>1 DEF Unwritten, Release
    <2>3. quiet + cache.cooldown + MaxHold >= Cooldown
        BY <2>2 DEF CoolOK
    <2>4. \A q \in Callers : call'[q].at \notin {"token", "tokenWrite", "key", "keyWrite"}
        BY <1>6 DEF Inside
    <2> QED
        BY <2>3, <2>4
<1> QED
    BY <1>3, <1>4, <1>5, <1>7, <1>8

\* A caller dies: its lock stays, and with it the refusal it may have met.
LEMMA DieStep ==
    ASSUME CredInv, NEW p \in Callers, Die(p)
    PROVE  CredInv'
<1> USE DEF CredInv
<1>1. Moves(p, "dead", 0, 0)
    <2> DEFINE c == [Out EXCEPT !.at = "dead"]
    <2>1. c \in Calls /\ c.at = "dead" /\ c.time = 0 /\ c.token = 0
        <3>1. Out \in Calls /\ Out.time = 0 /\ Out.token = 0
            BY CredAssumption DEF Out, Calls, Places
        <3> QED
            BY <3>1 DEF Calls, Places
    <2>2. call' = [call EXCEPT ![p] = c]
        BY DEF Die
    <2> HIDE DEF c
    <2>3. Moves(p, c.at, c.time, c.token)
        BY <2>1, <2>2, CallerTypes, MoveAll
    <2> QED
        BY <2>1, <2>3
<1>2. ~Inside(p)'
    BY <1>1 DEF Inside, Moves
<1>3. CallsOK' /\ TokenOK'
    BY <1>1, <1>2, MovesCalls, CredAssumption DEF Places
<1>4. UNCHANGED <<lock, cache, quiet, stolen, young>>
    BY DEF Die
<1>5. LockOK'
    BY <1>1, <1>2, <1>4 DEF LockOK, Moves, Inside
<1>6. CoolOK'
    BY <1>1, <1>4 DEF CoolOK, Unwritten, Moves
<1> QED
    BY <1>3, <1>4, <1>5, <1>6

\* Time passes.
LEMMA TickStep ==
    ASSUME CredInv, Tick
    PROVE  CredInv'
<1> USE DEF CredInv
<1>1. UNCHANGED <<stolen, young>>
    BY DEF Tick
<1>2. /\ quiet' \in 0..Cooldown
      /\ quiet' = IF quiet = Cooldown THEN quiet ELSE quiet + 1
    <2>1. quiet' = IF quiet = Cooldown THEN quiet ELSE quiet + 1
        BY Zenon DEF Tick
    <2> QED
        BY <2>1, CredAssumption
<1>3. /\ cache' \in [token: 0..Life, key: BOOLEAN, cooldown: 0..Cooldown]
      /\ cache'.cooldown = Less(cache.cooldown)
    <2> DEFINE k == Less(cache.token)
               n == Less(cache.cooldown)
    <2>1. k \in 0..Life /\ n \in 0..Cooldown
        BY CredAssumption DEF Less
    <2>2. cache' = [cache EXCEPT !.token = k, !.cooldown = n]
        BY DEF Tick
    <2> HIDE DEF k, n
    <2> DEFINE b == [cache EXCEPT !.token = k]
               c == [b EXCEPT !.cooldown = n]
    <2>3. b \in [token: 0..Life, key: BOOLEAN, cooldown: 0..Cooldown]
        BY <2>1
    <2>4. cache' = c
        BY <2>2
    <2> HIDE DEF b
    <2>5. c \in [token: 0..Life, key: BOOLEAN, cooldown: 0..Cooldown] /\ c.cooldown = n
        BY <2>1, <2>3
    <2> QED
        BY <2>4, <2>5 DEF n
<1>4. /\ lock' \in [by: Callers \cup {NoOne}, age: 0..Stale]
      /\ lock'.by = lock.by
      /\ lock.by = NoOne \/ lock.age = Stale => lock' = lock
      /\ lock.by # NoOne /\ lock.age # Stale => lock'.age = lock.age + 1
    <2>1. CASE lock.by = NoOne \/ lock.age = Stale
        BY <2>1 DEF Tick
    <2>2. CASE lock.by # NoOne /\ lock.age # Stale
        <3>1. lock' = [lock EXCEPT !.age = lock.age + 1]
            BY <2>2 DEF Tick
        <3>2. lock.age + 1 \in 0..Stale
            BY <2>2, CredAssumption
        <3> QED
            BY <2>2, <3>1, <3>2
    <2> QED
        BY <2>1, <2>2
<1> DEFINE Ticked(p) ==
        CASE Inside(p) -> [call[p] EXCEPT !.time = @ + 1, !.token = Less(@)]
          [] call[p].at = "sleep" -> [call[p] EXCEPT !.at = "open", !.time = @ + 1]
          [] OTHER -> call[p]
<1>5. call' = [p \in Callers |-> Ticked(p)]
    BY Zenon DEF Tick
<1>6. ASSUME NEW p \in Callers
      PROVE  /\ call'[p] \in Calls
             /\ Inside(p) => /\ call'[p].at = call[p].at
                             /\ call'[p].time = call[p].time + 1
                             /\ call'[p].token = Less(call[p].token)
                             /\ call[p].time < MaxHold
             /\ call[p].at = "sleep" => call'[p].at = "open" /\ call'[p].time = call[p].time + 1
             /\ ~Inside(p) /\ call[p].at # "sleep" => call'[p] = call[p]
    <2>1. call[p] \in Calls /\ call[p].time \in Nat /\ call[p].token \in 0..Life
        BY CallerTypes
    <2>2. CASE Inside(p)
        <3> DEFINE k == Less(call[p].token)
                   b == [call[p] EXCEPT !.time = call[p].time + 1]
                   c == [b EXCEPT !.token = k]
        <3>1. k \in 0..Life
            BY <2>1, CredAssumption DEF Less
        <3>2. call'[p] = [call[p] EXCEPT !.time = call[p].time + 1, !.token = k]
            <4>1. ~(call[p].at = "sleep")
                BY <2>2 DEF Inside
            <4>2. Ticked(p) = [call[p] EXCEPT !.time = call[p].time + 1, !.token = k]
                BY <2>2, <4>1
            <4> HIDE DEF Ticked, k
            <4> QED
                BY <1>5, <4>2
        <3>3. b \in Calls /\ b.at = call[p].at /\ b.time = call[p].time + 1
            BY <2>1 DEF Calls
        <3>4. call'[p] = c
            BY <3>2
        <3> HIDE DEF b, k
        <3>5. c \in Calls /\ c.at = call[p].at /\ c.time = call[p].time + 1 /\ c.token = k
            BY <3>1, <3>3 DEF Calls
        <3>6. call[p].time < MaxHold /\ call[p].at # "sleep"
            BY <2>2 DEF Tick, Inside
        <3> QED
            BY <2>2, <3>4, <3>5, <3>6 DEF k
    <2>3. CASE call[p].at = "sleep"
        <3>1. ~Inside(p)
            BY <2>3 DEF Inside
        <3> DEFINE b == [call[p] EXCEPT !.at = "open"]
                   c == [b EXCEPT !.time = call[p].time + 1]
        <3>2. call'[p] = c
            BY <2>3, <3>1 DEF Tick
        <3>3. b \in Calls /\ b.at = "open"
            BY <2>1 DEF Calls, Places
        <3> HIDE DEF b
        <3>4. c \in Calls /\ c.at = "open" /\ c.time = call[p].time + 1
            BY <2>1, <3>3 DEF Calls
        <3> QED
            BY <2>3, <3>1, <3>2, <3>4
    <2>4. CASE ~Inside(p) /\ call[p].at # "sleep"
        BY <2>1, <2>4 DEF Tick
    <2> QED
        BY <2>2, <2>3, <2>4
<1>7. call' \in [Callers -> Calls]
    <2> HIDE DEF Ticked
    <2>1. DOMAIN call' = Callers /\ call' = [p \in Callers |-> call'[p]]
        BY <1>5
    <2> QED
        BY <1>6, <2>1
<1>8. ASSUME NEW p \in Callers PROVE Inside(p)' <=> Inside(p)
    BY <1>6 DEF Inside
<1>9. CallsOK'
    <2>1. ASSUME NEW p \in Callers
          PROVE  /\ Inside(p)' => call'[p].time <= MaxHold
                 /\ ~Inside(p)' => call'[p].time <= LockWait
                 /\ call'[p].at # "sleep" \/ call'[p].time < LockWait
        <3>1. call[p].time \in Nat
            BY CallerTypes
        <3>2. CASE Inside(p)
            <4>1. call[p].at # "sleep"
                BY <3>2 DEF Inside
            <4> QED
                BY <1>6, <1>8, <3>1, <3>2, <4>1, CredAssumption DEF CallsOK
        <3>3. CASE ~Inside(p)
            BY <1>6, <1>8, <3>1, <3>3, CredAssumption DEF CallsOK
        <3> QED
            BY <3>2, <3>3
    <2> QED
        BY <1>7, <2>1 DEF CallsOK
<1>10. LockOK'
    <2> SUFFICES ASSUME ~stolen, NEW p \in Callers, Inside(p)
                 PROVE  lock'.by = p /\ lock'.age = call'[p].time
        BY <1>1, <1>8 DEF LockOK
    <2>1. lock.by = p /\ lock.age = call[p].time
        BY DEF LockOK
    <2>2. lock.by # NoOne /\ lock.age # Stale
        BY <1>6, <2>1, CredAssumption, CallerTypes
    <2> QED
        BY <1>4, <1>6, <2>1, <2>2
<1>11. TokenOK'
    <2> SUFFICES ASSUME NEW p \in Callers,
                        call'[p].at \in {"tokenWrite", "key", "keyWrite", "release"},
                        call'[p].token > 0
                 PROVE  call'[p].token + call'[p].time > Margin
        BY DEF TokenOK
    <2>1. Inside(p)
        BY <1>8 DEF Inside
    <2>2. call[p].time \in Nat /\ call[p].token \in 0..Life
        BY CallerTypes
    <2>3. call'[p].token = call[p].token - 1 /\ call[p].token > 0
        BY <1>6, <2>1, <2>2, CredAssumption DEF Less
    <2>4. call[p].token + call[p].time > Margin
        BY <1>6, <2>1, <2>3 DEF TokenOK
    <2> QED
        BY <1>6, <2>1, <2>2, <2>3, <2>4, CredAssumption
<1>12. CoolOK'
    <2> SUFFICES ASSUME ~stolen, ~young PROVE CoolOK'
        BY <1>1 DEF CoolOK
    <2>1. ASSUME NEW q \in Callers, call'[q].at \in {"token", "tokenWrite", "key", "keyWrite"}
          PROVE  quiet' + MaxHold >= Cooldown
        <3>1. Inside(q) /\ call[q].at = call'[q].at
            BY <1>6, <1>8, <2>1 DEF Inside
        <3>2. quiet + MaxHold >= Cooldown
            BY <2>1, <3>1 DEF CoolOK
        <3> QED
            BY <1>2, <3>2, CredAssumption
    <2>2. quiet' + cache'.cooldown + MaxHold >= Cooldown \/ Unwritten'
        <3>1. CASE quiet + cache.cooldown + MaxHold >= Cooldown
            BY <1>2, <1>3, <3>1, CredAssumption DEF Less
        <3>2. CASE quiet = Cooldown
            BY <1>2, <1>3, <3>2, CredAssumption
        <3>3. CASE quiet # Cooldown /\ Unwritten
            <4>1. PICK q \in Callers :
                      /\ lock.by = q
                      /\ call[q].at \in {"tokenRefused", "keyRefused", "dead"}
                      /\ quiet + MaxHold >= lock.age
                BY <3>3 DEF Unwritten
            <4>2. call'[q].at = call[q].at
                BY <1>6, <4>1 DEF Inside
            <4>3. lock'.age <= lock.age + 1
                BY <1>4, <4>1, CredAssumption
            <4>4. quiet' = quiet + 1
                BY <1>2, <3>3
            <4>5. quiet' + MaxHold >= lock'.age
                BY <1>4, <4>1, <4>3, <4>4, CredAssumption
            <4> QED
                BY <1>4, <4>1, <4>2, <4>5 DEF Unwritten
        <3> QED
            BY <3>1, <3>2, <3>3 DEF CoolOK
    <2> QED
        BY <2>1, <2>2 DEF CoolOK
<1> QED
    BY <1>1, <1>2, <1>3, <1>4, <1>9, <1>10, <1>11, <1>12

-----------------------------------------------------------------------------
(* The theorems                                                            *)

\* The invariant holds in every state of every behaviour.
THEOREM CredInvariance == CredSpec => []CredInv
<1>1. CredInit => CredInv
    <2> SUFFICES ASSUME CredInit PROVE CredInv
        OBVIOUS
    <2>1. Out \in Calls /\ Out.at = "out" /\ Out.time = 0
        BY CredAssumption DEF Out, Calls, Places
    <2>2. \A p \in Callers : call[p] = Out
        BY DEF CredInit
    <2>3. call \in [Callers -> Calls] /\ \A p \in Callers : call[p].at = "out" /\ call[p].time = 0
        BY <2>1 DEF CredInit
    <2>4. CallsOK /\ TokenOK /\ LockOK
        BY <2>3, CredAssumption DEF CallsOK, TokenOK, LockOK, Inside
    <2>5. /\ lock \in [by: Callers \cup {NoOne}, age: 0..Stale]
          /\ quiet \in 0..Cooldown /\ stolen \in BOOLEAN /\ young \in BOOLEAN
        <3>1. lock \in [by: Callers \cup {NoOne}, age: 0..Stale]
            BY CredAssumption DEF CredInit, NoLock
        <3>2. quiet \in 0..Cooldown
            BY CredAssumption DEF CredInit
        <3>3. stolen \in BOOLEAN /\ young \in BOOLEAN
            BY DEF CredInit
        <3> QED
            BY <3>1, <3>2, <3>3
    <2>6. cache \in [token: 0..Life, key: BOOLEAN, cooldown: 0..Cooldown]
        <3>1. 0 \in 0..Life /\ Life \in 0..Life /\ Margin \in 0..Life /\ 0 \in 0..Cooldown
            BY CredAssumption
        <3>2. PICK k \in 0..Life, b \in BOOLEAN :
                  cache = [token |-> k, key |-> b, cooldown |-> 0]
            BY <3>1, Zenon DEF CredInit, NoCache
        <3> QED
            BY <3>1, <3>2
    <2>7. CoolOK
        BY <2>3, <2>6, CredAssumption DEF CredInit, CoolOK
    <2> QED
        BY <2>4, <2>5, <2>6, <2>7 DEF CredInv
<1>2. CredInv /\ [CredNext]_credVars => CredInv'
    <2> SUFFICES ASSUME CredInv, [CredNext]_credVars PROVE CredInv'
        OBVIOUS
    <2>1. ASSUME NEW p \in Callers, CallerStep(p) PROVE CredInv'
        BY <2>1, OpenStep, StatStep, UnlinkStep, ReadStep, RefusedStep, IssueSteps,
           CooldownStep, ReleaseStep DEF CallerStep, Section
    <2>2. ASSUME NEW p \in Callers, Call(p, FALSE) \/ Call(p, TRUE) PROVE CredInv'
        BY <2>2, CallStep
    <2>3. ASSUME NEW p \in Callers, Die(p) PROVE CredInv'
        BY <2>3, DieStep
    <2>4. CASE Tick
        BY <2>4, TickStep
    <2>5. CASE UNCHANGED credVars
        BY <2>5 DEF credVars, CredInv, CallsOK, LockOK, TokenOK, CoolOK, Unwritten, Inside
    <2> QED
        BY <2>1, <2>2, <2>3, <2>4, <2>5 DEF CredNext
<1> QED
    BY <1>1, <1>2, PTL DEF CredSpec

\* Types; _cache_issue_lock gives up at its deadline (time).
THEOREM CredTypeCorrect == CredSpec => []CredTypeOK
<1>1. CredInv => CredTypeOK
    <2> SUFFICES ASSUME CredInv PROVE CredTypeOK
        OBVIOUS
    <2>1. ASSUME NEW p \in Callers
          PROVE  /\ Inside(p) \/ call[p].at \in {"out", "open", "stat", "sleep", "unlink", "dead"}
                 /\ call[p].time \in 0..(IF Inside(p) THEN MaxHold ELSE LockWait)
                 /\ call[p].refresh \in BOOLEAN /\ call[p].token \in 0..Life
        <3>1. /\ call[p].at \in Places /\ call[p].time \in Nat
              /\ call[p].refresh \in BOOLEAN /\ call[p].token \in 0..Life
            BY CallerTypes
        <3>2. call[p].time <= IF Inside(p) THEN MaxHold ELSE LockWait
            BY DEF CredInv, CallsOK
        <3>3. call[p].time \in 0..(IF Inside(p) THEN MaxHold ELSE LockWait)
            BY <3>1, <3>2, CredAssumption
        <3> QED
            BY <3>1, <3>3 DEF Inside, Places
    <2> QED
        BY <2>1 DEF CredInv, CredTypeOK
<1> QED
    BY <1>1, CredInvariance, PTL

\* _cache_issue_lock lets one caller in at a time, whoever dies, as long as no
\* lock is taken from a living caller.
THEOREM IssuersAreAlone == CredSpec => []OneIssuerUnlessStolen
<1>1. CredInv => OneIssuerUnlessStolen
    BY DEF CredInv, LockOK, OneIssuerUnlessStolen, OneIssuer
<1> QED
    BY <1>1, CredInvariance, PTL

\* _cache_credential_rate_limit: KIS is left alone after it has refused, until the
\* cooldown counted from the beginning of that section is over.
THEOREM CooldownsAreKept == CredSpec => []CooldownIsKept
<1>1. CredInv => CooldownIsKept
    BY DEF CredInv, CoolOK, CooldownIsKept
<1> QED
    BY <1>1, CredInvariance, PTL

\* authenticate_read_only returns a token that lasts for the margin, less the time
\* the call took.
THEOREM TokensAreFresh == CredSpec => []TokenIsFresh
<1>1. CredInv => TokenIsFresh
    <2> SUFFICES ASSUME CredInv, NEW p \in Callers,
                        call[p].at = "release", call[p].token > 0
                 PROVE  call[p].token > Margin - MaxHold
        BY DEF TokenIsFresh
    <2>1. call[p].time <= MaxHold
        BY DEF CredInv, CallsOK, Inside
    <2>2. call[p].token + call[p].time > Margin
        BY DEF CredInv, TokenOK
    <2> QED
        BY <2>1, <2>2, CallerTypes, CredAssumption
<1> QED
    BY <1>1, CredInvariance, PTL
=============================================================================
