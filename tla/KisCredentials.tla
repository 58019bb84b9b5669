--------------------------- MODULE KisCredentials ---------------------------
(***************************************************************************)
(* authenticate_read_only (broker/kis_auth.py): the access token and the   *)
(* WebSocket approval key, kept in a cache file that the service, its      *)
(* workers and the CLI share, and issued under a lock file.                *)
(*                                                                         *)
(* Time is kept as ages and remainders, in units of Tick.  The posts have  *)
(* a timeout, so a caller that lives holds the lock for at most MaxHold.   *)
(* A write of the cache is one step (a temporary file is moved into place).*)
(***************************************************************************)
EXTENDS Integers, FiniteSets

CONSTANTS
    Callers,    \* threads and containers that authenticate
    NoOne,      \* no lock file
    LockWait,   \* _CACHE_LOCK_TIMEOUT_SECONDS
    Stale,      \* _CACHE_LOCK_STALE_SECONDS
    Cooldown,   \* _CREDENTIAL_RATE_LIMIT_COOLDOWN_SECONDS
    Margin,     \* the least validity for which a cached token is used
    Life,       \* how long a token is valid
    MaxHold,    \* bound on the time under the lock
    MaxCrashes  \* bound on the callers that die

ASSUME CredAssumption ==
    /\ IsFiniteSet(Callers) /\ NoOne \notin Callers
    /\ {LockWait, Stale, Cooldown, Margin, Life, MaxHold, MaxCrashes} \subseteq Nat
    \* Two posts of 15 s, 60 s, 120 s; a minute, most of a day.
    /\ MaxHold <= Cooldown /\ Cooldown <= Stale /\ MaxHold < Stale
    /\ Margin < Life /\ MaxHold <= Life

VARIABLES
    lock,   \* the lock file: its creator, its age
    cache,  \* the cache file: time left of token, approval key, time left of cooldown
    call,   \* each caller: where it is, how long there, refresh_token, its token
            \* (the time it is still valid; 0 when the call raises)
    quiet,  \* history: time since KIS last answered 403 or 429, up to Cooldown
    stolen, \* history: the lock of a living caller was removed as a stale one
    young   \* history: a lock that was not stale was removed as a stale one

credVars == <<lock, cache, call, quiet, stolen, young>>

NoLock == [by |-> NoOne, age |-> 0]
NoCache == [token |-> 0, key |-> FALSE, cooldown |-> 0]
Out == [at |-> "out", time |-> 0, refresh |-> FALSE, token |-> 0]

CredInit ==
    /\ lock = NoLock
    /\ cache \in {NoCache, [token |-> Life, key |-> TRUE, cooldown |-> 0],
                  [token |-> Margin, key |-> TRUE, cooldown |-> 0]}
    /\ call = [p \in Callers |-> Out]
    /\ quiet = Cooldown
    /\ stolen = FALSE /\ young = FALSE

Inside(p) == call[p].at \in {"read", "token", "tokenWrite", "key", "keyWrite",
                             "tokenRefused", "keyRefused", "release"}
Dead == {p \in Callers : call[p].at = "dead"}
Goto(p, at) == call' = [call EXCEPT ![p].at = at]
Raise(p) == call' = [call EXCEPT ![p].at = "release", ![p].token = 0]

-----------------------------------------------------------------------------
(* _cache_issue_lock                                                       *)

Call(p, refresh) ==
    /\ call[p].at = "out"
    /\ call' = [call EXCEPT ![p] = [Out EXCEPT !.at = "open", !.refresh = refresh]]
    /\ UNCHANGED <<lock, cache, quiet, stolen, young>>

\* Mutant of Open: the file is opened whether or not it exists.
OpenShared(p) ==
    /\ call[p].at = "open"
    /\ lock' = [by |-> p, age |-> 0]
    /\ call' = [call EXCEPT ![p].at = "read", ![p].time = 0]
    /\ UNCHANGED <<cache, quiet, stolen, young>>

\* O_CREAT | O_EXCL
Open(p) ==
    /\ call[p].at = "open"
    /\ IF lock.by = NoOne
       THEN /\ lock' = [by |-> p, age |-> 0]
            /\ call' = [call EXCEPT ![p].at = "read", ![p].time = 0]
       ELSE UNCHANGED lock /\ Goto(p, "stat")
    /\ UNCHANGED <<cache, quiet, stolen, young>>

\* Mutant of Stat: the age of the lock is not looked at.
StatWaits(p) ==
    /\ call[p].at = "stat"
    /\ Goto(p, CASE lock.by = NoOne -> "open"
                 [] lock.by # NoOne /\ call[p].time >= LockWait -> "out"
                 [] OTHER -> "sleep")
    /\ UNCHANGED <<lock, cache, quiet, stolen, young>>

\* The lock is stale, gone, or waited for until TimeoutError.
Stat(p) ==
    /\ call[p].at = "stat"
    /\ Goto(p, CASE lock.by = NoOne -> "open"
                 [] lock.by # NoOne /\ lock.age >= Stale -> "unlink"
                 [] lock.by # NoOne /\ lock.age < Stale /\ call[p].time >= LockWait -> "out"
                 [] OTHER -> "sleep")
    /\ UNCHANGED <<lock, cache, quiet, stolen, young>>

\* unlink after stat: whatever file has the name by now.
Unlink(p) ==
    /\ call[p].at = "unlink"
    /\ lock' = NoLock
    /\ stolen' = (stolen \/ lock.by \notin Dead \cup {NoOne})
    /\ young' = (young \/ (lock.by # NoOne /\ lock.age < Stale))
    /\ Goto(p, "open")
    /\ UNCHANGED <<cache, quiet>>

\* finally, on every way out of the section.
Release(p) ==
    /\ call[p].at = "release"
    /\ lock' = NoLock
    /\ call' = [call EXCEPT ![p] = Out]
    /\ UNCHANGED <<cache, quiet, stolen, young>>

-----------------------------------------------------------------------------
(* The section of authenticate_read_only                                   *)

\* Mutant of TokenValid: a token is used to its last moment.
TokenValidAtAll(since) == cache.token + since > 0

\* _token_cache_valid, for the time that was now since units ago.
TokenValid(since) == cache.token + since > Margin

\* Valid credentials are returned; a cooldown is raised; else what is missing is
\* issued.
Read(p) ==
    /\ call[p].at = "read"
    /\ LET cached == ~call[p].refresh /\ TokenValid(0)
       IN  call' = [call EXCEPT
              ![p].refresh = FALSE,
              ![p].token = IF cached /\ (cache.key \/ cache.cooldown = 0)
                           THEN cache.token ELSE 0,
              ![p].at = CASE cached /\ cache.key -> "release"
                          [] ~(cached /\ cache.key) /\ cache.cooldown > 0 -> "release"
                          [] cached /\ ~cache.key /\ cache.cooldown = 0 -> "key"
                          [] ~cached /\ cache.cooldown = 0 -> "token"]
    /\ UNCHANGED <<lock, cache, quiet, stolen, young>>

\* issue_access_token, issue_websocket_approval_key: 403 or 429; any other error.
Refused(p) ==
    /\ call[p].at \in {"token", "key"}
    /\ quiet' = 0
    /\ Goto(p, IF call[p].at = "token" THEN "tokenRefused" ELSE "keyRefused")
    /\ UNCHANGED <<lock, cache, stolen, young>>

Fails(p) ==
    /\ call[p].at \in {"token", "key"}
    /\ Raise(p)
    /\ UNCHANGED <<lock, cache, quiet, stolen, young>>

TokenIssued(p) ==
    /\ call[p].at = "token"
    /\ call' = [call EXCEPT ![p].at = "tokenWrite", ![p].token = Life - call[p].time]
    /\ UNCHANGED <<lock, cache, quiet, stolen, young>>

TokenWrite(p) ==
    /\ call[p].at = "tokenWrite"
    /\ cache' = [token |-> call[p].token, key |-> FALSE, cooldown |-> 0]
    /\ Goto(p, "key")
    /\ UNCHANGED <<lock, quiet, stolen, young>>

KeyIssued(p) ==
    /\ call[p].at = "key"
    /\ Goto(p, "keyWrite")
    /\ UNCHANGED <<lock, cache, quiet, stolen, young>>

KeyWrite(p) ==
    /\ call[p].at = "keyWrite"
    /\ cache' = [token |-> call[p].token, key |-> TRUE, cooldown |-> 0]
    /\ Goto(p, "release")
    /\ UNCHANGED <<lock, quiet, stolen, young>>

\* Mutant of CooldownWrite: a refused approval key leaves the cache as it was.
CooldownWriteTokenOnly(p) ==
    /\ call[p].at \in {"tokenRefused", "keyRefused"}
    /\ cache' = IF call[p].at = "keyRefused" THEN cache
                ELSE [NoCache EXCEPT !.cooldown = Cooldown - call[p].time]
    /\ Raise(p)
    /\ UNCHANGED <<lock, quiet, stolen, young>>

\* _cache_credential_rate_limit, from the time at which the section began; a
\* refused approval key leaves a valid token in the cache.
CooldownWrite(p) ==
    /\ call[p].at \in {"tokenRefused", "keyRefused"}
    /\ cache' = [token |-> IF call[p].at = "keyRefused" /\ TokenValid(call[p].time)
                           THEN cache.token ELSE 0,
                 key |-> FALSE, cooldown |-> Cooldown - call[p].time]
    /\ Raise(p)
    /\ UNCHANGED <<lock, quiet, stolen, young>>

-----------------------------------------------------------------------------

\* The process of p is killed, its lock file stays.
Die(p) ==
    /\ call[p].at \notin {"out", "dead"}
    /\ Cardinality(Dead) < MaxCrashes
    /\ call' = [call EXCEPT ![p] = [Out EXCEPT !.at = "dead"]]
    /\ UNCHANGED <<lock, cache, quiet, stolen, young>>

Less(n) == IF n = 0 THEN 0 ELSE n - 1

\* Time passes, at most MaxHold of it for a caller under the lock; one that
\* sleeps tries again afterwards.
Tick ==
    /\ \A p \in Callers : Inside(p) => call[p].time < MaxHold
    /\ lock' = IF lock.by = NoOne \/ lock.age = Stale THEN lock
               ELSE [lock EXCEPT !.age = @ + 1]
    /\ cache' = [cache EXCEPT !.token = Less(@), !.cooldown = Less(@)]
    /\ call' = [p \in Callers |->
                  CASE Inside(p) -> [call[p] EXCEPT !.time = @ + 1, !.token = Less(@)]
                    [] call[p].at = "sleep" -> [call[p] EXCEPT !.at = "open", !.time = @ + 1]
                    [] OTHER -> call[p]]
    /\ quiet' = IF quiet = Cooldown THEN quiet ELSE quiet + 1
    /\ UNCHANGED <<stolen, young>>

Section(p) ==
    \/ Read(p) \/ Refused(p) \/ Fails(p) \/ TokenIssued(p) \/ TokenWrite(p)
    \/ KeyIssued(p) \/ KeyWrite(p) \/ CooldownWrite(p) \/ Release(p)

CallerStep(p) == Open(p) \/ Stat(p) \/ Unlink(p) \/ Section(p)

CredNext ==
    \/ Tick
    \/ \E p \in Callers : Call(p, FALSE) \/ Call(p, TRUE) \/ CallerStep(p) \/ Die(p)

\* The workers authenticate again and again; steps and time go on.
CredSpec ==
    /\ CredInit /\ [][CredNext]_credVars
    /\ WF_credVars(Tick)
    /\ \A p \in Callers : WF_credVars(CallerStep(p)) /\ WF_credVars(Call(p, FALSE))

-----------------------------------------------------------------------------
(* Properties                                                              *)

\* Types; nobody waits for the lock past the deadline.
CredTypeOK ==
    /\ lock \in [by: Callers \cup {NoOne}, age: 0..Stale]
    /\ cache \in [token: 0..Life, key: BOOLEAN, cooldown: 0..Cooldown]
    /\ \A p \in Callers :
          /\ Inside(p) \/ call[p].at \in {"out", "open", "stat", "sleep", "unlink", "dead"}
          /\ call[p].time \in 0..(IF Inside(p) THEN MaxHold ELSE LockWait)
          /\ call[p].refresh \in BOOLEAN /\ call[p].token \in 0..Life
    /\ quiet \in 0..Cooldown
    /\ stolen \in BOOLEAN /\ young \in BOOLEAN

\* "Serialize KIS credential issuance across threads and containers": of the
\* callers that read, issue and write, there is one at a time.
OneIssuer ==
    \A p, q \in Callers : Inside(p) /\ Inside(q) => p = q

\* It holds, whoever dies, until two callers that found the same lock stale
\* remove it one after the other, the second time from under its new owner.
OneIssuerUnlessStolen == stolen \/ OneIssuer

\* After a 403 or 429 nobody asks KIS for credentials until the cooldown, which
\* runs from the beginning of the refused section, is over; also if the caller
\* that was refused died before it could write the cooldown down: its lock is
\* in the way for longer than that, unless it is removed by one who took it for
\* an earlier, stale one.
CooldownIsKept ==
    \A p \in Callers :
        call[p].at \in {"token", "key"} => stolen \/ young \/ quiet + MaxHold >= Cooldown

\* No caller returns with a token that is about to expire.
TokenIsFresh ==
    \A p \in Callers :
        call[p].at = "release" /\ call[p].token > 0 => call[p].token > Margin - MaxHold

\* A lock whose creator has died is not in the way for ever.
DeadLockIsBroken == lock.by \in Dead ~> lock.by \notin Dead

=============================================================================
