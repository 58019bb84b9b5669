--------------------------- MODULE TradingService ---------------------------
(***************************************************************************)
(* service_loop (cli.py) under RuntimeControl: several processes, of which *)
(* the one that holds the service lease should trade.  A process takes the *)
(* lease, repairs the pause switch, renews the lease, passes the gates of  *)
(* the cycle and submits orders through the guard, which reads the         *)
(* controls twice and then calls the broker.  It may be stalled between    *)
(* any two steps, long enough for its lease to expire and be taken.        *)
(***************************************************************************)
EXTENDS RuntimeControl

CONSTANT CycleOrders   \* orders a process attempts per cycle at most: its symbols

ASSUME CycleAssumption == CycleOrders \in [Procs -> Nat]

VARIABLES
    proc,  \* each process: program counter, what it read
    late   \* history: orders sent since the process lost its right to trade

serviceVars == <<controlVars, proc, late>>

Pcs == {"new", "sync", "syncw", "renew", "gate", "cycle", "claim", "check",
        "recheck", "send", "dead"}

ServiceInit ==
    /\ ControlInit
    /\ proc = [p \in Procs |-> [pc |-> "new", env |-> "demo", want |-> "keep", n |-> 0]]
    /\ late = [p \in Procs |-> 0]

At(p, pc) == proc[p].pc = pc
Goto(p, pc) == proc' = [proc EXCEPT ![p].pc = pc]

\* The turn of the loop is over (or the process): what was read is forgotten.
EndTurn(p, pc) ==
    proc' = [proc EXCEPT ![p] = [pc |-> pc, env |-> "demo", want |-> "keep", n |-> 0]]

Running(p) == proc[p].pc \notin {"new", "dead"}

\* The process may trade in the environment it works for.
Allowed(p) ==
    /\ ~control.paused /\ ~emergency
    /\ control.env = proc[p].env
    /\ lease = [owner |-> p, valid |-> TRUE]

-----------------------------------------------------------------------------
(* Starting, stopping, dying                                               *)

\* acquire_service_lease: absent or expired.  Without it the start fails; with
\* it _sync_service_runtime resumes the runtime unless an emergency stop holds.
Start(p) ==
    /\ At(p, "new")
    /\ IF lease.owner = None \/ ~lease.valid
       THEN /\ lease' = [owner |-> p, valid |-> TRUE]
            /\ SetPaused(emergency)
            /\ Goto(p, "sync")
       ELSE Goto(p, "dead") /\ UNCHANGED <<lease, control>>
    /\ UNCHANGED <<emergency, real, books, tg, updates, credit>>

\* The process ends; with the finally block it releases its own lease.  The
\* update batch in hand will be delivered again.
Die(p, released) ==
    /\ Running(p)
    /\ tg.batch # <<>> => tg.replays < MaxReplays
    /\ tg' = IF tg.batch = <<>> THEN tg ELSE Redelivered
    /\ lease' = IF released /\ lease.owner = p
                THEN [owner |-> None, valid |-> FALSE] ELSE lease
    /\ EndTurn(p, "dead")
    /\ UNCHANGED <<control, emergency, real, books, updates, credit>>

-----------------------------------------------------------------------------
(* One turn of the loop                                                    *)

\* _sync_service_runtime reads the switch and the flag ...
SyncRead(p) ==
    /\ At(p, "sync")
    /\ proc' = [proc EXCEPT ![p].pc = "syncw",
                           ![p].want = CASE emergency /\ ~control.paused -> "pause"
                                         [] ~emergency /\ control.paused -> "resume"
                                         [] OTHER -> "keep"]
    /\ UNCHANGED controlVars

\* Mutant of SyncWrite: an emergency stop is not restored.
SyncWriteResumesOnly(p) ==
    /\ At(p, "syncw")
    /\ IF proc[p].want = "resume" THEN SetPaused(FALSE) ELSE UNCHANGED control
    /\ EndTurn(p, "renew")
    /\ UNCHANGED <<emergency, real, lease, books, tg, updates, credit>>

\* ... and makes the switch agree with the flag it has read.
SyncWrite(p) ==
    /\ At(p, "syncw")
    /\ IF proc[p].want = "keep" THEN UNCHANGED control ELSE SetPaused(proc[p].want = "pause")
    /\ EndTurn(p, "renew")
    /\ UNCHANGED <<emergency, real, lease, books, tg, updates, credit>>

\* renew_service_lease; a failure is a warning and ends the turn.
Renew(p) ==
    /\ At(p, "renew")
    /\ Goto(p, IF lease = [owner |-> p, valid |-> TRUE] THEN "gate" ELSE "sync")
    /\ UNCHANGED controlVars

\* Preflight, the supervisor's state and the market may end the turn; the
\* environment of the cycle is read here.
Gate(p) ==
    /\ At(p, "gate")
    /\ \/ /\ ~control.paused
          /\ proc' = [proc EXCEPT ![p].pc = "cycle", ![p].env = control.env]
       \/ EndTurn(p, "sync")
    /\ UNCHANGED controlVars

\* After the market window: service_loop and auto_trade_cycle read the controls
\* again, and stand back for a lease that another process holds.
CycleGate(p) ==
    /\ At(p, "cycle")
    /\ \/ /\ ~control.paused /\ ~emergency
          /\ control.env = proc[p].env
          /\ lease.owner \in {p, None} \/ ~lease.valid
          /\ Goto(p, "claim")
       \/ EndTurn(p, "sync")
    /\ UNCHANGED controlVars

\* An order is recorded for the next symbol, or the cycle is over.
ClaimOrder(p) ==
    /\ At(p, "claim")
    /\ \/ /\ proc[p].n < CycleOrders[p]
          /\ proc' = [proc EXCEPT ![p].pc = "check", ![p].n = @ + 1]
          /\ books' = TRUE
       \/ EndTurn(p, "sync") /\ UNCHANGED books
    /\ UNCHANGED <<control, emergency, real, lease, tg, updates, credit>>

-----------------------------------------------------------------------------
(* GuardedSubmitter.submit_order                                           *)

\* Mutant of ControlsAllow: the stop is left to the pause switch.
ControlsAllowUnpaused(p) == ~control.paused /\ control.env = proc[p].env

\* _check_runtime_state without the lease.
ControlsAllow(p) ==
    /\ ~control.paused
    /\ control.env = proc[p].env
    /\ ~emergency

GuardCheck(p) ==
    /\ At(p, "check")
    /\ Goto(p, IF ControlsAllow(p) /\ lease = [owner |-> p, valid |-> TRUE]
               THEN "recheck" ELSE "claim")
    /\ UNCHANGED controlVars

\* Both checks use the time read when the guard was entered, so an expiry in
\* between is not seen; a new owner is.
GuardRecheck(p) ==
    /\ At(p, "recheck")
    /\ Goto(p, IF ControlsAllow(p) /\ lease.owner = p THEN "send" ELSE "claim")
    /\ UNCHANGED controlVars

Send(p) ==
    /\ At(p, "send")
    /\ Goto(p, "claim")
    /\ UNCHANGED controlVars

\* The last order is resolved and the last position closed (an order that is in
\* a guard is not).
Settle ==
    /\ books
    /\ \A p \in Procs : proc[p].pc \notin {"check", "recheck", "send"}
    /\ books' = FALSE
    /\ UNCHANGED <<control, emergency, real, lease, tg, updates, credit, proc>>

-----------------------------------------------------------------------------

LoopStep(p) ==
    \/ SyncRead(p) \/ SyncWrite(p) \/ Renew(p) \/ Gate(p) \/ CycleGate(p)
    \/ ClaimOrder(p) \/ GuardCheck(p) \/ GuardRecheck(p) \/ Send(p)

Batches == UNION {[1..n -> Commands] : n \in 1..MaxBatch}

ServiceAction ==
    \/ \E p \in Procs : LoopStep(p) \/ Start(p) \/ Die(p, TRUE) \/ Die(p, FALSE)
    \/ TelegramStep /\ UNCHANGED proc
    \/ (\E p \in Procs : Running(p)) /\ (\E b \in Batches : Receive(b)) /\ UNCHANGED proc
    \/ (Expire \/ CliSetPaused(TRUE) \/ CliSetPaused(FALSE)) /\ UNCHANGED proc
    \/ Settle

\* late counts the sends of a process that is not allowed to trade, and starts
\* anew when it is.
CountLate ==
    late' = [p \in Procs |->
               IF Allowed(p)' THEN 0
               ELSE IF At(p, "send") /\ proc'[p].pc = "claim" /\ late[p] < 2
                    THEN late[p] + 1 ELSE late[p]]

ServiceNext == ServiceAction /\ CountLate

ServiceSpec == ServiceInit /\ [][ServiceNext]_serviceVars

\* The loop of a running process goes on: it sleeps for a bounded time only, and
\* an exception ends the process (Die).
ServiceFairSpec ==
    /\ ServiceSpec
    /\ \A p \in Procs : WF_serviceVars(LoopStep(p) /\ CountLate)

-----------------------------------------------------------------------------
(* Properties                                                              *)

\* Types; a batch of updates is worked through within its bounds.
ServiceTypeOK ==
    /\ ControlTypeOK
    /\ proc \in [Procs -> [pc: Pcs, env: Envs, want: {"keep", "pause", "resume"}, n: Nat]]
    /\ late \in [Procs -> 0..2]

\* However trading is stopped (emergency stop, pause, environment switch, lease
\* lost or expired), a process sends at most the one order that had passed the
\* guard: both checks of GuardedSubmitter count.
StopIsObeyed == \A p \in Procs : late[p] <= 1

\* Every resume of the real environment by a Telegram command has a challenge
\* of its own, also when updates are delivered twice.
OneResumePerChallenge == credit >= 0

\* An emergency stop ends with the switch on "paused", even if a service that
\* had read the flag before switches to running once more.
StopSettles ==
    emergency ~>
        (control.paused \/ ~emergency \/ \A p \in Procs : ~Running(p))

-----------------------------------------------------------------------------
(* What the documentation says and the code does not do (see README)       *)

\* README: after a stop in the real environment a new challenge is needed before
\* the runtime runs again.
RealResumeIsArmed ==
    [][control.paused /\ ~control.paused' /\ control.env = "real" =>
         tg.batch # <<>> /\ Step("unhalt")]_serviceVars

=============================================================================
