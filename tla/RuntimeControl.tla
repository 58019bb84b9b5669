--------------------------- MODULE RuntimeControl ---------------------------
(***************************************************************************)
(* Who may trade: the runtime_control row, the operator flags in           *)
(* runtime_metadata, the service lease, and the Telegram thread that       *)
(* changes them (ops/telegram.py, ops/control.py, storage/database.py).    *)
(*                                                                         *)
(* A command is a short program; each of its steps is one transaction on a *)
(* connection of its own.  poll_telegram handles a whole batch of updates  *)
(* before it stores the new offset, so a failing reply or a dying process  *)
(* makes Telegram deliver the batch again.  Telegram serves one poller at  *)
(* a time, hence one handler.                                              *)
(*                                                                         *)
(* Clocks are abstracted to the expiry of what carries a deadline: the     *)
(* real-environment challenge, the resume arm and the lease.  What         *)
(* _readiness and _resume_safety_reason find beyond the flags kept here is *)
(* nondeterministic, the request to cancel open BUYs (see OrderFlow)       *)
(* included.                                                               *)
(***************************************************************************)
EXTENDS Integers, Sequences, FiniteSets

CONSTANTS
    Procs,      \* owner ids, one per start of the trading service
    None,       \* no owner
    MaxBatch,   \* telegram_limit: updates per poll
    MaxUpdates, \* bound on Telegram updates
    MaxReplays  \* bound on batches delivered again

ASSUME ControlAssumption ==
    /\ None \notin Procs
    /\ MaxBatch \in Nat \ {0} /\ MaxUpdates \in Nat /\ MaxReplays \in Nat

Envs == {"demo", "real"}

VARIABLES
    control,   \* runtime_control: paused, runtime_env
    emergency, \* the emergency-stop flag
    real,      \* challenge and resume arm outstanding and not expired
    lease,     \* service_leases: owner, not expired
    books,     \* an open position or an unresolved order is in the ledger
    tg,        \* the Telegram handler: batch, update, step, replays
    updates,   \* Telegram updates so far
    credit     \* history: challenges issued minus real resumes by Telegram, 2 at most

controlVars == <<control, emergency, real, lease, books, tg, updates, credit>>

-----------------------------------------------------------------------------
(* The commands, step by step                                              *)

Program == [
    pause     |-> <<"stop", "halt", "reply">>,
    emergency |-> <<"stop", "halt", "disarm", "reply">>,
    resume    |-> <<"ready", "arm", "unhalt", "reply">>,
    clear     |-> <<"arm", "unstop", "unhalt", "reply">>,
    envDemo   |-> <<"maydemo", "demo", "reply">>,
    envReal   |-> <<"challenge", "reply">>,
    confirm   |-> <<"confirm", "mayreal", "real", "spend", "rearm", "reply">>]

Commands == DOMAIN Program

TgIdle == [batch |-> <<>>, i |-> 0, s |-> 0, replays |-> tg.replays]

\* The database of an earlier life: the environment, an emergency stop, a
\* challenge and an arm outlive the service; the row defaults to paused.
ControlInit ==
    /\ control \in [paused: {TRUE}, env: Envs]
    /\ emergency \in BOOLEAN
    /\ real \in [challenge: BOOLEAN, arm: BOOLEAN]
    /\ real.arm => control.env = "real" /\ ~real.challenge
    /\ credit = Cardinality({f \in DOMAIN real : real[f]})
    /\ lease = [owner |-> None, valid |-> FALSE]
    /\ books = FALSE
    /\ tg = [batch |-> <<>>, i |-> 0, s |-> 0, replays |-> 0]
    /\ updates = 0

ControlTypeOK ==
    /\ control \in [paused: BOOLEAN, env: Envs]
    /\ emergency \in BOOLEAN
    /\ real \in [challenge: BOOLEAN, arm: BOOLEAN]
    /\ lease \in [owner: Procs \cup {None}, valid: BOOLEAN]
    /\ books \in BOOLEAN
    /\ tg.batch \in Seq(Commands)
    /\ tg.i \in 0..Len(tg.batch)
    /\ tg.s \in Nat
    /\ tg.replays \in 0..MaxReplays
    /\ updates \in 0..MaxUpdates
    /\ credit \in -1..2

\* set_runtime_paused
SetPaused(b) == control' = [control EXCEPT !.paused = b]

\* The checks of set_runtime_environment, made before its transaction.
MaySwitch(e) == control.paused /\ (e # control.env => ~books)

\* The upsert of set_runtime_environment leaves paused as it is.
SwitchEnvironment(e) == control' = [control EXCEPT !.env = e]

-----------------------------------------------------------------------------
(* poll_telegram                                                           *)

\* get_updates returns the updates since the stored offset, oldest first.
Receive(batch) ==
    /\ tg.batch = <<>>
    /\ updates + Len(batch) <= MaxUpdates
    /\ updates' = updates + Len(batch)
    /\ tg' = [tg EXCEPT !.batch = batch, !.i = 1, !.s = 1]
    /\ UNCHANGED <<control, emergency, real, lease, books, credit>>

\* The handler is at a step of its current command.
Step(s) == tg.batch # <<>> /\ Program[tg.batch[tg.i]][tg.s] = s
Advance == tg' = [tg EXCEPT !.s = @ + 1]
Reject == tg' = [tg EXCEPT !.s = Len(Program[tg.batch[tg.i]])]

\* The answer is sent: the next update, or the offset is stored.
Reply ==
    /\ Step("reply")
    /\ tg' = IF tg.i < Len(tg.batch) THEN [tg EXCEPT !.i = @ + 1, !.s = 1] ELSE TgIdle
    /\ UNCHANGED <<control, emergency, real, lease, books, updates, credit>>

\* Delivered again from the first update, the offset not being stored.
Redelivered == [tg EXCEPT !.i = 1, !.s = 1, !.replays = @ + 1]

\* send_message raises: poll_telegram does not reach the offset.
ReplyFails ==
    /\ Step("reply")
    /\ tg.replays < MaxReplays
    /\ tg' = Redelivered
    /\ UNCHANGED <<control, emergency, real, lease, books, updates, credit>>

-----------------------------------------------------------------------------
(* handle_update                                                           *)

StopFlag ==
    /\ Step("stop")
    /\ emergency' = TRUE
    /\ Advance
    /\ UNCHANGED <<control, real, lease, books, updates, credit>>

Halt ==
    /\ Step("halt")
    /\ SetPaused(TRUE)
    /\ Advance
    /\ UNCHANGED <<emergency, real, lease, books, updates, credit>>

Disarm ==
    /\ Step("disarm")
    /\ real' = [real EXCEPT !.arm = FALSE]
    /\ Advance
    /\ UNCHANGED <<control, emergency, lease, books, updates, credit>>

\* _readiness, _resume_safety_reason and the flags: the command goes on, or is
\* rejected.  Only this thread sets what is read here.
Ready ==
    /\ Step("ready")
    /\ \/ ~emergency /\ Advance
       \/ Reject
    /\ UNCHANGED <<control, emergency, real, lease, books, updates, credit>>

\* Mutant of ConsumeArm: a use of the arm is not counted.
ConsumeArmFree ==
    /\ Step("arm")
    /\ IF control.env # "real" \/ real.arm THEN Advance ELSE Reject
    /\ credit' = IF control.env = "real" /\ real.arm THEN credit - 1 ELSE credit
    /\ UNCHANGED <<control, emergency, real, lease, books, updates>>

\* _real_resume_allowed: resuming in the real environment takes the arm.
ConsumeArm ==
    /\ Step("arm")
    /\ IF control.env # "real" \/ real.arm THEN Advance ELSE Reject
    /\ IF control.env = "real" /\ real.arm
       THEN real' = [real EXCEPT !.arm = FALSE] /\ credit' = credit - 1
       ELSE UNCHANGED <<real, credit>>
    /\ UNCHANGED <<control, emergency, lease, books, updates>>

Unhalt ==
    /\ Step("unhalt")
    /\ SetPaused(FALSE)
    /\ Advance
    /\ UNCHANGED <<emergency, real, lease, books, updates, credit>>

Unstop ==
    /\ Step("unstop")
    /\ emergency' = FALSE
    /\ Advance
    /\ UNCHANGED <<control, real, lease, books, updates, credit>>

\* The checks for /env demo and for a /confirm-real with the right code.
CheckSwitch ==
    /\ \/ Step("maydemo") /\ (IF MaySwitch("demo") THEN Advance ELSE Reject)
       \/ Step("mayreal") /\ (IF MaySwitch("real") THEN Advance ELSE Reject)
    /\ UNCHANGED <<control, emergency, real, lease, books, updates, credit>>

WriteSwitch ==
    /\ \/ Step("demo") /\ SwitchEnvironment("demo")
       \/ Step("real") /\ SwitchEnvironment("real")
    /\ Advance
    /\ UNCHANGED <<emergency, real, lease, books, updates, credit>>

\* _real_challenge: a new code replaces the old one.
IssueChallenge ==
    /\ Step("challenge")
    /\ real' = [real EXCEPT !.challenge = TRUE]
    /\ credit' = IF credit = 2 THEN 2 ELSE credit + 1
    /\ Advance
    /\ UNCHANGED <<control, emergency, lease, books, updates>>

\* _confirm_real up to set_environment; the code sent may be wrong.
ConfirmReal ==
    /\ Step("confirm")
    /\ \/ control.paused /\ real.challenge /\ Advance
       \/ Reject
    /\ UNCHANGED <<control, emergency, real, lease, books, updates, credit>>

SpendChallenge ==
    /\ Step("spend")
    /\ real' = [real EXCEPT !.challenge = FALSE]
    /\ Advance
    /\ UNCHANGED <<control, emergency, lease, books, updates, credit>>

Rearm ==
    /\ Step("rearm")
    /\ real' = [real EXCEPT !.arm = TRUE]
    /\ Advance
    /\ UNCHANGED <<control, emergency, lease, books, updates, credit>>

TelegramStep ==
    \/ Reply \/ ReplyFails
    \/ StopFlag \/ Halt \/ Disarm
    \/ Ready \/ ConsumeArm \/ Unhalt \/ Unstop
    \/ CheckSwitch \/ WriteSwitch
    \/ IssueChallenge \/ ConfirmReal \/ SpendChallenge \/ Rearm

-----------------------------------------------------------------------------
(* Deadlines pass; the supervisor settles; the command line                *)

Expire ==
    /\ \/ real' = [real EXCEPT !.challenge = FALSE] /\ UNCHANGED lease
       \/ real' = [real EXCEPT !.arm = FALSE] /\ UNCHANGED lease
       \/ lease' = [lease EXCEPT !.valid = FALSE] /\ UNCHANGED real
    /\ UNCHANGED <<control, emergency, books, tg, updates, credit>>

\* runtime_control_set (cli.py), on the operator's console.
CliSetPaused(b) ==
    /\ updates < MaxUpdates
    /\ updates' = updates + 1
    /\ SetPaused(b)
    /\ UNCHANGED <<emergency, real, lease, books, tg, credit>>

=============================================================================
