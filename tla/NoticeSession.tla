---------------------------- MODULE NoticeSession ----------------------------
(***************************************************************************)
(* The fill-notice worker (ops/fill_notice_worker.py) and the subscription *)
(* it keeps with KIS (broker/kis_fill_notice.py): connect, subscribe, wait *)
(* for the acknowledgement that carries the key, receive, and start again  *)
(* after an error or a switch of environment.  What a notice does to the   *)
(* ledger is in FillNotices.                                               *)
(*                                                                         *)
(* Frames are abstracted to what the worker makes of them: an              *)
(* acknowledgement, a rejection, a PINGPONG, notices, or a frame that does *)
(* not parse, decrypt or belong here.  Delays are counted in doublings.    *)
(***************************************************************************)
EXTENDS Integers

CONSTANTS
    MaxDoublings,  \* doublings from reconnect_min_seconds to reconnect_max_seconds
    MaxSwitches,   \* bound on switches of the environment
    MaxLost        \* bound on status writes that fail

ASSUME SessionAssumption == {MaxDoublings, MaxSwitches, MaxLost} \subseteq Nat

Envs == {"demo", "real"}

VARIABLES
    env,      \* runtime_control.environment
    stop,     \* the stop event
    w,        \* the worker: where, environment, acknowledged, ack overdue, delay
    status,   \* fill-notice:status and fill-notice:last_error in runtime_metadata
    rep,      \* _StateReporter: last_state; throttle elapsed since the last message
    told,     \* history: the state the operator was last told of
    foreign,  \* history: frames applied since the environment was switched
    lost,     \* history: status writes that failed; whether the last one did
    switches

sessionVars == <<env, stop, w, status, rep, told, foreign, lost, switches>>
world == <<env, stop, switches>>
reports == <<status, rep, told, lost>>

Report(st, err) == [st |-> st, err |-> err]

SessionInit ==
    /\ env \in Envs /\ stop = FALSE /\ switches = 0
    /\ w = [at |-> "start", env |-> "none", acked |-> FALSE, late |-> FALSE, delay |-> 0]
    /\ status = Report("none", "none")
    /\ rep = [last |-> Report("none", "none"), quiet |-> TRUE]
    /\ told = Report("none", "none")
    /\ foreign = 0
    /\ lost = [n |-> 0, now |-> FALSE]

-----------------------------------------------------------------------------
(* Reports                                                                 *)

\* Mutant of Worth: a report is sent when it differs from the last one.
WorthOnce(r) == r # rep.last

\* When _StateReporter.set sends a message.
Worth(r) == r # rep.last \/ (r.err # "none" /\ rep.quiet)

\* _StateReporter.set: the status is written; the operator is told of a change,
\* and of an error that goes on.  A message that fails is not an error.
Tell(r) ==
    \/ /\ status' = r
       /\ lost' = [lost EXCEPT !.now = FALSE]
       /\ rep' = [rep EXCEPT !.last = r]
       /\ UNCHANGED told
    \/ /\ Worth(r)
       /\ status' = r /\ told' = r
       /\ lost' = [lost EXCEPT !.now = FALSE]
       /\ rep' = [last |-> r, quiet |-> FALSE]
    \/ /\ lost.n < MaxLost
       /\ lost' = [n |-> lost.n + 1, now |-> TRUE]
       /\ UNCHANGED <<status, rep, told>>

\* _record_runtime alone.
Record(r) ==
    /\ status' = r
    /\ lost' = [lost EXCEPT !.now = FALSE]
    /\ UNCHANGED <<rep, told>>

-----------------------------------------------------------------------------
(* _run_fill_notice_worker                                                 *)

Start ==
    /\ w.at = "start"
    /\ Tell(Report("starting", "none"))
    /\ w' = [w EXCEPT !.at = "top"]
    /\ UNCHANGED <<foreign, world>>

\* The runtime environment is read; another one than before resets the delay.
Begin ==
    /\ w.at = "top" /\ ~stop
    /\ w' = [w EXCEPT !.at = "auth", !.env = env, !.delay = IF w.env = env THEN @ ELSE 0]
    /\ UNCHANGED <<foreign, world, reports>>

\* Settings, credentials (see KisCredentials) and HTS id are there.
Authenticate ==
    /\ w.at = "auth"
    /\ Tell(Report("connecting", "none"))
    /\ w' = [w EXCEPT !.at = "connect"]
    /\ UNCHANGED <<foreign, world>>

\* The socket is open and the subscription sent.
Connect ==
    /\ w.at = "connect"
    /\ Tell(Report("subscribing", "none"))
    /\ w' = [w EXCEPT !.at = "loop", !.acked = FALSE, !.late = FALSE]
    /\ UNCHANGED <<foreign, world>>

\* Something raises: no settings, no credentials, no connection, a closed socket,
\* a rejected or overdue acknowledgement, a database error.
Raise ==
    /\ w.at \in {"auth", "connect", "loop", "recv"}
    /\ w' = [w EXCEPT !.at = "down", !.acked = FALSE]
    /\ UNCHANGED <<foreign, world, reports>>

Down ==
    /\ w.at = "down"
    /\ Tell(Report("unavailable", "fault"))
    /\ w' = [w EXCEPT !.at = IF stop THEN "end" ELSE "sleep"]
    /\ UNCHANGED <<foreign, world>>

\* Mutant of Sleep: after the longest delay the worker gives up.
SleepThenGiveUp ==
    /\ w.at = "sleep"
    /\ w' = [w EXCEPT !.at = IF w.delay = MaxDoublings THEN "end" ELSE "top",
                      !.delay = IF @ < MaxDoublings THEN @ + 1 ELSE @]
    /\ UNCHANGED <<foreign, world, reports>>

\* The delay, cut short by the stop event, doubles; a connection does not reset it.
Sleep ==
    /\ w.at = "sleep"
    /\ w' = [w EXCEPT !.at = "top", !.delay = IF @ < MaxDoublings THEN @ + 1 ELSE @]
    /\ UNCHANGED <<foreign, world, reports>>

\* The last status, with the error of the report before.
End ==
    /\ w.at = "end" \/ (w.at = "top" /\ stop)
    /\ Tell(Report("stopped", rep.last.err))
    /\ w' = [w EXCEPT !.at = "done", !.acked = FALSE]
    /\ UNCHANGED <<foreign, world>>

-----------------------------------------------------------------------------
(* _session and KisFillNoticeClient.handle_message                         *)

\* Mutant of Check: the stop event is looked at between sessions only.
CheckUnstopped ==
    /\ w.at = "loop"
    /\ IF env # w.env
       THEN /\ Tell(Report("reconnecting", "environment_changed"))
            /\ w' = [w EXCEPT !.at = "top", !.acked = FALSE, !.delay = 0]
       ELSE w' = [w EXCEPT !.at = "recv"] /\ UNCHANGED reports
    /\ UNCHANGED <<foreign, world>>

\* The head of the loop: stop, a switched environment, or receive.
Check ==
    /\ w.at = "loop"
    /\ CASE stop -> w' = [w EXCEPT !.at = "end", !.acked = FALSE] /\ UNCHANGED reports
         [] ~stop /\ env # w.env ->
               /\ Tell(Report("reconnecting", "environment_changed"))
               /\ w' = [w EXCEPT !.at = "top", !.acked = FALSE, !.delay = 0]
         [] OTHER -> w' = [w EXCEPT !.at = "recv"] /\ UNCHANGED reports
    /\ UNCHANGED <<foreign, world>>

\* Nothing arrives for receive_timeout_seconds; without an acknowledgement in
\* ack_timeout_seconds the session fails.
Silence ==
    /\ w.at = "recv"
    /\ Record(Report(IF w.acked THEN "connected" ELSE "subscribing", "none"))
    /\ w' = IF ~w.acked /\ w.late
            THEN [w EXCEPT !.at = "down"]
            ELSE [w EXCEPT !.at = "loop"]
    /\ UNCHANGED <<foreign, world>>

AckLate ==
    /\ w.at \in {"loop", "recv"} /\ ~w.acked /\ ~w.late
    /\ w' = [w EXCEPT !.late = TRUE]
    /\ UNCHANGED <<foreign, world, reports>>

Acknowledged ==
    /\ w.at = "recv"
    /\ Tell(Report("connected", "none"))
    /\ w' = [w EXCEPT !.at = "loop", !.acked = TRUE]
    /\ UNCHANGED <<foreign, world>>

\* Mutant of Ignored: any frame counts as the acknowledgement.
IgnoredAsAck ==
    /\ w.at = "recv"
    /\ w' = [w EXCEPT !.at = "loop"]
    /\ Record(Report("connected", "none"))
    /\ UNCHANGED <<foreign, world>>

\* PINGPONG is answered; a frame before the acknowledgement, or one that does not
\* parse, decrypt or belong to this environment, is dropped.
Ignored ==
    /\ w.at = "recv"
    /\ w' = [w EXCEPT !.at = "loop"]
    /\ UNCHANGED <<foreign, world, reports>>

\* Mutant of Notices: what has arrived since is applied as well.
NoticesDrained ==
    /\ w.at = "recv" /\ w.acked
    /\ foreign' = IF env # w.env THEN foreign + 2 ELSE foreign
    /\ Record(Report("connected", "none"))
    /\ w' = [w EXCEPT !.at = "loop"]
    /\ UNCHANGED world

\* The notices of a frame are applied, one by one, and the status is written.
\* What the ledger makes of them, an exception included, is not an error here.
Notices ==
    /\ w.at = "recv" /\ w.acked
    /\ foreign' = IF env # w.env THEN foreign + 1 ELSE foreign
    /\ Record(Report("connected", "none"))
    /\ w' = [w EXCEPT !.at = "loop"]
    /\ UNCHANGED world

-----------------------------------------------------------------------------

Switch(e) ==
    /\ e # env /\ switches < MaxSwitches
    /\ env' = e /\ switches' = switches + 1 /\ foreign' = 0
    /\ UNCHANGED <<stop, w, reports>>

Stop ==
    /\ ~stop /\ stop' = TRUE
    /\ UNCHANGED <<env, switches, w, foreign, reports>>

\* notify_throttle_seconds pass.
Quiet ==
    /\ ~rep.quiet
    /\ rep' = [rep EXCEPT !.quiet = TRUE]
    /\ UNCHANGED <<status, told, lost, w, foreign, world>>

WorkerStep ==
    \/ Start \/ Begin \/ Authenticate \/ Connect \/ Raise
    \/ Down \/ Sleep \/ End \/ Check \/ Silence \/ Acknowledged \/ Ignored \/ Notices

SessionNext ==
    \/ WorkerStep \/ AckLate \/ Quiet \/ Stop
    \/ \E e \in Envs : Switch(e)

\* The worker's thread runs and its waits end; a subscription that is not
\* acknowledged brings PINGPONGs, which leave a second of silence between them
\* (the deadline is looked at in silence only); a message that is sent again
\* and again gets through in the end.
SessionSpec ==
    /\ SessionInit /\ [][SessionNext]_sessionVars
    /\ WF_sessionVars(WorkerStep) /\ WF_sessionVars(Quiet) /\ WF_sessionVars(AckLate)
    /\ SF_sessionVars(Silence /\ ~w.acked)
    /\ SF_sessionVars(Down /\ told' # told)

-----------------------------------------------------------------------------
(* Properties                                                              *)

States == {"none", "starting", "connecting", "subscribing", "connected", "unavailable",
           "reconnecting", "stopped"}
Reports == [st: States, err: {"none", "fault", "environment_changed"}]

\* Types; the back-off has an upper bound.
SessionTypeOK ==
    /\ env \in Envs /\ stop \in BOOLEAN /\ switches \in 0..MaxSwitches
    /\ w \in [at: {"start", "top", "auth", "connect", "loop", "recv", "down", "sleep",
                   "end", "done"},
              env: Envs \cup {"none"}, acked: BOOLEAN, late: BOOLEAN,
              delay: 0..MaxDoublings]
    /\ status \in Reports /\ told \in Reports
    /\ rep \in [last: Reports, quiet: BOOLEAN]
    /\ lost \in [n: 0..MaxLost, now: BOOLEAN]

\* The status that readiness checks and the operator rely on says connected only
\* while there is an acknowledged subscription, unless the database refused the
\* last report.
ConnectedIsSubscribed ==
    status.st = "connected" /\ ~lost.now => w.acked \/ w.at \in {"down", "end"}

\* After a switch of the environment at most one more frame of the old
\* environment is applied: the one the worker was waiting for.
AtMostOneForeignFrame == foreign <= 1

\* If KIS and the database answer what is tried again and again, the worker comes back to a
\* subscription of the environment in force, whatever failed before.
KisAnswers ==
    /\ SF_sessionVars(Authenticate) /\ SF_sessionVars(Connect)
    /\ SF_sessionVars(Check) /\ SF_sessionVars(Acknowledged)

Resubscribes == KisAnswers => (~stop ~> stop \/ (w.acked /\ w.env = env))

\* If it does not, the operator is not left to believe that it does.
OutageIsTold == <>[](~w.acked /\ ~stop) => []<>(told.st # "connected")

\* The stop event ends the worker, from wherever it is.
StopEnds == stop ~> w.at = "done"

=============================================================================
