------------------------ MODULE NoticeSessionProofs -------------------------
(***************************************************************************)
(* Proofs about NoticeSession, for any back-off and any number of switches *)
(* of the environment and of failing status writes: the status says        *)
(* connected only with an acknowledged subscription behind it, and at most *)
(* one frame of the old environment is applied after a switch.             *)
(*                                                                         *)
(* The first property is inductive.  The second needs to know where the    *)
(* worker may be once it has applied such a frame: not at the socket, and  *)
(* not on its way there, before it has read the environment again.         *)
(***************************************************************************)
EXTENDS NoticeSession, TLAPS

Places == {"start", "top", "auth", "connect", "loop", "recv", "down", "sleep", "end", "done"}

WorkerType == [at: Places, env: Envs \cup {"none"}, acked: BOOLEAN, late: BOOLEAN,
               delay: 0..MaxDoublings]

\* What the worker and the world are made of.
WorkerOK ==
    /\ env \in Envs /\ stop \in BOOLEAN /\ switches \in 0..MaxSwitches
    /\ w \in WorkerType

\* What has been reported.
ReportsOK ==
    /\ status \in Reports /\ told \in Reports
    /\ rep \in [last: Reports, quiet: BOOLEAN]
    /\ lost \in [n: 0..MaxLost, now: BOOLEAN]

\* A frame of the old environment has been applied, and its subscription is not
\* given up yet: the worker does not receive before it has checked.
ForeignOK ==
    /\ foreign \in 0..1
    /\ foreign = 1 /\ env # w.env => w.at \in {"loop", "top", "down", "sleep", "end", "done"}

SessionInv == WorkerOK /\ ReportsOK /\ ConnectedIsSubscribed /\ ForeignOK

-----------------------------------------------------------------------------
(* Reports                                                                 *)

\* What a report leaves behind: its state, or the old one and a lost write.
Reported(r) == status' = r /\ ~lost'.now

\* Telling the operator reports, or is lost; the types are kept.
LEMMA TellOK ==
    ASSUME ReportsOK, NEW r \in Reports, Tell(r)
    PROVE  ReportsOK' /\ (Reported(r) \/ lost'.now)
<1>1. CASE status' = r /\ lost' = [lost EXCEPT !.now = FALSE] /\ rep' = [rep EXCEPT !.last = r]
           /\ UNCHANGED told
  BY <1>1 DEF ReportsOK, Reported
<1>2. CASE status' = r /\ told' = r /\ lost' = [lost EXCEPT !.now = FALSE]
           /\ rep' = [last |-> r, quiet |-> FALSE]
  BY <1>2 DEF ReportsOK, Reported
<1>3. CASE lost.n < MaxLost /\ lost' = [n |-> lost.n + 1, now |-> TRUE]
           /\ UNCHANGED <<status, rep, told>>
  BY <1>3, SessionAssumption DEF ReportsOK
<1>4. QED BY <1>1, <1>2, <1>3 DEF Tell

\* A status write alone.
LEMMA RecordOK ==
    ASSUME ReportsOK, NEW r \in Reports, Record(r)
    PROVE  ReportsOK' /\ Reported(r)
BY DEF ReportsOK, Record, Reported

\* No report.
LEMMA SilentOK ==
    ASSUME ReportsOK, UNCHANGED reports
    PROVE  ReportsOK' /\ UNCHANGED <<status, lost>>
BY DEF ReportsOK, reports

\* A report is one if its parts are.
LEMMA ReportIn ==
    ASSUME NEW st \in States, NEW err \in {"none", "fault", "environment_changed"}
    PROVE  Report(st, err) \in Reports /\ Report(st, err).st = st
BY DEF Report, Reports

-----------------------------------------------------------------------------
(* The worker                                                              *)

\* Any other report than "connected", written or lost.
LEMMA OtherReport ==
    ASSUME NEW r \in Reports, r.st # "connected", Reported(r) \/ lost'.now
    PROVE  ConnectedIsSubscribed'
BY DEF ConnectedIsSubscribed, Reported

\* The status is kept along with the subscription.
LEMMA KeptReport ==
    ASSUME ConnectedIsSubscribed, UNCHANGED <<status, lost>>, w'.acked = w.acked,
           w.at \notin {"down", "end"}
    PROVE  ConnectedIsSubscribed'
BY DEF ConnectedIsSubscribed

\* The frames of the old environment, when none is applied.
LEMMA ForeignKept ==
    ASSUME ForeignOK, foreign' = foreign, env' = env,
           \/ w'.env = env
           \/ w'.env = w.env /\ (w'.at \in {"loop", "top", "down", "sleep", "end", "done"}
                                 \/ w.at \notin {"loop", "top", "down", "sleep", "end", "done"})
    PROVE  ForeignOK'
BY DEF ForeignOK

\* Steps that report something else than "connected".
LEMMA TellingStep ==
    ASSUME SessionInv, Start \/ Authenticate \/ Connect \/ Down \/ End
    PROVE  SessionInv'
<1> USE DEF SessionInv
<1>1. PICK st \in {"starting", "connecting", "subscribing", "unavailable", "stopped"},
           err \in {"none", "fault", "environment_changed"} : Tell(Report(st, err))
  <2>1. rep.last.err \in {"none", "fault", "environment_changed"}
    BY DEF ReportsOK, Reports
  <2>2. QED BY <2>1, Zenon DEF Start, Authenticate, Connect, Down, End
<1>2. Report(st, err) \in Reports /\ Report(st, err).st = st
  BY ReportIn DEF States
<1>3. ReportsOK' /\ (Reported(Report(st, err)) \/ lost'.now)
  BY <1>1, <1>2, TellOK
<1>4. ConnectedIsSubscribed'
  BY <1>2, <1>3, OtherReport
<1>5. /\ w' \in WorkerType /\ w'.env = w.env
      /\ \/ w'.at \in {"loop", "top", "down", "sleep", "end", "done"}
         \/ w.at \notin {"loop", "top", "down", "sleep", "end", "done"}
  <2>1. CASE Start BY <2>1 DEF Start, WorkerOK, WorkerType, Places
  <2>2. CASE Authenticate BY <2>2 DEF Authenticate, WorkerOK, WorkerType, Places
  <2>3. CASE Connect BY <2>3 DEF Connect, WorkerOK, WorkerType, Places
  <2>4. CASE Down BY <2>4 DEF Down, WorkerOK, WorkerType, Places
  <2>5. CASE End BY <2>5 DEF End, WorkerOK, WorkerType, Places
  <2>6. QED BY <2>1, <2>2, <2>3, <2>4, <2>5
<1>6. foreign' = foreign /\ UNCHANGED world
  BY DEF Start, Authenticate, Connect, Down, End
<1>7. ForeignOK'
  BY <1>5, <1>6, ForeignKept DEF world
<1>8. QED BY <1>3, <1>4, <1>5, <1>6, <1>7 DEF WorkerOK, world

\* The worker at another place, with another environment and delay.
Placed(v, at, e, d) == [v EXCEPT !.at = at, !.env = e, !.delay = d]

\* It is a worker if the parts are right.
LEMMA WithDelay ==
    ASSUME NEW v \in WorkerType, NEW at \in Places, NEW e \in Envs \cup {"none"},
           NEW d \in 0..MaxDoublings
    PROVE  /\ Placed(v, at, e, d) \in WorkerType
           /\ Placed(v, at, e, d).at = at
           /\ Placed(v, at, e, d).env = e
           /\ Placed(v, at, e, d).acked = v.acked
BY DEF WorkerType, Placed

\* Steps that report nothing.
LEMMA SilentStep ==
    ASSUME SessionInv, Begin \/ Raise \/ Sleep \/ Ignored \/ AckLate
    PROVE  SessionInv'
<1> USE DEF SessionInv
<1>1. foreign' = foreign /\ UNCHANGED world /\ UNCHANGED reports
  BY DEF Begin, Raise, Sleep, Ignored, AckLate
<1>2. ReportsOK' /\ UNCHANGED <<status, lost>>
  BY <1>1, SilentOK
<1>3. /\ w' \in WorkerType
      /\ \/ w'.env = env
         \/ w'.env = w.env /\ (w'.at \in {"loop", "top", "down", "sleep", "end", "done"}
                               \/ w.at \notin {"loop", "top", "down", "sleep", "end", "done"})
      /\ w'.at = "down" \/ (w'.acked = w.acked /\ w.at \notin {"down", "end"})
  <2>1. CASE Begin
    <3> DEFINE d == IF w.env = env THEN w.delay ELSE 0
    <3>1. d \in 0..MaxDoublings BY SessionAssumption DEF WorkerOK, WorkerType
    <3>2. w' = Placed(w, "auth", env, d)
      BY <2>1 DEF Begin, WorkerOK, WorkerType, Placed
    <3> HIDE DEF d
    <3>3. w' \in WorkerType /\ w'.env = env /\ w'.acked = w.acked
      <4>1. "auth" \in Places /\ env \in Envs \cup {"none"} /\ w \in WorkerType
        BY DEF Places, WorkerOK
      <4>2. QED BY <3>1, <3>2, <4>1, WithDelay
    <3>4. QED BY <2>1, <3>3 DEF Begin
  <2>2. CASE Raise BY <2>2 DEF Raise, WorkerOK, WorkerType, Places
  <2>3. CASE Sleep
    <3> DEFINE d == IF w.delay < MaxDoublings THEN w.delay + 1 ELSE w.delay
    <3>1. d \in 0..MaxDoublings BY SessionAssumption DEF WorkerOK, WorkerType
    <3>2. w' = Placed(w, "top", w.env, d)
      BY <2>3 DEF Sleep, WorkerOK, WorkerType, Placed
    <3> HIDE DEF d
    <3>3. w.env \in Envs \cup {"none"} BY DEF WorkerOK, WorkerType
    <3>4. w' \in WorkerType /\ w'.at = "top" /\ w'.env = w.env /\ w'.acked = w.acked
      <4>1. "top" \in Places /\ w \in WorkerType
        BY DEF Places, WorkerOK
      <4>2. QED BY <3>1, <3>2, <3>3, <4>1, WithDelay
    <3>5. QED BY <2>3, <3>4 DEF Sleep
  <2>4. CASE Ignored BY <2>4 DEF Ignored, WorkerOK, WorkerType, Places
  <2>5. CASE AckLate BY <2>5 DEF AckLate, WorkerOK, WorkerType, Places
  <2>6. QED BY <2>1, <2>2, <2>3, <2>4, <2>5
<1>4. ConnectedIsSubscribed'
  <2>1. CASE w'.at = "down" BY <2>1 DEF ConnectedIsSubscribed
  <2>2. QED BY <1>2, <1>3, <2>1, KeptReport
<1>5. ForeignOK'
  BY <1>1, <1>3, ForeignKept DEF world
<1>6. QED BY <1>1, <1>2, <1>3, <1>4, <1>5 DEF WorkerOK, world

\* The head of the loop: a stop, a switched environment, or on to the socket.
LEMMA CheckStep ==
    ASSUME SessionInv, Check
    PROVE  SessionInv'
<1> USE DEF SessionInv
<1>1. w.at = "loop" /\ foreign' = foreign /\ UNCHANGED world
  BY DEF Check
<1>2. CASE stop
  <2>1. w' = [w EXCEPT !.at = "end", !.acked = FALSE] /\ UNCHANGED reports
    BY <1>2, Zenon DEF Check
  <2>2. w' \in WorkerType /\ w'.env = w.env /\ w'.at = "end"
    BY <2>1 DEF WorkerOK, WorkerType, Places
  <2>3. ConnectedIsSubscribed'
    BY <2>2 DEF ConnectedIsSubscribed
  <2>4. ForeignOK'
    BY <1>1, <2>2, ForeignKept DEF world
  <2>5. QED BY <1>1, <2>1, <2>2, <2>3, <2>4, SilentOK DEF WorkerOK, world
<1>3. CASE ~stop /\ env # w.env
  <2> DEFINE r == Report("reconnecting", "environment_changed")
  <2>1. w' = [w EXCEPT !.at = "top", !.acked = FALSE, !.delay = 0] /\ Tell(r)
    BY <1>3, Zenon DEF Check
  <2>2. w' \in WorkerType /\ w'.env = w.env /\ w'.at = "top"
    <3> DEFINE v == [w EXCEPT !.acked = FALSE]
    <3>1. v \in WorkerType /\ v.env = w.env BY DEF WorkerOK, WorkerType
    <3>2. w' = Placed(v, "top", v.env, 0)
      BY <2>1 DEF WorkerOK, WorkerType, Placed
    <3>3. v.env \in Envs \cup {"none"} BY <3>1 DEF WorkerType
    <3> HIDE DEF v
    <3>4. 0 \in 0..MaxDoublings BY SessionAssumption
    <3>5. w' \in WorkerType /\ w'.at = "top" /\ w'.env = v.env
      <4>1. "top" \in Places BY DEF Places
      <4>2. QED BY <3>1, <3>2, <3>3, <3>4, <4>1, WithDelay
    <3>6. QED BY <3>1, <3>5
  <2>3. r \in Reports /\ r.st # "connected"
    BY ReportIn DEF States
  <2> HIDE DEF r
  <2>4. ReportsOK' /\ (Reported(r) \/ lost'.now)
    BY <2>1, <2>3, TellOK
  <2>5. ConnectedIsSubscribed'
    BY <2>3, <2>4, OtherReport
  <2>6. ForeignOK'
    BY <1>1, <2>2, ForeignKept DEF world
  <2>7. QED BY <1>1, <2>2, <2>4, <2>5, <2>6 DEF WorkerOK, world
<1>4. CASE ~stop /\ env = w.env
  <2>1. w' = [w EXCEPT !.at = "recv"] /\ UNCHANGED reports
    BY <1>4, Zenon DEF Check
  <2>2. w' \in WorkerType /\ w'.env = w.env /\ w'.acked = w.acked
    BY <2>1 DEF WorkerOK, WorkerType, Places
  <2>3. ReportsOK' /\ UNCHANGED <<status, lost>>
    BY <2>1, SilentOK
  <2>4. ConnectedIsSubscribed'
    BY <1>1, <2>2, <2>3, KeptReport
  <2>5. ForeignOK'
    BY <1>1, <1>4, <2>2, ForeignKept DEF world
  <2>6. QED BY <1>1, <2>2, <2>3, <2>4, <2>5 DEF WorkerOK, world
<1>5. QED BY <1>2, <1>3, <1>4

\* What comes from the socket, or does not.
LEMMA ReceiveStep ==
    ASSUME SessionInv, Silence \/ Acknowledged \/ Notices
    PROVE  SessionInv'
<1> USE DEF SessionInv
<1>1. w.at = "recv" /\ UNCHANGED world
  BY DEF Silence, Acknowledged, Notices
<1>2. w' \in WorkerType /\ w'.env = w.env /\ w'.at \in {"loop", "down"}
  <2>1. CASE Silence BY <2>1 DEF Silence, WorkerOK, WorkerType, Places
  <2>2. CASE Acknowledged BY <2>2 DEF Acknowledged, WorkerOK, WorkerType, Places
  <2>3. CASE Notices BY <2>3 DEF Notices, WorkerOK, WorkerType, Places
  <2>4. QED BY <2>1, <2>2, <2>3
<1>3. ReportsOK' /\ ConnectedIsSubscribed'
  <2>1. CASE Silence /\ w.acked
    <3>1. w'.acked BY <2>1, Zenon DEF Silence, WorkerOK, WorkerType
    <3>2. ReportsOK' BY <2>1, ReportIn, RecordOK DEF Silence, States
    <3>3. QED BY <3>1, <3>2 DEF ConnectedIsSubscribed
  <2>2. CASE Silence /\ ~w.acked
    <3> DEFINE r == Report("subscribing", "none")
    <3>1. r \in Reports /\ r.st # "connected" BY ReportIn DEF States
    <3>2. Record(r) BY <2>2 DEF Silence
    <3> HIDE DEF r
    <3>3. QED BY <3>1, <3>2, RecordOK, OtherReport
  <2>3. CASE Acknowledged
    <3>1. w'.acked BY <2>3, Zenon DEF Acknowledged, WorkerOK, WorkerType
    <3>2. ReportsOK' BY <2>3, ReportIn, TellOK DEF Acknowledged, States
    <3>3. QED BY <3>1, <3>2 DEF ConnectedIsSubscribed
  <2>4. CASE Notices
    <3>1. w'.acked BY <2>4, Zenon DEF Notices, WorkerOK, WorkerType
    <3>2. ReportsOK' BY <2>4, ReportIn, RecordOK DEF Notices, States
    <3>3. QED BY <3>1, <3>2 DEF ConnectedIsSubscribed
  <2>5. QED BY <2>1, <2>2, <2>3, <2>4
<1>4. ForeignOK'
  <2>1. CASE foreign' = foreign
    BY <1>1, <1>2, <2>1, ForeignKept DEF world
  <2>2. CASE Notices /\ env # w.env
    <3>1. foreign = 0 BY <1>1, <2>2 DEF ForeignOK
    <3>2. foreign' = 1 BY <2>2, <3>1 DEF Notices
    <3>3. QED BY <1>2, <3>2 DEF ForeignOK
  <2>3. QED BY <2>1, <2>2 DEF Silence, Acknowledged, Notices
<1>5. QED BY <1>1, <1>2, <1>3, <1>4 DEF WorkerOK, world

\* The world around the worker.
LEMMA WorldStep ==
    ASSUME SessionInv, Quiet \/ Stop \/ \E e \in Envs : Switch(e)
    PROVE  SessionInv'
<1> USE DEF SessionInv
<1>1. CASE Quiet
  <2>1. rep' \in [last: Reports, quiet: BOOLEAN] BY <1>1, Zenon DEF Quiet, ReportsOK
  <2>2. QED BY <1>1, <2>1 DEF Quiet, WorkerOK, ReportsOK, ConnectedIsSubscribed, ForeignOK, world
<1>2. CASE Stop
  BY <1>2 DEF Stop, WorkerOK, ReportsOK, ConnectedIsSubscribed, ForeignOK, reports
<1>3. ASSUME NEW e \in Envs, Switch(e) PROVE SessionInv'
  BY <1>3, SessionAssumption DEF Switch, WorkerOK, ReportsOK, ConnectedIsSubscribed, ForeignOK,
    reports
<1>4. QED BY <1>1, <1>2, <1>3

-----------------------------------------------------------------------------

\* The invariant of the session: types, what the status says of the subscription,
\* and where the worker is after a frame of the old environment.
THEOREM SessionInvariance == SessionSpec => []SessionInv
<1>1. SessionInit => SessionInv
  <2> SUFFICES ASSUME SessionInit PROVE SessionInv
    OBVIOUS
  <2> USE DEF SessionInit
  <2>1. Report("none", "none") \in Reports
    BY ReportIn DEF States
  <2>2. w \in WorkerType
    BY SessionAssumption DEF WorkerType, Places
  <2>3. WorkerOK
    <3>1. stop \in BOOLEAN BY Zenon
    <3>2. switches \in 0..MaxSwitches BY SessionAssumption
    <3>3. QED BY <2>2, <3>1, <3>2 DEF WorkerOK
  <2>4. ReportsOK
    <3>1. rep \in [last: Reports, quiet: BOOLEAN] BY <2>1, Zenon
    <3>2. lost \in [n: 0..MaxLost, now: BOOLEAN] BY SessionAssumption
    <3>3. QED BY <2>1, <3>1, <3>2 DEF ReportsOK
  <2>5. ConnectedIsSubscribed /\ ForeignOK
    BY DEF ConnectedIsSubscribed, ForeignOK, Report
  <2>6. QED BY <2>3, <2>4, <2>5 DEF SessionInv
<1>2. SessionInv /\ [SessionNext]_sessionVars => SessionInv'
  <2>1. ASSUME SessionInv, SessionNext PROVE SessionInv'
    BY <2>1, TellingStep, SilentStep, CheckStep, ReceiveStep, WorldStep DEF SessionNext, WorkerStep
  <2>2. ASSUME SessionInv, UNCHANGED sessionVars PROVE SessionInv'
    BY <2>2 DEF SessionInv, sessionVars, WorkerOK, ReportsOK, ConnectedIsSubscribed, ForeignOK
  <2>3. QED BY <2>1, <2>2
<1>3. QED BY <1>1, <1>2, PTL DEF SessionSpec

\* Type correctness of the worker; its back-off has an upper bound.
THEOREM SessionTypeCorrect == SessionSpec => []SessionTypeOK
<1>1. SessionInv => SessionTypeOK
  BY DEF SessionInv, SessionTypeOK, WorkerOK, ReportsOK, WorkerType, Places
<1>2. QED BY <1>1, SessionInvariance, PTL

\* The status in runtime_metadata, which readiness checks read, says connected
\* only while there is an acknowledged subscription, or the worker is about to
\* report its loss, or the database refused the last report.
THEOREM ConnectedMeansSubscribed == SessionSpec => []ConnectedIsSubscribed
<1>1. SessionInv => ConnectedIsSubscribed
  BY DEF SessionInv
<1>2. QED BY <1>1, SessionInvariance, PTL

\* After a switch of the environment, at any step of _session, at most one more
\* frame of the old environment is applied.
THEOREM OneForeignFrame == SessionSpec => []AtMostOneForeignFrame
<1>1. SessionInv => AtMostOneForeignFrame
  BY DEF SessionInv, ForeignOK, AtMostOneForeignFrame
<1>2. QED BY <1>1, SessionInvariance, PTL
=============================================================================
