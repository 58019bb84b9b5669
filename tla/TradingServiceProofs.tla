------------------------ MODULE TradingServiceProofs ------------------------
(***************************************************************************)
(* Proofs about TradingService, for any number of processes, orders per    *)
(* cycle, updates and replays: a process that lost its right to trade      *)
(* sends at most the one order that had passed the guard, and no resume of *)
(* the real environment by Telegram goes without a challenge of its own.   *)
(*                                                                         *)
(* The two results have invariants of their own.  LateOK is about the      *)
(* guard: whoever is between its two checks, or past them, was allowed to  *)
(* trade at the first.  CreditOK is about the command programs: there is   *)
(* credit for the arm, and for the challenge or for what /confirm-real is  *)
(* making of it, wherever a redelivery cuts a program short.               *)
(***************************************************************************)
EXTENDS TradingService, FiniteSetTheorems, TLAPS

ProcType == [pc: Pcs, env: Envs, want: {"keep", "pause", "resume"}, n: Nat]

HandlerType == [batch: Seq(Commands), i: Nat, s: Nat, replays: 0..MaxReplays]

\* The handler is within its batch and within the program of its command.
HandlerOK ==
    /\ tg \in HandlerType
    /\ tg.batch = <<>> => tg.i = 0
    /\ tg.batch # <<>> => /\ tg.i \in 1..Len(tg.batch)
                          /\ tg.s \in 1..Len(Program[tg.batch[tg.i]])

\* /confirm-real has accepted its code and not yet armed the resume.
Confirming == tg.batch # <<>> /\ tg.batch[tg.i] = "confirm" /\ tg.s \in 2..5

\* There is credit for the arm, and for the challenge or what is being made of
\* it; when the arm is about to be set the challenge is spent.
CreditOK ==
    /\ real \in [challenge: BOOLEAN, arm: BOOLEAN]
    /\ credit \in 0..2
    /\ real.arm \/ real.challenge \/ Confirming => credit >= 1
    /\ real.arm /\ (real.challenge \/ Confirming) => credit = 2
    /\ Confirming /\ tg.s = 5 => ~real.challenge

\* A process between the two checks of the guard, or past them, was allowed to
\* trade at the first, and has sent nothing since.
LateOK ==
    /\ late \in [Procs -> 0..1]
    /\ \A p \in Procs : proc[p].pc \in {"recheck", "send"} \/ Allowed(p) => late[p] = 0

\* The rest of the types.
SwitchesOK ==
    /\ control \in [paused: BOOLEAN, env: Envs]
    /\ emergency \in BOOLEAN
    /\ lease \in [owner: Procs \cup {None}, valid: BOOLEAN]
    /\ books \in BOOLEAN
    /\ updates \in 0..MaxUpdates
    /\ proc \in [Procs -> ProcType]

ServiceInv == HandlerOK /\ CreditOK /\ LateOK /\ SwitchesOK

-----------------------------------------------------------------------------
(* The programs of the commands                                            *)

\* The commands by name.
LEMMA CommandNames ==
    Commands = {"pause", "emergency", "resume", "clear", "envDemo", "envReal", "confirm"}
BY DEF Commands, Program

\* A program ends with its reply, and only /confirm-real confirms, spends the
\* challenge and sets the arm, in this order.
LEMMA ProgramSteps ==
    ASSUME NEW c \in Commands, NEW s \in 1..Len(Program[c])
    PROVE  /\ Len(Program[c]) \in Nat \ {0}
           /\ Program[c][s] # "reply" => s + 1 \in 1..Len(Program[c])
           /\ c = "confirm" =>
                 /\ Len(Program[c]) = 6
                 /\ Program[c][s] = "confirm" <=> s = 1
                 /\ Program[c][s] = "spend" <=> s = 4
                 /\ Program[c][s] = "rearm" <=> s = 5
                 /\ Program[c][s] \in {"arm", "challenge", "disarm"} => FALSE
           /\ c # "confirm" =>
                 Program[c][s] \notin {"confirm", "mayreal", "real", "spend", "rearm"}
<1>1. CASE c = "pause" BY <1>1 DEF Program
<1>2. CASE c = "emergency" BY <1>2 DEF Program
<1>3. CASE c = "resume" BY <1>3 DEF Program
<1>4. CASE c = "clear" BY <1>4 DEF Program
<1>5. CASE c = "envDemo" BY <1>5 DEF Program
<1>6. CASE c = "envReal" BY <1>6 DEF Program
<1>7. CASE c = "confirm" BY <1>7 DEF Program
<1>8. QED BY <1>1, <1>2, <1>3, <1>4, <1>5, <1>6, <1>7, CommandNames

-----------------------------------------------------------------------------
(* The handler                                                             *)

\* The command in hand.
Cmd == tg.batch[tg.i]

\* The command in hand is one, at a step of its program.
LEMMA InHand ==
    ASSUME HandlerOK, tg.batch # <<>>
    PROVE  Cmd \in Commands /\ tg.s \in 1..Len(Program[Cmd])
BY DEF HandlerOK, HandlerType, Cmd

\* A step of a program that is not its reply has a next one.
LEMMA AdvanceOK ==
    ASSUME HandlerOK, tg.batch # <<>>, Program[Cmd][tg.s] # "reply", Advance
    PROVE  /\ HandlerOK'
           /\ tg'.s = tg.s + 1
           /\ Confirming' <=> Cmd = "confirm" /\ tg.s \in 1..4
<1>1. tg' \in HandlerType /\ tg'.batch = tg.batch /\ tg'.i = tg.i /\ tg'.s = tg.s + 1
  BY DEF HandlerOK, HandlerType, Advance
<1>2. Cmd \in Commands /\ tg.s \in 1..Len(Program[Cmd])
  BY InHand
<1>3. tg.s + 1 \in 1..Len(Program[Cmd])
  BY <1>2, ProgramSteps
<1>4. HandlerOK'
  BY <1>1, <1>3 DEF HandlerOK, Cmd
<1>5. Confirming' <=> Cmd = "confirm" /\ tg.s \in 1..4
  BY <1>1, <1>2 DEF Confirming, Cmd
<1>6. QED BY <1>1, <1>4, <1>5

\* A rejected command goes to its reply.
LEMMA RejectOK ==
    ASSUME HandlerOK, tg.batch # <<>>, Reject
    PROVE  HandlerOK' /\ ~Confirming'
<1>1. Cmd \in Commands /\ tg.s \in 1..Len(Program[Cmd])
  BY InHand
<1>2. Len(Program[Cmd]) \in Nat \ {0} /\ (Cmd = "confirm" => Len(Program[Cmd]) = 6)
  BY <1>1, ProgramSteps
<1>3. tg' \in HandlerType /\ tg'.batch = tg.batch /\ tg'.i = tg.i /\ tg'.s = Len(Program[Cmd])
  BY <1>2 DEF HandlerOK, HandlerType, Reject, Cmd
<1>4. HandlerOK'
  BY <1>2, <1>3 DEF HandlerOK, Cmd
<1>5. ~Confirming'
  <2>1. CASE Cmd = "confirm"
    <3>1. tg'.s = 6 BY <1>2, <1>3, <2>1
    <3>2. QED BY <3>1 DEF Confirming
  <2>2. CASE Cmd # "confirm"
    <3>1. tg'.batch[tg'.i] # "confirm" BY <1>3, <2>2 DEF Cmd
    <3>2. QED BY <3>1 DEF Confirming
  <2>3. QED BY <2>1, <2>2
<1>6. QED BY <1>4, <1>5

\* The first step of a command.
LEMMA FirstStepOK ==
    ASSUME tg' \in HandlerType, tg'.batch # <<>>, tg'.i \in 1..Len(tg'.batch), tg'.s = 1
    PROVE  HandlerOK' /\ ~Confirming'
<1>1. tg'.batch[tg'.i] \in Commands
  BY DEF HandlerType
<1>2. Len(Program[tg'.batch[tg'.i]]) \in Nat \ {0}
  <2>1. \A c \in Commands : Len(Program[c]) \in Nat \ {0}
    <3>1. SUFFICES ASSUME NEW c \in Commands PROVE Len(Program[c]) \in Nat \ {0}
      OBVIOUS
    <3>2. CASE c = "pause" BY <3>2 DEF Program
    <3>3. CASE c = "emergency" BY <3>3 DEF Program
    <3>4. CASE c = "resume" BY <3>4 DEF Program
    <3>5. CASE c = "clear" BY <3>5 DEF Program
    <3>6. CASE c = "envDemo" BY <3>6 DEF Program
    <3>7. CASE c = "envReal" BY <3>7 DEF Program
    <3>8. CASE c = "confirm" BY <3>8 DEF Program
    <3>9. QED BY <3>2, <3>3, <3>4, <3>5, <3>6, <3>7, <3>8, CommandNames
  <2>2. QED BY <1>1, <2>1
<1>3. HandlerOK'
  BY <1>2 DEF HandlerOK
<1>4. QED BY <1>3 DEF Confirming

\* A batch that is delivered again starts with its first command.
LEMMA RedeliveredOK ==
    ASSUME HandlerOK, tg.batch # <<>>, tg.replays < MaxReplays, tg' = Redelivered
    PROVE  HandlerOK' /\ ~Confirming'
<1>1. tg' \in HandlerType /\ tg'.batch = tg.batch /\ tg'.i = 1 /\ tg'.s = 1
  <2>1. tg' = [batch |-> tg.batch, i |-> 1, s |-> 1, replays |-> tg.replays + 1]
    BY DEF HandlerOK, HandlerType, Redelivered
  <2>2. tg.batch \in Seq(Commands) /\ tg.replays + 1 \in 0..MaxReplays
    BY ControlAssumption DEF HandlerOK, HandlerType
  <2>3. QED BY <2>1, <2>2 DEF HandlerType
<1>2. 1 \in 1..Len(tg.batch)
  BY DEF HandlerOK, HandlerType
<1>3. QED BY <1>1, <1>2, FirstStepOK

\* A reply ends a command or the batch.
LEMMA ReplyOK ==
    ASSUME HandlerOK, Reply \/ ReplyFails
    PROVE  HandlerOK' /\ ~Confirming'
<1>1. CASE ReplyFails
  BY <1>1, RedeliveredOK DEF ReplyFails, Step
<1>2. CASE Reply /\ tg.i < Len(tg.batch)
  <2>1. tg' \in HandlerType /\ tg'.batch = tg.batch /\ tg'.i = tg.i + 1 /\ tg'.s = 1
    <3>1. tg' = [batch |-> tg.batch, i |-> tg.i + 1, s |-> 1, replays |-> tg.replays]
      BY <1>2 DEF HandlerOK, HandlerType, Reply
    <3>2. tg.batch \in Seq(Commands) /\ tg.i + 1 \in Nat /\ tg.replays \in 0..MaxReplays
      BY DEF HandlerOK, HandlerType
    <3>3. QED BY <3>1, <3>2 DEF HandlerType
  <2>2. tg.batch # <<>> /\ tg.i + 1 \in 1..Len(tg.batch)
    BY <1>2 DEF HandlerOK, HandlerType, Reply, Step
  <2>3. QED BY <2>1, <2>2, FirstStepOK
<1>3. CASE Reply /\ ~(tg.i < Len(tg.batch))
  <2>1. tg' = TgIdle
    BY <1>3 DEF Reply
  <2>2. tg' \in HandlerType /\ tg'.batch = <<>> /\ tg'.i = 0
    BY <2>1 DEF HandlerOK, HandlerType, TgIdle
  <2>3. QED BY <2>2 DEF HandlerOK, Confirming
<1>4. QED BY <1>1, <1>2, <1>3

\* A batch that is received.
LEMMA ReceiveOK ==
    ASSUME HandlerOK, NEW b \in Batches, Receive(b)
    PROVE  HandlerOK' /\ ~Confirming' /\ Len(b) \in Nat
<1>1. PICK n \in 1..MaxBatch : b \in [1..n -> Commands]
  BY DEF Batches
<1>2. b \in Seq(Commands) /\ Len(b) = n /\ b # <<>>
  BY <1>1, ControlAssumption
<1>3. tg' \in HandlerType /\ tg'.batch = b /\ tg'.i = 1 /\ tg'.s = 1
  BY <1>2 DEF HandlerOK, HandlerType, Receive
<1>4. 1 \in 1..Len(b)
  BY <1>1, <1>2, ControlAssumption
<1>5. QED BY <1>1, <1>2, <1>3, <1>4, FirstStepOK

-----------------------------------------------------------------------------
(* Credit                                                                  *)

\* What an action that touches neither does to CreditOK.
LEMMA CreditKept ==
    ASSUME CreditOK, real' = real, credit' = credit,
           Confirming' => Confirming /\ tg'.s # 5
    PROVE  CreditOK'
BY DEF CreditOK

\* A challenge or an arm that ends leaves the credit.
LEMMA CreditEnds ==
    ASSUME CreditOK, credit' = credit, NEW f \in {"challenge", "arm"},
           real' = [real EXCEPT ![f] = FALSE],
           Confirming' => Confirming /\ tg'.s = tg.s
    PROVE  CreditOK'
<1>1. real' \in [challenge: BOOLEAN, arm: BOOLEAN] /\ (real'.arm => real.arm)
      /\ (real'.challenge => real.challenge)
  BY Zenon DEF CreditOK
<1>2. QED BY <1>1 DEF CreditOK

\* A step of a program that is about neither, ends included.
LEMMA OtherStep ==
    ASSUME HandlerOK, CreditOK, tg.batch # <<>>,
           Program[Cmd][tg.s] \notin {"reply", "confirm", "spend", "rearm"},
           Advance \/ Reject, real' = real, credit' = credit
    PROVE  HandlerOK' /\ CreditOK'
<1>1. Cmd \in Commands /\ tg.s \in 1..Len(Program[Cmd])
  BY InHand
<1>2. CASE Reject
  BY <1>2, RejectOK, CreditKept
<1>3. CASE Advance
  <2>1. HandlerOK' /\ tg'.s = tg.s + 1 /\ (Confirming' <=> Cmd = "confirm" /\ tg.s \in 1..4)
    BY <1>3, AdvanceOK
  <2>2. Cmd = "confirm" => tg.s # 1 /\ tg.s # 4
    BY <1>1, ProgramSteps
  <2>3. Confirming' => Confirming /\ tg'.s # 5
    BY <1>1, <2>1, <2>2 DEF Confirming, Cmd
  <2>4. QED BY <2>1, <2>3, CreditKept
<1>4. QED BY <1>2, <1>3

\* /emergency_stop takes the arm away.
LEMMA DisarmOK ==
    ASSUME HandlerOK, CreditOK, Disarm
    PROVE  HandlerOK' /\ CreditOK'
<1>1. tg.batch # <<>> /\ Program[Cmd][tg.s] = "disarm"
  BY DEF Disarm, Step, Cmd
<1>2. HandlerOK' /\ tg'.s = tg.s + 1 /\ (Confirming' <=> Cmd = "confirm" /\ tg.s \in 1..4)
  BY <1>1, AdvanceOK DEF Disarm
<1>3. Cmd # "confirm"
  BY <1>1, InHand, ProgramSteps
<1>4. CreditOK'
  BY <1>2, <1>3, CreditEnds DEF Disarm
<1>5. QED BY <1>2, <1>4

\* /resume and /clear_emergency_stop pay for the arm with a credit.
LEMMA ConsumeArmOK ==
    ASSUME HandlerOK, CreditOK, ConsumeArm
    PROVE  HandlerOK' /\ CreditOK'
<1>1. tg.batch # <<>> /\ Program[Cmd][tg.s] = "arm"
  BY DEF ConsumeArm, Step, Cmd
<1>2. CASE UNCHANGED <<real, credit>>
  BY <1>1, <1>2, OtherStep DEF ConsumeArm
<1>3. CASE control.env = "real" /\ real.arm
  <2>1. Advance /\ real' = [real EXCEPT !.arm = FALSE] /\ credit' = credit - 1
    BY <1>3 DEF ConsumeArm
  <2>2. HandlerOK' /\ (Confirming' <=> Cmd = "confirm" /\ tg.s \in 1..4)
    BY <1>1, <2>1, AdvanceOK
  <2>3. Cmd # "confirm"
    BY <1>1, InHand, ProgramSteps
  <2>4. real' \in [challenge: BOOLEAN, arm: BOOLEAN] /\ ~real'.arm
        /\ real'.challenge = real.challenge
    BY <2>1, Zenon DEF CreditOK
  <2>5. CreditOK'
    BY <1>3, <2>1, <2>2, <2>3, <2>4 DEF CreditOK
  <2>6. QED BY <2>2, <2>5
<1>4. QED BY <1>2, <1>3 DEF ConsumeArm

\* /env real issues a challenge, which is a credit.
LEMMA IssueChallengeOK ==
    ASSUME HandlerOK, CreditOK, IssueChallenge
    PROVE  HandlerOK' /\ CreditOK'
<1>1. tg.batch # <<>> /\ Program[Cmd][tg.s] = "challenge"
  BY DEF IssueChallenge, Step, Cmd
<1>2. HandlerOK' /\ (Confirming' <=> Cmd = "confirm" /\ tg.s \in 1..4)
  BY <1>1, AdvanceOK DEF IssueChallenge
<1>3. Cmd # "confirm"
  BY <1>1, InHand, ProgramSteps
<1>4. real' \in [challenge: BOOLEAN, arm: BOOLEAN] /\ real'.challenge /\ real'.arm = real.arm
  BY Zenon DEF CreditOK, IssueChallenge
<1>5. credit' = IF credit = 2 THEN 2 ELSE credit + 1
  BY DEF IssueChallenge
<1>6. CreditOK'
  BY <1>2, <1>3, <1>4, <1>5 DEF CreditOK
<1>7. QED BY <1>2, <1>6

\* /confirm-real accepts the code of a challenge that is outstanding.
LEMMA ConfirmRealOK ==
    ASSUME HandlerOK, CreditOK, ConfirmReal
    PROVE  HandlerOK' /\ CreditOK'
<1>1. tg.batch # <<>> /\ Program[Cmd][tg.s] = "confirm"
  BY DEF ConfirmReal, Step, Cmd
<1>2. CASE Reject
  BY <1>1, <1>2, RejectOK, CreditKept DEF ConfirmReal
<1>3. CASE real.challenge /\ Advance
  <2>1. HandlerOK' /\ tg'.s = tg.s + 1
    BY <1>1, <1>3, AdvanceOK
  <2>2. tg.s = 1
    BY <1>1, InHand, ProgramSteps
  <2>3. CreditOK'
    BY <1>3, <2>1, <2>2 DEF CreditOK, ConfirmReal
  <2>4. QED BY <2>1, <2>3
<1>4. QED BY <1>2, <1>3 DEF ConfirmReal

\* The challenge is spent before the arm is set ...
LEMMA SpendChallengeOK ==
    ASSUME HandlerOK, CreditOK, SpendChallenge
    PROVE  HandlerOK' /\ CreditOK'
<1>1. tg.batch # <<>> /\ Program[Cmd][tg.s] = "spend"
  BY DEF SpendChallenge, Step, Cmd
<1>2. HandlerOK' /\ tg'.s = tg.s + 1
  BY <1>1, AdvanceOK DEF SpendChallenge
<1>3. Cmd = "confirm" /\ tg.s = 4
  BY <1>1, InHand, ProgramSteps
<1>4. Confirming
  BY <1>1, <1>3 DEF Confirming, Cmd
<1>5. real' \in [challenge: BOOLEAN, arm: BOOLEAN] /\ ~real'.challenge /\ real'.arm = real.arm
  BY Zenon DEF CreditOK, SpendChallenge
<1>6. CreditOK'
  BY <1>4, <1>5 DEF CreditOK, SpendChallenge
<1>7. QED BY <1>2, <1>6

\* ... and its credit becomes the arm's.
LEMMA RearmOK ==
    ASSUME HandlerOK, CreditOK, Rearm
    PROVE  HandlerOK' /\ CreditOK'
<1>1. tg.batch # <<>> /\ Program[Cmd][tg.s] = "rearm"
  BY DEF Rearm, Step, Cmd
<1>2. HandlerOK' /\ tg'.s = tg.s + 1
  BY <1>1, AdvanceOK DEF Rearm
<1>3. Cmd = "confirm" /\ tg.s = 5
  BY <1>1, InHand, ProgramSteps
<1>4. Confirming /\ ~Confirming'
  BY <1>1, <1>2, <1>3 DEF Confirming, Cmd
<1>5. real' \in [challenge: BOOLEAN, arm: BOOLEAN] /\ real'.challenge = real.challenge
  BY Zenon DEF CreditOK, Rearm
<1>6. CreditOK'
  BY <1>3, <1>4, <1>5 DEF CreditOK, Rearm
<1>7. QED BY <1>2, <1>6

\* Every step of the handler, wherever its batch is cut short.
LEMMA TelegramOK ==
    ASSUME HandlerOK, CreditOK, TelegramStep
    PROVE  HandlerOK' /\ CreditOK'
<1>1. CASE Reply \/ ReplyFails
  <2>1. HandlerOK' /\ ~Confirming'
    BY <1>1, ReplyOK
  <2>2. real' = real /\ credit' = credit
    BY <1>1 DEF Reply, ReplyFails
  <2>3. QED BY <2>1, <2>2, CreditKept
<1>2. CASE StopFlag \/ Halt \/ Unhalt \/ Unstop \/ Ready \/ CheckSwitch \/ WriteSwitch
  <2>1. tg.batch # <<>> /\ (Advance \/ Reject) /\ real' = real /\ credit' = credit
    BY <1>2, Zenon DEF StopFlag, Halt, Unhalt, Unstop, Ready, CheckSwitch, WriteSwitch, Step
  <2>2. Program[Cmd][tg.s] \in {"stop", "halt", "unhalt", "unstop", "ready", "maydemo",
                                "mayreal", "demo", "real"}
    BY <1>2, Zenon DEF StopFlag, Halt, Unhalt, Unstop, Ready, CheckSwitch, WriteSwitch, Step, Cmd
  <2>3. Program[Cmd][tg.s] \notin {"reply", "confirm", "spend", "rearm"}
    BY <2>2
  <2>4. QED BY <2>1, <2>3, OtherStep
<1>3. CASE Disarm BY <1>3, DisarmOK
<1>4. CASE ConsumeArm BY <1>4, ConsumeArmOK
<1>5. CASE IssueChallenge BY <1>5, IssueChallengeOK
<1>6. CASE ConfirmReal BY <1>6, ConfirmRealOK
<1>7. CASE SpendChallenge BY <1>7, SpendChallengeOK
<1>8. CASE Rearm BY <1>8, RearmOK
<1>9. QED BY <1>1, <1>2, <1>3, <1>4, <1>5, <1>6, <1>7, <1>8 DEF TelegramStep

\* The loop of a process does not touch the handler, the challenge and the arm.
LEMMA LoopLeaves ==
    ASSUME NEW p \in Procs, LoopStep(p) \/ Start(p)
    PROVE  UNCHANGED <<tg, real, credit, emergency, updates>>
BY Zenon DEF LoopStep, Start, SyncRead, SyncWrite, Renew, Gate, CycleGate, ClaimOrder,
    GuardCheck, GuardRecheck, Send, controlVars

\* When nothing happens to either.
LEMMA BothKept ==
    ASSUME HandlerOK, CreditOK, UNCHANGED <<tg, real, credit>>
    PROVE  HandlerOK' /\ CreditOK'
BY DEF HandlerOK, CreditOK, Confirming

\* The handler and the credit at every step of the service.
LEMMA CreditInvariance ==
    ASSUME HandlerOK, CreditOK, ServiceAction
    PROVE  HandlerOK' /\ CreditOK'
<1>1. ASSUME NEW p \in Procs, LoopStep(p) \/ Start(p) PROVE HandlerOK' /\ CreditOK'
  BY <1>1, LoopLeaves, BothKept
<1>2. ASSUME NEW p \in Procs, Die(p, TRUE) \/ Die(p, FALSE) PROVE HandlerOK' /\ CreditOK'
  <2>1. real' = real /\ credit' = credit
    BY <1>2, Zenon DEF Die
  <2>2. CASE tg.batch = <<>>
    <3>1. tg' = tg BY <1>2, <2>2, Zenon DEF Die
    <3>2. QED BY <2>1, <3>1, BothKept
  <2>3. CASE tg.batch # <<>>
    <3>1. tg.replays < MaxReplays /\ tg' = Redelivered BY <1>2, <2>3, Zenon DEF Die
    <3>2. HandlerOK' /\ ~Confirming' BY <2>3, <3>1, RedeliveredOK
    <3>3. QED BY <2>1, <3>2, CreditKept
  <2>4. QED BY <2>2, <2>3
<1>3. CASE TelegramStep
  BY <1>3, TelegramOK
<1>4. ASSUME NEW b \in Batches, Receive(b) PROVE HandlerOK' /\ CreditOK'
  <2>1. HandlerOK' /\ ~Confirming' BY <1>4, ReceiveOK
  <2>2. real' = real /\ credit' = credit BY <1>4 DEF Receive
  <2>3. QED BY <2>1, <2>2, CreditKept
<1>5. CASE Expire
  <2>1. tg' = tg /\ credit' = credit BY <1>5 DEF Expire
  <2>2. HandlerOK' BY <2>1 DEF HandlerOK
  <2>3. Confirming' => Confirming /\ tg'.s = tg.s BY <2>1 DEF Confirming
  <2>4. CASE real' = real BY <2>1, <2>4, BothKept
  <2>5. CASE real' = [real EXCEPT !.challenge = FALSE] BY <2>1, <2>2, <2>3, <2>5, CreditEnds
  <2>6. CASE real' = [real EXCEPT !.arm = FALSE] BY <2>1, <2>2, <2>3, <2>6, CreditEnds
  <2>7. QED BY <1>5, <2>4, <2>5, <2>6 DEF Expire
<1>6. CASE CliSetPaused(TRUE) \/ CliSetPaused(FALSE) \/ Settle
  <2>1. UNCHANGED <<tg, real, credit>> BY <1>6 DEF CliSetPaused, Settle
  <2>2. QED BY <2>1, BothKept
<1>7. QED BY <1>1, <1>2, <1>3, <1>4, <1>5, <1>6 DEF ServiceAction

-----------------------------------------------------------------------------
(* The guard                                                               *)

\* One process moves, to a record of the type, and enters the guarded part only
\* when it is allowed to trade.
Moves(p) ==
    /\ proc' \in [Procs -> ProcType]
    /\ proc'[p].pc \in {"recheck", "send"} =>
          proc[p].pc \in {"recheck", "send"} \/ Allowed(p)
    /\ \A q \in Procs \ {p} : proc'[q] = proc[q]

\* A move to another place.
LEMMA GotoMoves ==
    ASSUME proc \in [Procs -> ProcType], NEW p \in Procs, NEW pc \in Pcs, Goto(p, pc),
           pc \in {"recheck", "send"} => proc[p].pc \in {"recheck", "send"} \/ Allowed(p)
    PROVE  Moves(p)
<1>1. [proc[p] EXCEPT !.pc = pc] \in ProcType /\ [proc[p] EXCEPT !.pc = pc].pc = pc
  BY DEF ProcType
<1>2. proc' = [proc EXCEPT ![p] = [proc[p] EXCEPT !.pc = pc]]
  BY DEF Goto
<1>3. QED BY <1>1, <1>2 DEF Moves

\* The end of a turn.
LEMMA EndTurnMoves ==
    ASSUME proc \in [Procs -> ProcType], NEW p \in Procs, NEW pc \in Pcs,
           pc \notin {"recheck", "send"}, EndTurn(p, pc)
    PROVE  Moves(p)
<1> DEFINE r == [pc |-> pc, env |-> "demo", want |-> "keep", n |-> 0]
<1>1. r \in ProcType /\ r.pc = pc
  BY DEF ProcType, Envs
<1>2. proc' = [proc EXCEPT ![p] = r]
  BY DEF EndTurn
<1> HIDE DEF r
<1>3. QED BY <1>1, <1>2 DEF Moves

\* A move that also sets a field.
LEMMA ReadMoves ==
    ASSUME proc \in [Procs -> ProcType], NEW p \in Procs, NEW r \in ProcType,
           r.pc \notin {"recheck", "send"}, proc' = [proc EXCEPT ![p] = r]
    PROVE  Moves(p)
BY DEF Moves

\* The loop of a process moves that process.
LEMMA LoopMoves ==
    ASSUME SwitchesOK, NEW p \in Procs, LoopStep(p)
    PROVE  Moves(p)
<1> proc \in [Procs -> ProcType] BY DEF SwitchesOK
<1> USE DEF Pcs
<1>1. CASE SyncRead(p)
  <2> DEFINE want == CASE emergency /\ ~control.paused -> "pause"
                       [] ~emergency /\ control.paused -> "resume"
                       [] OTHER -> "keep"
  <2>1. want \in {"keep", "pause", "resume"} OBVIOUS
  <2>2. proc' = [proc EXCEPT ![p].pc = "syncw", ![p].want = want] BY <1>1 DEF SyncRead
  <2> HIDE DEF want
  <2>3. proc' = [proc EXCEPT ![p] = [proc[p] EXCEPT !.pc = "syncw", !.want = want]] BY <2>2
  <2> DEFINE r == [proc[p] EXCEPT !.pc = "syncw", !.want = want]
  <2>4. r \in ProcType /\ r.pc = "syncw" BY <2>1 DEF ProcType
  <2> HIDE DEF r
  <2>5. QED BY <2>3, <2>4, ReadMoves DEF r
<1>2. CASE SyncWrite(p) BY <1>2, EndTurnMoves DEF SyncWrite
<1>3. CASE Renew(p) BY <1>3, GotoMoves DEF Renew
<1>4. CASE Gate(p)
  <2>1. CASE EndTurn(p, "sync") BY <2>1, EndTurnMoves
  <2>2. CASE proc' = [proc EXCEPT ![p].pc = "cycle", ![p].env = control.env]
    <3> DEFINE r == [proc[p] EXCEPT !.pc = "cycle", !.env = control.env]
    <3>1. r \in ProcType /\ r.pc = "cycle" BY DEF ProcType, SwitchesOK
    <3>2. proc' = [proc EXCEPT ![p] = r] BY <2>2
    <3> HIDE DEF r
    <3>3. QED BY <3>1, <3>2, ReadMoves
  <2>3. QED BY <1>4, <2>1, <2>2 DEF Gate
<1>5. CASE CycleGate(p) BY <1>5, GotoMoves, EndTurnMoves DEF CycleGate
<1>6. CASE ClaimOrder(p)
  <2>1. CASE EndTurn(p, "sync") BY <2>1, EndTurnMoves
  <2>2. CASE proc' = [proc EXCEPT ![p].pc = "check", ![p].n = @ + 1]
    <3> DEFINE k == proc[p].n + 1
    <3> DEFINE r == [proc[p] EXCEPT !.pc = "check", !.n = k]
    <3>1. proc' = [proc EXCEPT ![p] = r] BY <2>2 DEF ProcType
    <3>2. k \in Nat BY DEF ProcType
    <3> HIDE DEF k
    <3>3. r \in ProcType /\ r.pc = "check" BY <3>2 DEF ProcType
    <3> HIDE DEF r
    <3>4. QED BY <3>1, <3>3, ReadMoves
  <2>3. QED BY <1>6, <2>1, <2>2 DEF ClaimOrder
<1>7. CASE GuardCheck(p)
  <2>1. CASE ControlsAllow(p) /\ lease = [owner |-> p, valid |-> TRUE]
    <3>1. Allowed(p) BY <2>1 DEF ControlsAllow, Allowed
    <3>2. QED BY <1>7, <2>1, <3>1, GotoMoves DEF GuardCheck
  <2>2. QED BY <1>7, <2>1, GotoMoves DEF GuardCheck
<1>8. CASE GuardRecheck(p) BY <1>8, GotoMoves DEF GuardRecheck, At
<1>9. CASE Send(p) BY <1>9, GotoMoves DEF Send
<1>10. QED BY <1>1, <1>2, <1>3, <1>4, <1>5, <1>6, <1>7, <1>8, <1>9 DEF LoopStep

\* Every step of the service moves one process or none.
LEMMA ServiceMoves ==
    ASSUME SwitchesOK, ServiceAction
    PROVE  (\E p \in Procs : Moves(p)) \/ proc' = proc
<1> proc \in [Procs -> ProcType] BY DEF SwitchesOK
<1>1. ASSUME NEW p \in Procs, LoopStep(p) PROVE Moves(p)
  BY <1>1, LoopMoves
<1>2. ASSUME NEW p \in Procs, Start(p) PROVE Moves(p)
  BY <1>2, GotoMoves DEF Start, Pcs
<1>3. ASSUME NEW p \in Procs, Die(p, TRUE) \/ Die(p, FALSE) PROVE Moves(p)
  BY <1>3, EndTurnMoves DEF Die, Pcs
<1>4. QED BY <1>1, <1>2, <1>3 DEF ServiceAction, Settle

\* At most one order is sent late.
LEMMA LateInvariance ==
    ASSUME SwitchesOK, LateOK, ServiceAction, CountLate
    PROVE  proc' \in [Procs -> ProcType] /\ LateOK'
<1>1. proc' \in [Procs -> ProcType]
  BY ServiceMoves DEF SwitchesOK, Moves
<1>2. ASSUME NEW p \in Procs
      PROVE  /\ late'[p] \in 0..1
             /\ proc'[p].pc \in {"recheck", "send"} \/ Allowed(p)' => late'[p] = 0
  <2>1. proc'[p].pc \in {"recheck", "send"} => proc[p].pc \in {"recheck", "send"} \/ Allowed(p)
    BY ServiceMoves DEF Moves
  <2>2. late[p] \in 0..1
    BY DEF LateOK
  <2>3. proc[p].pc \in {"recheck", "send"} \/ Allowed(p) => late[p] = 0
    BY DEF LateOK
  <2>4. late'[p] = IF Allowed(p)' THEN 0
                   ELSE IF At(p, "send") /\ proc'[p].pc = "claim" /\ late[p] < 2
                        THEN late[p] + 1 ELSE late[p]
    BY DEF CountLate
  <2>5. CASE Allowed(p)'
    BY <2>4, <2>5
  <2>6. CASE ~Allowed(p)' /\ At(p, "send") /\ proc'[p].pc = "claim"
    BY <2>2, <2>3, <2>4, <2>6 DEF At
  <2>7. CASE ~Allowed(p)' /\ ~(At(p, "send") /\ proc'[p].pc = "claim")
    BY <2>1, <2>2, <2>3, <2>4, <2>7
  <2>8. QED BY <2>5, <2>6, <2>7
<1>3. late' \in [Procs -> 0..1]
  <2>1. late' = [p \in Procs |-> late'[p]] BY DEF CountLate
  <2>2. QED BY <1>2, <2>1
<1>4. QED BY <1>1, <1>2, <1>3 DEF LateOK

-----------------------------------------------------------------------------
(* The switches                                                            *)

\* The switches, the lease and the books, whoever writes them.
LEMMA SwitchesInvariance ==
    ASSUME HandlerOK, SwitchesOK, ServiceAction, proc' \in [Procs -> ProcType]
    PROVE  SwitchesOK'
<1> USE DEF SwitchesOK, Envs
<1>1. ASSUME NEW p \in Procs, LoopStep(p) \/ Start(p) PROVE SwitchesOK'
  <2>1. UNCHANGED <<emergency, updates>>
    BY <1>1, LoopLeaves
  <2>2. control' \in [paused: BOOLEAN, env: Envs] /\ books' \in BOOLEAN
    BY <1>1, Zenon DEF LoopStep, Start, SyncRead, SyncWrite, Renew, Gate, CycleGate, ClaimOrder,
      GuardCheck, GuardRecheck, Send, controlVars, SetPaused
  <2>3. CASE Start(p)
    <3>1. lease' = lease \/ lease' = [owner |-> p, valid |-> TRUE]
      BY <2>3 DEF Start
    <3>2. lease' \in [owner: Procs \cup {None}, valid: BOOLEAN]
      <4>1. TRUE \in BOOLEAN /\ p \in Procs \cup {None} OBVIOUS
      <4>2. [owner |-> p, valid |-> TRUE] \in [owner: Procs \cup {None}, valid: BOOLEAN]
        BY <4>1, Zenon
      <4>3. lease \in [owner: Procs \cup {None}, valid: BOOLEAN] OBVIOUS
      <4>4. QED BY <3>1, <4>2, <4>3, Zenon
    <3>3. QED BY <2>1, <2>2, <3>2
  <2>4. CASE LoopStep(p)
    <3>1. lease' = lease
      BY <2>4, Zenon DEF LoopStep, SyncRead, SyncWrite, Renew, Gate, CycleGate, ClaimOrder,
        GuardCheck, GuardRecheck, Send, controlVars
    <3>2. QED BY <2>1, <2>2, <3>1
  <2>5. QED BY <1>1, <2>3, <2>4
<1>2. ASSUME NEW p \in Procs, NEW b \in BOOLEAN, Die(p, b) PROVE SwitchesOK'
  BY <1>2 DEF Die
<1>3. CASE TelegramStep
  <2>1. UNCHANGED <<lease, books, updates>>
    BY <1>3, Zenon DEF TelegramStep, Reply, ReplyFails, StopFlag, Halt, Disarm, Ready, ConsumeArm,
      Unhalt, Unstop, CheckSwitch, WriteSwitch, IssueChallenge, ConfirmReal, SpendChallenge, Rearm
  <2>2. control' \in [paused: BOOLEAN, env: Envs]
    <3>1. CASE control' = control BY <3>1
    <3>2. ASSUME NEW b \in BOOLEAN, SetPaused(b) PROVE control' \in [paused: BOOLEAN, env: Envs]
      BY <3>2 DEF SetPaused
    <3>3. ASSUME NEW e \in Envs, SwitchEnvironment(e)
          PROVE  control' \in [paused: BOOLEAN, env: Envs]
      BY <3>3 DEF SwitchEnvironment
    <3>4. \/ control' = control \/ SetPaused(TRUE) \/ SetPaused(FALSE)
          \/ SwitchEnvironment("demo") \/ SwitchEnvironment("real")
      BY <1>3, Zenon DEF TelegramStep, Reply, ReplyFails, StopFlag, Halt, Disarm, Ready, ConsumeArm,
        Unhalt, Unstop, CheckSwitch, WriteSwitch, IssueChallenge, ConfirmReal, SpendChallenge, Rearm
    <3>5. QED BY <3>1, <3>2, <3>3, <3>4
  <2>3. emergency' \in BOOLEAN
    BY <1>3, Zenon DEF TelegramStep, Reply, ReplyFails, StopFlag, Halt, Disarm, Ready, ConsumeArm,
      Unhalt, Unstop, CheckSwitch, WriteSwitch, IssueChallenge, ConfirmReal, SpendChallenge, Rearm
  <2>4. QED BY <2>1, <2>2, <2>3
<1>4. ASSUME NEW b \in Batches, Receive(b) PROVE SwitchesOK'
  <2>1. Len(b) \in Nat BY <1>4, ReceiveOK
  <2>2. QED BY <1>4, <2>1, ControlAssumption DEF Receive
<1>5. CASE Expire
  BY <1>5 DEF Expire
<1>6. ASSUME NEW b \in BOOLEAN, CliSetPaused(b) PROVE SwitchesOK'
  BY <1>6, ControlAssumption DEF CliSetPaused, SetPaused
<1>7. CASE Settle
  BY <1>7 DEF Settle
<1>8. QED BY <1>1, <1>2, <1>3, <1>4, <1>5, <1>6, <1>7 DEF ServiceAction

-----------------------------------------------------------------------------

\* The database of an earlier life has a credit for each of challenge and arm.
LEMMA ServiceInitOK ==
    ASSUME ServiceInit
    PROVE  ServiceInv
<1> USE DEF ServiceInit, ControlInit
<1>1. HandlerOK /\ ~Confirming
  <2>1. tg \in HandlerType /\ tg.batch = <<>> /\ tg.i = 0
    BY ControlAssumption DEF HandlerType
  <2>2. QED BY <2>1 DEF HandlerOK, Confirming
<1>2. CreditOK
  <2> DEFINE S == {f \in DOMAIN real : real[f]}
  <2>1. DOMAIN real = {"challenge", "arm"} /\ real.challenge \in BOOLEAN /\ real.arm \in BOOLEAN
    OBVIOUS
  <2>2. ~(real.arm /\ real.challenge)
    OBVIOUS
  <2>3. CASE ~real.arm /\ ~real.challenge
    <3>1. S = {} BY <2>1, <2>3
    <3>2. credit = 0 BY <3>1, FS_EmptySet
    <3>3. QED BY <1>1, <2>3, <3>2 DEF CreditOK
  <2>4. CASE real.arm /\ ~real.challenge
    <3>1. S = {"arm"} BY <2>1, <2>4
    <3>2. credit = 1 BY <3>1, FS_Singleton
    <3>3. QED BY <1>1, <2>4, <3>2 DEF CreditOK
  <2>5. CASE ~real.arm /\ real.challenge
    <3>1. S = {"challenge"} BY <2>1, <2>5
    <3>2. credit = 1 BY <3>1, FS_Singleton
    <3>3. QED BY <1>1, <2>5, <3>2 DEF CreditOK
  <2>6. QED BY <2>1, <2>2, <2>3, <2>4, <2>5
<1>3. LateOK
  BY DEF LateOK
<1>4. SwitchesOK
  <2>1. proc \in [Procs -> ProcType]
    BY DEF ProcType, Pcs, Envs
  <2>2. lease \in [owner: Procs \cup {None}, valid: BOOLEAN]
    OBVIOUS
  <2>3. control.paused \in BOOLEAN /\ control = [paused |-> control.paused, env |-> control.env]
        /\ control.env \in Envs
    BY Zenon
  <2>4. updates \in 0..MaxUpdates
    BY ControlAssumption
  <2>5. QED BY <2>1, <2>2, <2>3, <2>4 DEF SwitchesOK
<1>5. QED BY <1>1, <1>2, <1>3, <1>4 DEF ServiceInv

\* The inductive invariant of the service: the handler is within its programs,
\* the credit covers challenge and arm, and the guard was passed with the right
\* to trade.
THEOREM ServiceInvariance == ServiceSpec => []ServiceInv
<1>1. ServiceInit => ServiceInv
  BY ServiceInitOK
<1>2. ServiceInv /\ [ServiceNext]_serviceVars => ServiceInv'
  <2>1. ASSUME ServiceInv, ServiceNext PROVE ServiceInv'
    <3>1. HandlerOK' /\ CreditOK'
      BY <2>1, CreditInvariance DEF ServiceInv, ServiceNext
    <3>2. proc' \in [Procs -> ProcType] /\ LateOK'
      BY <2>1, LateInvariance DEF ServiceInv, ServiceNext
    <3>3. SwitchesOK'
      BY <2>1, <3>2, SwitchesInvariance DEF ServiceInv, ServiceNext
    <3>4. QED BY <3>1, <3>2, <3>3 DEF ServiceInv
  <2>2. ASSUME ServiceInv, UNCHANGED serviceVars PROVE ServiceInv'
    BY <2>2 DEF ServiceInv, serviceVars, controlVars, HandlerOK, CreditOK, Confirming, LateOK,
      Allowed, SwitchesOK
  <2>3. QED BY <2>1, <2>2
<1>3. QED BY <1>1, <1>2, PTL DEF ServiceSpec

\* Type correctness of the service, the controls and the Telegram handler.
THEOREM ServiceTypeCorrect == ServiceSpec => []ServiceTypeOK
<1>1. ServiceInv => ServiceTypeOK
  <2>1. ASSUME ServiceInv PROVE ServiceTypeOK
    <3>1. tg.batch \in Seq(Commands) /\ tg.i \in 0..Len(tg.batch) /\ tg.s \in Nat
          /\ tg.replays \in 0..MaxReplays
      <4>1. CASE tg.batch = <<>>
        BY <2>1, <4>1 DEF ServiceInv, HandlerOK, HandlerType
      <4>2. CASE tg.batch # <<>>
        BY <2>1, <4>2 DEF ServiceInv, HandlerOK, HandlerType
      <4>3. QED BY <4>1, <4>2
    <3>2. late \in [Procs -> 0..2]
      BY <2>1 DEF ServiceInv, LateOK
    <3>3. QED BY <2>1, <3>1, <3>2 DEF ServiceInv, CreditOK, SwitchesOK, ServiceTypeOK,
                   ControlTypeOK, ProcType
  <2>2. QED BY <2>1
<1>2. QED BY <1>1, ServiceInvariance, PTL

\* However trading is stopped (emergency stop, pause, environment switch, lease
\* lost or expired) and whenever, a process sends at most the one order that had
\* passed both checks of GuardedSubmitter.
THEOREM StopsAreObeyed == ServiceSpec => []StopIsObeyed
<1>1. ServiceInv => StopIsObeyed
  BY DEF ServiceInv, LateOK, StopIsObeyed
<1>2. QED BY <1>1, ServiceInvariance, PTL

\* Every resume of the real environment by a Telegram command has a challenge of
\* its own, wherever a failing reply or a dying process makes Telegram deliver
\* the batch again.
THEOREM ResumesArePaidFor == ServiceSpec => []OneResumePerChallenge
<1>1. ServiceInv => OneResumePerChallenge
  BY DEF ServiceInv, CreditOK, OneResumePerChallenge
<1>2. QED BY <1>1, ServiceInvariance, PTL
=============================================================================
