------------------------ MODULE EntryDecisionProofs ------------------------
(***************************************************************************)
(* Proof that no entry is made behind the operator's back, for any set of  *)
(* symbols and limits, any number of minutes and restarts: an order on a   *)
(* bar with an approval request is sent only for a request that was        *)
(* approved, at most once, and a request tells the truth about its order.  *)
(***************************************************************************)
EXTENDS EntryDecision, FiniteSetTheorems, TLAPS

-----------------------------------------------------------------------------
(* The inductive invariant                                                 *)

\* The trading thread.  Symbols are left to do, and while one is at hand it has
\* a request name; ok is the answer of the order that was just sent.
Cycles ==
    [pc: {"idle", "next", "ask", "recheck", "consume", "claim", "guard", "send", "finish"},
     todo: SUBSET Symbols, r: Requests \cup {<<>>}, now: Times,
     held: SUBSET Symbols, counts: [Symbols -> Nat], ok: BOOLEAN]

CycOK ==
    /\ cyc \in Cycles
    /\ cyc.pc \notin {"idle", "next"} => cyc.r \in Requests
    /\ cyc.pc # "finish" => cyc.ok = FALSE

\* How the request and the order at hand stand at each step of the thread.
PathOK ==
    LET st == req[cyc.r].st
        row == order[cyc.r]
    IN  /\ cyc.pc = "ask" => st = "NONE" /\ row = "NONE"
        /\ cyc.pc \in {"recheck", "consume"} => st \in {"APPROVED", "EXPIRED"}
        /\ cyc.pc = "claim" => st \in {"NONE", "CONSUMING"} /\ row = "NONE"
        /\ cyc.pc \in {"guard", "send"} => st \in {"NONE", "CONSUMING"} /\ row = "SUBMITTING"
        /\ cyc.pc = "finish" =>
              /\ st \in {"NONE", "CONSUMING"}
              /\ row \in (IF cyc.ok THEN {"ACKNOWLEDGED", "FILLED", "CANCELLED"} ELSE {"UNKNOWN"})

\* A request that is not used up has no order, one that was approved stays
\* granted; an order that is sent has left SUBMITTING.
RequestOK(r) ==
    /\ order[r] \in {"NONE", "SUBMITTING"} => sent[r] = 0
    /\ req[r].st \in {"PENDING", "APPROVED", "REJECTED", "EXPIRED"} => order[r] = "NONE"
    /\ req[r].st \in {"APPROVED", "CONSUMING", "EXECUTED", "FAILED"} => r \in granted
    /\ req[r].st = "EXECUTED" => order[r] \in {"ACKNOWLEDGED", "FILLED", "CANCELLED"}
    /\ req[r].st = "FAILED" => order[r] = "UNKNOWN"

\* An acknowledged order works or is in the account, and the ledger opens a
\* position only with its fill.
AccountOK(r) ==
    /\ order[r] = "ACKNOWLEDGED" => r \in working \cup held
    /\ r \in local => order[r] = "FILLED"

EntryInv ==
    /\ EntryTypeOK
    /\ CycOK
    /\ PathOK
    /\ \A r \in Requests : RequestOK(r) /\ AccountOK(r)

-----------------------------------------------------------------------------
(* The trading thread                                                      *)

\* A step of the thread to another place in the code keeps the rest.
LEMMA GotoCyc ==
    ASSUME cyc \in Cycles,
           NEW pc \in {"next", "ask", "recheck", "consume", "claim", "guard", "send", "finish"},
           cyc' = [cyc EXCEPT !.pc = pc]
    PROVE  /\ cyc' \in Cycles
           /\ cyc'.pc = pc /\ cyc'.r = cyc.r /\ cyc'.ok = cyc.ok
BY DEF Cycles

\* Idle is a state of the thread.
LEMMA IdleCyc == Idle \in Cycles /\ Idle.pc = "idle" /\ Idle.ok = FALSE
BY EntryAssumption DEF Idle, Cycles, Times, Requests

\* What is kept of the thread when it goes on to the next symbol.
LEMMA NextCyc ==
    ASSUME cyc \in Cycles, NextSymbol
    PROVE  cyc' \in Cycles /\ cyc'.pc = "next" /\ cyc'.ok = FALSE
<1> DEFINE c1 == [Idle EXCEPT !.pc = "next"]
           c2 == [c1 EXCEPT !.todo = cyc.todo]
           c3 == [c2 EXCEPT !.held = cyc.held]
           c4 == [c3 EXCEPT !.counts = cyc.counts]
<1>1. c1 \in Cycles /\ c1.pc = "next" /\ c1.ok = FALSE
    BY IdleCyc DEF Cycles
<1> HIDE DEF c1
<1>2. c2 \in Cycles /\ c2.pc = "next" /\ c2.ok = FALSE
    BY <1>1 DEF Cycles
<1> HIDE DEF c2
<1>3. c3 \in Cycles /\ c3.pc = "next" /\ c3.ok = FALSE
    BY <1>2 DEF Cycles
<1> HIDE DEF c3
<1>4. c4 \in Cycles /\ c4.pc = "next" /\ c4.ok = FALSE
    BY <1>3 DEF Cycles
<1>5. cyc' = c4
    BY DEF NextSymbol, c1, c2, c3
<1> QED
    BY <1>4, <1>5

\* The orders of a symbol can be counted.
LEMMA ViewIsCountable ==
    ASSUME NEW s \in Symbols
    PROVE  Cardinality(OrdersOf(s)) \in Nat
<1>1. IsFiniteSet(Times)
    BY EntryAssumption, FS_Interval DEF Times
<1>2. IsFiniteSet(Requests)
    BY <1>1, EntryAssumption, FS_Product DEF Requests
<1>3. OrdersOf(s) \in SUBSET Requests
    BY DEF OrdersOf
<1> QED
    BY <1>2, <1>3, FS_Subset, FS_CardinalityType

-----------------------------------------------------------------------------
(* Every step keeps the invariant                                          *)

\* A step of the thread that neither writes a request nor an order.
LEMMA SilentStep ==
    ASSUME EntryInv, UNCHANGED <<req, order, sent, outside>>, CycOK', PathOK'
    PROVE  EntryInv'
BY DEF EntryInv, EntryTypeOK, RequestOK, AccountOK, outside

\* The steps between cycles and between symbols, and the gates.
LEMMA ThreadSteps ==
    ASSUME EntryInv,
           BeginCycle \/ EndCycle \/ Blocked \/ AskNormal \/ Recheck \/ GuardPasses
    PROVE  EntryInv'
<1> USE DEF EntryInv
<1>1. CASE BeginCycle
    <2> DEFINE view == [s \in Symbols |-> Cardinality(OrdersOf(s))]
               c1 == [cyc EXCEPT !.pc = "next"]
               c2 == [c1 EXCEPT !.todo = Symbols]
               c3 == [c2 EXCEPT !.held = SymbolsOf(held)]
               c4 == [c3 EXCEPT !.counts = view]
    <2>1. view \in [Symbols -> Nat]
        BY ViewIsCountable
    <2>2. SymbolsOf(held) \in SUBSET Symbols
        BY DEF EntryTypeOK, SymbolsOf, SymbolOf, Requests
    <2>3. cyc' = c4
        BY <1>1 DEF BeginCycle, PortfolioView
    <2> HIDE DEF view
    <2>4. c1 \in Cycles /\ c1.pc = "next" /\ c1.ok = FALSE
        BY <1>1 DEF CycOK, Cycles, BeginCycle
    <2> HIDE DEF c1
    <2>5. c2 \in Cycles /\ c2.pc = "next" /\ c2.ok = FALSE
        BY <2>4 DEF Cycles
    <2> HIDE DEF c2
    <2>6. c3 \in Cycles /\ c3.pc = "next" /\ c3.ok = FALSE
        BY <2>2, <2>5 DEF Cycles
    <2> HIDE DEF c3
    <2>7. c4 \in Cycles /\ c4.pc = "next" /\ c4.ok = FALSE
        BY <2>1, <2>6 DEF Cycles
    <2>8. CycOK' /\ PathOK'
        BY <2>3, <2>7 DEF CycOK, PathOK
    <2> QED
        BY <1>1, <2>8, SilentStep DEF BeginCycle
<1>2. CASE EndCycle
    <2>1. CycOK' /\ PathOK'
        BY <1>2, IdleCyc DEF EndCycle, CycOK, PathOK
    <2> QED
        BY <1>2, <2>1, SilentStep DEF EndCycle
<1>3. CASE Blocked
    <2>1. CycOK' /\ PathOK'
        BY <1>3, NextCyc DEF Blocked, CycOK, PathOK
    <2> QED
        BY <1>3, <2>1, SilentStep DEF Blocked
<1>4. CASE AskNormal
    <2>1. /\ cyc' \in Cycles
          /\ cyc'.pc = "claim" /\ cyc'.r = cyc.r /\ cyc'.ok = cyc.ok
        BY <1>4, GotoCyc DEF AskNormal, Goto, CycOK
    <2>2. CycOK' /\ PathOK'
        BY <1>4, <2>1 DEF AskNormal, CycOK, PathOK
    <2> QED
        BY <1>4, <2>2, SilentStep DEF AskNormal
<1>5. CASE Recheck
    <2>1. /\ cyc' \in Cycles
          /\ cyc'.pc = "consume" /\ cyc'.r = cyc.r /\ cyc'.ok = cyc.ok
        BY <1>5, GotoCyc DEF Recheck, Goto, CycOK
    <2>2. CycOK' /\ PathOK'
        BY <1>5, <2>1 DEF Recheck, CycOK, PathOK
    <2> QED
        BY <1>5, <2>2, SilentStep DEF Recheck
<1>6. CASE GuardPasses
    <2>1. /\ cyc' \in Cycles
          /\ cyc'.pc = "send" /\ cyc'.r = cyc.r /\ cyc'.ok = cyc.ok
        BY <1>6, GotoCyc DEF GuardPasses, Goto, CycOK
    <2>2. CycOK' /\ PathOK'
        BY <1>6, <2>1 DEF GuardPasses, CycOK, PathOK
    <2> QED
        BY <1>6, <2>2, SilentStep DEF GuardPasses
<1> QED
    BY <1>1, <1>2, <1>3, <1>4, <1>5, <1>6

\* An expiry changes a request only from PENDING or APPROVED, to EXPIRED.
LEMMA Expiry ==
    ASSUME EntryInv, NEW late, req' = ExpireAll(late)
    PROVE  /\ req' \in [Requests -> [st: {"NONE", "PENDING", "APPROVED", "REJECTED", "EXPIRED",
                                          "CONSUMING", "EXECUTED", "FAILED"}, expires: Nat]]
           /\ \A r \in Requests :
                 \/ req'[r].st = req[r].st
                 \/ req[r].st \in {"PENDING", "APPROVED"} /\ req'[r].st = "EXPIRED"
BY DEF EntryInv, EntryTypeOK, ExpireAll

\* The next symbol is taken up, late requests are expired.
LEMMA ConsiderStep ==
    ASSUME EntryInv, NEW s \in Symbols, Consider(s)
    PROVE  EntryInv'
<1> USE DEF EntryInv
<1> DEFINE r == <<s, bar>>
           Go(pc) == [cyc EXCEPT !.pc = pc, !.todo = @ \ {s}, !.r = r, !.now = clock]
<1>1. r \in Requests /\ clock \in Times
    BY EntryAssumption DEF EntryTypeOK, Requests, Times
<1>2. /\ req' \in [Requests -> [st: {"NONE", "PENDING", "APPROVED", "REJECTED", "EXPIRED",
                                     "CONSUMING", "EXECUTED", "FAILED"}, expires: Nat]]
      /\ \A q \in Requests :
            \/ req'[q].st = req[q].st
            \/ req[q].st \in {"PENDING", "APPROVED"} /\ req'[q].st = "EXPIRED"
    BY Expiry DEF Consider, EntryTypeOK
<1>3. UNCHANGED <<order, sent, clock, bar, working, held, local, granted, crashes>>
    BY DEF Consider, outside
<1>4. EntryTypeOK' /\ \A q \in Requests : RequestOK(q)' /\ AccountOK(q)'
    BY <1>2, <1>3 DEF EntryTypeOK, RequestOK, AccountOK
<1>5. \/ cyc' = [cyc EXCEPT !.todo = @ \ {s}]
      \/ cyc' = Go("recheck") /\ req'[r].st = "APPROVED"
      \/ cyc' = Go("ask") /\ req'[r].st = "NONE" /\ order[r] = "NONE"
    BY DEF Consider
<1>6. ASSUME NEW pc \in {"recheck", "ask"}
      PROVE  Go(pc) \in Cycles /\ Go(pc).pc = pc /\ Go(pc).r = r /\ Go(pc).ok = FALSE
    <2> DEFINE c1 == [cyc EXCEPT !.pc = pc]
               c2 == [c1 EXCEPT !.todo = @ \ {s}]
               c3 == [c2 EXCEPT !.r = r]
               c4 == [c3 EXCEPT !.now = clock]
    <2> HIDE DEF r
    <2>1. c1 \in Cycles /\ c1.pc = pc /\ c1.ok = FALSE
        BY DEF CycOK, Cycles, Consider
    <2> HIDE DEF c1
    <2>2. c2 \in Cycles /\ c2.pc = pc /\ c2.ok = FALSE
        BY <2>1 DEF Cycles
    <2> HIDE DEF c2
    <2>3. c3 \in Cycles /\ c3.pc = pc /\ c3.ok = FALSE /\ c3.r = r
        BY <1>1, <2>2 DEF Cycles
    <2> HIDE DEF c3
    <2>4. c4 \in Cycles /\ c4.pc = pc /\ c4.ok = FALSE /\ c4.r = r
        BY <1>1, <2>3 DEF Cycles
    <2>5. Go(pc) = c4
        BY DEF c1, c2, c3
    <2> QED
        BY <2>4, <2>5
<1> HIDE DEF Go, r
<1>7. CASE cyc' = [cyc EXCEPT !.todo = @ \ {s}]
    <2>1. cyc' \in Cycles /\ cyc'.pc = "next" /\ cyc'.ok = FALSE
        BY <1>7 DEF CycOK, Cycles, Consider
    <2> QED
        BY <1>4, <2>1 DEF CycOK, PathOK
<1>8. CASE cyc' = Go("recheck") /\ req'[r].st = "APPROVED"
    BY <1>1, <1>4, <1>6, <1>8 DEF CycOK, PathOK
<1>9. CASE cyc' = Go("ask") /\ req'[r].st = "NONE" /\ order[r] = "NONE"
    BY <1>1, <1>3, <1>4, <1>6, <1>9 DEF CycOK, PathOK
<1> QED
    BY <1>5, <1>7, <1>8, <1>9

\* The steps that write the request at hand.
LEMMA RequestSteps ==
    ASSUME EntryInv, AskHigh \/ Consume \/ Finish
    PROVE  EntryInv'
<1> USE DEF EntryInv
<1>1. UNCHANGED <<order, sent, clock, bar, working, held, local, granted, crashes>>
    BY DEF AskHigh, Consume, Finish, outside
<1>2. cyc.r \in Requests
    BY DEF CycOK, AskHigh, Consume, Finish
<1>3. CASE AskHigh
    <2>1. cyc' \in Cycles /\ cyc'.pc = "next" /\ cyc'.ok = FALSE
        BY <1>3, NextCyc DEF AskHigh, CycOK
    <2>2. cyc.now + Lifetime \in Nat
        BY EntryAssumption DEF CycOK, Cycles, Times
    <2>3. req' = [req EXCEPT ![cyc.r] = [st |-> "PENDING", expires |-> cyc.now + Lifetime]]
        BY <1>3 DEF AskHigh, RecordRequest, PathOK
    <2>4. EntryTypeOK'
        BY <1>1, <1>2, <2>2, <2>3 DEF EntryTypeOK
    <2>5. \A r \in Requests : RequestOK(r)' /\ AccountOK(r)'
        BY <1>1, <1>2, <1>3, <2>3 DEF EntryTypeOK, RequestOK, AccountOK, AskHigh, PathOK
    <2> QED
        BY <2>1, <2>4, <2>5 DEF CycOK, PathOK
<1>4. CASE Consume
    <2> DEFINE live == req[cyc.r].st = "APPROVED" /\ ~Expired(cyc.r, cyc.now)
    <2>1. CASE live
        <3>1. req' = [req EXCEPT ![cyc.r].st = "CONSUMING"]
            BY <1>4, <2>1 DEF Consume
        <3>2. /\ cyc' \in Cycles
              /\ cyc'.pc = "claim" /\ cyc'.r = cyc.r /\ cyc'.ok = cyc.ok
            BY <1>4, <2>1, GotoCyc DEF Consume, Goto, CycOK
        <3>3. EntryTypeOK'
            BY <1>1, <1>2, <3>1 DEF EntryTypeOK
        <3>4. \A r \in Requests : RequestOK(r)' /\ AccountOK(r)'
            BY <1>1, <1>2, <2>1, <3>1 DEF EntryTypeOK, RequestOK, AccountOK
        <3>5. PathOK' /\ CycOK'
            BY <1>1, <1>2, <1>4, <2>1, <3>1, <3>2
               DEF EntryTypeOK, RequestOK, PathOK, CycOK, Consume
        <3> QED
            BY <3>3, <3>4, <3>5
    <2>2. CASE ~live
        <3>1. \/ req' = req
              \/ req[cyc.r].st = "APPROVED" /\ req' = [req EXCEPT ![cyc.r].st = "EXPIRED"]
            BY <1>4, <2>2 DEF Consume
        <3>2. cyc' \in Cycles /\ cyc'.pc = "next" /\ cyc'.ok = FALSE
            BY <1>4, <2>2, NextCyc DEF Consume, CycOK
        <3>3. EntryTypeOK'
            BY <1>1, <1>2, <3>1 DEF EntryTypeOK
        <3>4. \A r \in Requests : RequestOK(r)' /\ AccountOK(r)'
            BY <1>1, <1>2, <3>1 DEF EntryTypeOK, RequestOK, AccountOK
        <3> QED
            BY <3>2, <3>3, <3>4 DEF CycOK, PathOK
    <2> QED
        BY <2>1, <2>2
<1>5. CASE Finish
    <2>1. cyc' \in Cycles /\ cyc'.pc = "next" /\ cyc'.ok = FALSE
        BY <1>5, NextCyc DEF Finish, CycOK
    <2>2. PICK st \in {"EXECUTED", "FAILED"} :
              /\ st = IF cyc.ok THEN "EXECUTED" ELSE "FAILED"
              /\ \/ req' = req
                 \/ req[cyc.r].st = "CONSUMING" /\ req' = [req EXCEPT ![cyc.r].st = st]
        BY <1>5 DEF Finish
    <2>3. EntryTypeOK'
        BY <1>1, <1>2, <2>2 DEF EntryTypeOK
    <2>4. \A r \in Requests : RequestOK(r)' /\ AccountOK(r)'
        BY <1>1, <1>2, <1>5, <2>2 DEF EntryTypeOK, RequestOK, AccountOK, Finish, PathOK
    <2> QED
        BY <2>1, <2>3, <2>4 DEF CycOK, PathOK
<1> QED
    BY <1>3, <1>4, <1>5

\* The steps that write the order at hand.
LEMMA OrderSteps ==
    ASSUME EntryInv,
           Claim \/ GuardRefuses \/ (\E a, b \in BOOLEAN : Send(a, b))
    PROVE  EntryInv'
<1> USE DEF EntryInv
<1>1. cyc.r \in Requests /\ cyc.ok = FALSE
    BY DEF CycOK, Claim, GuardRefuses, Send
<1>2. CASE Claim
    <2>1. order' = [order EXCEPT ![cyc.r] = "SUBMITTING"] /\ Goto("guard")
        BY <1>2 DEF Claim, PathOK
    <2>2. cyc' \in Cycles /\ cyc'.pc = "guard" /\ cyc'.r = cyc.r /\ cyc'.ok = FALSE
        BY <1>1, <2>1, GotoCyc DEF Goto, CycOK
    <2>3. UNCHANGED <<req, sent, clock, bar, working, held, local, granted, crashes>>
        BY <1>2 DEF Claim, outside
    <2>4. EntryTypeOK'
        BY <1>1, <2>1, <2>3 DEF EntryTypeOK
    <2>5. \A r \in Requests : RequestOK(r)' /\ AccountOK(r)'
        BY <1>1, <1>2, <2>1, <2>3 DEF EntryTypeOK, RequestOK, AccountOK, Claim, PathOK
    <2>6. PathOK' /\ CycOK'
        BY <1>1, <1>2, <2>1, <2>2, <2>3 DEF EntryTypeOK, PathOK, CycOK, Claim
    <2> QED
        BY <2>4, <2>5, <2>6
<1>3. CASE GuardRefuses
    <2>1. order' = [order EXCEPT ![cyc.r] = "UNKNOWN"] /\ Goto("finish")
        BY <1>3 DEF GuardRefuses
    <2>2. cyc' \in Cycles /\ cyc'.pc = "finish" /\ cyc'.r = cyc.r /\ cyc'.ok = FALSE
        BY <1>1, <2>1, GotoCyc DEF Goto, CycOK
    <2>3. UNCHANGED <<req, sent, clock, bar, working, held, local, granted, crashes>>
        BY <1>3 DEF GuardRefuses, outside
    <2>4. EntryTypeOK'
        BY <1>1, <2>1, <2>3 DEF EntryTypeOK
    <2>5. \A r \in Requests : RequestOK(r)' /\ AccountOK(r)'
        BY <1>1, <1>3, <2>1, <2>3 DEF EntryTypeOK, RequestOK, AccountOK, GuardRefuses, PathOK
    <2>6. PathOK' /\ CycOK'
        BY <1>1, <1>3, <2>1, <2>2, <2>3 DEF EntryTypeOK, PathOK, CycOK, GuardRefuses
    <2> QED
        BY <2>4, <2>5, <2>6
<1>4. ASSUME NEW a \in BOOLEAN, NEW b \in BOOLEAN, Send(a, b)
      PROVE  EntryInv'
    <2>1. PICK row \in {"ACKNOWLEDGED", "UNKNOWN"} :
              /\ order' = [order EXCEPT ![cyc.r] = row]
              /\ row = IF b THEN "ACKNOWLEDGED" ELSE "UNKNOWN"
        BY <1>4 DEF Send
    <2>2. /\ working' = IF a THEN working \cup {cyc.r} ELSE working
          /\ sent' = [sent EXCEPT ![cyc.r] = @ + 1]
          /\ b => a
          /\ UNCHANGED <<req, clock, bar, held, local, granted, crashes>>
        BY <1>4 DEF Send
    <2>3. cyc' \in Cycles /\ cyc'.pc = "finish" /\ cyc'.r = cyc.r /\ cyc'.ok = b
        <3> DEFINE c1 == [cyc EXCEPT !.pc = "finish"]
                   c2 == [c1 EXCEPT !.ok = b]
        <3>1. c1 \in Cycles /\ c1.pc = "finish" /\ c1.r = cyc.r
            BY DEF CycOK, Cycles
        <3>2. cyc' = c2
            BY <1>4 DEF Send
        <3> HIDE DEF c1
        <3>3. c2 \in Cycles /\ c2.pc = "finish" /\ c2.r = cyc.r
            BY <3>1 DEF Cycles
        <3>4. c2.ok = b
            BY <3>1, Zenon DEF Cycles
        <3> QED
            BY <3>2, <3>3, <3>4, Zenon
    <2>4. order[cyc.r] = "SUBMITTING" /\ req[cyc.r].st \in {"NONE", "CONSUMING"}
        BY <1>4 DEF Send, PathOK
    <2>5. sent[cyc.r] = 0 /\ cyc.r \notin local
        BY <1>1, <2>4 DEF RequestOK, AccountOK
    <2>6. EntryTypeOK'
        <3>1. sent' \in [Requests -> 0..1]
            BY <1>1, <2>2, <2>5 DEF EntryTypeOK
        <3>2. order' \in [Requests -> {"NONE", "SUBMITTING", "ACKNOWLEDGED", "UNKNOWN",
                                       "FILLED", "CANCELLED"}]
            BY <1>1, <2>1 DEF EntryTypeOK
        <3>3. working' \subseteq Requests
            BY <1>1, <2>2 DEF EntryTypeOK
        <3> QED
            BY <2>2, <3>1, <3>2, <3>3 DEF EntryTypeOK
    <2>7. \A r \in Requests : RequestOK(r)' /\ AccountOK(r)'
        <3> TAKE r \in Requests
        <3>1. CASE r = cyc.r
            BY <1>1, <2>1, <2>2, <2>4, <2>5, <3>1 DEF EntryTypeOK, RequestOK, AccountOK
        <3>2. CASE r # cyc.r
            BY <1>1, <2>1, <2>2, <3>2 DEF EntryTypeOK, RequestOK, AccountOK
        <3> QED
            BY <3>1, <3>2
    <2>8. order'[cyc.r] \in (IF b THEN {"ACKNOWLEDGED", "FILLED", "CANCELLED"} ELSE {"UNKNOWN"})
        BY <1>1, <2>1 DEF EntryTypeOK
    <2>9. PathOK' /\ CycOK'
        BY <1>1, <2>2, <2>3, <2>4, <2>8 DEF PathOK, CycOK
    <2> QED
        BY <2>6, <2>7, <2>9
<1> QED
    BY <1>2, <1>3, <1>4

\* The operator's steps.
LEMMA OperatorSteps ==
    ASSUME EntryInv,
           ListApprovals \/ \E r \in Requests, d \in {"APPROVED", "REJECTED"} : Resolve(r, d)
    PROVE  EntryInv'
<1> USE DEF EntryInv
<1>1. CASE ListApprovals
    <2>1. UNCHANGED <<clock, bar, order, working, held, local, cyc, sent, granted, crashes>>
        BY <1>1 DEF ListApprovals
    <2>2. /\ req' \in [Requests -> [st: {"NONE", "PENDING", "APPROVED", "REJECTED", "EXPIRED",
                                         "CONSUMING", "EXECUTED", "FAILED"}, expires: Nat]]
          /\ \A q \in Requests :
                \/ req'[q].st = req[q].st
                \/ req[q].st \in {"PENDING", "APPROVED"} /\ req'[q].st = "EXPIRED"
        BY <1>1, Expiry DEF ListApprovals
    <2>3. EntryTypeOK'
        BY <2>1, <2>2 DEF EntryTypeOK
    <2>4. \A q \in Requests : RequestOK(q)' /\ AccountOK(q)'
        BY <2>1, <2>2 DEF RequestOK, AccountOK
    <2>5. CycOK' /\ PathOK'
        BY <2>1, <2>2 DEF CycOK, PathOK, Cycles
    <2> QED
        BY <2>3, <2>4, <2>5
<1>2. ASSUME NEW r \in Requests, NEW d \in {"APPROVED", "REJECTED"}, Resolve(r, d)
      PROVE  EntryInv'
    <2>1. PICK st \in {"APPROVED", "REJECTED", "EXPIRED"} :
              /\ req' = [req EXCEPT ![r].st = st]
              /\ req[r].st = "PENDING"
        BY <1>2 DEF Resolve
    <2>2. /\ UNCHANGED <<clock, bar, order, working, held, local, cyc, sent, crashes>>
          /\ granted' = IF req'[r].st = "APPROVED" THEN granted \cup {r} ELSE granted
        BY <1>2 DEF Resolve
    <2>3. EntryTypeOK'
        BY <2>1, <2>2 DEF EntryTypeOK
    <2>4. \A q \in Requests : RequestOK(q)' /\ AccountOK(q)'
        BY <2>1, <2>2 DEF EntryTypeOK, RequestOK, AccountOK
    <2>5. cyc.pc \notin {"idle", "next"} => cyc.r # r /\ cyc.r \in Requests
        BY <2>1 DEF CycOK, PathOK, Cycles
    <2>6. CycOK' /\ PathOK'
        BY <2>1, <2>2, <2>5 DEF EntryTypeOK, CycOK, PathOK
    <2> QED
        BY <2>3, <2>4, <2>6
<1> QED
    BY <1>1, <1>2

\* The steps of the broker, of the supervisor and of the clock.
LEMMA OutsideSteps ==
    ASSUME EntryInv,
           \/ Crash \/ Tick \/ NewBar
           \/ \E r \in Requests : BrokerFill(r) \/ LearnFill(r) \/ LearnCancel(r)
           \/ \E s \in Symbols : Exit(s)
    PROVE  EntryInv'
<1> USE DEF EntryInv
<1>1. CASE Crash
    <2>1. EntryTypeOK'
        BY <1>1, EntryAssumption DEF Crash, EntryTypeOK
    <2>2. \A q \in Requests : RequestOK(q)' /\ AccountOK(q)'
        BY <1>1 DEF Crash, RequestOK, AccountOK
    <2>3. CycOK' /\ PathOK'
        BY <1>1, IdleCyc DEF Crash, CycOK, PathOK
    <2> QED
        BY <2>1, <2>2, <2>3
<1>2. CASE Tick \/ NewBar
    <2>1. EntryTypeOK'
        BY <1>2, EntryAssumption DEF Tick, NewBar, EntryTypeOK, Times
    <2> QED
        BY <1>2, <2>1 DEF Tick, NewBar, RequestOK, AccountOK, CycOK, PathOK
<1>3. ASSUME NEW r \in Requests, BrokerFill(r)
      PROVE  EntryInv'
    <2>1. EntryTypeOK'
        BY <1>3 DEF BrokerFill, EntryTypeOK
    <2> QED
        BY <1>3, <2>1 DEF BrokerFill, RequestOK, AccountOK, CycOK, PathOK
<1>4. ASSUME NEW r \in Requests, LearnFill(r) \/ LearnCancel(r)
      PROVE  EntryInv'
    <2>1. PICK row \in {"FILLED", "CANCELLED"} :
              /\ order' = [order EXCEPT ![r] = row]
              /\ order[r] = "ACKNOWLEDGED"
              /\ local' = IF row = "FILLED" THEN local \cup {r} ELSE local
              /\ working' = IF row = "FILLED" THEN working ELSE working \ {r}
              /\ row = "FILLED" => r \in held
        BY <1>4 DEF LearnFill, LearnCancel, AccountOK
    <2>2. UNCHANGED <<clock, bar, req, held, cyc, sent, granted, crashes>>
        BY <1>4 DEF LearnFill, LearnCancel
    <2>3. EntryTypeOK'
        BY <2>1, <2>2 DEF EntryTypeOK
    <2>4. \A q \in Requests : RequestOK(q)' /\ AccountOK(q)'
        BY <2>1, <2>2 DEF EntryTypeOK, RequestOK, AccountOK
    <2>5. CycOK'
        BY <2>2 DEF CycOK, Cycles
    <2>6. PathOK'
        <3>1. CASE cyc.pc \in {"idle", "next"}
            BY <2>2, <3>1 DEF PathOK
        <3>2. CASE cyc.pc \notin {"idle", "next"} /\ cyc.r = r
            <4>1. cyc.pc = "finish" /\ cyc.ok = TRUE
                BY <2>1, <3>2 DEF PathOK, CycOK, Cycles, RequestOK
            <4>2. order'[cyc.r] \in {"ACKNOWLEDGED", "FILLED", "CANCELLED"}
                BY <2>1, <3>2 DEF EntryTypeOK
            <4> QED
                BY <2>2, <4>1, <4>2 DEF PathOK
        <3>3. CASE cyc.pc \notin {"idle", "next"} /\ cyc.r # r
            BY <2>1, <2>2, <3>3 DEF EntryTypeOK, PathOK, CycOK
        <3> QED
            BY <3>1, <3>2, <3>3
    <2> QED
        BY <2>3, <2>4, <2>5, <2>6
<1>5. ASSUME NEW s \in Symbols, Exit(s)
      PROVE  EntryInv'
    <2>1. EntryTypeOK'
        BY <1>5 DEF Exit, EntryTypeOK
    <2>2. \A q \in Requests : RequestOK(q)' /\ AccountOK(q)'
        BY <1>5 DEF Exit, RequestOK, AccountOK
    <2> QED
        BY <1>5, <2>1, <2>2 DEF Exit, CycOK, PathOK
<1> QED
    BY <1>1, <1>2, <1>3, <1>4, <1>5

-----------------------------------------------------------------------------
(* The theorems                                                            *)

\* The invariant holds in every state of every behaviour.
THEOREM EntryInvariance == EntrySpec => []EntryInv
<1>1. EntryInit => EntryInv
    <2> SUFFICES ASSUME EntryInit PROVE EntryInv
        OBVIOUS
    <2>1. EntryTypeOK
        BY EntryAssumption DEF EntryInit, EntryTypeOK, Times
    <2>2. CycOK /\ PathOK
        BY IdleCyc DEF EntryInit, CycOK, PathOK
    <2>3. \A r \in Requests : RequestOK(r) /\ AccountOK(r)
        BY DEF EntryInit, RequestOK, AccountOK
    <2> QED
        BY <2>1, <2>2, <2>3 DEF EntryInv
<1>2. EntryInv /\ [EntryNext]_entryVars => EntryInv'
    <2> SUFFICES ASSUME EntryInv, [EntryNext]_entryVars PROVE EntryInv'
        OBVIOUS
    <2>1. CASE CycleStep
        <3>1. \/ BeginCycle \/ EndCycle \/ Blocked \/ AskNormal \/ Recheck \/ GuardPasses
              \/ \E s \in Symbols : Consider(s)
              \/ AskHigh \/ Consume \/ Finish
              \/ Claim \/ GuardRefuses \/ \E a, b \in BOOLEAN : Send(a, b)
            BY <2>1, Zenon DEF CycleStep
        <3>2. CASE BeginCycle \/ EndCycle \/ Blocked \/ AskNormal \/ Recheck \/ GuardPasses
            BY <3>2, ThreadSteps
        <3>3. CASE \E s \in Symbols : Consider(s)
            BY <3>3, ConsiderStep
        <3>4. CASE AskHigh \/ Consume \/ Finish
            BY <3>4, RequestSteps
        <3>5. CASE Claim \/ GuardRefuses \/ \E a, b \in BOOLEAN : Send(a, b)
            BY <3>5, OrderSteps
        <3> QED
            BY <3>1, <3>2, <3>3, <3>4, <3>5
    <2>2. CASE Environment
        <3>1. \/ ListApprovals
              \/ \E r \in Requests, d \in {"APPROVED", "REJECTED"} : Resolve(r, d)
              \/ Crash \/ Tick \/ NewBar
              \/ \E r \in Requests : BrokerFill(r) \/ LearnFill(r) \/ LearnCancel(r)
              \/ \E s \in Symbols : Exit(s)
            BY <2>2, Zenon DEF Environment
        <3>2. CASE ListApprovals \/ \E r \in Requests, d \in {"APPROVED", "REJECTED"} : Resolve(r, d)
            BY <3>2, OperatorSteps
        <3>3. CASE \/ Crash \/ Tick \/ NewBar
                   \/ \E r \in Requests : BrokerFill(r) \/ LearnFill(r) \/ LearnCancel(r)
                   \/ \E s \in Symbols : Exit(s)
            BY <3>3, OutsideSteps
        <3> QED
            BY <3>1, <3>2, <3>3
    <2>3. CASE UNCHANGED entryVars
        <3>1. CycOK' /\ PathOK'
            BY <2>3 DEF entryVars, EntryInv, CycOK, PathOK
        <3> QED
            BY <2>3, <3>1, SilentStep DEF entryVars, outside
    <2> QED
        BY <2>1, <2>2, <2>3 DEF EntryNext
<1> QED
    BY <1>1, <1>2, PTL DEF EntrySpec

\* Types: in particular no order is sent twice (sent), whatever the restarts, and
\* the ledger has no position that the account has not.
THEOREM EntryTypeCorrect == EntrySpec => []EntryTypeOK
BY EntryInvariance, PTL DEF EntryInv

\* _maybe_enter_position sends an order on a bar with an approval request only
\* for a request the operator approved, and the request is then used up.
THEOREM OnlyApprovedOrdersAreSent == EntrySpec => []ApprovedOrdersOnly
<1>1. EntryInv => ApprovedOrdersOnly
    BY DEF EntryInv, EntryTypeOK, RequestOK, ApprovedOrdersOnly
<1> QED
    BY <1>1, EntryInvariance, PTL

\* finish_approval_request writes what became of the order: EXECUTED and FAILED
\* agree with the ledger then and ever after.
THEOREM OutcomesAreTrue == EntrySpec => []OutcomeIsTrue
<1>1. EntryInv => OutcomeIsTrue
    BY DEF EntryInv, RequestOK, OutcomeIsTrue
<1> QED
    BY <1>1, EntryInvariance, PTL
=============================================================================
