----------------------------- MODULE OrderLife -----------------------------
(***************************************************************************)
(* What the service promises about its orders, whatever its threads, the   *)
(* broker and crashes do: an order is decided on once and placed at most   *)
(* once, for the quantity decided; the exchange fills it and ends it; the  *)
(* ledger follows the exchange without ever being ahead or going back,     *)
(* closes the order only after the exchange has ended it, and keeps a      *)
(* closed order closed.                                                    *)
(***************************************************************************)
EXTENDS Naturals

CONSTANT Orders

VARIABLES
    asked,    \* shares an order is for; 0 before it is decided on
    place,    \* at the exchange it is "unsent", "working" or "ended"
    traded,   \* shares the exchange filled
    known,    \* shares the ledger has as filled
    closed    \* orders the ledger holds for resolved

lifeVars == <<asked, place, traded, known, closed>>

LifeInit ==
    /\ asked = [o \in Orders |-> 0]
    /\ place = [o \in Orders |-> "unsent"]
    /\ traded = [o \in Orders |-> 0]
    /\ known = [o \in Orders |-> 0]
    /\ closed = {}

Ask(o) ==
    /\ asked[o] = 0
    /\ asked'[o] \in Nat \ {0}
    /\ asked' = [asked EXCEPT ![o] = asked'[o]]
    /\ UNCHANGED <<place, traded, known, closed>>

\* The one submission.
Place(o) ==
    /\ asked[o] > 0 /\ place[o] = "unsent"
    /\ place' = [place EXCEPT ![o] = "working"]
    /\ UNCHANGED <<asked, traded, known, closed>>

\* A share trades; the last one ends the order.
Trade(o) ==
    /\ place[o] = "working" /\ traded[o] < asked[o]
    /\ traded' = [traded EXCEPT ![o] = @ + 1]
    /\ place' = [place EXCEPT ![o] = IF traded[o] + 1 = asked[o] THEN "ended" ELSE @]
    /\ UNCHANGED <<asked, known, closed>>

\* Cancelled, rejected or expired.
End(o) ==
    /\ place[o] = "working"
    /\ place' = [place EXCEPT ![o] = "ended"]
    /\ UNCHANGED <<asked, traded, known, closed>>

\* The ledger catches up with the exchange, wholly or in part.
CatchUp(o) == \E n \in known[o]..traded[o] : known' = [known EXCEPT ![o] = n]

Learn(o) ==
    /\ CatchUp(o)
    /\ UNCHANGED <<asked, place, traded, closed>>

\* The ledger resolves an order that has ended.
Close(o) ==
    /\ place[o] = "ended" /\ o \notin closed
    /\ closed' = closed \cup {o}
    /\ CatchUp(o)
    /\ UNCHANGED <<asked, place, traded>>

LifeNext ==
    \E o \in Orders :
        Ask(o) \/ Place(o) \/ Trade(o) \/ End(o) \/ Learn(o) \/ Close(o)

LifeSpec == LifeInit /\ [][LifeNext]_lifeVars

=============================================================================
