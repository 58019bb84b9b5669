------------------------------ MODULE KrxRules ------------------------------
(***************************************************************************)
(* The KRX price ladder (broker/kis_market_rules.py) and the prices the    *)
(* program derives from it: the BUY plan of an AI decision                 *)
(* (ai/decision.py) and the limit of a protective SELL                     *)
(* (execution/exit_policy.py).                                             *)
(*                                                                         *)
(* A price that is not yet on the ladder is a fraction r/d of integers; a  *)
(* ladder price is an integer (won).  0 stands for the ValueError that a   *)
(* price normalised to zero raises.  entry * 0.992 and risk * 1.6 are      *)
(* binary floats in the code: where the exact product is a ladder price,   *)
(* the float may lie just below or above it, so Stops and Takes are sets.  *)
(***************************************************************************)
EXTENDS Integers

krx_tick_size(won) ==
    IF won < 2000 THEN 1
    ELSE IF won < 5000 THEN 5
    ELSE IF won < 20000 THEN 10
    ELSE IF won < 50000 THEN 50
    ELSE IF won < 200000 THEN 100
    ELSE IF won < 500000 THEN 500
    ELSE 1000

\* normalize_krx_limit_price(r / d, "buy") and (r / d, "sell").
NormalizeBuy(r, d) ==
    LET tick == krx_tick_size(r \div d)
    IN  (r \div (tick * d)) * tick

NormalizeSell(r, d) ==
    LET tick == krx_tick_size(r \div d)
    IN  ((r + tick * d - 1) \div (tick * d)) * tick

\* validate_risk_reward with its defaults: ratio 1.5, stop distance 0.5 %.
RiskRewardOK(entry, take, stop) ==
    /\ stop < entry /\ entry < take
    /\ 1000 * (entry - stop) >= 5 * entry
    /\ 2 * (take - entry) >= 3 * (entry - stop)

\* Mutant of Stops: the stop is rounded the way a SELL price is.
StopsRoundedUp(entry) == {NormalizeSell(entry * 992, 1000)}

\* _normalize_buy_risk_plan: the stop 0.8 % below the entry, rounded down.
Stops(entry) ==
    {NormalizeBuy(entry * 992, 1000), NormalizeBuy(entry * 992 - 1, 1000)}

\* The target 1.6 times the risk above the entry, rounded up.
Takes(entry, stop) ==
    {NormalizeSell(entry * 10 + 16 * (entry - stop) + e, 10) : e \in {0, 1}}

SlippageBps == 50

\* Mutant of SellLimit: the limit is put one tick below the bid.
SellLimitTickBelow(r, d) == NormalizeBuy(r, d) - krx_tick_size(r \div d)

\* _tick_floor: the limit of a SELL at the last price r / d.
SellLimit(r, d) == NormalizeBuy(r, d)

\* plan_sell_limit accepts that limit: it is positive and not too far below.
SellPlanned(r, d) ==
    LET price == SellLimit(r, d)
    IN  price > 0 /\ (r - d * price) * 10000 <= SlippageBps * r

-----------------------------------------------------------------------------
\* The ladder as the exchange publishes it, up to its last band (external).
Ladder ==
    {[from |-> 1, below |-> 2000, tick |-> 1],
     [from |-> 2000, below |-> 5000, tick |-> 5],
     [from |-> 5000, below |-> 20000, tick |-> 10],
     [from |-> 20000, below |-> 50000, tick |-> 50],
     [from |-> 50000, below |-> 200000, tick |-> 100],
     [from |-> 200000, below |-> 500000, tick |-> 500]}

OnLadder(won) ==
    \/ \E b \in Ladder : b.from <= won /\ won < b.below /\ won % b.tick = 0
    \/ won >= 500000 /\ won % 1000 = 0

\* The plan made of the entry price r / d is on the ladder, is left alone by
\* a second normalisation, and passes validate_risk_reward.
PlanSurvives(r, d) ==
    LET entry == NormalizeBuy(r, d)
    IN  /\ OnLadder(entry)
        /\ NormalizeBuy(entry, 1) = entry
        /\ \A stop \in Stops(entry) :
              /\ OnLadder(stop)
              /\ NormalizeBuy(stop, 1) = stop
              /\ \A take \in Takes(entry, stop) :
                    /\ OnLadder(take)
                    /\ NormalizeSell(take, 1) = take
                    /\ RiskRewardOK(entry, take, stop)
=============================================================================
