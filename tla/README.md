# AutoTrader in TLA+

This directory specifies and checks the parts of `kis_ai_scalper` that can lose
money. The core is how an order decided by the trading cycle is recorded, sent
to KIS, reconciled, cancelled and turned into a position, while several threads,
the operator and the broker act on one SQLite ledger and the process may die at
any point. Around it are models of what decides whether an order is sent at all
(runtime control, lease, approvals, risk figures, AI budget), of what these
decisions rest on (bars, listings, order rows, prices), and of the two
connections to KIS (REST with its limiter and credentials, the notice socket).

## The system

`service_loop` (`cli.py`) runs one process with these actors.

| Part | State it keeps | Operations | Talks to |
|---|---|---|---|
| Order ledger, `storage/database.py` | `broker_orders`, `broker_fills`, `live_position_fill_applications`, `live_positions`, `runtime_metadata`, `runtime_control`, leases, approvals | one method per change, each one SQLite transaction | every thread |
| Trading cycle, `pipeline/auto_trade.py` | none beyond the call stack | gates, exit or entry per symbol, `_submit_with_ledger` | ledger, guard |
| Guarded submitter, `execution/guarded_submitter.py` | none | check, side checks, recheck, send | ledger, KIS |
| Order supervisor thread, `ops/order_supervisor.py` | streaks, clients | fetch, reconcile, operator's cancels, stale cancels, publish flags and status | ledger, KIS |
| Reconciliation, `pipeline/broker_reconciliation.py` | none | book fills, overwrite status, apply fills to positions, compare holdings | ledger |
| Stale orders, `pipeline/order_management.py` | pending markers in the ledger | mark, cancel, remember, settle | ledger, KIS |
| Fill-notice thread, `ops/fill_notice_worker.py`, `pipeline/fill_notice_reconciliation.py` | socket session | apply one notice | ledger |
| Telegram thread, `ops/telegram.py` | update offset, challenge, arm | pause, resume, emergency stop, environment switch, approvals, cancel BUYs | ledger |
| Market data, `market/` | ticks and bars in the ledger, builders in memory | collect a window, save ticks, complete bars | ledger, KIS socket |
| AI client, `ai/` | budget of the process and the day | reserve, post, retry, settle | trading cycle |
| Risk, `risk/`, `ops/performance.py` | none | view of the account, today's result, run of losses, gate | ledger, KIS |
| KIS REST, `broker/` | limiter (shared by threads), credential file (shared by processes) | paced reads with retries, single writes, listings, issue credentials | every thread |
| Exit policy, paper trading, reports | see `PROJECT.json` | compute or observe | |

The threads share the ledger, the rate limiter and the AI budget, and never hold
a transaction over a broker call. What is hard is therefore what happens
*between* their transactions: broker answers and SELECTs that are used after others have
written, answers that are lost, fills that arrive during a cancellation, and
crashes that leave half of a sequence behind. `PROJECT.json` lists these
hazards by source line.

What makes each part correct: an order is sent at most once; entries do not
overlap and exits of one symbol do not overlap; an order working at the broker
is never written off; no share is booked that did not trade, and positions are
exactly the applied fills; a resolved order stays resolved; a pass that could
not apply a fill does not open the next cycle; every numbered order is resolved
in the end. A stop is obeyed by every process and thread; a high-risk entry
needs an approval and uses it once; money is spent on the AI only within the
limits; decisions see whole bars of finished minutes and true risk figures; a
listing has all its pages or raises (a blank cursor and unreadable rows apart,
see Known behaviours), a write is never repeated, calls keep their distance; credentials are issued by one caller at a time; the notice session
comes back, or the operator is told.

## Modules

| Module | Models | State |
|---|---|---|
| `OrderLedger` | the `Database` methods that write orders, fills and positions, one operator each; `materialize_order_fills` is split into its reads and its write because its SELECTs run before its transaction | `orders`, `fillIds`, `booked`, `applied`, `positions`, `marker`, `meta` |
| `KisBroker` | KIS and the exchange as the code uses them (external), and the KRX session | `broker`, `held`, `sent`, `cancels`, `market` |
| `Trader` | the cycle, the two attempts, `_submit_with_ledger`, the guard | `trader` (program counter, order, quantity, symbols left) |
| `Supervisor` | `one_iteration` with reconciliation and both cancellation loops | `supPc`, `snap`, `acct`, `local`, `todo`, `cur`, `mat`, `pass` |
| `OrderFlow` | composition of the above, operator, crashes | `upsets` |
| `OrderLife` | abstract specification: decided once, placed once, filled and ended by the exchange, followed by the ledger, closed for good | `asked`, `place`, `traded`, `known`, `closed` |
| `FillNotices` | `OrderFlow` with the notice worker (service started with `collect_seconds` 0) | `worker` |
| `RuntimeControl` | control row, emergency flag, challenge and arm, lease, `poll_telegram` with redelivery; a command is the sequence of its transactions (`Program`) | `control`, `emergency`, `real`, `lease`, `books`, `tg`, `updates`, `credit` |
| `TradingService` | `RuntimeControl` with service processes: lease, auto-pause and auto-resume, cycle gates, both checks of the guard | `proc`, `late` |
| `EntryDecision` | a cycle from the portfolio view to the order, with approval requests | `req`, `order`, `working`, `held`, `local`, `cyc`, `clock`, `bar`, ... |
| `AIClient` | `UsageBudget` and the retry loop of `decide` | `today`, `budget`, `caller`, `spent` |
| `MarketFeed` | collection windows, reconnects, bar builders, rebuilding of completed bars, the decision that reads them | `now`, `ticks`, `bars`, `win`, `mark`, `crashes` |
| `KisCredentials` | the credential cache, its lock file and cooldown, used by threads and containers | `lock`, `cache`, `call`, and the histories `quiet`, `stolen`, `young` |
| `NoticeSession` | the notice worker's session and its status reports | `w`, `env`, `stop`, `status`, `told`, `rep`, `lost`, `foreign` |
| `KisTransport` | the limiter, retried reads, the paged listings, submit with hash key, cancel | `lock`, `age`, `cool`, `nap`, `pc`, `call` |
| `KisRows`, `KrxRules`, `FillLedger` | pure: reading an order row; price ladder, BUY plan and SELL limit; today's result and the run of losses. Each with a reference definition | |
| `KisAnswers` | `KisTransport` and, beside it, these computations on any price, row or history of fills | `input` |
| `MC*` | small instances | |
| `OrderFlowProofs` | theorems about `OrderFlow` and `FillNotices` | |
| `TradingServiceProofs`, `EntryDecisionProofs`, `AIClientProofs`, `MarketFeedProofs`, `KisCredentialsProofs`, `NoticeSessionProofs`, `KisTransportProofs` | theorems about the module each is named after, the last one about `KisAnswers` too | |

Correspondence, order flow. A `client_order_id` is an element of `Buys` (entry,
one per symbol and bar) or `Sells` (exit of `PositionOf[s]`); a `broker_orders`
row is `orders[o]` with `NONE` for "no row", `bid` for "`broker_order_id` is
set", `req`/`filled` for the quantities. `booked[o]` is the sum of the order's
`broker_fills`, `applied[o]` the part that has a fill-application row. A
position is named by the BUY whose decision opened it, as `position_id` is.
`meta.gate` stands for every condition of `_check_runtime_state` (pause,
environment, emergency stop, lease), which `TradingService` models in full;
`meta.supOk` for a published status "reconciled". Prices and times are
abstracted: whether an AI decision, a risk gate or an exit reason lets an order
through is nondeterministic, an order may reach its TTL at any time in market
hours, and `OffLadder` names the BUYs whose fill price violates their stop/take
ladder. Crashes and operator commands are counted together in `upsets`, bounded
by `MaxUpsets`; `sent` saturates at 2 ("several").

Correspondence, the rest. `EntryDecision` counts minutes; a request and an order
are named by symbol and bar. Deadlines are compared as text in the code, KST
against UTC in the Telegram handler: `TextLag` is the 540 minutes between them.
In `MarketFeed` a unit of time is a fraction `1/PerMinute` of a minute, and a
tick has a price and volume 1. In `KisCredentials` and `KisTransport` time is
what is left of a lock's age, a token's life, a cooldown or an interval.
`KisTransport` has one program for all calls: `Loop` chooses what the caller does
with a page, per listing, and the cursor of a page may be any earlier one or
blank. `dropped` records that a page came with rows that cannot be read, which the
clients leave out. `KisRows` takes a row as what became of the order and lets
each quantity be there, missing or garbled; beside them the row may have a status
word (any of the table's, true or not), a reject flag, and lack its order number
or symbol. `KrxRules` computes with exact
fractions and takes both neighbours where the code's binary float may fall on
either side. Money in `FillLedger` is in ten-thousandths, so costs are exact.

`OrderFlow` is shown to implement `OrderLife` by `Life == INSTANCE OrderLife
WITH ...` (`asked` from the rows, `place` and `traded` from the broker, `known`
from the rows' filled quantity, `closed` from terminal rows): whatever the threads and
crashes do, each step is a step of the abstract life or none.

## Runs

| Run | Instance | Shows |
|---|---|---|
| `entries` | 2 BUYs, 1 share, 1 upset | `SubmittedAtMostOnce`, `BuyExclusion` |
| `exits` | a held position at start-up, 2 SELLs of 2 shares, 1 upset, 1 requote | `LiveIsUnresolved`, `SellExclusion`, `LedgerNeverAhead`, `PositionsMatchFills` |
| `resolution` | 1 BUY of 2 shares, off its ladder, 2 upsets, fair | `ImplementsOrderLife`, `KnownOrdersResolve`, `CleanPassAppliesFills`, and the inductive invariant `IInv`, of which `TypeOK` is a part |
| `notices` | 1 BUY of 2 shares just accepted, the notice worker, 1 upset | `EntriesMatchFills`, `OvercountIsBounded` |
| `control` | 2 processes, one with 2 orders to send, 1 command that may be redelivered, every state of environment, stop, challenge and arm at the start | `StopIsObeyed`, `OneResumePerChallenge`, `StopSettles` |
| `approvals` | 1 symbol, 4 minutes, requests of 2 minutes, 1 restart | `ApprovedOrdersOnly`, `OutcomeIsTrue` |
| `ai_budget` | 2 threads, 1 retry, 3 days, limits of 3 calls a day and 7 in all | `HeldIsInFlight`, `SpendIsBounded`, `DecideReturns` |
| `market_feed` | 1 symbol, 3 ticks of 2 prices, minutes of 2 units, look-back of 3, 1 reconnect, 1 crash | `BarsAreWhole`, `BarsAreOver`, `BarsHeal` |
| `credentials` | 3 callers, 2 crashes | `OneIssuerUnlessStolen`, `CooldownIsKept`, `TokenIsFresh`, `DeadLockIsBroken` |
| `notice_session` | 1 switch, 1 report lost by the database, 1 doubling of the delay | `ConnectedIsSubscribed`, `AtMostOneForeignFrame`, `Resubscribes`, `OutageIsTold`, `StopEnds` |
| `rest_calls` | 2 threads, one call each of any kind, 2 attempts, 4 pages of a listing of up to 4; every row of up to 3 shares with every word and flag; prices 2 to 2100 won and 30 won around each band in tenths; histories of up to 4 fills | `StartsArePaced`, `ListingIsWhole`, `WritesOnce`, `CallsEnd`, `WorkingIsNotTerminal`, `PlansSurvive`, `ExitsAreNotPricedOut`, `RiskFiguresAreTrue` |
| `lost_fill` | 1 BUY and 1 SELL of 2 shares; expected to fail | `ResolvedIsBooked` |

Why the bounds are enough. A two-share order is the smallest that can be filled
partly, cancelled in between and filled late; two BUYs (or two SELLs) are the
least that can overlap; `SYMMETRY` permutes orders that are alike, and at most
one position is open at a time, so no `CHOOSE` separates them. `exits` starts
from `Holding`, the state of a service restarted with an open position, and
`notices` from the states just after the broker accepted an order, which is
where the worker begins to matter; the other runs explore what comes before.
`control` starts from every state an earlier life of the database can leave, so
that one command meets each of them. Three callers are the least that show a
lock broken twice, two deaths the least that show a young lock taken for an old
one; look-back and minutes are chosen so that a minute is cut by
both its ends; with four pages KIS can go back to a cursor older than the last
one, below the page limit or at it, so that remembering every cursor (holdings,
realised result) and remembering the last one (orders) differ.
`rest_calls` and `notice_session` do not check for deadlock: a thread has one
call to make there, and a stopped worker has ended.

`lost_fill` states what a test of the repository says of a cancelled order (its
partial fill is kept) and TLC shows the behaviour against it: `CANCEL_PENDING`
stores the broker's quantity without a fill row, and reconciliation then sees no
difference to book.

Every module also states its type invariant. That of `OrderFlow` is checked by
`resolution`, as a part of `IInv`; all of them are proved.

Fairness.
`FairSpec` (order flow): `WF` of the supervisor's steps, since `service_loop`
starts the thread again whenever it is not alive and the thread loops with a
bounded sleep; of the session, since the trading day ends; of `BrokerCancel`,
since KIS carries out a cancellation or the exchange expires the order at the
close. Nothing is assumed of the trading thread, the operator or fills.
`KnownOrdersResolve` assumes that outages end; it speaks of orders with a broker
number only: an order the guard rejected, or whose answer was lost, has none and
is left to the operator by design of the code.
`ServiceFairSpec`: each process's loop runs (nothing is assumed of Telegram).
`AISpec`, `TransportFairness`: a thread that can run does, time passes, and a
request is answered, refused or timed out (every call has a timeout); not that
it succeeds. `CredSpec`: as these, and callers come back for credentials.
`FeedSpec`: windows are started, end at their deadline, and are followed by a
decision, as `service_loop` does; ticks and reconnects are not assumed.
`SessionSpec`: the worker's loop runs, silence and deadlines are noticed, and a
report the database takes is made in the end. `Resubscribes` alone assumes in
addition that KIS answers what is tried again and again (`KisAnswers`).

## Known behaviours

What the models show beside the properties above. The named formulas are in the
modules, under "What the documentation says and the code does not do" or next to
the property they are stronger than; adding one to the cfg given reproduces the
behaviour.

- A cancel whose answer is lost is sent again: the row becomes UNKNOWN, the next
  reconciliation makes it ACKNOWLEDGED, and it is stale again
  (`order_management.py:187`; its docstring says cancellations are never
  retried). A second cancel of one order changes nothing at KIS.
- A BUY fill that arrives after its position was closed can never be applied:
  the position id is taken (`database.py:697`). `OrderFlow!FillsCanBeApplied`,
  in `lost_fill`.
- Any reason for review stops the whole cycle, exits included (`cli.py:1838`,
  against README.md:201). `OrderFlow!ReviewStillExits`, in `lost_fill`.
- With the notice worker one execution can be booked twice, since notices and
  reconciliation use different fill ids, and an older answer writes the filled
  quantity and a terminal status back (`fill_notice_reconciliation.py:288`,
  `broker_reconciliation.py:153`). `LedgerNeverAhead`, in `notices`. The row of an
  order of several shares can so be FILLED while the order still works, and the
  next status of the order list opens it again; in between the guard
  (`guarded_submitter.py`) finds nothing unresolved and a second entry goes out:
  `BuyExclusion`, in `notices` with `NSpec` and a second BUY. `OvercountIsBounded` and
  `ExclusionWhenCountedOnce` say how far this goes. A SELL fill
  and a BUY fill of one position applied by two threads at once lose one of the
  two, because the position is read before the transaction
  (`database.py:681`); `PositionsMatchFills`, in `notices` with a SELL. Two BUYs of
  one symbol do the same: the guard lets the second one through when the first
  row is FILLED, its fill not yet applied; the supervisor, having read that there
  is no position, and the worker then open one each.
  `FillNotices!AllEntriesMatchFills`, in `notices` with two BUYs of one share.
- Two callers that found the same lock stale remove it one after the other, the
  second time from under its new owner (`kis_auth.py:183`).
  `KisCredentials!OneIssuer`, in `credentials`.
- The lock of a caller that died right after KIS refused it stands in for the
  cooldown it could not store. A waiter that had found the lock of an earlier
  dead caller stale removes the young one instead, and the next caller asks KIS
  within the cooldown (`kis_auth.py:183`). Hence `young` in `CooldownIsKept`;
  without it, the property fails in `credentials`.
- A request can be approved long after its deadline, because the handler's UTC
  text is compared with KST text; it is then found expired when consumed.
  `EntryDecision!ApprovedWhileValid`, in `approvals`.
- The oldest minute of the look-back is rebuilt from the ticks inside it, over a
  bar that had been whole (`completed_bars.py:113`).
  `MarketFeed!EveryBarIsWhole`, in `market_feed`.
- The service resumes the real environment by itself after a pause, without a
  new challenge (`cli.py:480`). `TradingService!RealResumeIsArmed`, in `control`.
- The run of losses counts matched lots, not trades, and is not limited to the
  day: after `CONSECUTIVE_LOSS_LIMIT` losing lots no entry is allowed on any
  later day either, until a held position is sold at a gain
  (`portfolio_snapshot.py:71`).
- Listings: orders and holdings take "more" with a blank cursor for the end,
  where the realised result raises. `get_orders` remembers the last cursor only:
  when KIS goes back further, pages come again (harmless, orders are looked up by
  number) until the page limit raises. An `output1` that is not a list counts as
  an empty page, and malformed rows, among them rows without an order number or a
  six-digit symbol, are left out without an error (`kis_order_status.py:177`, `326`;
  likewise `kis_account.py:119`, `kis_balance.py:88`, `kis_realized_pnl.py:53`), so a
  listing that returns may lack rows: `KisTransport!ListingHasEveryRow`, in
  `rest_calls`. For an open local order reconciliation then reports
  `broker_order_missing` and leaves the row as it is; an order that only the
  broker has goes unnoticed in that pass. `KisBalanceClient.get_positions` reads
  the first page only.
- The status word of an order row and its reject flag are believed before any
  quantity (`kis_order_status.py:148`): a row that says "filled" with shares still
  remaining is read as FILLED and reconciliation writes that. `WorkingIsNotTerminal`
  therefore excepts exactly what KIS itself says, and `OrderFlow` takes the broker's
  status to be true.
- An order answer without `rt_cd` counts as success, a status answer without it
  as failure. The limiter spaces the stamps; a request is sent after its lock is
  released.
- Notice session: the back-off is not reset by a successful connection, the
  deadline of the acknowledgement is looked at only in silence, and one frame of
  the old environment may be applied after a switch.
- The comment at the top of `ops/order_supervisor.py`, that only BUYs are ever
  cancelled, is out of date: `manage_stale_orders` cancels stale SELLs, as the
  repository's README says.

## Proofs

Eight modules hold theorems. Each proves an inductive invariant of its
specification (`...Invariance`), and from it the type invariant and the safety
properties its run checks, for every value of the constants. The assumptions are
the ones the modules name, and TLC evaluates them in every run.

| Specification | Inductive invariant | Theorems (property) |
|---|---|---|
| `OrderFlow` | `IInv` | `TypeCorrect` (`TypeOK`), `NeverSubmittedTwice` (`SubmittedAtMostOnce`), `NoLiveOrderForgotten` (`LiveIsUnresolved`), `OneEntryAtATime` (`BuyExclusion`), `OneExitAtATime` (`SellExclusion`), `NeverAheadOfBroker` (`LedgerNeverAhead`), `CleanPassIsComplete` (`CleanPassAppliesFills`) |
| | `IInv` and `FillsOK` | `PositionsFollowFills` (`PositionsMatchFills`) |
| | `LifeInv` | `ResolvedOrdersAreComplete` (`ResolvedIsComplete`), `FlowImplementsLife` (`ImplementsOrderLife`) |
| `FillNotices` | `NoticeInv` | `NoticeTypeCorrect` (`NTypeOK`), `EntriesFollowFills` (`EntriesMatchFills`) |
| | `CountInv` | `NeverSubmittedTwiceWithNotices` (`SubmittedAtMostOnce`), `OvercountingIsBounded` (`OvercountIsBounded`) |
| | `ExclusionInv` | `ExclusiveWhenCountedOnce` (`ExclusionWhenCountedOnce`) |
| | `SafeInv` | `SafeBeforeFirstNotice` (`SafeUntilFirstNotice`) |
| `TradingService` | `ServiceInv` | `ServiceTypeCorrect`, `StopsAreObeyed` (`StopIsObeyed`), `ResumesArePaidFor` (`OneResumePerChallenge`) |
| `EntryDecision` | `EntryInv` | `EntryTypeCorrect`, `OnlyApprovedOrdersAreSent` (`ApprovedOrdersOnly`), `OutcomesAreTrue` (`OutcomeIsTrue`) |
| `AIClient` | `AIInv` | `AITypeCorrect`, `HeldIsWhatIsInFlight` (`HeldIsInFlight`), `SpendingIsBounded` (`SpendIsBounded`) |
| `MarketFeed` | `FeedInv` | `FeedTypeCorrect`, `RunningMinutesHaveNoBar` (`BarsAreOver`), `DecisionsSeeWholeBars` (`BarsAreWhole`) |
| `KisCredentials` | `CredInv` | `CredTypeCorrect`, `IssuersAreAlone` (`OneIssuerUnlessStolen`), `CooldownsAreKept` (`CooldownIsKept`), `TokensAreFresh` (`TokenIsFresh`) |
| `NoticeSession` | `SessionInv` | `SessionTypeCorrect`, `ConnectedMeansSubscribed` (`ConnectedIsSubscribed`), `OneForeignFrame` (`AtMostOneForeignFrame`) |
| `KisTransport` | `TransportInv` | `TransportTypeCorrect`, `ListingsAreWhole` (`ListingIsWhole`), `WritesTakeEffectOnce` (`WritesOnce`), `RequestsArePaced` (`StartsArePaced`, an action property) |
| `KisAnswers` | `InputOK` | `RowsAreReadSafely` (`WorkingIsNotTerminal`), `PlansAreKept` (`PlansSurvive`), `ExitsAreAccepted` (`ExitsAreNotPricedOut`) |
| | `HistoryOK` | `FiguresAreThoseOfTheShares` (`RiskFiguresAreTrue`) |

### Order flow

Assumed: `OrdersAssumption` and `AttributesAssumption` (finitely many orders,
entries and exits disjoint, every order has a symbol, a position and a positive
lot), `MaxUpsets` and `MaxExitRequotes` natural.

None of the properties is inductive. `IInv` adds

- `InHand`: what the ledger says of the order the trading thread holds at each
  program counter (still `SUBMITTING`, not yet sent, ...);
- `RowsTellTruth`: what a row's status implies about the broker, in particular
  that a terminal row is not open there and quantities never exceed it;
- `SnapshotTrue`: a pass works on an answer that is old but true, and no row is
  ahead of it. This is why overwriting rows from old answers is harmless: a
  terminal status stays terminal and quantities only grow;
- `RowsStillTrue`: only the supervisor changes the quantity of a row it still has
  to handle, so its deltas are right even though the rows are old;
- `EntryAlone`, `ExitAlone`, `SettledEntryAlone`: exclusion while an order is on
  its way to the broker. Exits of a symbol are excluded from the check of
  `_has_unresolved_order` on; entries from the guard on.

The proof has one lemma per kind of step (trader reads, writes and
submission; broker; operator and crash; each supervisor write) on top of lemmas
on the ledger's operators; frame lemmas cover what a step leaves alone.

`PositionsMatchFills` compares a position with two sums over orders. `FillsOK`
adds that a symbol has one open position at most and that what the supervisor
has read is still so when it writes: nobody else applies fills in this mode. The
sums are folds over sets, whose value the prover cannot compute by induction.
`SumExists`, `SumUpdate` and `SumOfZeros` get around this: the fold is a
`CHOOSE` of a function that satisfies the recursion, and where a statement fails
for a finite set it fails for one of least cardinality, which is taken apart by
hand (`LeastElement`).

For the refinement, `LifeInv` adds that terminal rows, and ended orders in the
pass's order list, have everything that traded: no later write may change a
closed order's quantity. Each step is then one of the abstract steps of at most
one order, or none.

### With the notice worker

`IInv` does not survive the third writer (Known behaviours). What does is
`NoticeInv`: types, the orders the threads have in hand, and for a symbol in
which one entry alone was applied and nothing sold, that the position is what was
applied, and that what a thread read for this entry is still right *if nothing
was applied since*. Both threads check that in their transaction (the
fill-application rows are inserted once), so a write from an old read either
finds it still right or changes nothing. The two restrictions, no sale and no
second entry, are exactly where the code loses an update.

`CountInv` is what becomes of `RowsTellTruth`, `SnapshotTrue` and `RowsStillTrue`.
With `Noticed[o]` the number of an order's fills the worker has stored, every
comparison of the ledger with the broker holds up to `Noticed[o]`: a row, and
the fills stored for it, exceed what the broker traded, the order list of the
pass and, for a row still to be handled, the row as the pass read it, by no more
than that. The slack is the same everywhere, so it carries through: when the
worker stores a share, row, fills and `Noticed` grow together; when a pass books
the difference between the order list and its old row, what the worker added
meanwhile is in `Noticed` already. Hence

- nothing is sent twice, and no more is booked than what traded and was noticed;
- a working order has an active row, or one that is FILLED because shares were
  counted twice;
- as long as no order of several shares had a notice stored (`CountedOnce`), its
  row is active and the guard and the look for a pending exit see it, so the
  exclusions hold (`ExclusionInv` is `EntryAlone`, `SettledEntryAlone`,
  `ExitAlone` and `SellExclusion` under that condition, exits symbol by symbol).
  An order of one share may have been noticed: a row that is FILLED then is of an
  order that did fill. The condition needs no memory: fills are never deleted, so
  an order without a noticed fill never had one (`UnnoticedBefore`);
- before any fill is noticed, `IInv` and `FillsOK` hold as they stand (`SafeInv`):
  of what the worker then does, only a rejection writes a row, and it writes what
  the broker says.

### The other modules

- `TradingService`. A process between the two checks of the guard was allowed to
  trade at the first and has sent nothing since (`LateOK`); there is one unit of
  credit for an outstanding arm and one for a challenge or a confirmation under
  way (`CreditOK`). The rest follows the handler through the transactions of a
  command (`HandlerOK`). As in `control`, the beginning is any state an earlier
  life of the database can leave.
- `EntryDecision`. How request and order stand at each step of the cycle
  (`PathOK`), what a request's status says of its order (`RequestOK`), and that
  an acknowledged order works or is in the account (`AccountOK`), without which
  a restart could start an order a second time.
- `AIClient`. The limits cover what is on its way even if every answer costs
  `MaxActual` (`CoveredOK`); `DaysOK` keeps apart the days of the budget, of a
  reservation and of the clock. Assumed: an answer may cost at least its
  estimate.
- `MarketFeed`. `BarsAreWhole` rests on the operators: what a rebuild over the
  look-back makes of a minute that lies in it is what all saved ticks of the
  minute make, duplicates included, and first and last ticks exist
  (well-foundedness of the order on ticks).
- `KisCredentials`. Whoever is inside has the lock file, which is as old as the
  visit (`LockOK`), until one is stolen. A refusal not yet in the cache is that
  of the lock's creator, who will store it or is dead, and the lock is then as
  young as the refusal (`CoolOK`, `Unwritten`). Assumed of the time-outs: the
  time inside is at most the cooldown, that is at most the stale age, and both
  margin and time inside are less than a token's life (30 s, 60 s, 120 s; 60 s,
  about a day).
- `NoticeSession`. What each point of the worker's loop says of socket and
  status; a foreign frame was applied only on the way back to the check of the
  environment (`ForeignOK`).
- `KisTransport`. The holder of the lock will have slept long enough for the
  interval and for any cooldown set meanwhile (`PaceOK`); per call, which pages
  have been taken and which posts made at each stage (`CallOK`). The pages of a
  listing never have a gap, even when KIS goes back (`NoGap`): a cursor is at most
  the number of a page already taken, so a page served is at most one further,
  and the last page is served only after all others; where every cursor is
  remembered, the pages are the first ones in order.
- `KisAnswers`. Nothing moves; the work is in the operators. With shares working,
  no quantity of a row can make it read as rejected, cancelled or filled, whichever
  are missing, so only the word and the flag can (`RowIsReadSafely`). A tick divides both
  ends of its band and is at most a 200th of a price from 200 won on, so rounding
  down stays in the band and within the slippage (`RoundDown`), and rounding up
  lands in the band or on the first price of the next (`RoundUp`). Prices are
  fractions of any denominator `Decimals`; the assumption is that they are two
  won or more.
- `FillLedger`, by way of `KisAnswers`. A history has any number of fills of any
  symbols, with quantities and prices the code does not refuse
  (`HistoriesAssumption`); how the figures come out is shown in three stages.
  The folds over lots, fills and sums are each turned into a function of the
  index that satisfies the recursion (`FoldExists`, `MatchFold`, `BookChain`,
  `TotalFold`, `SumIs`), about which one argues by `Induction`: a set of naturals
  that has 0 and every successor is all of them, from the well-foundedness of
  `<`. Then what the book has: the open lots of a symbol are the shares bought
  and not yet sold, cut where the fills ended (`Cover`), so that matching runs
  out of lots exactly where more was sold than bought (`AnswersWhenSound`).
  Then what it says: after each lot of a SELL, and so after each fill, the
  outcomes are the pieces of the shares sold so far in the order of sale and
  purchase, each with the sign of its result, and the sum is that of the shares
  (`SaleRound`, `TellStep`, `BookTellsAll`). The run of losses is then a
  bijection between the outcomes after the last gain and the pieces `LostSince`
  counts (`LostAre`).

### Model-checked only

- Liveness, which is out of the prover's reach: `KnownOrdersResolve`,
  `StopSettles`, `DecideReturns`, `DeadLockIsBroken`, `BarsHeal`, `Resubscribes`,
  `OutageIsTold`, `StopEnds`, `CallsEnd`.
- `ResolvedIsBooked`, which the code violates (`lost_fill`).

## Not modelled, and the plan

Next: `cli.py` and `ops/telegram.py` beyond the commands that switch, the
supervisor's streaks and throttle.

Left out: the exit policy's life cycle and the position manager of `execution/`
(used by their own tests, not by the service); the paper ledger and its drivers
(single-threaded, in memory, no orders); the supervisor's notification throttle;
watchlist, universe selection, usage figures and reports, which only observe;
HTTP and WebSocket transport, decryption, field names, prompts and indicator
formulas, which keep no shared state or compute with floating-point prices.

Merged or left out inside a modelled part, where no property looks: `EntryDecision`
makes the broker call and the record of its answer one step (`auto_trade.py:669` to
`685`; a crash between them is in `Trader` and `OrderFlow`); `MarketFeed` saves a tick and
the bar it completes in one step (`streaming_collector.py:178`; bars are rebuilt from
the saved ticks). In `KisCredentials` a write of the cache file succeeds unless its
process dies. When `_write_cache` itself fails (`kis_auth.py:162`), the caller gets the
error and the lock is released with nothing stored, a cooldown included, so
`CooldownIsKept` is about a cache that can be written. A token without a stated
expiry is given 23 hours (`kis_auth.py:290`), which the model does not tell from an
expiry KIS states.
