# Monik: a verification development

This directory models, checks and proves parts of Monik (`src/monik`), a Python
asyncio program that looks for arbitrage circles on decentralised exchanges
(Level 1), confirms them at fixed routes (Level 2), reports them to Telegram
and, in the mode `ann`, trades them on its own account.

All of it runs in one event loop over one SQLite file. Concurrency is that of
asyncio: code between two `await`s is atomic, and at every `await` any other
task, a timeout or a cancellation may come in between. An action of a module
here is therefore the code from one such point to the next, and a crash is
possible between any two actions wherever the state on disk outlives it.

Contents: 1 the system, 2 what is hard about it, 3 the modules, 4 the runs,
5 fairness, 6 the proofs, 7 what the code does not keep, 8 not modelled.

## 1. The system

| part | state it keeps | operations | interacts with |
|---|---|---|---|
| Trading (`services/trading/executor.py`, `watcher.py`, `repositories/sqlite/positions.py`) | rows of `positions`, the account on the chain, notices of long waits | `consider`, `settle_buy`, `tick`, `_consider_exit`, `_sell`, `_settle_pending_*`, `mark_notified` | Level 1 calls `consider`; the scheduler calls `tick`; both send through the sender |
| Sender (`services/trading/sender.py`, `chain.py`, `services/rpc.py`) | the lock, numbers at the nodes | `send`, `wait`, failover between endpoints | executor, watcher, resource manager |
| Allowances and wallet (`approvals.py`, `wallet.py`) | allowances on the chain | `ensure_allowance`, signing | scripts of the operator; signing: the sender |
| Priority gate (`services/resources/gate.py`) | counter of active operations, heap of waiters with futures | `acquire`, `release` | the resource manager enters two gates per call |
| Circuit breaker (`services/resources/circuit.py`) | state, streaks, probe slots, rung of the cooldown ladder | `allows_request`, `try_acquire`, `release`, `on_success`, `on_failure` | the resource manager |
| Resource manager (`manager.py`, `limits.py`, `retry.py`, `dedup.py`) | gates, limiters, breakers per scope, requests in flight | `execute` | every outside call |
| Level 1 (`services/level1`) | candidates of a scan, fingerprints, memory of combinations without a route | `scan_all`, `scan`, `is_duplicate`, `remember`, `should_skip`, `create` (hand-off) | scheduler, Level 2, trading |
| Level 2 (`services/level2`) | jobs, opportunities and amount results in SQLite; queue and slots in memory | `submit`, `confirm`, `cancel_all` | Level 1, opportunity service |
| Opportunity service (`services/opportunity`) | statuses of opportunities | `record_confirmation`, `settle_delivery`, `record_delivery` | Level 2, dispatcher |
| Notifications (`services/notifications/dispatcher.py`, `repositories/sqlite/notifications.py`) | rows of `notifications` and of their attempts | `dispatch_pending` | scheduler, Telegram |
| System notifications (`system.py`) | what was reported and when | `notify_startup`, `notify_health`, `notify_operator` and others | health, supervisor, Telegram |
| Telegram (`infrastructure/telegram`) | none | `send`, `fetch` | resource manager |
| Commands (`services/commands`) | the offset of updates in SQLite | `poll_once` | switches, health, scheduler |
| Switches (`app/control.py`) | paused, restart requested, two levels of trading | `start`, `stop`, `request_restart` | commands, scan tasks, executor |
| Recovery (`app/recovery.py`) | none of its own | `recover` | jobs, opportunities, notifications |
| Scheduler (`services/scheduler`) | tasks, next runs, running tasks, the journal | `prepare`, `tick`, `trigger`, `run`, `cancel_all` | every periodic task |
| Application and supervisor (`app/lifecycle.py`, `supervisor.py`) | workers, restarts, phase of the process | start, loops, `supervise`, SAFE_STOP, shutdown | all |
| Database (`infrastructure/db`) | one connection, a lock for writers | `transaction`, reads, migrations | every repository |
| Registries (`services/registries`) | capabilities with status, streak and age; tokens, networks, providers | discovery, `record_success`, `record_failure` | Level 1, adapters |
| Fees, gas, prices (`services/fees`, `gas`, `prices`) | snapshots with ages, running samples | `refresh`, `factor`, `rate`, `invalidate` | Level 1, Level 2, trading |
| Health (`services/health`) | streaks and status per provider, status per component | `record_provider_*`, `application_health` | adapters, commands |
| Calculator (`services/calculator`) | none | profit of a circle | Level 1, Level 2 |
| Provider adapters, HTTP (`infrastructure/providers`, `http`) | none | `quote`, `fixed_route_quote`, `build_swap`, classification of errors | resource manager, health |
| Migrations, backups and updates (`infrastructure/db/runner.py`, `services/backup`, `updates`) | the table of versions, files | `upgrade`, periodic tasks | application, scheduler |
| Configuration, domain, wiring, observability | immutable after start; counters and logs | validation, construction | all |

## 2. What is hard about it, and what makes each part correct

`PROJECT.json` lists the single hazards with their lines. Per part:

* **Trading.** Executor and watcher work on private copies of a row and write
  the whole copy back after several awaits; a transaction outlives the task
  that sent it, the timeout of its receipt and the process. Correct means: no
  transaction is unknown to the database; the status of a deal is true of its
  transactions; nothing is sold that was not bought; what a closed deal was sold for covers
  the gas of all its transactions, reverted sales included;
  what is recorded is brought to its end.
* **Sender.** Numbering, signing and sending under one lock, given up by
  exceptions and cancellation while bytes are on their way to one of several
  nodes. Correct means: sends do not mix, numbers have no gap and without
  faults no collision, every call ends.
* **Gate.** A slot is handed to a future whose task runs later and may have
  been cancelled meanwhile. Correct means: no slot lost, doubled or idle, no
  overtaking, no lost wake-up.
* **Breaker.** Operations admitted in one state report in another. Correct
  means: probe slots do not leak, the circuit opens and closes on a streak only,
  and a resource that works again is used again.
* **Resource manager.** Order of gates and limits, retries that keep or give
  back what they hold, requests in flight shared by several callers. Correct
  means: a waiting retry blocks nobody else, every reservation is used or
  returned, a shared answer is the answer to the caller's own question.
* **Level 1.** Scans of several modes share the window of deduplication, the
  queue and the memory of missing routes, and have a deadline. Correct means: a
  scan that calls itself complete was, duplicates come from a race only, a
  combination is left out only if it was refused often enough, the best results
  are taken, nobody is asked outside his hours, and every scan ends.
* **Answers of providers.** Five adapters read answers in their own ways, and a
  result is put together from costs of different ages. Correct means: a refusal
  is no fault, what is signed can be had, a profit is one in money, and the
  correction of gas follows what trades really cost.
* **Level 2, opportunity service, recovery.** Three separately committed writes
  and an announcement, shutdown and crash between any two, and a recovery that
  may be interrupted itself. Correct means: one verdict that stands, the rows
  agree on it, one announcement, nothing forgotten.
* **Notifications.** At-least-once sending with recorded attempts and an order,
  over a transport shared with two other senders. Correct means: attempts are
  bounded and recorded, a closed note stays closed and was really shown, first
  attempts keep their order, the opportunity gets the outcome of all notes.
* **Scheduler.** Ticks that overlap, runs that are skipped, time out or fail, a
  grid of starts anchored in the journal, and days whose clocks change. Correct
  means: no slot is made up twice, the grid survives, every task runs again, and
  each day of the calendar is served once.
* **Database.** One connection for all tasks, cancellation around `BEGIN`.
  Correct means: no transaction is left open, half of one is never committed, and
  nobody acts on rows that are rolled back. Migrations and backups live through
  stops between any two steps: the table of versions tells the truth, and a sound
  copy is not removed for a bad one.
* **Commands, switches, supervisor.** A command takes effect once, also when it
  restarts the process; what stops the program or spends money was confirmed; a
  stop is told once; SAFE_STOP stops what it says it stops.
* **Health.** Hysteresis over streams of successes, failures and probes of
  several tasks, and messages that may be lost. Correct means: a verdict takes a
  streak, and a lasting outage is told in the end.

## 3. The modules

| modules | models | run |
|---|---|---|
| `Trading`, `TradingProofs`, `MCTrading` | executor and watcher over the rows of deals and the chain | `Trading` |
| `Confirmation`, `Decisions`, `ConfirmationProofs`, `MCConfirmation` | hand-off, Level 2, opportunity service, recovery | `Confirmation` |
| `Delivery`, `DeliveryProofs`, `MCDelivery` | dispatcher, transport, settlement of opportunities | `Delivery` |
| `Level1`, `Level1Proofs`, `MCLevel1` | overlapping scans | `Level1` |
| `Application`, `ApplicationProofs`, `MCApplication` | process, loop, scheduler, journal, poll of the commands | `Application` |
| `Quotes`, `Verification`, `Calibration`, `Selection`, `Scope`, `CircuitBreaker`, composed in `Answers`; `AnswersProofs`, `MCAnswers` | from the answer of a provider to an opportunity | `Answers` |
| `PriorityGate` with `Permits`, `Sender`, `ResourceManager`, `Database`, `Storage`, `Operator`, `Health`, `Supervisor`, `Timing`, composed in `Parts`; `PartsProofs`, `ResourceManagerProofs`, `MCParts` | the parts around the scans | `Parts` |

`Answers` and `Parts` put modules that do not share state into one specification:
`part` says which of them a behaviour is about, the others keep their initial
states. Their properties name those of the modules through INSTANCE, and
`AnswersProofs` and `PartsProofs` prove them of the composition; `MCAnswers` and
`MCParts` only give the constants their values.

### Trading: `Trading`, `TradingProofs`, `MCTrading`

| model | code |
|---|---|
| `db` | the table `positions`; `Position` has its mutable columns |
| `chain`, `base`, `held` | the account and its transactions in the order of their numbers, mined in that order by `Mine` (external) |
| `act["executor"]` | the local variables of `TradeExecutor.consider`: deal, copy of the row, hash, offer, last balance read |
| `act["watcher"]` | those of `PositionWatcher.tick`, which shares `Settle` (`settle_buy`) and `Exit` (`_consider_exit`, `_sell`) with the executor |
| `queue`, `notices` | the rows the tick read at its start, and the notices it collected for the operator |
| `Raise`, `SendUnanswered`, `Restart` | an exception or timeout at an await, a send whose answer is lost, the end of the process |
| `Answers`, `Join` | what a request gets that is merged with one in flight, when `merging` (the setting `deduplicate_in_flight`) |

`Save` writes the task's whole copy, as `update` does: that is the hazard
`NoWayBack` is about. Prices and amounts are small numbers; a purchase brings
`Lot`, an aggregator commits to one of `Offers`, and each transaction costs
`Gas`, so that `ProfitIfSold` computes what `profit_if_sold_for` does.

### Sender: `Sender`

`lock` is the `asyncio.Lock` with its queue; `Number` reads the pending count of
the node that answers, signs and gives the bytes to `flight`; `Answer`,
`Refuse` and `Abandon` end a send; `ArriveLate` brings abandoned bytes to a node
after all, and `Gossip` spreads what one node knows. A node takes a transaction
whose number it has no other transaction for, as `already known` and
`nonce too low` answers say.

### Gate: `Permits`, `PriorityGate`

`Permits` is the abstract gate: a set of waiters, a set of holders, `Limit`; a
permit that is given back goes to a most urgent waiter, and may be taken freely
only if nobody waits. `PriorityGate` has the counter, the heap (a set with the
order of `ResourceRequest.ordering_key`) and the futures: a waiter whose future
is set is `granted` until its task runs, and may be cancelled in that gap
(`GiveUpGranted`, the branch of `_discard` that passes the slot on). It
implements `Permits` with `holding <- Holding`.

### Breaker: `CircuitBreaker`

`b` is the object; callers follow `ResourceManager._execute_controlled`: `Ask`
(the first question), `LeaveQueue`, `Start` (the second question, taking a
probe's slot), `Succeed`, `Fail` and `EndUncounted` (an end the breaker is not
told of, or is told to forget). `Look` is the property `state`, in which OPEN
becomes HALF_OPEN; `Open`, `Closed`, `StepSeconds` and `Cooldown` are the ladder.
`good` and `bad` are a history kept for the properties: the streak of reported
successes, of reported failures.

### Level 2: `Decisions`, `Confirmation`, `ConfirmationProofs`, `MCConfirmation`

`Decisions` is the promise: what is asked gets at most one verdict, which
stands; what is confirmed may be announced, once. `Confirmation` has the rows
(`opp`, `job`, `saved`, `told`), the tasks (`pc`, `result`) and the process
(`app`):

| actions | code |
|---|---|
| `Create`, `Abandon`, `Submit`, `Refuse` | the hand-off's transaction, its cancellation, `submit` and its refusal by a full queue |
| `Enter`, `Look`, `StartJob`, `StartOpp`, `Verify` | `_run` with its semaphore, and `confirm` up to the result |
| `Save`, `CloseJob`, `CloseOpp` | the three commits of `_finish` |
| `Record`, `Publish` | `record_confirmation` and the transaction of the notifications |
| `Raise` | an exception or the time-out of the check, at any of these points |
| `CancelAll`, `CloseDatabase`, `Crash` | shutdown and its end, or the end at once |
| `Start`, `RecoverJob`, `ExpireJob`, `ExpireOpp`, `Resume` | start and `recover`, row by row |
| `Expire` | a deadline passes, of a job or of an opportunity |

`JobStatusFor` and `OppStatusFor` are the two mappings from the results of the
amounts to a status; a result of a check is the set of statuses its amounts got.
The refinement maps `verdict` to the job's status, which is the first of the
rows that carries one.

### Notifications: `Delivery`, `DeliveryProofs`, `MCDelivery`

| model | code |
|---|---|
| `opp`, `note`, `attempts`, `rows`, `cooling` | opportunities, notifications, `notification_attempts`, `next_attempt_at` not reached |
| `prepared`, `queue`, `published` | sequence numbers taken, their order, the order in which the publishing transactions commit |
| `pc`, `batch`, `receipt`, `settled` | the pass: `Claim`, `Begin`, `Send`, `Answer`, `RecordAttempt`, `Verdict`, `Close`, or `RecordRefusal`, `CloseRefusal` for a note that cannot be sent, then `Settle` and `EndPass` |
| `wire`, `others` | whose request the pass waits for; a message of the system or of a command on its way to the first destination |
| `Earlier`, `Before`, `Precedes` | the order in which the dispatcher's query returns due notes: by opportunity, destination and number; a batch is the first `Size` of them, and the pass takes its first each time |
| `Abort`, `AbortOnDuplicate` | an exception at an await; the UNIQUE constraint on the numbers of attempts |
| `Stop`, `Start`, `Requeue`, `Resume` | the end of the process, recovery note by note |

### Resource manager: `ResourceManager`, `ResourceManagerProofs`

An operation (`op`) goes the way of `_execute_controlled`: the gate of its
resource (`EnterGate`), its place in the budget (`Reserve`, `RateLimiter.reserve`,
in seconds from now), the global gate with the permission of the breaker
(`EnterGlobal`), attempts with backoff (`Backoff`, `PayAgain`, `Again`), and `End`,
the `finally` clauses. `joined` and `inFlight` are the registry of requests in
flight; `CancelKeyed` is a caller that leaves a shielded operation behind.

### Level 1: `Level1`, `Level1Proofs`, `MCLevel1`

`leg` is where the run of one token with one amount is (`_run_amount`: buy answers,
sell answers), `failed` the tokens whose cycle an error has ended,
`stats` what the report is made of, `entries` the memory of missing routes,
`recent` the window of deduplication and `queue` the room at Level 2, the last
three shared by the scans. `Answer` draws every kind of answer, `TimesOut` is the
deadline, `Finish`, `Cancel` and `ScanFails` are the ends; `Check`, `HandOver` and
`HandOverFails` are the steps of `_create_opportunities` between awaits.

The trading mode searches with several amounts (`scope.py:147`). `TokenCycle.run`
gathers their runs and is ended by the first error (`CycleFails`), which cancels
none of the others: these `Orphans` keep asking and counting while the scan
chooses and writes its row, and after it (`Late`), where they still change the
memory of missing routes. Of two that wait for the same token and amount after
their scans only the later one is followed, as if the other's answers never came.

### Answers: `Quotes`, `Verification`, `Calibration`, `Selection`, `Scope`

* `Quotes`: one call of an adapter with its attempts. An answer is a status and
  the fields the adapters decide by; `Category`, `Says` and `Parsed` are the
  branches of `HttpProviderAdapter.request` and of each adapter's reasons, and the
  minimum of a swap is computed as each of them does.
* `Verification`: one amount from two quotes to `passed` or not, at Level 1 and 2:
  validity and freshness, fees, gas with the factor of the calibration, its rate
  from quotes, from the node or from the configuration, the result. Time passes
  while each is awaited; decimals are integers, rates fractions.
* `Calibration`: the sums of `GasCalibration`, saves that overlap and fail, restart.
* `Selection`: grouping, ranking and creation of opportunities from candidates.
* `Scope`: what a sweep is about, from settings that the loader accepted, with
  hours within a day and over midnight.

### Application: `Application`, `ApplicationProofs`, `Timing`

`Application` has the process with its loop (`Second`, `Observe`, `Told`, `Tick`),
the ticks under way (`ticks`, `EndTick`), the runner (`active`, `RunEnds`), the
journal and the poll of commands (`Fetch`, `Handle`, `Store`) with signals,
failures and crashes. Time is relative, so that a behaviour has no last second.
`Timing` is the calendar of one daily, weekly or interval task under restarts and
failed runs, in zones whose clocks are put forward or back; the library's
`fold` is modelled by what it does (`Fold`).

### Database: `Database`, `Storage`

`Database` has the asyncio lock, the queue of the connection's thread (`wire`),
which works on whether or not somebody waits for the answer, and what is pending
and committed: a cancellation at any await is an action. `Storage` is the life of
the file: migrations by several builds, statement by statement, and backups with
copy, check, rotation and note.

### Operator, health, supervisor: `Operator`, `Health`, `Supervisor`

`Operator` has the switches, the questions and buttons in the chat (a button of an
old message can be pressed in a later life of the process), the update and the
notice of a stop. `Health` has the counters of one provider beside a history of
its last outcomes, what the notifier reported and remembers, and messages that are
lost. `Supervisor` has workers that
end in every way, several at once, their restarts and the safe stop.

Most modules also hold a few *defects*: plausible errors next
to the definition they are an error of, used by no specification. Substituted for
it they break the property they were written for, which shows that the property
depends on the code and not on the shape of the model.

## 4. The runs

The bounds are constants of the configurations. Symmetry is not used: most runs
check liveness. Deadlock is checked in `Trading`, `Application` and `Level1`, whose
systems must always be able to go on; elsewhere a finite set of requests,
opportunities or calls is used up and the system may stop.

| run | instance | what it shows |
|---|---|---|
| `Trading` (219,588 states) | two deals of one token, three transactions, one fault; money for three stakes, offers on both sides of both thresholds; with requests merged, two transactions | the database knows every transaction (`RecordedBeforeSent`), statuses are true (`BuyStatusIsTrue`), sales follow purchases (`SaleFollowsPurchase`), and pay for the gas of everything that was sent before (`ClosedAtAProfit`), no old copy undoes a result (`NoWayBack`), what is recorded is settled (`RecordedIsSettled`) |
| `Answers` (88,050) | three operations at a breaker with thresholds of two and a ladder of two; every kind of answer, two attempts; five kinds of level, currency and threshold; at most three samples; seven candidates of four routes; four configurations with a day of four hours | `ClosesAfterStreak`, `ResourceReturns`; refusals neither retry nor count against a provider (`RefusalsCostNothing`); the least output that is signed is not above what was quoted and not nothing (`SwapsCanSucceed`); what passes earns money after every cost, and gas in dollars is counted with one correction, to the unit (`ProfitIsReal`); the factor follows new costs and stays measured (`CorrectionIsCurrent`); the best are taken and no room is left (`BestFirst`); hours are kept (`HoursAreKept`) |
| `Parts` (82,401) | four requests of two priorities; three sends, two nodes, two faults; three calls of one resource, two of one key; a transaction, a write and a read with two faults; two builds, two copies; the operator's commands; one provider; two workers; six tasks in three zones | see below |
| `Confirmation` (409,454) | three opportunities, one slot, a queue of two, one stop, one fault, one deadline | `NothingForgotten`, `ImplementsDecisions` (one verdict that stands, one announcement), `AcceptedIsSettled` |
| `Delivery` (473,632) | two opportunities, two destinations, one opportunity unsendable, two attempts, batches of three, one exception, one stop | `AttemptsAreTrue`, `SettledAgrees`, `OutInOrder`, `DeliveryIsSettled` |
| `Application` (183,451) | two tasks of two seconds, a restart command, a message of two seconds, one failure | slots stay on the grid the process began with and none is made up twice (`GridKept`), an update that Telegram has forgotten took effect (`CommandsTakenOnce`), `EveryTaskRuns` |
| `Level1` (78,254) | two modes, two providers, one token, a queue of one, three configurations; in a fourth the trading mode with two amounts | a complete scan had all its answers but those that runs of a failed cycle still wait for (`CompleteMeansAll`), a pause is earned by refusals in a row (`PauseIsEarned`), a duplicate was created by a scan that looked before the other wrote (`DuplicatesAreRaces`), `ScanEnds` |
| `FindFollowed`, `FindMerged`, `FindRepeated`, `FindSafeStop`, `FindLeftOpen` | the smallest instances | a comment or document says it, the code does not do it: section 7 |

`Parts` shows: numbers are used up in order by one send at a time
(`NumbersInOrder`); slots are returned, attempts paid for and pauses kept
(`LimitsAreKept`); a transaction is whole or not at all (`AllOrNothing`); the table
of versions tells the truth (`SchemaIsRecorded`); what stops the program was
confirmed in this life of it and is told once (`StopsAreMeantAndTold`); nothing
works on after the safe stop (`SafeStopIsFinal`); each day of the calendar is
served once (`DaysAreServed`); the gate implements `Permits` (`ImplementsPermits`);
nobody who waits for a slot, a lock or another's answer is forgotten
(`NobodyWaitsForever`); a sound copy is not removed for a worse one
(`GoodCopyRemains`); a verdict takes a full row of outcomes, read off the
history and not off the counters (`StreaksDecide`); a lasting outage is told (`OutagesAreTold`).

Why these bounds are enough for the interesting cases:

* Trading: two deals of *one* token share both balances and the reservation;
  three transactions allow buy, failed sale and second sale, or two buys and a
  sale; one fault is a restart, a lost answer or a timeout at every point. What
  more deals and faults could add is covered by the proofs.
* Confirmation: two accepted jobs compete for one slot and a third is refused
  by the queue of two; the stop falls before, between and after every write.
  One stop is at most one crash: a crash *during* recovery needs two, and is
  covered by the proofs, which hold for every `MaxStops`.
* Delivery: four notes and batches of three make a second pass necessary, two
  attempts distinguish retry from giving up, an unsendable opportunity takes
  the other way through the pass in front of or behind the other one.
* Application: a run that outlasts its interval of two seconds is skipped and
  overtaken; a message of two seconds makes ticks late by a whole interval; the
  restart command ends the process between its effect and its offset.
* Level1: refusals of two scans count against one entry with a threshold of two;
  the queue of one is full after the first hand-off of either scan; two amounts
  are one run that fails and one that is left behind, at any of its steps, and left
  over when the next scan begins. That configuration does without the memory, for
  the number of states; what a run left behind does to the memory is covered by
  the proofs, and more modes, providers, tokens and amounts are covered by the proofs, as are more calls of Sender and
  ResourceManager and more commands of Application.
* Sender: a third call meets both an abandoned and a late transaction. Gate: with
  one slot and a queue of two, one of four requests overflows, and each priority
  is there twice. Breaker: streaks of two distinguish "in a row" from "in total",
  three callers exceed two probes, `MaxOpenings` is above the last rung.
* ResourceManager: two callers of one key and one of none, a global limit of one
  under a limit of two, so that an operation waits for the ceiling after it paid.
* Database: a second writer and a reader meet a transaction at each of its
  statements; two faults cancel it and its rollback.
* Storage: the second build knows a migration the first does not, and is followed
  by it again; two copies are kept of up to four.
* Timing: five days with a change of the clocks on the third, once forward and
  once back in the hour of the task, and once in the hour before midnight.
* Calibration: a halving at three samples and a change of the real cost between
  any two; Verification: each source of a rate, one second too
  old, estimates of two units that the two corrections make three and four, and an
  output whose profit the smaller one leaves and the larger one takes away.
* Health: thresholds of two and three tell a streak from a sum and leave a gap
  between failure and recovery; the history is as long as the longest of
  them. Supervisor: a critical and another worker, two restarts, so that both may
  end at once in every combination.

The smaller limits of Sender, Database and ResourceManager are those of one run
for all; nothing in the modules depends on their values.

## 5. Fairness

Only what the program's own loops and the outside world justify:

* Trading: weak fairness of the watcher's task (the scheduler starts a tick again
  and again), of the executor's task (a running coroutine goes on), and of `Mine`
  (the network goes on producing blocks). No fairness of the start of a deal,
  of acceptable offers or of recovery from faults beyond that.
* Sender, ResourceManager, Database, Gate: weak fairness of each call's own step
  (requests are answered or time out, a released lock wakes its first waiter, a
  set future runs its task), of time, and of the thread of the connection.
  Waiters are not obliged to give up.
* Breaker: weak fairness of time and of asking (scans repeat); strong fairness
  of `Start` and `Succeed`, enabled again and again while the queue and the
  outcome of other callers come in between. `ResourceReturns` assumes that the
  resource is up for good from some time on.
* Confirmation: weak fairness of each opportunity's task and of recovery once
  the process starts. None of hand-off, deadlines, faults, stops.
* Delivery: weak fairness of the pass (scheduled every ten seconds), of recovery,
  of the end of each cooling time, and of the answer to the others' message.
* Application: weak fairness of the seconds, of the loop, of the end of a tick
  whose runs have ended, of each run (a handler ends or times out), of the poll
  and of a shutdown that was begun. None of signals, failures, starts.
* Level1: weak fairness of the deadline of a scan and of the hand-off's next step.
  None of answers: a provider may stay silent, which is what the deadline is for.
* Health: weak fairness of start, of the clock, of the periodic look and probes;
  strong fairness of the delivery of a message that is sent again and again.

## 6. The proofs

All theorems hold for every value of the constants under the named assumptions
of the modules (numbers are naturals, limits at least one, the thresholds
ordered as the validators of the configuration order them, the ladder
increasing).

* **`TradingProofs`**, for requests merged or not: `TypeCorrect`,
  `EverySentIsRecorded`, `RowsNameOwnTransactions`. `Basis` says that whoever works
  on a deal, and every copy in the watcher's queue and notices, is of a row that
  exists and names the deal's own transactions. Where requests are not merged:
  `BuyStatusHolds`, `SalesFollowPurchases`, `NothingClosesAtALoss` and the action
  property `DealsNeverGoBack`. None of them is inductive: whether a row is true
  after a write depends on the private copy that is written. `IInv` therefore
  says of *every* copy (in the executor, in the watcher, in its queue and in its
  notices) what the row says: `Truthful`, that its claims are what the network
  did, and `Current`, that it knows the hash of the buy if the row does. `Stored`
  is about rows and transactions, `Queued`, `Noticed`, `Opening` and `Working`
  about the copies, `Roles` about which task may be where. The step lemmas
  (`OpenKept`, `SettleKept`, `ExitKept`, `WatchKept`, `FaultKept`, `MineKept`) go
  action by action. `NothingClosesAtALoss` needs the account of the gas as well
  (`Audit`): `Counted` says, of every deal without a sale that was lost sight of,
  that the sales on the chain are as many as the row's `sellGas`, and one more
  while a sale is under way, and that the offer of that sale pays for all of them;
  `OfADeal` adds the one buy. `AuditEnds` is the step that counts a sale,
  reverted or not. For `DealsNeverGoBack`, `CopiesMatch` adds that a copy
  with which a buy may still be settled is the row itself while that says BUYING,
  and what FAILED would make of it once it does; `RowStep` lists what a step may do
  to a row. With requests merged most of this is false: see section 7.
* **`ConfirmationProofs`**: `ConfirmationTypeCorrect`, `RowsAgree`,
  `ForgetsNothing`, and `ConfirmationImplementsDecisions`, the refinement. `Row`
  says what the place of a task tells of the rows of its opportunity, and
  `Quiet` that no task runs while the process is down or recovering: this is
  what makes a recovery of rows one by one, itself interrupted or not, safe.
* **`DeliveryProofs`**: `AttemptsAreCounted`, `AttemptsStayTrue`,
  `SettlementsAgree` and the action property `NotesGoOutInOrder`, for every set of
  opportunities, list of destinations, size of a pass and number of attempts and
  stops. Of the order in which notes go out, the invariant has `Distinct` queues
  (a number is taken once) and `InTurn`: what precedes a claimed note and was never
  tried is claimed as well, unless its opportunity is published only later.
  `Claims` and `Records` say what is known of the note that the pass treats at each
  of its writes, `TriesLeft` that every stop grants one more attempt to the note
  under way, `Shown` what the transport's answer is worth while requests are not
  merged. That the first of a batch exists is a lemma about finite sets of notes.
* **`Level1Proofs`**: `CompleteIsComplete`, `PausesAreEarned` and `RacesAreBounded`,
  for every number of modes, providers, tokens and amounts, every route policy,
  threshold and capacity. `Scan` is an account of requests: what is counted and what is
  awaited (`Pending`, a set of pairs whose cardinality each step changes by what
  it asks or answers) make up what was asked, from the first question until the row
  is written, the runs that a failed cycle left behind included. So a scan in which
  nothing failed lacks those runs' outstanding answers and no other. `Memory` says that a pause
  stands on a full count, which never runs ahead of the refusals. `Races` adds to
  the opportunities of a group the scans that have looked and not yet written.
  Modes that hand nothing over never look, so that the bound counts the others.
  Assumed: finitely many modes, providers, tokens and amounts.
* **`ApplicationProofs`**: `CommandsAreTaken`, for every list of commands, every set
  of tasks and any number of failures, where the run has one command, and
  `GridIsKept`, for every set of tasks and intervals. `BatchInOrder` says that a
  batch is a run of consecutive updates and that all before its head took effect,
  `HandledOnce` that the ids in memory are those that took effect in this process.
  `OnGrid` says of a planned slot, of a run under way and of the journal's entry
  that each is a whole number of intervals from the first slot; the arithmetic of
  remainders is in lemmas (`GridCountsDown` and its neighbours).
* **`PartsProofs`**, each theorem about the composition that the run checks:
  * *gate*: `GateTypeCorrect`, `NoSlotIsLost`, `QueueOnlyWhenFull`,
    `QueueIsNotOvertaken` and the refinement `GateImplementsPermits`. The three
    invariants are inductive only together: that a free slot means an empty queue
    needs the counter, and the counter stays within the limit because of it.
  * *sender*: `NumbersAreInOrder`, `OneSendAtATime`. That the numbers have no gap is
    not inductive while a transaction is under way: `Dense` says that those accepted
    are 0 to m - 1 and that the one under way is at most m, whichever node counted.
    `Calm` is what holds until the first fault: the first node knows all, so that
    the count it answers is a fresh number. Assumed: the first node is one of them.
  * *manager*: `LimitsStayKept`, from `LimitsHold` of **`ResourceManagerProofs`**: slots
    are returned, attempts paid for and pauses kept. Pauses are not inductive: `Turns`
    adds that the last reserved turn of a resource is not before the turn anybody
    waits for, so that a new one is a pause after all of them. `PaidAhead` counts
    the payment of an attempt that has not begun. `Configured` is what the validators
    of `ResourceLimits` and `RetryConfig` ask for.
  * *database*: `TransactionsAreWhole` and `LeftOpenInTwoWays`. The difficulty is
    that statements wait in the queue of the connection's thread after their
    sender has gone: `Answers` and `Awaits` tie a task's place to the statements of
    its own that wait, `Progress`, `BodyIsSent` and `PendingIsOfBody` say how much of a
    transaction is written and what still comes behind it, `GivenUpIsUndone` that
    a cancelled transaction has its ROLLBACK in the queue. `OpenIsKnown` is the
    part that a BEGIN which is cut off breaks, or a COMMIT or ROLLBACK that raises
    (`connection.py:236-240` sends nothing after it), and nothing else does: these
    are the two ways to leave a transaction open. The finding `FindLeftOpen` shows
    the first, `EndRaises` is the second.
  * *file*: `SchemaStaysRecorded`, `GoodCopyStaysForGood`; *operator*:
    `StopsStayMeant` with `NoticeRemembered`, what is remembered of the message of a
    stop; *health*: `VerdictsTakeStreaks`, `ToldIsRemembered`; *supervisor*:
    `SafeStopHolds`.
  * *timing*: `DaysStayServed`, for every task, any length of day and week and any
    zones less than a day apart (`TimingAssumption`), looking ahead further than
    anything is down. `InstantIs` says what the code's two readings of a local hour
    come to: the offset before the change is used up to the last hour at which a
    clock shows that time. So runs grow with their days (`RunGrows`) and lie on their
    day or, where the hour is left out, later on it (`RunOnItsDay`), and the next run
    is that of the first wanted day whose run is ahead (`NextRunIs`). `CalendarIsKept`
    is the invariant: runs are where their days put them (`RunsAreRight`), in order
    and `KeptApart`, the journal's entry is the last of them (`LastIsKnown`), the
    planned slot is right (`PlannedIsRight`) and no wanted day since the start was
    passed over (`NoneLeftOut`).
* **`AnswersProofs`**, likewise about the composition:
  * *breaker*: `BreakerTypeCorrect`, `NoProbeSlotIsLost`, `ClosingTakesAStreak`,
    `OpeningTakesAStreak`. `Streaks` ties the counters of the object to the history:
    a counter never exceeds the streak it stands for.
  * *calls*: `RefusalsStayFree`, `SwapsStayPossible`, with `CallIsKnown`,
    `AttemptsCounted` and `QuoteKnown`: what a call's place says of the answer it has
    and of the attempts that were paid, for every set of outputs and slippages.
  * *profit*: `ProfitStaysReal`. `Bought`, `Sold`, `FeesTaken`, `GasTaken`, `RateTaken` and
    `FactorsKept` carry each input of the calculation, with its age, from the await
    where it is read to the verdict.
  * *calibration*: `MeasurementsStay`, if half of what is kept is enough
    (`MaxSamples + 1 >= 2 * MinSamples`). The defaults are such numbers, but the
    configuration demands `max_samples > min_samples` only
    (`config/sections/fees.py:86`), and without the hypothesis it is false.
    `LaterMeasured` says that sums reach the row in the order they were measured.
    `CorrectionFollows` adds that after `MaxSamples` measurements at a new cost the
    factor is nearer to it than to the old one. `Lead` is how far the sums are on the
    new side of the middle, `Gap` what one measurement adds to it. `Leads` is the
    invariant of a sum, with samples, fresh measurements and lead: nothing was halved
    since the cost changed, or once, or twice, or the lead is won (`LeadsGrow`,
    `LeadIsWon`); a halving halves the lead and rounds away less than a `Gap`
    (`ExcessHalved`). It holds of the memory, of the row and of every save under way
    (`AllTracked`), so that a restart from an older row keeps it. Assumed, as
    `TwoCosts`: a history of seven or more, and two costs that are two or more units
    and no small part of themselves apart. The defaults (a hundred samples, costs in
    hundreds of thousands) are far beyond that, and the validators do not ask for it;
    the run checks the same with a history of three.
  * *hours*: `HoursStayKept`, for every length of the day and every configuration.
  * *selection*: `BestStayFirst`, for every list of candidates and every room. A finite
    set can be sorted, an element's place being how many come before it
    (`CanBeSorted`), so that what `sorted` is modelled by exists; the keys of
    `rank_groups` and `rank_candidates` make an order, because the amounts of a mode
    differ (`SelectionAssumption`, from the validators of
    `config/sections/scanner.py`). `BestAreFirst` is the invariant: what is left is in
    order, what is not left was dealt with, and what was created comes before all
    that is left.

Only model-checked:

* every liveness property (`RecordedIsSettled`, `ResourceReturns`,
  `NobodyWaitsForever`, `OutagesAreTold`, `AcceptedIsSettled`, `DeliveryIsSettled`,
  `EveryTaskRuns`, `ScanEnds`): the prover has neither fairness nor ENABLED;
* what the modules state and the code does not keep (section 7), which is false.

No module has a recursive operator.

## 7. What the code does not keep

Shown by a run that ends in a counterexample:

* `FindFollowed`: a restart between sending a buy and writing its hash leaves
  bought tokens that nothing follows.
* `FindMerged`: every message to a destination has one key, so that a note that
  is sent while a system message is under way is closed as sent and never shown.
* `FindRepeated`: the handled updates are in memory and the offset is stored after
  the batch: a restart command is carried out by the next process once more.
* `FindSafeStop`: a failing write of the journal or of the offset ends a task that
  nobody awaits, and SAFE_STOP is not entered.
* `FindLeftOpen`: a task cancelled while its BEGIN is under way leaves a
  transaction open that nobody ends. So does, in the same module, a COMMIT or
  ROLLBACK that raises.

Stated in a module for the reader, without a run. TLC finds a counterexample to
each in an instance of its module as small as those of section 4 (to the first
one with three deals and money for two: `MaxDeals = 3`, `MaxTxs = 4`,
`MaxFaults = 0`, `InitialBase = 4`, `Offers = {6}`):

| property | what happens |
|---|---|
| `Trading!NoMoneyPromisedTwice` | balance and reservation are read in two awaits; a deal that is bought and put on sale in between is counted in neither, so that the next one is promised money that is gone |
| `Trading!AcquiredIsBought`, `ReturnedIsProceeds` | growth of the common balance is counted as the deal's own while another deal moves it |
| `Trading!ClosedCoversAll` | the gas of a sale whose answer was lost (exception, timeout, crash between sending and recording), or of the second of two sales that both tasks send, is in no row: the next sale is agreed to without it. `ClosedAtAProfit` therefore asks for the gas of one buy and one sale only once a sale was lost sight of (the history variable `lost`) |
| `Trading!ClosedIsFinal` | a second sale of a deal, by the other task, writes its copy over the closed row |
| `Trading!BuyStatusIsTrue` without its `~merging` | `receipt` and `send_raw` share one deduplication key per network (`chain.py:390`), so that a query for one receipt is answered with another's and a pending purchase is settled |
| `Sender!NoSharedNumber` | an abandoned send arrives after the next one was numbered |
| `CircuitBreaker!ProbesBounded`, `RungsAreProbes` | operations admitted while closed still run, and report, while the circuit is half open |
| `ResourceManager!OneOperation`, `NoIdleCeiling`, `StartsApart` | a cancelled first caller takes the key away while its operation goes on; a retry waits with the global slot; those who had their turn gather at the global gate and start together |
| `Database!ReadsSeeWhole` | a read between two writes of a transaction sees the first |
| `Confirmation!VerdictsNeverDiffer` | a task ends between the commit of its job and that of its opportunity; recovery reads the opportunity alone and, past the deadline, expires what its job confirmed (`recovery.py:140`) |
| `Confirmation!ConfirmedIsAnnounced` | a crash after the last write of a check and before the publication; recovery looks at `created` and `verifying` only |
| `Confirmation!QueuedIsTaken` | recovery puts interrupted jobs back to `queued`, and nothing takes queued jobs from the database (`claim_queued` has no caller) |
| `Confirmation!CancelledStops` | `cancel_all` ends the tasks that wait for a check; the checks are shielded and go on |
| `Delivery!OthersAreNotBlocked` | an exception between the two writes of `_fail` leaves a recorded number that ends every later pass at the same note |
| `Level1!TimeoutKeepsResults` | the deadline cancels the collection and with it the candidates of the tokens that were done (`scanner.py:207-215`) |
| `Level1!CompleteIsWhole` | an error in the run of one amount ends the cycle of its token while another amount's requests are out (`cycle.py:84`): nothing is counted as failed, and the row says `complete` |
| `Level1!OneForAGroup` | two scans look before either has written: two opportunities of one group |
| `Health!FailuresDoNotImprove`, `OnlyWhatWasTold` | a failure after a failed probe may raise the status; a recovery is told whose outage never was |
| `Scope!NobodyOutsideHours`, `MarkedIsScanned` | a sweep outlasts the window of a provider it asks; a base token that is marked for scanning is not scanned |
| `Timing!NoRunIsLost` | an hour before midnight that the clocks leave out (America/Nuuk): the run comes on the next day, whose own run is then skipped |

Two more that the modules only assume: the halving of the calibration keeps the
correction if `2 * min_samples <= max_samples + 1`, which no validator asks for;
and the key of a fee snapshot (`fees/context.py:48`) has no amount, which is right
as long as every registered policy says that the quote holds the fee.

## 8. Not modelled

* Of the modelled parts: the choice among several candidates and the fee
  arithmetic of an offer, rows written before `raw_base_before_sell` existed
  (`watcher.py:206-230`), receipts without gas, a network without a chain id;
  disabled gates and breakers; a job without its opportunity, the status
  `cancelled` of opportunities, which no code writes; texts of notifications,
  `find_logical`; the concurrency inside one direction of a scan; jitter;
  startup tasks, which depend on nothing; percentages and rounding for display;
  addresses and call data of a swap. The container builds one destination for
  opportunities, and the dispatcher takes any number: the model has two.
* Of the interplay: outside `Database` a transaction is one step and reads see
  committed rows. The database does not keep the second (`ReadsSeeWhole`).
  `Answers` and `Parts` put modules side by side, not through each other:
  where one depends on another (a scan on the breaker, the manager on the gate)
  it takes what the other may answer as a choice.
* Whole parts, with the reason, in `PROJECT.json`: wiring, texts and observability
  have no behaviour of their own that other parts depend on; allowances are set
  by scripts; the methods that would change a capability have no caller, and the
  checks of tokens on the chain only write to the log; the remaining
  repositories are single statements.
