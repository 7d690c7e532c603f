# A verification of the agentic trading floor

TLA+ specifications of the paper-trading floor in `backend/`, model-checked with
TLC on small instances and, where a result should hold for every instance, proved
with TLAPS. Module comments name the functions they model; `PROJECT.json` maps each
definition to its source lines and lists runs, hazards, findings and theorems.

To check a run: `tlc -workers 2 -config decisions.cfg MCDecisions.tla`.
To check the proofs of a module: `tlapm AgentRunsProofs.tla`.

## 1. The system

Two long-lived processes share one SQLite file. The **API** (FastAPI, with one event
loop and a thread pool) serves the dashboard and executes manual runs as asyncio
tasks; the **scheduler** (one event loop) executes scheduled runs. Each run has four
traders; each trader starts MCP tool servers as child processes, runs language-model
stages, and hands structured recommendations to a deterministic pipeline. Nothing but
SQLite transactions (`BEGIN IMMEDIATE` where a read decides a write) and one event
loop per process orders these actors. `compose.yaml` restarts both containers.

| Component | State | Operations | Talks to |
| --- | --- | --- | --- |
| Agent-run lifecycle: `agent_runs.py`, `trading_floor.py`, parts of `api.py`, `observability.py`, `traders.py` | tables `agent_runs`, `cycle_metrics`; `manual_run_tasks` of the API; the coroutines | reserve, retry, execute, cancel, recover by age, recover cycles at scheduler start, graceful stop | every table below, by its traders |
| Risk engine: `decisions/risk.py` | none | size a proposal, evaluate the rules | called by the pipeline |
| Decision pipeline: `decisions/services.py`, `decisions/repository.py`, approval endpoint | `trade_proposals`, `risk_decisions`, `paper_orders`, `execution_results`, `portfolio_value` series, `accounts` | create, evaluate, save, execute, approve by a person, record portfolio values | risk engine, market data, accounts |
| Research and evidence policy: `research/` | none | accept or refuse agent output | pipeline |
| Account store: `accounts.py`, `strategies.py`, `reset.py` | `accounts` (one JSON text per trader) | get, save, deposit, buy, report, change strategy, reset | pipeline writes the same rows |
| Notification outbox: `notifications.py` | table `notification_outbox` | enqueue, start attempt, mark sent, mark failed, dispatch | after `finish`, decisions, circuit |
| Provider health circuit: `observability.py`, `mcp_servers.py` | table `service_health` | register, start, success, failure, open circuit, attribute an exception | MCP clients of all processes, health endpoint |
| Market data: `market/`, `holdings_detail` of `api.py` | cache and status of a process; `market_observations` | observe, retry, fall back, prime, freshness, degrade, value holdings | reservation, pipeline, dashboard |
| Agent stages and cycle budgets: `traders.py`, `observability.py`, `mcp_servers.py` | usage of a cycle; `cycle_metrics`, `decision_telemetry` | connect, search, research, trade, repair, account, time out | circuit, pipeline |
| Migrations and administration: `migrations.py`, `database_admin.py` | schema version, backup files | migrate, backup, restore, prune | run with services stopped |
| Replay lab and evaluation: `product.py`, `evals/` | table `replay_sessions`; `checkpoint.json`, its `.tmp`, `report.json`, `report.md` of a run id | create, reveal; score, checkpoint, resume, report | offline, in threads of the API or on the command line |
| Access, startup, configuration; demo seed; dashboard | no durable state the server relies on | | |

What makes it hard:

* **Concurrency.** API and scheduler interleave between any two transactions; API
  requests run in a thread pool; four traders of a run may work at once, and so may
  traders of *two* runs, since recovery looks at age and not at liveness.
* **Failure.** A process may die between any two transactions. What it leaves open is
  found later by age (runs), by status (cycles) or never (an approval without order).
* **Partial failure.** `gather` without `return_exceptions` leaves sibling traders at
  work after their run has failed. A cycle can fail between two responses, two
  executions, or after all of them.
* **No lock at all** around the market service of a process, the failure counts of a
  circuit, and the directory of an evaluation.
* **Stale reads.** A decision is computed from reads of earlier transactions; a retry
  is granted by reads of earlier transactions.
* **Numbers.** Order sizes come from a binary search, correct only if a smaller
  compliant order is compliant under five interacting limits.

What each component has to keep:

* *Runs*: one open run, one run per request key, one first attempt per snapshot, a
  closed run never changes, every run closes, work only under the lock, a retried run
  had no effect and gets none, an outcome agrees with its cycles for ever.
* *Risk engine*: reduce to the largest compliant size, reject only what no size
  repairs, always decide.
* *Pipeline*: each proposal decided once and executed at most once at the decided size;
  no lost update of cash or shares; no large order without a person; a decision still
  within all limits at the moment it is executed, as far as the code goes; an approval
  followed by its order.
* *Outbox*: attempts are bounded, sent means that the provider accepted the message, a
  duplicate needs a lost answer or an interrupted attempt, every event settles.
* *Cycles*: every response is accounted once and at its price, whatever fails; the
  budget of a cycle bounds what it spends over all stages and repairs, and what trades
  is within it; executions are linked to their cycle (they are not, finding 3); a started
  cycle is closed.
* *Circuit*: an open circuit is closed early only by a success or a stale count; it does
  not stay open for ever because refusals count as failures.
* *Market data*: no price older than the cache's promise, no stale price that does not
  say so, no synthetic price in the place of a real one.
* *Evaluation and replay*: a report has every scenario, decided at its own cutoff, also
  after a resume; progress and reports survive deaths; an outcome is revealed once.

`PROJECT.json` lists each hazard at its line with the property that covers it.

## 2. Modules

```
AgentRunLedger  <--- refinement --- AgentRuns <--- MCAgentRuns
   ^ AgentRunLedgerProofs              ^ AgentRunsProofs

RiskRules <--- RiskSizing <--- MCRiskSizing
   ^  ^           ^ RiskSizingProofs
   |  +------- Decisions <--- MCDecisions
   |              |  ^ DecisionsProofs
   |              | refinement
   +---------- PaperLedger

Outbox  <--- refinement --- Notifications <--- MCNotifications
                                ^ NotificationsProofs

ProviderCircuit <--- TraderCycles <--- MCTraderCycles
                         ^ TraderCyclesProofs
MarketData <--- MCMarketData
   ^ MarketDataProofs
ReplayLab <--- Evaluation <--- MCEvaluation
                   ^ EvaluationProofs
```

**AgentRunLedger** is what readers of `agent_runs` rely on, with no word about
processes: `Reserve`, `Retry`, `Begin`, `Close`.

**AgentRuns** is the two processes. A step is one SQLite transaction or one stretch of
event-loop code without an await. `request[p]` holds a reservation or retry between its
two transactions (`BeginReserve` is `recover_stale`, `CommitReserve` the `BEGIN
IMMEDIATE` of `request`; `BeginRetry` is `retryability`, `CommitRetry` the insertion of
`retry`). `exec[r]` is the `execute_agent_run` coroutine: created (the task exists),
running, an outcome (`cycle_outcome` has read it and `finish` will store it), cancelling
(`CancelledError` is on its way), unwinding (it closed the row at the first cancelled
trader of `gather` while others still close their servers), or raised (it returned after
an exception of one trader while siblings go on). `trader[r][t]` is one `Trader.run`. The
scheduler is `exiting` from the return of its loop until `asyncio.run` has cancelled and
awaited the tasks that are left.
`aged` holds the runs whose request lies more than 20 minutes back; `windowed` the runs
whose `[requested_at, completed_at]` contains a proposal, which is what `retryability`
looks at, whereas `produced` says whose trader made it.

**RiskRules** holds the limits, **RiskSizing** the binary search with one step per
probe, **Decisions** the tables and clients of the pipeline, one action per transaction
(`Propose`, the two reads of an evaluation, `SaveDecision`, `ExecuteDecided`, the two
transactions of the approval endpoint, `RecordValue`), **PaperLedger** what the audit
trail promises. In Decisions the search is replaced by its result,
`IsLargestCompliant`, which RiskSizing is shown to compute.

**Outbox** is what the table `notification_outbox` promises: an event enters once, its
attempts are numbered up to `max_attempts`, an attempt makes a bounded number of calls
of the push tool, credit needs an accepted call, and sent is final. **Notifications** is
the coroutines that serve it, `task[d]` for each: one that publishes the events of a
closed run (`enqueuing`, or `recording` when the run was interrupted and nobody
delivers), asks `ready` (`listing`), starts the push server (`connecting`), claims an
event (`claiming`, `start_attempt`), calls the tool (`pushing`), and records the result
(`crediting`, `failing`); or one that an exception threw into the `except` branch of
`dispatch_pending`, which takes one attempt of every ready event (`draining`,
`dropping`). `accepted[e][n]`, what the provider took, is no column of the table: the
properties relate the table to it. `overdue` holds the events whose attempt began ten
minutes ago.

**ProviderCircuit** is the row of `service_health` and what the clients of other
processes do to it. `reading[o]` is a failure of an outsider on its way into the table:
a failed call whose count `mark_failure` has read and not yet written back, an exception
of its cycle (of a failed call, or of a call that an open circuit refused, whether or not
the provider is up) that is not attributed yet, or the attribution between its two
transactions. **TraderCycles** composes it with `Trader.run`: `at` is the place
in the coroutine, a step ends at an await or a transaction. `call` is the MCP call at
work (its service, the attempt of `connect`, the count `mark_failure` has read), `raised`
the exception on its way as the set of services its message names, `stage` one
`_run_structured_stage` (`used` is `stage_usage`, `hooks` the usage the budget hooks
saw), `usage` the fields `_last_usage` and `_research_usage`, `batch` the pipeline,
`cycle` the row `finish_cycle` writes. `spent` and `lost` are history: what the provider
really charged for, and what the code drops.

**MarketData** is one process's `MarketService` with several threads. A close is its
timestamp; `closes` are those published so far, `now` the clock. `request[t]` walks
through `holdings_detail` (`priming`, `recording`) and `observe` (`looking`, `calling`,
`falling`, `keeping`, `settling`); the two assignments of `_success` that others read
apart, the cache with `_last_success` and then `_degraded`, are two steps. Every cache
setting and fallback policy is an initial state.

**ReplayLab** is `replay_sessions` with concurrent clients. **Evaluation** adds the files
of one run id: an evaluator opens, writes and moves them in separate steps, and a file is
`Torn` from its truncation to the end of its write. `target[e]` is what the open
descriptor of an evaluator points to, which follows the file when another evaluator
renames it. A row of a checkpoint is the clock in its timing.

Abstractions worth knowing:

* Money is exact: prices are whole dollars and amounts tenths of a cent, so the 0.002
  spread is an integer. The code computes in `Decimal` and stores cash as a float; that
  round trip is left out. Percentages are compared by cross-multiplication.
* `MaxPosition` stands for the smaller of `max_position_percentage` and
  `max_symbol_concentration`: the code measures the same ratio against both.
* Universe, freshness and market mode of a proposal are one Boolean, `eligible`.
* Decisions has one account and one symbol; other holdings and sectors are inputs of
  RiskSizing. The value series is its maximum (`peak`); its cap of 512 entries is not
  modelled.
* In AgentRuns a warned cycle is a succeeded one with an `error_summary`, and failed and
  interrupted cycles are one status, since no reader tells them apart.
* `retryability` makes three reads; they are one step. Its first read finds a closed
  row, which is final (`ClosedRowsStay`); traders of that run that are still at work
  may write between the other two reads, and then they are past the recovery window or
  siblings of an exception, which the properties except.
* The next trader to start is any idle one: the semaphore's order is not modelled.
* `ApiStop`, an orderly end of the API, closes what its cancelled tasks close in one step.
  The scheduler's end and the cancel endpoint go through `cancelling` and `unwinding`.
* What follows `finish` (portfolio values, notifications) is not in AgentRuns;
  `RecordValue` of Decisions has the first, Notifications the second. `Publish` there is
  the end of any run; `LaterRun` the end of a run whose own events are none of `Event`,
  but whose dispatcher delivers what it finds.
* In Notifications the order of `ready` (`created_at`) is left open, its limit of 50 is
  above the number of events, and backoff pauses are not steps: a pause before a claim
  is a claim that comes later. A call of the push tool that raises may be repeated by
  the MCP client, whether or not it was accepted; the circuit is one more reason for an
  exception.
* In TraderCycles a token has one price per stage: input and output tokens are not told
  apart, and neither are requests counted (`usage_status`). A stale circuit time is
  `expired` and never becomes current again. Every exception of a call may or may not
  name its service, and the SDK may or may not show the failure of a tool to the model.
  `list_tools` succeeds also while the provider is down, since the client caches it.
  A cancelled coroutine finishes its cycle in one step, without further awaits. The reads
  of account and strategy (`ReadAccount`) may fail or time out; the row of their service
  `paper-accounts`, which nothing here reads, is left out.
* In MarketData `_error_summary` is left out, and other processes' rows of
  `market_observations` appear at the moment they are read, with any past retrieval time.
* In Evaluation strategies are deterministic, so a scenario scored twice has the same row
  up to its clock; metrics and texts are left out.
* The `interval_seconds` mode of the scheduler, which has no run row, is left out.

## 3. What is checked

Twelve runs. Bounds are constants of the `.cfg`, named in the guards that use them:
`MaxCrashes` (crashes, stops and traders that raise), `MaxFaults` (deaths, and in
Notifications failed transactions), `MaxDeaths` (evaluators), `MaxDays` (midnights),
`MaxTime` (the clock of MarketData), `MaxFailures` (where the failure count stops), and
the sets of identifiers: with every `RunId` used the model
refuses a reservation.

| Run | Instance | Shows |
| --- | --- | --- |
| `agent_runs` | 2 runs, 2 traders, one at a time, 1 key, 1 snapshot, 1 fault | `TypeOK`, `WorkUnderLock`, `RetriedRunsAreQuiet`, `OutcomeMatchesCycles`, implements AgentRunLedger |
| `agent_runs_live` | 2 runs, 1 trader, 1 key, 1 snapshot, 1 fault, fairness | `EveryRunCloses` |
| `agent_runs_overlap` | 2 runs, 2 traders, no fault | *violated*: `NoOverlap` |
| `agent_runs_duplicate` | 3 runs, 1 trader, no fault | *violated*: `OneProducerPerSnapshot` |
| `risk_sizing` | 2 sides, orders of 1 to 6 shares, 2 prices, every combination of 4 cash levels, 3 holdings, other holdings, turnover and peak | `Bracket`, `ReducesToLargest`, `RejectsOnlyHopeless`, `Decides` |
| `decisions` | 3 proposals of 5 kinds, 2 pipelines, 2 approval requests, 1 death, 1 midnight | `BooksBalance`, `LargeOrdersHaveAPerson`, `DecisionsStayGood`, implements PaperLedger |
| `decisions_approval` | the same | *violated*: `ApprovalsAreSubmitted` |
| `notifications` | 2 events, 2 dispatchers, 2 attempts, 1 call each, 1 fault, fairness | `NoNeedlessDuplicate`, `EventsSettle`, implements Outbox |
| `trader_cycles` | 2 services, 1 outside client, threshold 2, 1 retry, 1 repair, 1 and 2 turns, 4 tokens, prices 1 and 3, spend 9, responses of 1 or 2 tokens, 2 proposals, fairness | `UsageIsAccounted`, `OverspendBounded`, `PipelineIsWithinBudget`, `OpenStaysOpen`, `EveryCycleCloses`, `CircuitsRecover` |
| `trader_cycles_unlinked` | the same with 1 turn, no retry, no repair, responses of 1 token, no fairness | *violated*: `ExecutionsAreLinked` |
| `market_data` | 2 threads of which 1 values holdings, 1 symbol, instants 0 to 2, freshness 1, cache off or 1, 1 retry, every policy | `ServesRecentClose`, `StaleIsSaid`, `SyntheticNeedsFailure` |
| `evaluation` | 2 evaluators, 3 scenarios of 2 strategies, 1 death, 2 replay clients, 1 replay, fairness | `ReportIsRight`, `TornNeedsReason`, `RevealedOnce`, `ProgressIsKept`, `ReportIsFinal`, `EvaluationSucceeds` |

Why the bounds are enough to be interesting. Two runs are the least for a recovery that
overtakes a live run, for a retry and its parent, and for one process to reserve inside
the other's request; a third run is needed only where a parent is retried twice. Two
traders are the least for siblings that survive an exception and for a partial success.
One fault reaches every place a process can die; the abstract results for any number of
everything are proved (section 4). In `decisions`, three orders are the least for two
executions to overtake a third evaluation; the five recommendations are chosen so that
one is reduced by sizing and waits for a person, one is small, two are sales that
compete for the same shares at different prices, and one is refused; cash, turnover and
position limits each bind for some of them. `risk_sizing` has an input for every limit
on both sides of its boundary, an empty portfolio, and search ranges of even and odd
length. In `notifications` two dispatchers are the least that hold the same ready list
and overtake one another's attempts; two events the least for one to be drained because
the other failed; two attempts the least for a duplicate. Calls that the client repeats
within one attempt are left to the proof, which has any number of them.

`trader_cycles` has budgets that bind on tokens and on spend, so that a stage ends by its
limit of turns, by its own budget and by the final check, and a repair may start with
nothing left; the outside client is what makes two `mark_failure` overlap. In
`market_data` three instants are the least for an entry that was renewed after it was
due; two threads the least for a cache that another thread writes between look-up and
`_success`. In
`evaluation` the third scenario returns to the cutoff of the first, as the next strategy
does, so that the shared clock stands beyond it. `agent_runs` checks the ledger with one
snapshot and one key; two of each take longer than a run may, and the theorem
`ProcessesImplementLedger` covers them.

Each property of a passing run has a mutant in `PROJECT.json`: a change of one definition, as
a plausible bug would make it (the age forgotten in recovery, the lock check dropped
from the second transaction, a middle rounded down, the account of the evaluation
written at execution, what a running attempt has used forgotten, the checkpoint
written in place), under which TLC finds the property violated. The changed bodies
stand in the modules before the definitions they replace, marked "Defect".

Deadlock is checked for AgentRuns, which never stops: a scheduler tick or a client can
always ask again, for Notifications, where runs keep ending, and for the three modules
above, whose cycles, requests and evaluations are started again and again. Decisions and
RiskSizing end (every proposal treated, a decision made), so their runs switch the
deadlock check off.

**Fairness** (of the liveness properties only). Weak fairness of the
coroutines of a run: an event loop runs what is ready, and model calls end by the wall-clock budget.
Of `Age`: time passes. Of `GraceExpires`: it is a timer. Of the second transactions: a
request either crashes or goes on. Of `SchedulerStart`: `restart: unless-stopped`. Of
the scheduled reservation: the loop's timer keeps firing and meets fresh market data
again and again. The last one is an assumption about the provider: a tick that finds
stale data is skipped *before* recovery. Clients and faults have no fairness.
In Notifications (`EventsSettle`): of each dispatcher, whose calls all have time-outs;
of `Delay`: time passes; of some `LaterRun`: the scheduler keeps running, and the end of
each run delivers what earlier ones left. An event that the last dispatcher leaves in
`sending` waits for the next end of a run; no timer looks at the outbox.
In TraderCycles: of the steps of the coroutine, whose awaits all end by a time-out and
the wall-clock budget; of the next cycle. Of `ResetPasses` in a `Pause`, strongly: a pause
is a moment at which no cycle is under way and no failure of an outsider on its way, and
by default the scheduler runs every 60 minutes while the reset time of a circuit is 60
seconds (`CIRCUIT_RESET_SECONDS`). `CircuitsRecover` is said under two conditions: the
providers answer from some moment on, and pauses come again and again. The second is
needed: a client whose calls are refused and whose exceptions are attributed within every
reset time keeps the circuit open although the provider is up, and without the premise TLC
shows that behaviour. In Evaluation
(`EvaluationSucceeds`): of the steps of an evaluator until it dies, and of `Begin`, which
is the person or client asking again; the code itself retries nothing. The property
is that a whole report is reached or that the evaluation is stuck *for good* at a torn
file; a report that is just being written is torn only for that moment.

### Named exceptions

Where the code does less than one would expect, the property carries an exception; each
was removed once to see it violated.

* `aged` in `WorkUnderLock` and `RetriedRunsAreQuiet`: a run past its recovery window is
  closed under a live executor (finding 1). `exec = "raised"` there and in
  `OutcomeMatchesCycles`: `gather` hands on the first exception of a trader and the row is
  closed as failed, while the siblings go on trading. `exec = "unwinding"` in
  `WorkUnderLock` only: `gather` also hands on the first *cancellation*, so a cancelled run
  is closed, and the next may start, while some of its traders still close their servers;
  `RetriedRunsAreQuiet` needs no exception for these, since they decide nothing any more.
* `lost` in `UsageIsAccounted`: `except BadRequestError` replaces the hooks by one bare
  request, so the tokens of the earlier turns of that attempt are charged by the provider
  and missing in the row (`traders.py:423`).
* `StaleRead` in `OpenStaysOpen`: a `mark_failure` that read its count before another
  process opened the circuit writes `closed` over it.
* `via = "persisted"` in `StaleIsSaid` and `SyntheticNeedsFailure`: the last row of
  `market_observations` answers with the flag and source it was stored with.
* `overlapped` in `TornNeedsReason`, `ProgressIsKept`, `ReportIsFinal`: the checkpoint is
  atomic for one evaluator; a second one of the same run id (an experiment asked for
  twice) truncates or moves the same `.tmp`, which can tear the checkpoint, lose rows or
  raise `FileNotFoundError`. A death in the write of `report.json` leaves a torn report
  that stops every later attempt (`Stuck` in `EvaluationSucceeds`), and one right after
  it leaves no `report.md` for ever.

### Findings

Four statements of the documentation have a run whose counterexample shows that they
fail.

1. *"A shared SQLite lock rejects overlapping runs"* (README). The lock is released by
   age. A run older than 20 minutes is interrupted by the next reservation even while
   its traders work, and traders of two runs then work together. A configured
   `max_wall_seconds` decides whether a live run reaches that age; it has no upper
   bound. In the run's trace the second run is a retry of the interrupted one. What does
   hold is `WorkUnderLock`, with the three exceptions it names.
2. *"restart/retry behavior cannot corrupt or duplicate portfolio state"*
   (build-plan). `retryability` does not look at other retries of the same run: after a
   first retry has traded and closed, the failed parent can be retried again on the
   same snapshot.
3. *"each completed decision has trace, latency, and cost metadata"* (build-plan.md, and
   README on the evidence drill-down). Only a cycle that succeeds stores its decision ids
   and telemetry. Orders that were executed before an uncaught exception, a cancellation or
   a time-out (also one that strikes while the servers are closed) belong to a failed or
   interrupted cycle that links none of them.
4. *"records explicit approval and submits that approved paper order idempotently"*
   (README). A death between the two transactions leaves an approved order that the
   endpoint refuses to submit again.

Three more disagreements were met and have no run of their own:

* README: *"Startup also closes orphaned `running` cycle records left by a prior process
  failure"*. `recover_interrupted_cycles` closes every running cycle, also those of a live
  manual run in the API process (`SchedulerStart` of AgentRuns). `OutcomeMatchesCycles`
  shows that stored outcomes are right nevertheless: `finish_cycle` overwrites the record.
* build-plan.md: simulator fallback *"is always surfaced as degraded simulated data"*. The
  observation carries its source, but the status does not last: any later
  success, also a cache hit of another symbol, clears `degraded` while this symbol's price
  is still a fallback, and `_success` of two threads may mix its two assignments (`Keep`,
  `Settle` of MarketData). No property of the status is checked.
* evals/README.md: *"an interrupted run resumes"*. A death in the write of `report.json`
  leaves a torn file that every later attempt fails to parse. `TornNeedsReason` and
  `EvaluationSucceeds` say that this is the only way for one evaluator at a time to stop
  for good.

## 4. What is proved

Every invariant and every action property that a passing run checks is a theorem of its
module's specification, and so are the three refinements. Each proof starts from the
named assumptions on the constants alone.

`AgentRunsProofs`, about `Spec` of AgentRuns for any sets of runs, traders, keys and
snapshots, any concurrency and any number of faults, from `ConstantsAreValid` alone
(the null values are not rows, runs or requests; the numbers are numbers):

* `TypeIsSound`, `WorkIsUnderLock`, `RetriesAreQuiet`: the properties `TypeOK`,
  `WorkUnderLock`, `RetriedRunsAreQuiet` of the run `agent_runs`;
* `OutcomesAreTrue`: the property `OutcomeMatchesCycles`;
* `ProcessesImplementLedger`: the property `ImplementsLedger` of `agent_runs`.

The argument. None of these is inductive. `TableStep` first brings all actions down to
the three writes of the table: an INSERT of a queued row (`Inserting`), `mark_running`
(`Starting`), and a closing status for a set of open rows (`Restating`). The inductive
invariant `IInv` adds to `TypeOK`

* `WorkInv`: coroutines and rows agree. A running coroutine's row has started (so that
  `finish` never closes a queued run as failed, which the ledger forbids), a raised or
  unwinding one's row is closed, a working trader's run is running or excused;
* `ProducedInv`: a proposal lies in the window of its run, or its run is past recovery or
  raised. Without it `retryability`, which reads only windows, would prove nothing about
  what the run produced;
* `RequestInv`: between the two transactions of a retry its run stays `Settled`: closed
  without success, and quiet or excused. This is what makes the gap between the check
  and the INSERT harmless. It holds because a closed run has no trader at work unless it
  is excused (`OnlyWorkCounts`, `SettledStays`);
* `RetryInv`, the same for every retry already in the table; `OneOpen`, which makes a
  `Restating` close at most one row, as the ledger has it.

`OutcomeMatchesCycles` needs one conjunct more, `OutcomeInv`: a run with an outcome is
over, so that none of its traders can still write a success, except for a failed one that
an exception left; and from `cycle_outcome` on an outcome that is not stored yet agrees
with the cycles, which covers the gap between the two transactions. `OverCyclesStay` is the heart: the cycles of a run that is over change
only when the scheduler starts, and `recover_interrupted_cycles` makes interrupted ones
of those that still run, which no clause of the property counts as succeeded.

`AgentRunLedgerProofs`, about AgentRunLedger: `LedgerIsSound` (one open run, one run per
key, one first attempt per snapshot and retries only of unsuccessful runs on their
parent's snapshot) and `ClosedRowsStay`. `ProcessesImplementLedger` carries both over to the
processes, where `TableIsSound` and `ClosedRunsStay` of `AgentRunsProofs` state them: the
ledger's variable is mapped to `run` itself.

`RiskSizingProofs`, about RiskSizing for every policy that satisfies `PolicyIsValid` and
every proposal and portfolio: `SearchKeepsTheAnswer` (`Bracket`) and `SizingIsRight`
(`ReducesToLargest` and `RejectsOnlyHopeless`), with `TypeIsSound` and
`RejectionsAreHopeless` as their parts. The heart is `SmallerComplies`: a size
below a compliant one is compliant, since notional, turnover use, cash use and position
grow with the size while the portfolio value they are compared with does not change.

`NotificationsProofs`, about Notifications for any number of events, dispatchers,
attempts, calls and faults: `TypeIsSound`, `DuplicatesNeedDoubt`
(`NoNeedlessDuplicate`) and `DispatchersImplementOutbox` (`ImplementsOutbox`). Every
step is one of seven kinds (a task leaves, starts an attempt, settles its event, calls;
`ready`; an event enters; a run publishes). The invariant `IInv` adds to `TypeOK`

* `TaskInv`: a task knows its attempt by a number that was granted, a crediting one has
  an accepted call, and the calls of an attempt bound what was accepted for it;
* `PairInv`: no two tasks push for the same attempt of the same event. Recovery by age
  hands an *event* to a second dispatcher while the first is at work, but never a
  number, since `start_attempt` counts upwards;
* `FutureInv`: nothing is accepted for a number that was not granted;
* `OnceInv`: an event without a doubtful call has at most one busy dispatcher, with its
  last number, and only that number can have been accepted. `mark_sent` and
  `mark_failed` name no attempt, and this is why they settle the right one.

Since the dispatchers implement the outbox, what its actions promise holds of the rows:
`SentIsTrue` (an event is marked sent only if the provider accepted its message) and
`OutboxMovesForward` (sent events stay sent, attempts are never counted back, no event
leaves). Both follow from `Outbox!Next` and the types.

`DecisionsProofs`, about Decisions for any proposals, workers, approvers, policy, days and
faults: `TypeIsSound`, `BooksAlwaysBalance` (`BooksBalance`), `DecisionsRemainGood`
(`DecisionsStayGood`), `LargeOrdersNeedAPerson` (`LargeOrdersHaveAPerson`),
`PipelineImplementsLedger` (`ImplementsLedger`), and `TrailStays`: final stages, the
recommended terms and the decided size are never rewritten, and the account moves only
in the step that executes an approved order. `IInv` adds to the properties

* `PipelineInv`: a proposal has one worker at most, and a decision exactly from the step
  on at which its worker knows it. `save_decision` would otherwise meet a second decision;
* `PersonInv`: an approved order was approved by a person or needs none, and what an
  approver holds between its two transactions was approved. `execute_atomic` itself looks
  at the outcome only, so this is where the rule of the large orders comes from;
* `ReadingInv`: what an evaluation has read between its two transactions is the account
  as it still is, unless an execution came between (the proposal is then outdated), and
  the turnover it read is at least the present one, since only executions raise it and
  midnight lowers it. `DecisionsStayGood` after `save_decision` follows from this and the
  monotony of the rules.

`BooksBalance` and the turnover are sums over sets of orders (`MapThenSumSet`, a fold
over a function that `CHOOSE`s an order). That these sums are well defined, natural,
additive, and depend on nothing but the members' values is proved by looking at a
smallest set for which they are not: `SmallestSet` has one among finite sets, from the
well-foundedness of the natural numbers, and so needs no induction theorem.

`TraderCyclesProofs`, about TraderCycles and the circuits it extends, for any budgets,
rates, turns, repairs, retries, thresholds and clients: `TypeIsSound`,
`UsageIsAlwaysAccounted` (`UsageIsAccounted`), `OverspendIsBounded` (`OverspendBounded`),
`PipelineStaysWithinBudget` (`PipelineIsWithinBudget`) and `OpenCircuitsStayOpen` (`OpenStaysOpen`). `IInv` adds

* `UsageInv`, the books of the two stages: what was spent and not lost is in the finished
  attempts of the stage (`used`), seen by the hooks of the running one (`hooks`), or in
  the record of the research stage. `finish_cycle` adds these up in different places,
  depending on where an exception came from;
* `FlowInv`: where `Trader.run` stands determines what was raised, which stage is open
  and whether proposals can exist; `RaisedInv`: tokens are lost only with an exception;
* `RequestInv`: a request is made only within the token budget. One response later the
  overspending is less than that response, and nothing more is requested;
* `CircuitInv`: an open circuit has counted at least the threshold. A failure that closes
  it must have read a smaller count, which is the stale read that the property names.

`EvaluationProofs`, about Evaluation and the replays it extends, for any scenarios,
evaluators, clients and deaths: `TypeIsSound`, `ReportsAreRight` (`ReportIsRight`),
`TornFilesHaveReasons` (`TornNeedsReason`), `OutcomesAreRevealedOnce` (`RevealedOnce`),
`ProgressStays` (`ProgressIsKept`) and `ReportsAreFinal` (`ReportIsFinal`). `IInv` adds

* `RowsInv`: every row in a file or in a store was decided at its own cutoff, wherever it
  was read from, and a whole report has all of them;
* `PlaceInv`: only the two writes have an open file, and the report is opened by an
  evaluator that has every row;
* `SoleInv`: as long as no two evaluators overlapped, the one at work finds the files as
  it left them: the temporary file is what it wrote, the checkpoint has no row that it
  does not have. From this come `ProgressIsKept` and `ReportIsFinal`.

`MarketDataProofs`, about MarketData for any threads and symbols, any clock, freshness,
cache time and retries: `TypeIsSound`, `RecentClosesAreServed` (`ServesRecentClose`),
`StaleIsAlwaysSaid` (`StaleIsSaid`) and `SyntheticIsExcused` (`SyntheticNeedsFailure`),
from `MarketAssumption`. The properties speak
of answers; `IInv` says what makes them true on the way:

* `Holds` of every observation in a cache, a row or a request: a real price was the
  latest close when it was retrieved. It is kept by the clock, since a new close is later
  than anything retrieved before, and by freshness marks, which change neither time;
* `CacheInv`: under `end_of_day` without the simulator policy no entry is synthetic, since
  `prime_cache` looks at the source and `observe` keeps only what `Fine` requests carry;
* `RequestInv`: every request is `Fine`. What it carries holds, was retrieved within one
  TTL before it was asked if it came from cache or provider, and is synthetic only with
  the excuse that the answer will need.
`QuietStep` keeps the invariant for every step of a thread, from a fine request and an
observation that may be stored; `Tick` has a lemma of its own.

Only model-checked: the liveness properties `EveryRunCloses`, `Decides`, `EventsSettle`,
`EveryCycleCloses`, `CircuitsRecover` and `EvaluationSucceeds`, since fairness and ENABLED
are out of the prover's reach. The four runs that expect a violation show executions and
have nothing to prove. The modules use no RECURSIVE operator.

## 5. What is not modelled

* What language models and searches answer, prompts, tracing, and the HTTP of the tool
  servers: their results are arbitrary inputs here (tokens, a tool call, a malformed
  answer, a number of proposals, a failure).
* Research and evidence policy: pure validation; a refused output is an absent step.
* Account store: `report`, `change_strategy`, `deposit` and `reset` are called by hand, by
  tests or by clients outside the agents. `ensure_default_strategies` at the start of a
  process is a read and a write of the account row in two transactions, but only while a
  mandate is blank, before the first cycle of the same process; to overwrite an execution
  it must sleep through a whole cycle of the other process.
* HTTP access control, configuration and startup checks: stateless.
* Dashboard: it polls and renders; the server relies on none of its state.
* Demo seed: once, before the server starts. The listing of experiments reads reports and
  skips torn ones.
* Prices, weights and metrics: arithmetic over data no other part decides by, except for
  order sizes, which RiskSizing has.
* The counters behind the failure rate of a service, latencies, the retirement of
  services, the health payload: written or summed, and read only for display.
* Of notifications: the wording of messages; the conflict of two contents under one key
  (keys carry the run's or the decision's id, and a run closes and publishes once); a
  process that dies between `finish` and the INSERT of the run's events, which loses
  them, since no later run looks for closed runs without events.
* Migrations and administration: run by hand with the services stopped. The unique
  index on open runs that a migration creates is what `OneOpenRun` says.

## 6. Plan

1. **Bounds across cycles**: a circuit that outsiders fail at most a number of times is
   opened at most so often; an evaluation that dies so often scores at most so many rows
   twice. Both want counters that the models do not carry yet.
2. **Runs for the disagreements without one**, as the statements of section 3 that fail:
   the status of the market service, the torn report.
3. **Deeper Decisions**: several symbols, the bounded value series, and the account row
   as read-modify-write of a process that starts beside an execution.
