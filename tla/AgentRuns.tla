------------------------------ MODULE AgentRuns ------------------------------
(***************************************************************************)
(* The agent-run lifecycle: the agent_runs and cycle_metrics tables        *)
(* (backend/agent_runs.py, backend/observability.py), the scheduler loop   *)
(* and the execution of a run (backend/trading_floor.py), the manual       *)
(* create, cancel and retry endpoints (backend/api.py) and the cycle of    *)
(* one trader (backend/traders.py, Trader.run).                            *)
(*                                                                         *)
(* Two processes, the API and the scheduler, share one SQLite file. A step *)
(* is one SQLite transaction or one stretch of event-loop code that nothing*)
(* can interrupt. A process handles one request at a time between the two  *)
(* transactions of a reservation or of a retry (request[p]); the other     *)
(* process may step in between. A process may crash or stop at any step;   *)
(* the tables survive, coroutines do not.                                  *)
(***************************************************************************)
EXTENDS Naturals, FiniteSets

CONSTANTS
  RunId,        (* uuid4 values a new agent_runs row may get               *)
  Trader,       (* the fixed roster of traders                             *)
  ManualKey,    (* idempotency keys chosen by dashboard clients            *)
  Snapshot,     (* (market_mode, market_timestamp) pairs                   *)
  Concurrency,  (* AGENT_MAX_CONCURRENCY                                   *)
  MaxCrashes,   (* bound: crashes, stops and telemetry faults of a behaviour *)
  NoRun, NoRow, NoRequest

Process         == {"api", "scheduler"}
ScheduledKey(s) == <<"scheduled", s>>
Key             == ManualKey \cup {ScheduledKey(s) : s \in Snapshot}

VARIABLES
  run,        (* agent_runs, by run_id                                     *)
  aged,       (* runs requested more than 20 minutes ago while still open  *)
  cycle,      (* cycle_metrics.status, by run and trader                   *)
  produced,   (* runs whose traders persisted a trade proposal             *)
  windowed,   (* runs with a proposal created between requested_at and
                 completed_at                                              *)
  exec,       (* the execute_agent_run coroutine of a run                  *)
  owner,      (* the process that runs it                                  *)
  trader,     (* the Trader.run coroutine of a run and trader              *)
  request,    (* the reservation or retry a process is in the middle of    *)
  scheduler,  (* the scheduler process                                     *)
  crashes     (* how much of MaxCrashes is used                            *)

tables == <<run, aged, cycle, produced, windowed>>
memory == <<exec, owner, trader, request, scheduler>>
vars   == <<tables, memory, crashes>>

Ledger == INSTANCE AgentRunLedger WITH ledger <- run

(* A warned cycle is a succeeded one with an error_summary; no reader of    *)
(* cycle_metrics tells a failed cycle from an interrupted one.             *)
CycleStatus == {"none", "running", "succeeded", "warned", "unsuccessful"}
Succeeded   == {"succeeded", "warned"}
Outcome     == {"succeeded", "partial_success", "failed"}
Live        == Outcome \cup {"created", "running", "cancelling", "unwinding"}
ExecState   == Live \cup {"none", "raised"}
Request     == [key : Key, snapshot : Snapshot, of : RunId \cup {NoRun}]

ASSUME ConstantsAreValid ==
  /\ Ledger!NullsAreFresh /\ NoRequest \notin Request
  /\ MaxCrashes \in Nat /\ Concurrency \in Nat \ {0}

Rows     == Ledger!Rows
OpenRows == Ledger!OpenRows
Fresh    == RunId \ Rows

-----------------------------------------------------------------------------
(* Helpers                                                                 *)

Mine(p)     == {r \in RunId : owner[r] = p /\ exec[r] # "none"}
Free(p)     == request[p] = NoRequest /\ \A r \in Mine(p) : exec[r] \notin Outcome
Working(r)  == {t \in Trader : trader[r][t] = "working"}
Tracked(r)  == owner[r] = "api" /\ exec[r] \in Live \ {"unwinding"}   (* manual_run_tasks *)
Exiting(r)  == owner[r] = "scheduler" /\ scheduler = "exiting"
MayWork(r)  == exec[r] \in {"running", "raised"} /\ ~Exiting(r) /\ Free(owner[r])

(* Defect: finish without the status guard in its WHERE clause.            *)
ClosingUnguarded(r, st) == [run EXCEPT ![r].status = st]

(* finish: the UPDATE touches the row only while it is open; otherwise it  *)
(* changes nothing and raises AgentRunConflict.                            *)
Closing(r, st) == IF r \in OpenRows THEN [run EXCEPT ![r].status = st] ELSE run

(* Defect: recovery forgets the age of a row.                              *)
RecoveringAll == [r \in RunId |->
  IF r \in OpenRows THEN [run[r] EXCEPT !.status = "interrupted"] ELSE run[r]]

(* Defect: recovery looks at running rows only.                            *)
RecoveringRunning == [r \in RunId |->
  IF r \in OpenRows \cap aged /\ run[r].status = "running"
  THEN [run[r] EXCEPT !.status = "interrupted"] ELSE run[r]]

(* recover_stale: one UPDATE over all open rows past the recovery window.  *)
RecoveringStale == [r \in RunId |->
  IF r \in OpenRows \cap aged THEN [run[r] EXCEPT !.status = "interrupted"] ELSE run[r]]

(* The process ends: its coroutines are gone.                              *)
ExecWithout(p) == [r \in RunId |->
  IF r \in Mine(p) /\ exec[r] \in Live THEN "none" ELSE exec[r]]

EndTraders(p) == trader' = [r \in RunId |->
  IF r \in Mine(p) THEN [t \in Trader |-> "done"] ELSE trader[r]]

EndCoroutines(p) == exec' = ExecWithout(p) /\ EndTraders(p)

(* The scheduler after its run r: it waits for the next tick, unless it is  *)
(* stopping or AgentRunConflict came out of execute_agent_run, which ends  *)
(* the loop. The manual runs have no loop that waits for them.             *)
AfterRun(r, conflict) ==
  IF owner[r] # "scheduler" THEN scheduler
  ELSE IF conflict \/ scheduler = "stopping" THEN "exiting" ELSE "waiting"

RunEnds(r, conflict) ==
  /\ exec' = [exec EXCEPT ![r] = "none"]
  /\ scheduler' = AfterRun(r, conflict)

-----------------------------------------------------------------------------
Init ==
  /\ run       = [r \in RunId |-> NoRow]
  /\ cycle     = [r \in RunId |-> [t \in Trader |-> "none"]]
  /\ aged      = {} /\ produced = {} /\ windowed = {}
  /\ exec      = [r \in RunId |-> "none"]
  /\ owner     = [r \in RunId |-> "api"]
  /\ trader    = [r \in RunId |-> [t \in Trader |-> "idle"]]
  /\ request   = [p \in Process |-> NoRequest]
  /\ scheduler = "down"
  /\ crashes   = 0

(* Twenty minutes pass since the request of an open run.                   *)
Age(r) ==
  /\ r \in OpenRows \ aged
  /\ aged' = aged \cup {r}
  /\ UNCHANGED <<run, cycle, produced, windowed, memory, crashes>>

-----------------------------------------------------------------------------
(* Reservation: reserve_agent_run and AgentRunRepository.request           *)

(* The SPY observation has been read; recover_stale commits on its own.    *)
BeginReserve(p, k, s) ==
  /\ Free(p)
  /\ IF p = "scheduler" THEN scheduler = "waiting" /\ k = ScheduledKey(s)
                        ELSE k \in ManualKey
  /\ run' = RecoveringStale
  /\ request' = [request EXCEPT ![p] = [key |-> k, snapshot |-> s, of |-> NoRun]]
  /\ UNCHANGED <<aged, cycle, produced, windowed, exec, owner, trader, scheduler, crashes>>

Launch(p, r) ==
  /\ exec'      = [exec EXCEPT ![r] = "created"]
  /\ owner'     = [owner EXCEPT ![r] = p]
  /\ trader'    = [trader EXCEPT ![r] = [t \in Trader |-> "idle"]]
  /\ scheduler' = IF p = "scheduler" THEN "executing" ELSE scheduler

Insert(p, r, row) == run' = [run EXCEPT ![r] = row] /\ Launch(p, r)

NoNewRun == UNCHANGED <<run, exec, owner, trader, scheduler>>

(* The checks both reserving transactions make before their INSERT.        *)
MayInsert(k) == k \notin Ledger!KeysTaken /\ OpenRows = {}

(* Defect: a run that failed or was interrupted gives its snapshot back.    *)
ConsumedUnlessRetryable(s) ==
  s \in {run[r].snapshot : r \in {q \in Rows : ~Ledger!MayRetry(q)}}

(* Any earlier run on the snapshot consumes it, whatever became of it.     *)
Consumed(s) == s \in Ledger!SnapsTaken

(* BEGIN IMMEDIATE ... COMMIT of request, then the caller's reaction: the  *)
(* key is known (no new run), a run is open or the snapshot is consumed    *)
(* (both refused), or a row is queued and its execution task created.      *)
(* With every RunId used the model refuses: a bound of the model.          *)
CommitReserve(p) ==
  /\ request[p] # NoRequest /\ request[p].of = NoRun
  /\ LET q == request[p] IN
       IF MayInsert(q.key) /\ ~Consumed(q.snapshot) /\ Fresh # {}
       THEN \E r \in Fresh : Insert(p, r, Ledger!Queued(q.key, q.snapshot, NoRun))
       ELSE NoNewRun
  /\ request' = [request EXCEPT ![p] = NoRequest]
  /\ UNCHANGED <<aged, cycle, produced, windowed, crashes>>

-----------------------------------------------------------------------------
(* Retry: AgentRunRepository.retryability, retry and the endpoint          *)

(* Defect: the proposals of the attempt are not looked at.                 *)
RetryableByCycles(r) ==
  /\ Ledger!MayRetry(r)
  /\ \A t \in Trader : cycle[r][t] \notin Succeeded

Retryable(r) ==
  /\ Ledger!MayRetry(r)
  /\ \A t \in Trader : cycle[r][t] \notin Succeeded
  /\ r \notin windowed

(* retryability reads in transactions of its own; a refusal changes nothing. *)
BeginRetry(r, k) ==
  /\ Free("api") /\ k \in ManualKey
  /\ r \in Rows /\ Retryable(r)
  /\ request' = [request EXCEPT !["api"] = [key |-> k, snapshot |-> run[r].snapshot, of |-> r]]
  /\ UNCHANGED <<tables, exec, owner, trader, scheduler, crashes>>

(* The key's row is returned when there is one, and launched when it is    *)
(* queued and this process has no task for it; else a fresh row is queued. *)
CommitRetry ==
  /\ request["api"] # NoRequest /\ request["api"].of # NoRun
  /\ LET q     == request["api"]
         known == {e \in Rows : run[e].key = q.key}
     IN \/ /\ MayInsert(q.key)
           /\ \E r \in Fresh : Insert("api", r, Ledger!Queued(q.key, q.snapshot, q.of))
        \/ /\ ~MayInsert(q.key) \/ Fresh = {}
           /\ \E e \in known : run[e].status = "queued" /\ ~Tracked(e) /\ Launch("api", e)
           /\ UNCHANGED run
        \/ /\ ~MayInsert(q.key) \/ Fresh = {}
           /\ \A e \in known : run[e].status # "queued" \/ Tracked(e)
           /\ NoNewRun
  /\ request' = [request EXCEPT !["api"] = NoRequest]
  /\ UNCHANGED <<aged, cycle, produced, windowed, crashes>>

-----------------------------------------------------------------------------
(* Execution: execute_agent_run and _run_cycle                             *)

(* mark_running stands before the try: its conflict leaves the coroutine.  *)
StartRun(r) ==
  /\ exec[r] = "created" /\ Free(owner[r])
  /\ \/ /\ run[r].status = "queued"
        /\ run' = [run EXCEPT ![r].status = "running"]
        /\ exec' = [exec EXCEPT ![r] = "running"]
        /\ UNCHANGED scheduler
     \/ /\ run[r].status # "queued"
        /\ RunEnds(r, TRUE)
        /\ UNCHANGED run
  /\ UNCHANGED <<aged, cycle, produced, windowed, owner, trader, request, crashes>>

(* start_cycle, once the semaphore admits the trader.                      *)
TraderStart(r, t) ==
  /\ MayWork(r) /\ trader[r][t] = "idle"
  /\ Cardinality(Working(r)) < Concurrency
  /\ trader' = [trader EXCEPT ![r][t] = "working"]
  /\ cycle'  = [cycle EXCEPT ![r][t] = "running"]
  /\ UNCHANGED <<run, aged, produced, windowed, exec, owner, request, scheduler, crashes>>

(* The decision pipeline persists a proposal: it is dated inside the       *)
(* window of whichever run is open now.                                    *)
TraderPropose(r, t) ==
  /\ MayWork(r) /\ t \in Working(r)
  /\ produced' = produced \cup {r}
  /\ windowed' = windowed \cup OpenRows
  /\ UNCHANGED <<run, aged, cycle, memory, crashes>>

(* finish_cycle, an UPDATE by cycle_id alone: with or without a warning,   *)
(* or failed by an exception or the wall-clock budget.                     *)
TraderFinish(r, t, st) ==
  /\ MayWork(r) /\ t \in Working(r)
  /\ st \in {"succeeded", "warned", "unsuccessful"}
  /\ trader' = [trader EXCEPT ![r][t] = "done"]
  /\ cycle'  = [cycle EXCEPT ![r][t] = st]
  /\ UNCHANGED <<run, aged, produced, windowed, exec, owner, request, scheduler, crashes>>

(* A trader raises out of Trader.run: start_cycle or finish_cycle could    *)
(* not write. gather hands the first exception to execute_agent_run, which *)
(* closes the run as failed and returns; the sibling coroutines go on.     *)
TraderRaises(r, t) ==
  /\ crashes < MaxCrashes /\ MayWork(r)
  /\ \/ t \in Working(r)
     \/ trader[r][t] = "idle" /\ Cardinality(Working(r)) < Concurrency
  /\ exec'   = [exec EXCEPT ![r] = "raised"]
  /\ trader' = [trader EXCEPT ![r][t] = "done"]
  /\ IF exec[r] = "running"
     THEN run' = Closing(r, "failed") /\ scheduler' = AfterRun(r, r \notin OpenRows)
     ELSE UNCHANGED <<run, scheduler>>
  /\ crashes' = crashes + 1
  /\ UNCHANGED <<aged, cycle, produced, windowed, owner, request>>

(* Defect: the outcome passes a cycle status through.                      *)
OutcomeUnmapped(r) ==
  IF \E t \in Trader : cycle[r][t] = "warned" THEN "warned" ELSE "succeeded"

(* Defect: a cycle that skipped proposals counts as a clean success.       *)
OutcomeIgnoringWarnings(r) ==
  LET ok == {t \in Trader : cycle[r][t] \in Succeeded} IN
  IF ok = Trader THEN "succeeded" ELSE IF ok # {} THEN "partial_success" ELSE "failed"

(* cycle_outcome, over the rows the traders of this run have written.      *)
CycleOutcome(r) ==
  IF \A t \in Trader : cycle[r][t] = "succeeded" THEN "succeeded"
  ELSE IF \E t \in Trader : cycle[r][t] \in Succeeded THEN "partial_success"
  ELSE "failed"

(* All traders returned: cycle_outcome reads the cycles in one transaction, *)
ReadOutcome(r) ==
  /\ exec[r] = "running" /\ Free(owner[r])
  /\ \A t \in Trader : trader[r][t] = "done"
  /\ exec' = [exec EXCEPT ![r] = CycleOutcome(r)]
  /\ UNCHANGED <<tables, owner, trader, request, scheduler, crashes>>

(* and finish stores it in another, with no await in between. A conflict   *)
(* is raised again by the finish in the except branch and leaves the       *)
(* coroutine.                                                              *)
CompleteRun(r) ==
  /\ exec[r] \in Outcome
  /\ run' = Closing(r, exec[r])
  /\ RunEnds(r, r \notin OpenRows)
  /\ UNCHANGED <<aged, cycle, produced, windowed, owner, trader, request, crashes>>

-----------------------------------------------------------------------------
(* Cancellation                                                            *)

(* The cancel endpoint cancels the task of an open run of this process.    *)
CancelManual(r) ==
  /\ Free("api") /\ r \in OpenRows /\ Tracked(r)
  /\ exec' = [exec EXCEPT ![r] = "cancelling"]
  /\ UNCHANGED <<tables, owner, trader, request, scheduler, crashes>>

(* A stop signal ends a waiting scheduler and gives a running cycle time.  *)
SchedulerStop ==
  /\ crashes < MaxCrashes /\ crashes' = crashes + 1
  /\ Free("scheduler") /\ scheduler \in {"waiting", "executing"}
  /\ scheduler' = IF scheduler = "waiting" THEN "exiting" ELSE "stopping"
  /\ UNCHANGED <<tables, exec, owner, trader, request>>

GraceExpires(r) ==
  /\ scheduler = "stopping"
  /\ owner[r] = "scheduler" /\ exec[r] = "running"
  /\ exec' = [exec EXCEPT ![r] = "cancelling"]
  /\ UNCHANGED <<tables, owner, trader, request, scheduler, crashes>>

(* CancelledError has reached a trader in the middle of its cycle, which   *)
(* has closed its servers and records the interruption.                    *)
TraderInterrupted(r, t) ==
  /\ exec[r] \in {"cancelling", "unwinding"} \/ Exiting(r)
  /\ Free(owner[r]) /\ t \in Working(r)
  /\ trader' = [trader EXCEPT ![r][t] = "cancelled"]
  /\ cycle'  = [cycle EXCEPT ![r][t] = "unsuccessful"]
  /\ UNCHANGED <<run, aged, produced, windowed, exec, owner, request, scheduler, crashes>>

(* gather hands on the first cancellation, that of a trader still waiting  *)
(* for the semaphore included: the coroutine closes the run while others   *)
(* unwind. The cancel endpoint does so for a coroutine that never started. *)
(* A row closed by someone else stays as it is.                            *)
FinishInterrupted(r) ==
  /\ exec[r] = "cancelling" /\ Free(owner[r])
  /\ Working(r) = {} \/ \E t \in Trader : trader[r][t] \in {"idle", "cancelled"}
  /\ run' = Closing(r, "interrupted")
  /\ exec' = [exec EXCEPT ![r] = "unwinding"]
  /\ scheduler' = IF owner[r] = "scheduler" THEN "exiting" ELSE scheduler
  /\ UNCHANGED <<aged, cycle, produced, windowed, owner, trader, request, crashes>>

(* The loop has returned; asyncio.run cancels the tasks that are left and  *)
(* waits for them before the process is gone.                              *)
SchedulerExit ==
  /\ scheduler = "exiting"
  /\ \A r \in Mine("scheduler") : Working(r) = {}
  /\ scheduler' = "down"
  /\ EndCoroutines("scheduler")
  /\ UNCHANGED <<tables, owner, request, crashes>>

-----------------------------------------------------------------------------
(* Process faults                                                          *)

(* The process dies at any point, also between two transactions.           *)
Crash(p) ==
  /\ crashes < MaxCrashes /\ crashes' = crashes + 1
  /\ p = "scheduler" => scheduler # "down"
  /\ EndCoroutines(p)
  /\ request' = [request EXCEPT ![p] = NoRequest]
  /\ scheduler' = IF p = "scheduler" THEN "down" ELSE scheduler
  /\ UNCHANGED <<tables, owner>>

(* An orderly stop of the API cancels its tasks, which record what they do *)
(* when cancelled one by one. Here this is one step, and the API is up     *)
(* again at once.                                                          *)
ApiStop ==
  /\ crashes < MaxCrashes /\ crashes' = crashes + 1
  /\ Free("api")
  /\ run' = [r \in RunId |->
       IF r \in Mine("api") /\ exec[r] \in {"running", "cancelling"}
       THEN Closing(r, "interrupted")[r] ELSE run[r]]
  /\ cycle' = [r \in RunId |-> [t \in Trader |->
       IF r \in Mine("api") /\ t \in Working(r) THEN "unsuccessful" ELSE cycle[r][t]]]
  /\ EndCoroutines("api")
  /\ UNCHANGED <<aged, produced, windowed, owner, request, scheduler>>

(* run_every_n_minutes opens with recover_interrupted_cycles: it closes    *)
(* every running cycle, whichever process it belongs to.                   *)
SchedulerStart ==
  /\ scheduler = "down"
  /\ scheduler' = "waiting"
  /\ cycle' = [r \in RunId |-> [t \in Trader |->
       IF cycle[r][t] = "running" THEN "unsuccessful" ELSE cycle[r][t]]]
  /\ UNCHANGED <<run, aged, produced, windowed, exec, owner, trader, request, crashes>>

-----------------------------------------------------------------------------
RunStep(r) ==
  \/ StartRun(r) \/ ReadOutcome(r) \/ CompleteRun(r) \/ FinishInterrupted(r)
  \/ \E t \in Trader :
       \/ TraderStart(r, t) \/ TraderInterrupted(r, t)
       \/ \E st \in CycleStatus : TraderFinish(r, t, st)

Next ==
  \/ \E p \in Process, k \in Key, s \in Snapshot : BeginReserve(p, k, s)
  \/ \E p \in Process : CommitReserve(p) \/ Crash(p)
  \/ \E r \in RunId, k \in ManualKey : BeginRetry(r, k)
  \/ CommitRetry \/ SchedulerStart \/ SchedulerStop \/ SchedulerExit \/ ApiStop
  \/ \E r \in RunId : RunStep(r) \/ Age(r) \/ CancelManual(r) \/ GraceExpires(r)
  \/ \E r \in RunId, t \in Trader : TraderPropose(r, t) \/ TraderRaises(r, t)

Spec == Init /\ [][Next]_vars

(* Fairness: event loops run what is ready, time passes, the container     *)
(* runtime restarts the scheduler (compose.yaml: unless-stopped) and its   *)
(* timer keeps firing with a fresh observation.                            *)
Fairness ==
  /\ \A r \in RunId : WF_vars(RunStep(r)) /\ WF_vars(Age(r)) /\ WF_vars(GraceExpires(r))
  /\ \A p \in Process : WF_vars(CommitReserve(p))
  /\ WF_vars(CommitRetry) /\ WF_vars(SchedulerStart) /\ WF_vars(SchedulerExit)
  /\ WF_vars(\E s \in Snapshot : BeginReserve("scheduler", ScheduledKey(s), s))

FairSpec == Spec /\ Fairness

-----------------------------------------------------------------------------
(* Properties                                                              *)

TypeOK ==
  /\ run \in [RunId -> Ledger!Row \cup {NoRow}]
  /\ aged \subseteq Rows /\ produced \subseteq Rows /\ windowed \subseteq Rows
  /\ cycle \in [RunId -> [Trader -> CycleStatus]]
  /\ exec \in [RunId -> ExecState]
  /\ owner \in [RunId -> Process]
  /\ trader \in [RunId -> [Trader -> {"idle", "working", "done", "cancelled"}]]
  /\ request \in [Process -> Request \cup {NoRequest}]
  /\ scheduler \in {"down", "waiting", "executing", "stopping", "exiting"}
  /\ crashes \in 0..MaxCrashes

(* The two processes, with all their crashes and half-done requests, keep  *)
(* the promises of the agent_runs table: request, retry, mark_running,     *)
(* finish and recover_stale are exactly the ledger's steps.                *)
ImplementsLedger == Ledger!Spec

(* A trader works only under the lock of a running row. The three ways out *)
(* are a run older than its recovery window (recover_stale closes it under *)
(* a live executor), a run whose executor left by an exception of one      *)
(* trader while gather's siblings went on, and a cancelled run whose       *)
(* siblings still close their servers; these decide nothing any more.      *)
WorkUnderLock ==
  \A r \in RunId : Working(r) # {} =>
    /\ r \in Rows
    /\ run[r].status = "running" \/ r \in aged \/ exec[r] \in {"raised", "unwinding"}

(* A run that was retried had no succeeded cycle and no proposal, and gets *)
(* none later, with the first two of these exceptions: what "only when no  *)
(* cycle succeeded and no paper proposal was produced" (README) comes to.  *)
RetriedRunsAreQuiet ==
  \A q \in Rows : LET r == run[q].retryOf IN
    (r # NoRun /\ r \notin aged /\ exec[r] # "raised") =>
      /\ r \notin produced
      /\ \A t \in Trader : cycle[r][t] \notin Succeeded

(* The outcome of a run agrees with the cycles of its traders for ever     *)
(* after: late finish_cycle and recover_interrupted_cycles updates do not  *)
(* turn a closed run's outcome into a lie.                                 *)
OutcomeMatchesCycles ==
  \A r \in Rows :
    /\ run[r].status = "succeeded" => \A t \in Trader : cycle[r][t] = "succeeded"
    /\ run[r].status = "partial_success" => \E t \in Trader : cycle[r][t] \in Succeeded
    /\ (run[r].status = "failed" /\ exec[r] # "raised") =>
         \A t \in Trader : cycle[r][t] \notin Succeeded

(* Every open run closes, whatever crashed: the reservation of a later     *)
(* scheduler tick recovers the rows no one executes any more.              *)
EveryRunCloses == \A r \in RunId : r \in OpenRows ~> r \notin OpenRows

-----------------------------------------------------------------------------
(* Statements of the documentation that the code does not keep             *)

(* README: "A shared SQLite lock rejects overlapping runs".                *)
NoOverlap == \A r, q \in RunId : exec[r] = "running" /\ exec[q] = "running" => r = q

(* build-plan.md: "restart/retry behavior cannot corrupt or duplicate      *)
(* portfolio state": two runs that stayed within their recovery window do  *)
(* not both decide trades on one market snapshot.                          *)
OneProducerPerSnapshot ==
  \A r, q \in produced \ aged : run[r].snapshot = run[q].snapshot => r = q
=============================================================================
