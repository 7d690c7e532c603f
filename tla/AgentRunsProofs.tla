--------------------------- MODULE AgentRunsProofs ---------------------------
(***************************************************************************)
(* The agent-run lifecycle, for any number of runs, traders, keys,         *)
(* snapshots and faults.                                                   *)
(***************************************************************************)
EXTENDS AgentRuns, TLAPS

(* Every UPDATE of agent_runs but mark_running gives a closing status to   *)
(* the open rows of a set.                                                 *)
Restated(S, st) == [r \in RunId |->
  IF r \in OpenRows \cap S THEN [run[r] EXCEPT !.status = st] ELSE run[r]]

(* finish gives one row a closing status, if it is open.                   *)
LEMMA ClosingRestates ==
  ASSUME TypeOK, NEW r \in RunId, NEW st
  PROVE  Closing(r, st) = Restated({r}, st)
BY DEF TypeOK, Closing, Restated

(* Recovery interrupts the open rows past their recovery window.           *)
LEMMA RecoveringRestates == RecoveringStale = Restated(aged, "interrupted")
BY DEF RecoveringStale, Restated

(* A closing status takes the rows out of the open ones, nothing else.     *)
LEMMA RestatedRows ==
  ASSUME TypeOK, NEW S, NEW st \in Ledger!Closed, run' = Restated(S, st)
  PROVE  /\ run' \in [RunId -> Ledger!Row \cup {NoRow}]
         /\ Rows' = Rows /\ OpenRows' = OpenRows \ S
         /\ \A r \in RunId : r \notin OpenRows \cap S => run'[r] = run[r]
         /\ \A r \in Rows : /\ run'[r].retryOf = run[r].retryOf
                            /\ run'[r].snapshot = run[r].snapshot
                            /\ r \in OpenRows \cap S => run'[r].status = st
<1>1. \A r \in OpenRows : run[r] \in Ledger!Row
  BY DEF TypeOK, OpenRows, Ledger!OpenRows, Ledger!Rows
<1>2. \A r \in OpenRows : [run[r] EXCEPT !.status = st] \in Ledger!Row
  BY <1>1 DEF Ledger!Row
<1>3. \A r \in RunId : run'[r] =
        IF r \in OpenRows \cap S THEN [run[r] EXCEPT !.status = st] ELSE run[r]
  BY DEF Restated
<1>4. run' \in [RunId -> Ledger!Row \cup {NoRow}]
  BY <1>2 DEF Restated, TypeOK
<1>5. \A r \in RunId : run'[r] = NoRow <=> run[r] = NoRow
  BY <1>1, <1>2, <1>3, ConstantsAreValid DEF Ledger!NullsAreFresh
<1>6. Rows' = Rows
  BY <1>5 DEF Rows, Ledger!Rows
<1>7. \A r \in OpenRows : [run[r] EXCEPT !.status = st].status = st
  BY <1>1 DEF Ledger!Row
<1>8. OpenRows' = OpenRows \ S
  BY <1>3, <1>6, <1>7 DEF OpenRows, Ledger!OpenRows, Rows, Ledger!Closed, Ledger!Open, Ledger!Rows
<1>9. \A r \in Rows : run'[r].retryOf = run[r].retryOf /\ run'[r].snapshot = run[r].snapshot
  BY <1>1, <1>3 DEF Ledger!Row, Rows, Ledger!Rows
<1> QED
  BY <1>3, <1>4, <1>6, <1>7, <1>8, <1>9 DEF Rows, OpenRows, Ledger!OpenRows, Ledger!Rows

(* An INSERT adds one queued row.                                          *)
LEMMA InsertedRow ==
  ASSUME TypeOK, NEW r \in Fresh, NEW k \in Key, NEW s \in Snapshot,
         NEW q \in RunId \cup {NoRun},
         run' = [run EXCEPT ![r] = Ledger!Queued(k, s, q)]
  PROVE  /\ run' \in [RunId -> Ledger!Row \cup {NoRow}]
         /\ Rows' = Rows \cup {r} /\ OpenRows' = OpenRows \cup {r}
         /\ run'[r].retryOf = q /\ run'[r].status = "queued"
         /\ \A x \in RunId \ {r} : run'[x] = run[x]
<1>1. Ledger!Queued(k, s, q) \in Ledger!Row
  BY DEF Ledger!Queued, Ledger!Row, Ledger!Open
<1>2. Ledger!Queued(k, s, q) # NoRow
  BY <1>1, ConstantsAreValid DEF Ledger!NullsAreFresh
<1>3. r \in RunId /\ r \notin Rows
  BY DEF Fresh
<1>4. /\ run'[r] = Ledger!Queued(k, s, q)
      /\ \A x \in RunId \ {r} : run'[x] = run[x]
      /\ run' \in [RunId -> Ledger!Row \cup {NoRow}]
  BY <1>1, <1>3 DEF TypeOK
<1>5. Rows' = Rows \cup {r}
  BY <1>2, <1>3, <1>4 DEF Rows, Ledger!Rows
<1>6. run'[r].retryOf = q /\ run'[r].status = "queued"
  BY <1>4 DEF Ledger!Queued
<1>7. OpenRows' = OpenRows \cup {r}
  BY <1>3, <1>4, <1>5, <1>6 DEF OpenRows, Ledger!OpenRows, Rows, Ledger!Rows, Ledger!Open
<1> QED
  BY <1>4, <1>5, <1>6, <1>7

(* mark_running changes the status of a queued row, nothing else.          *)
LEMMA StartedRow ==
  ASSUME TypeOK, NEW r \in Rows, run[r].status = "queued",
         run' = [run EXCEPT ![r].status = "running"]
  PROVE  /\ run' \in [RunId -> Ledger!Row \cup {NoRow}]
         /\ Rows' = Rows /\ OpenRows' = OpenRows
         /\ run'[r].status = "running" /\ run'[r].retryOf = run[r].retryOf
         /\ run'[r].snapshot = run[r].snapshot
         /\ \A x \in RunId \ {r} : run'[x] = run[x]
<1>1. r \in RunId /\ run[r] \in Ledger!Row
  BY DEF TypeOK, Rows, Ledger!Rows
<1>2. [run[r] EXCEPT !.status = "running"] \in Ledger!Row
  BY <1>1 DEF Ledger!Row, Ledger!Open
<1>3. /\ run'[r] = [run[r] EXCEPT !.status = "running"]
      /\ \A x \in RunId \ {r} : run'[x] = run[x]
      /\ run' \in [RunId -> Ledger!Row \cup {NoRow}]
  BY <1>1, <1>2 DEF TypeOK
<1>4. /\ run'[r].status = "running" /\ run'[r].retryOf = run[r].retryOf
      /\ run'[r].snapshot = run[r].snapshot
  BY <1>1, <1>3 DEF Ledger!Row
<1>5. Rows' = Rows
  BY <1>1, <1>2, <1>3, ConstantsAreValid DEF Rows, Ledger!Rows, Ledger!NullsAreFresh
<1>6. OpenRows' = OpenRows
  BY <1>1, <1>3, <1>4, <1>5 DEF OpenRows, Ledger!OpenRows, Rows, Ledger!Rows, Ledger!Open
<1> QED
  BY <1>3, <1>4, <1>5, <1>6

-----------------------------------------------------------------------------
(* Coroutines and rows agree: a coroutine has a row; one that is running   *)
(* has started its row, and the row is still running unless it is past its *)
(* recovery window; one that has read its outcome has no trader at work; a *)
(* run left by an exception or unwinding is closed; a trader works under   *)
(* one of these, or under a cancellation of one.                           *)
Held(r) == run[r].status = "running" \/ r \in aged

WorkSound(r) ==
  /\ exec[r] # "none" => r \in Rows
  /\ exec[r] = "running" => Held(r)
  /\ exec[r] \in Outcome \cup {"running"} => run[r].status # "queued"
  /\ exec[r] \in {"raised", "unwinding"} => r \notin OpenRows
  /\ \A t \in Trader : trader[r][t] = "working" =>
       /\ exec[r] \in {"running", "cancelling", "raised", "unwinding"}
       /\ exec[r] = "cancelling" => Held(r)

WorkInv == \A r \in RunId : WorkSound(r)

TraderState    == {"idle", "working", "done", "cancelled"}
SchedulerState == {"down", "waiting", "executing", "stopping", "exiting"}

(* How coroutines end keeps the types of what they leave.                  *)
LEMMA EndingTypes ==
  ASSUME TypeOK, NEW p \in Process, EndCoroutines(p)
  PROVE  /\ exec' \in [RunId -> ExecState]
         /\ trader' \in [RunId -> [Trader -> TraderState]]
BY DEF TypeOK, EndCoroutines, ExecWithout, EndTraders, ExecState, TraderState

(* The end of a run keeps the types.                                       *)
LEMMA RunEndsTypes ==
  ASSUME TypeOK, NEW r \in RunId, NEW conflict \in BOOLEAN, RunEnds(r, conflict)
  PROVE  /\ exec' \in [RunId -> ExecState]
         /\ scheduler' \in SchedulerState
BY DEF TypeOK, RunEnds, AfterRun, ExecState, SchedulerState

(* Creating the task of a run keeps the types.                             *)
LEMMA LaunchTypes ==
  ASSUME TypeOK, NEW p \in Process, NEW r \in RunId, Launch(p, r)
  PROVE  /\ exec' \in [RunId -> ExecState]
         /\ owner' \in [RunId -> Process]
         /\ trader' \in [RunId -> [Trader -> TraderState]]
         /\ scheduler' \in SchedulerState
BY DEF TypeOK, Launch, ExecState, Live, TraderState, SchedulerState

-----------------------------------------------------------------------------
(* A retried run had no success, and has none unless it is past its        *)
(* recovery window or was left by an exception of a trader.                *)
Excused(r) == r \in aged \/ exec[r] = "raised"
Quiet(r)   == r \notin produced /\ \A t \in Trader : cycle[r][t] \notin Succeeded
Settled(r) == Ledger!MayRetry(r) /\ (Quiet(r) \/ Excused(r))

(* What a retry has checked is still so when its row is inserted.          *)
RequestInv ==
  LET q == request["api"] IN
  (q # NoRequest /\ q.of # NoRun) => Settled(q.of) /\ q.snapshot = run[q.of].snapshot

(* What a step does to the table.                                          *)
Restating ==
  \E S \in SUBSET RunId, st \in Ledger!Closed :
    /\ run' = Restated(S, st)
    /\ st = "interrupted" \/ \A r \in S : run[r].status # "queued"

Starting ==
  \E r \in Rows : run[r].status = "queued" /\ run' = [run EXCEPT ![r].status = "running"]

Inserting ==
  \E r \in Fresh, k \in Key, s \in Snapshot, q \in RunId \cup {NoRun} :
    /\ MayInsert(k)
    /\ q = NoRun => s \notin Ledger!SnapsTaken
    /\ q # NoRun => Settled(q) /\ s = run[q].snapshot
    /\ run' = [run EXCEPT ![r] = Ledger!Queued(k, s, q)]

TableStep == UNCHANGED run \/ Restating \/ Starting \/ Inserting

(* mark_running precedes everything else in execute_agent_run.             *)
LEMMA RunningHasStarted ==
  ASSUME WorkInv, NEW r \in RunId, exec[r] \in Outcome \cup {"running"}
  PROVE  \A x \in {r} : run[x].status # "queued"
BY DEF WorkInv, WorkSound

(* Every step of the processes is one of these writes, or none.            *)
LEMMA TableSteps ==
  ASSUME TypeOK, WorkInv, RequestInv, Next
  PROVE  TableStep
<1>1. ASSUME NEW p \in Process, NEW k \in Key, NEW s \in Snapshot, BeginReserve(p, k, s)
      PROVE  Restating
  <2>1. aged \in SUBSET RunId /\ "interrupted" \in Ledger!Closed
    BY DEF TypeOK, Rows, Ledger!Rows, Ledger!Closed
  <2> QED
    BY <1>1, <2>1, RecoveringRestates DEF BeginReserve, Restating
<1>2. ASSUME NEW p \in Process, CommitReserve(p)
      PROVE  TableStep
  <2>1. request[p] \in Request /\ request[p].of = NoRun
    BY <1>2 DEF CommitReserve, TypeOK, Free
  <2>2. CASE UNCHANGED run
    BY <2>2 DEF TableStep
  <2>3. CASE MayInsert(request[p].key) /\ ~Consumed(request[p].snapshot) /\ Fresh # {}
    <3>1. PICK r \in Fresh :
            run' = [run EXCEPT ![r] = Ledger!Queued(request[p].key, request[p].snapshot, NoRun)]
      BY <1>2, <2>3 DEF CommitReserve, Insert
    <3> QED
      BY <2>1, <2>3, <3>1 DEF Request, Consumed, Inserting, TableStep
  <2> QED
    BY <1>2, <2>2, <2>3 DEF CommitReserve, NoNewRun
<1>3. ASSUME CommitRetry
      PROVE  TableStep
  <2>1. request["api"] \in Request /\ request["api"] # NoRequest /\ request["api"].of # NoRun
    BY <1>3 DEF CommitRetry, TypeOK, Free, Process
  <2>2. CASE UNCHANGED run
    BY <2>2 DEF TableStep
  <2>3. CASE /\ MayInsert(request["api"].key)
             /\ \E r \in Fresh : Insert("api", r,
                  Ledger!Queued(request["api"].key, request["api"].snapshot, request["api"].of))
    <3>1. PICK r \in Fresh :
            run' = [run EXCEPT ![r] =
              Ledger!Queued(request["api"].key, request["api"].snapshot, request["api"].of)]
      BY <2>3 DEF Insert
    <3> QED
      BY <2>1, <2>3, <3>1 DEF Request, RequestInv, Inserting, TableStep
  <2> QED
    BY <1>3, <2>2, <2>3 DEF CommitRetry, NoNewRun
<1>4. ASSUME NEW r \in RunId, StartRun(r)
      PROVE  TableStep
  <2>1. r \in Rows
    BY <1>4 DEF StartRun, WorkInv, WorkSound
  <2> QED
    BY <1>4, <2>1 DEF StartRun, TableStep, Starting
<1>5. ASSUME NEW r \in RunId, CompleteRun(r)
      PROVE  Restating
  <2>1. exec[r] \in Ledger!Closed
    BY <1>5 DEF CompleteRun, Outcome, Ledger!Closed
  <2>2. run' = Restated({r}, exec[r])
    BY <1>5, ClosingRestates DEF CompleteRun
  <2> QED
    BY <1>5, <2>1, <2>2, RunningHasStarted DEF CompleteRun, Restating
<1>6. ASSUME NEW r \in RunId, FinishInterrupted(r)
      PROVE  Restating
  <2>1. run' = Restated({r}, "interrupted")
    BY <1>6, ClosingRestates DEF FinishInterrupted
  <2>2. {r} \in SUBSET RunId /\ "interrupted" \in Ledger!Closed
    BY DEF Ledger!Closed
  <2> QED
    BY <2>1, <2>2 DEF Restating
<1>7. ASSUME NEW r \in RunId, NEW t \in Trader, TraderRaises(r, t)
      PROVE  TableStep
  <2>1. CASE exec[r] = "running"
    <3>1. run' = Restated({r}, "failed")
      BY <1>7, <2>1, ClosingRestates DEF TraderRaises
    <3> QED
      BY <2>1, <3>1, RunningHasStarted DEF Restating, TableStep, Ledger!Closed
  <2> QED
    BY <1>7, <2>1 DEF TraderRaises, TableStep
<1>8. ASSUME ApiStop
      PROVE  Restating
  <2> DEFINE S == {r \in Mine("api") : exec[r] \in {"running", "cancelling"}}
  <2>1. S \in SUBSET RunId /\ "interrupted" \in Ledger!Closed
    BY DEF Mine, Ledger!Closed
  <2>2. \A r \in RunId : Closing(r, "interrupted")[r] =
          IF r \in OpenRows THEN [run[r] EXCEPT !.status = "interrupted"] ELSE run[r]
    BY DEF Closing, TypeOK
  <2>3. run' = Restated(S, "interrupted")
    BY <1>8, <2>2 DEF ApiStop, Restated
  <2> QED
    BY <2>1, <2>3 DEF Restating
<1> QED
  BY <1>1, <1>2, <1>3, <1>4, <1>5, <1>6, <1>7, <1>8
  DEF Next, RunStep, TableStep, tables, memory, BeginRetry, Crash, SchedulerStart,
      SchedulerStop, SchedulerExit, ReadOutcome, Age, CancelManual, GraceExpires,
      TraderStart, TraderInterrupted, TraderFinish, TraderPropose

(* What every step leaves of the table: rows stay, closed ones as they are. *)
RowsKept ==
  /\ run' \in [RunId -> Ledger!Row \cup {NoRow}]
  /\ Rows \subseteq Rows'
  /\ \A r \in Rows : /\ r \notin OpenRows => run'[r] = run[r] /\ r \notin OpenRows'
                     /\ run'[r].retryOf = run[r].retryOf
                     /\ run'[r].snapshot = run[r].snapshot

(* No write of the table loses a row or touches a closed one.              *)
LEMMA RowsAreKept ==
  ASSUME TypeOK, TableStep
  PROVE  RowsKept
<1>1. CASE UNCHANGED run
  BY <1>1 DEF RowsKept, TypeOK, Rows, Ledger!Rows, OpenRows, Ledger!OpenRows
<1>2. CASE Restating
  <2>1. PICK S \in SUBSET RunId, st \in Ledger!Closed : run' = Restated(S, st)
    BY <1>2 DEF Restating
  <2> QED
    BY <2>1, RestatedRows DEF RowsKept, Rows, Ledger!Rows
<1>3. CASE Starting
  <2>1. PICK r \in Rows : run[r].status = "queued" /\ run' = [run EXCEPT ![r].status = "running"]
    BY <1>3 DEF Starting
  <2>2. r \in OpenRows
    BY <2>1 DEF OpenRows, Ledger!OpenRows, Rows, Ledger!Rows, Ledger!Open
  <2> QED
    BY <2>1, <2>2, StartedRow DEF RowsKept, Rows, Ledger!Rows
<1>4. CASE Inserting
  <2>1. PICK r \in Fresh, k \in Key, s \in Snapshot, q \in RunId \cup {NoRun} :
          run' = [run EXCEPT ![r] = Ledger!Queued(k, s, q)]
    BY <1>4 DEF Inserting
  <2>2. \A x \in Rows : x \in RunId \ {r}
    BY DEF Fresh, Rows, Ledger!Rows
  <2>3. /\ run' \in [RunId -> Ledger!Row \cup {NoRow}]
        /\ Rows' = Rows \cup {r} /\ OpenRows' = OpenRows \cup {r}
        /\ \A x \in RunId \ {r} : run'[x] = run[x]
    BY <2>1, InsertedRow
  <2> QED
    BY <2>2, <2>3 DEF RowsKept
<1> QED
  BY <1>1, <1>2, <1>3, <1>4 DEF TableStep

-----------------------------------------------------------------------------
(* Type correctness                                                        *)

(* The histories only grow, by runs that are in the table.                 *)
HistoryStep ==
  /\ aged' = aged \/ \E r \in Rows : aged' = aged \cup {r}
  /\ produced' = produced \/ \E r \in Rows : produced' = produced \cup {r}
  /\ windowed' = windowed \/ windowed' = windowed \cup OpenRows

(* Every step extends the histories like that.                             *)
LEMMA HistorySteps ==
  ASSUME WorkInv, Next
  PROVE  HistoryStep
<1>1. ASSUME NEW r \in RunId, NEW t \in Trader, TraderPropose(r, t)
      PROVE  HistoryStep
  <2>1. r \in Rows
    BY <1>1 DEF TraderPropose, MayWork, WorkInv, WorkSound
  <2> QED
    BY <1>1, <2>1 DEF TraderPropose, HistoryStep
<1>2. ASSUME NEW r \in RunId, Age(r)
      PROVE  HistoryStep
  <2>1. r \in Rows
    BY <1>2 DEF Age, OpenRows, Ledger!OpenRows, Rows
  <2> QED
    BY <1>2, <2>1 DEF Age, HistoryStep
<1> QED
  BY <1>1, <1>2
  DEF HistoryStep, Next, RunStep, tables, memory, BeginReserve, CommitReserve, Crash, BeginRetry,
      CommitRetry, SchedulerStart, SchedulerStop, SchedulerExit, ApiStop,
      StartRun, ReadOutcome, CompleteRun,
      FinishInterrupted, TraderStart, TraderInterrupted, TraderFinish, CancelManual,
      GraceExpires, TraderRaises

(* A step from a sound state keeps the types.                              *)
LEMMA TypeStep ==
  ASSUME TypeOK, WorkInv, RequestInv, [Next]_vars
  PROVE  TypeOK'
<1> USE DEF TypeOK, TraderState, SchedulerState
<1>1. CASE UNCHANGED vars
  BY <1>1 DEF vars, tables, memory, Rows, Ledger!Rows
<1> SUFFICES ASSUME Next PROVE TypeOK'
  BY <1>1
<1>2. RowsKept
  BY TableSteps, RowsAreKept
<1>3. HistoryStep
  BY HistorySteps
<1>4. aged' \subseteq Rows' /\ produced' \subseteq Rows' /\ windowed' \subseteq Rows'
  BY <1>2, <1>3 DEF HistoryStep, RowsKept, OpenRows, Ledger!OpenRows, Rows
<1> DEFINE MemoryOK ==
      /\ cycle \in [RunId -> [Trader -> CycleStatus]]
      /\ exec \in [RunId -> ExecState]
      /\ owner \in [RunId -> Process]
      /\ trader \in [RunId -> [Trader -> TraderState]]
      /\ request \in [Process -> Request \cup {NoRequest}]
      /\ scheduler \in SchedulerState
      /\ crashes \in 0..MaxCrashes
<1>5. ASSUME NEW p \in Process, NEW k \in Key, NEW s \in Snapshot, BeginReserve(p, k, s)
      PROVE  MemoryOK'
  BY <1>5 DEF BeginReserve, Request
<1>6. ASSUME NEW p \in Process, CommitReserve(p)
      PROVE  MemoryOK'
  <2>1. CASE NoNewRun
    BY <1>6, <2>1 DEF CommitReserve, NoNewRun
  <2>2. CASE \E r \in RunId : Launch(p, r)
    BY <1>6, <2>2, LaunchTypes DEF CommitReserve
  <2> QED
    BY <1>6, <2>1, <2>2 DEF CommitReserve, Insert, Fresh
<1>7. ASSUME CommitRetry
      PROVE  MemoryOK'
  <2>1. CASE NoNewRun
    BY <1>7, <2>1 DEF CommitRetry, NoNewRun
  <2>2. CASE \E r \in RunId : Launch("api", r)
    BY <1>7, <2>2, LaunchTypes DEF CommitRetry, Process
  <2> QED
    BY <1>7, <2>1, <2>2 DEF CommitRetry, Insert, Fresh, Rows, Ledger!Rows
<1>8. ASSUME NEW p \in Process, Crash(p)
      PROVE  MemoryOK'
  <2>1. crashes' \in 0..MaxCrashes
    BY <1>8, ConstantsAreValid DEF Crash
  <2> QED
    BY <1>8, <2>1, EndingTypes DEF Crash, tables
<1>9. ASSUME NEW r \in RunId, NEW k \in ManualKey, BeginRetry(r, k)
      PROVE  MemoryOK'
  <2>1. run[r] \in Ledger!Row
    BY <1>9 DEF BeginRetry, Rows, Ledger!Rows
  <2>2. [key |-> k, snapshot |-> run[r].snapshot, of |-> r] \in Request
    BY <2>1 DEF Request, Key, Ledger!Row
  <2> QED
    BY <1>9, <2>2 DEF BeginRetry, tables
<1>10. ASSUME SchedulerStart
       PROVE  MemoryOK'
  BY <1>10 DEF SchedulerStart, CycleStatus
<1>11. ASSUME SchedulerStop
       PROVE  MemoryOK'
  <2>1. crashes' \in 0..MaxCrashes
    BY <1>11, ConstantsAreValid DEF SchedulerStop
  <2> QED
    BY <1>11, <2>1 DEF SchedulerStop, tables
<1>12. ASSUME ApiStop
       PROVE  MemoryOK'
  <2>1. crashes' \in 0..MaxCrashes
    BY <1>12, ConstantsAreValid DEF ApiStop
  <2>2. cycle' \in [RunId -> [Trader -> CycleStatus]]
    BY <1>12 DEF ApiStop, CycleStatus
  <2> QED
    BY <1>12, <2>1, <2>2, EndingTypes DEF ApiStop, Process
<1>13. ASSUME NEW r \in RunId, RunStep(r)
       PROVE  MemoryOK'
  <2>1. CASE StartRun(r) /\ run[r].status = "queued"
    BY <2>1 DEF StartRun, ExecState, Live
  <2>2. CASE StartRun(r) \/ CompleteRun(r)
    BY <2>1, <2>2, RunEndsTypes DEF StartRun, CompleteRun
  <2>3. ASSUME NEW t \in Trader, TraderStart(r, t)
        PROVE  MemoryOK'
    BY <2>3 DEF TraderStart, CycleStatus
  <2>4. ASSUME NEW t \in Trader, TraderInterrupted(r, t)
        PROVE  MemoryOK'
    BY <2>4 DEF TraderInterrupted, CycleStatus
  <2>5. ASSUME NEW t \in Trader, NEW st \in CycleStatus, TraderFinish(r, t, st)
        PROVE  MemoryOK'
    BY <2>5 DEF TraderFinish
  <2>6. CASE ReadOutcome(r)
    <3>1. CycleOutcome(r) \in ExecState
      BY DEF CycleOutcome, ExecState, Live, Outcome
    <3> QED
      BY <2>6, <3>1 DEF ReadOutcome, tables
  <2>7. CASE FinishInterrupted(r)
    BY <2>7 DEF FinishInterrupted, ExecState, Live
  <2> QED
    BY <1>13, <2>1, <2>2, <2>3, <2>4, <2>5, <2>6, <2>7 DEF RunStep
<1>14. ASSUME NEW r \in RunId, Age(r) \/ CancelManual(r) \/ GraceExpires(r)
       PROVE  MemoryOK'
  BY <1>14 DEF Age, CancelManual, GraceExpires, memory, tables, ExecState, Live
<1>15. ASSUME NEW r \in RunId, NEW t \in Trader, TraderPropose(r, t)
       PROVE  MemoryOK'
  BY <1>15 DEF TraderPropose, memory
<1>16. ASSUME NEW r \in RunId, NEW t \in Trader, TraderRaises(r, t)
       PROVE  MemoryOK'
  <2>1. crashes' \in 0..MaxCrashes
    BY <1>16, ConstantsAreValid DEF TraderRaises
  <2> QED
    BY <1>16, <2>1 DEF TraderRaises, AfterRun, ExecState
<1>18. ASSUME SchedulerExit
       PROVE  MemoryOK'
  BY <1>18, EndingTypes DEF SchedulerExit, Process, tables
<1>17. MemoryOK'
  BY <1>5, <1>6, <1>7, <1>8, <1>9, <1>10, <1>11, <1>12, <1>13, <1>14, <1>15, <1>16,
     <1>18 DEF Next
<1> QED
  BY <1>2, <1>4, <1>17 DEF RowsKept

-----------------------------------------------------------------------------
(* Coroutines and rows                                                     *)

(* A run whose coroutines end, and one whose coroutines a step leaves      *)
(* alone; the row of the latter may be closed for its age.                 *)
Ended(x) ==
  /\ exec'[x] = IF exec[x] = "raised" THEN "raised" ELSE "none"
  /\ \A t \in Trader : trader'[x][t] # "working"

Alone(x) == exec'[x] = exec[x] /\ trader'[x] = trader[x]

Untouched(x) ==
  Alone(x) /\ (run'[x] = run[x] \/ (x \in aged /\ run'[x].status \in Ledger!Closed))

(* Coroutines that end agree with their row.                               *)
LEMMA EndedIsSound ==
  ASSUME RowsKept, NEW x \in RunId, WorkSound(x), Ended(x)
  PROVE  WorkSound(x)'
BY DEF RowsKept, WorkSound, Ended, Outcome

(* Coroutines left alone still agree with their row.                       *)
LEMMA UntouchedIsSound ==
  ASSUME RowsKept, HistoryStep, NEW x \in RunId, WorkSound(x), Untouched(x)
  PROVE  WorkSound(x)'
<1>1. aged \subseteq aged'
  BY DEF HistoryStep
<1>2. Held(x) => Held(x)' \/ exec[x] = "none"
  BY <1>1 DEF Held, Untouched
<1>3. run[x].status # "queued" => run'[x].status # "queued"
  BY DEF Untouched, Ledger!Closed
<1>4. exec[x] = "raised" => x \notin OpenRows'
  BY DEF RowsKept, WorkSound
<1> QED
  BY <1>2, <1>3, <1>4 DEF RowsKept, WorkSound, Untouched, Alone

(* The end of a process ends its coroutines and no others.                 *)
LEMMA EndingEnds ==
  ASSUME TypeOK, NEW p \in Process, EndCoroutines(p), NEW x \in RunId
  PROVE  IF x \in Mine(p) THEN Ended(x) ELSE Alone(x)
<1>1. /\ exec'[x] = IF x \in Mine(p) /\ exec[x] \in Live THEN "none" ELSE exec[x]
      /\ trader'[x] = IF x \in Mine(p) THEN [t \in Trader |-> "done"] ELSE trader[x]
  BY DEF EndCoroutines, EndTraders, ExecWithout
<1>2. exec[x] \in Live \cup {"none", "raised"}
  BY DEF TypeOK, ExecState
<1> QED
  BY <1>1, <1>2 DEF Ended, Alone, Mine, Live, Outcome

(* The end of a run at rest ends its coroutines and leaves others alone.   *)
LEMMA OverEnds ==
  ASSUME TypeOK, NEW r \in RunId, WorkSound(r), exec[r] \in Outcome \cup {"created"},
         exec' = [exec EXCEPT ![r] = "none"], trader' = trader, NEW x \in RunId
  PROVE  Ended(x) \/ (x # r /\ Alone(x))
<1>1. \A t \in Trader : trader[r][t] # "working"
  BY DEF WorkSound, Outcome
<1> QED
  BY <1>1 DEF TypeOK, Ended, Alone, Outcome

(* A new task agrees with its row, and the others are left alone.          *)
LEMMA LaunchIsSound ==
  ASSUME TypeOK, RowsKept, HistoryStep, NEW p \in Process, NEW r \in RunId, Launch(p, r),
         r \in Rows', NEW x \in RunId, x # r => run'[x] = run[x], WorkSound(x)
  PROVE  WorkSound(x)'
<1>1. CASE x = r
  <2>1. exec'[r] = "created" /\ \A t \in Trader : trader'[r][t] = "idle"
    BY DEF Launch, TypeOK
  <2> QED
    BY <1>1, <2>1 DEF WorkSound, Outcome
<1>2. CASE x # r
  <2>1. Untouched(x)
    BY <1>2 DEF Untouched, Alone, Launch, TypeOK
  <2> QED
    BY <2>1, UntouchedIsSound
<1> QED
  BY <1>1, <1>2

(* A step from a sound state keeps coroutines and rows in agreement.       *)
LEMMA WorkStep ==
  ASSUME TypeOK, WorkInv, RequestInv, [Next]_vars
  PROVE  WorkInv'
<1>1. CASE UNCHANGED vars
  BY <1>1 DEF vars, tables, memory, WorkInv, WorkSound, Held, Rows, Ledger!Rows,
              OpenRows, Ledger!OpenRows
<1> SUFFICES ASSUME Next, NEW x \in RunId PROVE WorkSound(x)'
  BY <1>1 DEF WorkInv
<1>2. RowsKept /\ HistoryStep /\ WorkSound(x)
  BY TableSteps, RowsAreKept, HistorySteps DEF WorkInv
<1>3. CASE Ended(x)
  BY <1>2, <1>3, EndedIsSound
<1>4. CASE Untouched(x)
  BY <1>2, <1>4, UntouchedIsSound
<1>5. ASSUME NEW p \in Process, NEW k \in Key, NEW s \in Snapshot, BeginReserve(p, k, s)
      PROVE  Untouched(x)
  BY <1>5 DEF BeginReserve, RecoveringStale, Untouched, Alone, TypeOK, Ledger!Closed,
              OpenRows, Ledger!OpenRows, Rows, Ledger!Rows, Ledger!Row
<1>6. ASSUME NEW p \in Process, CommitReserve(p)
      PROVE  WorkSound(x)'
  <2>1. CASE NoNewRun
    BY <1>4, <2>1 DEF NoNewRun, Untouched, Alone
  <2>2. CASE MayInsert(request[p].key) /\ ~Consumed(request[p].snapshot) /\ Fresh # {}
    <3>1. request[p] \in Request
      BY <1>6 DEF CommitReserve, TypeOK, Free
    <3>2. PICK r \in Fresh :
            Insert(p, r, Ledger!Queued(request[p].key, request[p].snapshot, NoRun))
      BY <1>6, <2>2 DEF CommitReserve
    <3>3. Rows' = Rows \cup {r} /\ (x # r => run'[x] = run[x])
      BY <3>1, <3>2, InsertedRow DEF Insert, Request
    <3> QED
      BY <1>2, <3>2, <3>3, LaunchIsSound DEF Insert, Fresh
  <2> QED
    BY <1>6, <2>1, <2>2 DEF CommitReserve
<1>7. ASSUME CommitRetry
      PROVE  WorkSound(x)'
  <2>1. CASE NoNewRun
    BY <1>4, <2>1 DEF NoNewRun, Untouched, Alone
  <2>2. ASSUME NEW r \in Fresh, Insert("api", r,
          Ledger!Queued(request["api"].key, request["api"].snapshot, request["api"].of))
        PROVE  WorkSound(x)'
    <3>1. request["api"] \in Request
      BY <1>7 DEF CommitRetry, TypeOK, Free, Process
    <3>2. Rows' = Rows \cup {r} /\ (x # r => run'[x] = run[x])
      BY <2>2, <3>1, InsertedRow DEF Insert, Request
    <3> QED
      BY <1>2, <2>2, <3>2, LaunchIsSound DEF Insert, Fresh, Process
  <2>3. ASSUME NEW r \in Rows, Launch("api", r), UNCHANGED run
        PROVE  WorkSound(x)'
    <3>1. r \in RunId /\ r \in Rows'
      BY <1>2, <2>3 DEF RowsKept, Rows, Ledger!Rows
    <3> QED
      BY <1>2, <2>3, <3>1, LaunchIsSound DEF Process
  <2> QED
    BY <1>7, <2>1, <2>2, <2>3 DEF CommitRetry
<1>8. ASSUME NEW p \in Process, Crash(p)
      PROVE  Ended(x) \/ Untouched(x)
  BY <1>8, EndingEnds DEF Crash, tables, Untouched
<1>9. ASSUME SchedulerExit
      PROVE  Ended(x) \/ Untouched(x)
  BY <1>9, EndingEnds DEF SchedulerExit, tables, Untouched, Process
<1>10. ASSUME ApiStop
       PROVE  Ended(x) \/ Untouched(x)
  <2>1. x \notin Mine("api") => run'[x] = run[x]
    BY <1>10 DEF ApiStop
  <2> QED
    BY <1>10, <2>1, EndingEnds DEF ApiStop, Untouched, Process
<1>11. ASSUME NEW r \in RunId, StartRun(r)
       PROVE  WorkSound(x)'
  <2>1. CASE run[r].status # "queued"
    <3>1. WorkSound(r)
      BY DEF WorkInv
    <3>2. Ended(x) \/ (x # r /\ Alone(x))
      BY <1>11, <2>1, <3>1, OverEnds DEF StartRun, RunEnds
    <3> QED
      BY <1>3, <1>4, <1>11, <2>1, <3>2 DEF StartRun, Untouched
  <2>2. CASE run[r].status = "queued" /\ x # r
    BY <1>4, <1>11, <2>2 DEF StartRun, Untouched, Alone, TypeOK
  <2>3. CASE run[r].status = "queued" /\ x = r
    <3>1. r \in Rows
      BY <1>2, <1>11, <2>3 DEF StartRun, WorkSound
    <3>2. run'[r].status = "running" /\ r \in Rows'
      BY <1>11, <2>3, <3>1, StartedRow DEF StartRun
    <3>3. exec'[r] = "running"
      BY <1>11, <2>3 DEF StartRun, TypeOK
    <3> QED
      BY <2>3, <3>2, <3>3 DEF WorkSound, Held, Outcome
  <2> QED
    BY <2>1, <2>2, <2>3
<1>12. ASSUME NEW r \in RunId, CompleteRun(r)
       PROVE  Ended(x) \/ Untouched(x)
  <2>1. WorkSound(r)
    BY DEF WorkInv
  <2>2. Ended(x) \/ (x # r /\ Alone(x))
    BY <1>12, <2>1, OverEnds DEF CompleteRun, RunEnds
  <2>3. x # r => run'[x] = run[x]
    BY <1>12 DEF CompleteRun, Closing, TypeOK
  <2> QED
    BY <2>2, <2>3 DEF Untouched
<1>16. ASSUME NEW r \in RunId, FinishInterrupted(r)
       PROVE  WorkSound(x)'
  <2>1. run' = Restated({r}, "interrupted") /\ "interrupted" \in Ledger!Closed
    BY <1>16, ClosingRestates DEF FinishInterrupted, Ledger!Closed
  <2>2. CASE x = r
    <3>1. exec'[r] = "unwinding" /\ r \in Rows' /\ r \notin OpenRows'
      BY <1>2, <1>16, <2>1, <2>2, RestatedRows DEF FinishInterrupted, TypeOK, WorkSound
    <3> QED
      BY <2>2, <3>1 DEF WorkSound, Outcome
  <2>3. CASE x # r
    <3>1. Untouched(x)
      BY <1>16, <2>1, <2>3 DEF FinishInterrupted, TypeOK, Untouched, Alone, Restated
    <3> QED
      BY <1>4, <3>1
  <2> QED
    BY <2>2, <2>3
<1>17. ASSUME NEW r \in RunId, ReadOutcome(r)
       PROVE  WorkSound(x)'
  <2>1. CASE x = r
    <3>1. CycleOutcome(r) \in Outcome
      BY DEF CycleOutcome, Outcome
    <3>2. exec'[r] \in Outcome /\ exec[r] = "running" /\ UNCHANGED <<tables, trader>>
      BY <1>17, <3>1 DEF ReadOutcome, TypeOK
    <3>3. \A t \in Trader : trader[r][t] # "working"
      BY <1>17 DEF ReadOutcome
    <3>4. exec'[r] \notin {"none", "running", "raised", "unwinding", "cancelling"}
      BY <3>2 DEF Outcome
    <3>5. r \in Rows' /\ run'[r].status # "queued" /\ trader'[r] = trader[r]
      BY <1>2, <2>1, <3>2 DEF WorkSound, RowsKept, tables
    <3> QED
      BY <2>1, <3>3, <3>4, <3>5 DEF WorkSound
  <2>2. CASE x # r
    <3>1. Untouched(x)
      BY <1>17, <2>2 DEF ReadOutcome, TypeOK, tables, Untouched, Alone
    <3> QED
      BY <1>4, <3>1
  <2> QED
    BY <2>1, <2>2
<1>13. ASSUME NEW r \in RunId, NEW t \in Trader,
              TraderStart(r, t) \/ TraderInterrupted(r, t)
              \/ \E st \in CycleStatus : TraderFinish(r, t, st)
       PROVE  WorkSound(x)'
  <2>1. UNCHANGED <<run, aged, exec>>
    BY <1>13 DEF TraderStart, TraderInterrupted, TraderFinish
  <2>2. \A u \in Trader : trader'[x][u] = "working" =>
          trader[x][u] = "working" \/ exec[x] \in {"running", "raised"}
    <3>1. \E u \in Trader, v \in {"working", "done", "cancelled"} :
            /\ trader' = [trader EXCEPT ![r][u] = v]
            /\ v = "working" => exec[r] \in {"running", "raised"}
      BY <1>13 DEF TraderStart, TraderInterrupted, TraderFinish, MayWork
    <3> QED
      BY <3>1 DEF TypeOK
  <2>3. Rows' = Rows /\ OpenRows' = OpenRows
    BY <2>1 DEF Rows, Ledger!Rows, OpenRows, Ledger!OpenRows
  <2> QED
    BY <1>2, <2>1, <2>2, <2>3 DEF WorkSound, Held
<1>14. ASSUME NEW r \in RunId, CancelManual(r) \/ GraceExpires(r)
       PROVE  WorkSound(x)'
  <2>1. UNCHANGED <<run, aged, trader>> /\ exec[r] \in Live \ {"unwinding"}
    BY <1>14 DEF CancelManual, GraceExpires, Tracked, tables, Live
  <2>2. exec'[x] = IF x = r THEN "cancelling" ELSE exec[x]
    BY <1>14 DEF CancelManual, GraceExpires, TypeOK
  <2>3. Rows' = Rows /\ OpenRows' = OpenRows
    BY <2>1 DEF Rows, Ledger!Rows, OpenRows, Ledger!OpenRows
  <2> QED
    BY <1>2, <2>1, <2>2, <2>3 DEF WorkSound, Held, Live, Outcome
<1>15. ASSUME NEW r \in RunId, NEW t \in Trader, TraderRaises(r, t)
       PROVE  WorkSound(x)'
  <2>1. exec' = [exec EXCEPT ![r] = "raised"] /\ exec'[r] = "raised"
    BY <1>15 DEF TraderRaises, TypeOK
  <2>2. x # r => run'[x] = run[x]
    BY <1>15 DEF TraderRaises, Closing, TypeOK
  <2>3. CASE x = r
    <3>1. r \in Rows
      BY <1>2, <1>15, <2>3 DEF TraderRaises, MayWork, WorkSound
    <3>2. r \notin OpenRows'
      <4>1. CASE exec[r] = "running"
        <5>1. run' = Restated({r}, "failed")
          BY <1>15, <4>1, ClosingRestates DEF TraderRaises
        <5> QED
          BY <5>1, RestatedRows DEF Ledger!Closed
      <4> QED
        BY <1>2, <1>15, <2>3, <3>1, <4>1 DEF TraderRaises, MayWork, WorkSound, RowsKept
    <3> QED
      BY <1>2, <2>1, <2>3, <3>1, <3>2 DEF WorkSound, RowsKept, Outcome
  <2>4. CASE x # r
    <3>1. Untouched(x)
      BY <1>15, <2>1, <2>2, <2>4 DEF TraderRaises, Untouched, Alone, TypeOK
    <3> QED
      BY <1>4, <3>1
  <2> QED
    BY <2>3, <2>4
<1> QED
  BY <1>3, <1>4, <1>5, <1>6, <1>7, <1>8, <1>9, <1>10, <1>11, <1>12, <1>13, <1>14, <1>15,
     <1>16, <1>17
  DEF Next, RunStep, Untouched, Alone, tables, memory, BeginRetry, SchedulerStart,
      SchedulerStop, Age, TraderPropose

-----------------------------------------------------------------------------
(* Retries                                                                 *)

(* A closed run whose execution is over never has another one; its traders *)
(* that unwind end with their process.                                     *)
LEMMA OverStays ==
  ASSUME TypeOK, WorkInv, Next, NEW x \in RunId, x \in Rows, x \notin OpenRows,
         exec[x] \in {"none", "raised"}
  PROVE  exec'[x] = exec[x]
<1>1. x \in Rows /\ x \notin OpenRows /\ exec[x] \notin Live
  BY DEF Live, Outcome
<1>2. CASE Ended(x) \/ Alone(x)
  BY <1>2 DEF Ended, Alone
<1>3. ASSUME NEW p \in Process, EndCoroutines(p)
      PROVE  Ended(x) \/ Alone(x)
  BY <1>3, EndingEnds
<1>4. ASSUME NEW p \in Process, NEW r \in RunId \ {x}, Launch(p, r)
      PROVE  exec'[x] = exec[x]
  BY <1>4 DEF Launch, TypeOK
<1>5. ASSUME NEW p \in Process, CommitReserve(p)
      PROVE  exec'[x] = exec[x]
  BY <1>1, <1>4, <1>5 DEF CommitReserve, Insert, Fresh, NoNewRun
<1>6. ASSUME CommitRetry
      PROVE  exec'[x] = exec[x]
  <2>1. \A e \in Rows : run[e].status = "queued" => e \in RunId \ {x}
    BY <1>1 DEF OpenRows, Ledger!OpenRows, Rows, Ledger!Rows, Ledger!Open
  <2> QED
    BY <1>1, <1>4, <1>6, <2>1 DEF CommitRetry, Insert, Fresh, NoNewRun, Process
<1>7. ASSUME NEW r \in RunId,
             \/ StartRun(r) \/ ReadOutcome(r) \/ CompleteRun(r) \/ FinishInterrupted(r)
             \/ CancelManual(r) \/ GraceExpires(r) \/ \E t \in Trader : TraderRaises(r, t)
      PROVE  exec'[x] = exec[x]
  <2>1. \E v : exec' = [exec EXCEPT ![r] = v]
    BY <1>7 DEF StartRun, RunEnds, ReadOutcome, CompleteRun, FinishInterrupted, CancelManual,
                GraceExpires, TraderRaises
  <2>2. CASE r # x
    BY <2>1, <2>2 DEF TypeOK
  <2>3. CASE r = x /\ \E t \in Trader : TraderRaises(r, t)
    BY <1>1, <2>3 DEF TraderRaises, MayWork, TypeOK, Live
  <2>4. CASE r = x /\ ~\E t \in Trader : TraderRaises(r, t)
    BY <1>1, <1>7, <2>4 DEF StartRun, ReadOutcome, CompleteRun, FinishInterrupted,
                            CancelManual, GraceExpires, Tracked, Live
  <2> QED
    BY <2>2, <2>3, <2>4
<1>8. ASSUME SchedulerExit \/ ApiStop \/ \E p \in Process : Crash(p)
      PROVE  exec'[x] = exec[x]
  BY <1>2, <1>3, <1>8 DEF SchedulerExit, ApiStop, Crash, Process
<1> QED
  BY <1>5, <1>6, <1>7, <1>8
  DEF Next, RunStep, tables, memory, BeginReserve, BeginRetry, SchedulerStart, SchedulerStop,
      Age, TraderPropose, TraderStart, TraderInterrupted, TraderFinish

(* A run left by an exception never has another execution.                 *)
LEMMA RaisedStays ==
  ASSUME TypeOK, WorkInv, Next, NEW x \in RunId, exec[x] = "raised"
  PROVE  exec'[x] = "raised"
BY OverStays DEF WorkInv, WorkSound

(* Only a trader of a run that goes on, or that was left by an exception,   *)
(* proposes and succeeds.                                                  *)
LEMMA OnlyWorkCounts ==
  ASSUME TypeOK, Next, NEW x \in RunId, exec[x] \notin {"running", "raised"}
  PROVE  /\ x \in produced' => x \in produced
         /\ \A t \in Trader : cycle'[x][t] \in Succeeded => cycle[x][t] \in Succeeded
<1>1. x \in produced' => x \in produced
  <2>1. ASSUME NEW r \in RunId, NEW t \in Trader, TraderPropose(r, t), x \in produced'
        PROVE  x \in produced
    BY <2>1 DEF TraderPropose, MayWork
  <2> QED
    BY <2>1
    DEF Next, RunStep, tables, memory, BeginReserve, CommitReserve, Crash, BeginRetry,
        CommitRetry, SchedulerStart, SchedulerStop, SchedulerExit, ApiStop,
        StartRun, ReadOutcome, CompleteRun, FinishInterrupted, TraderStart,
        TraderInterrupted, TraderFinish, CancelManual, GraceExpires, TraderRaises, Age
<1>2. ASSUME NEW t \in Trader, cycle'[x][t] \in Succeeded
      PROVE  cycle[x][t] \in Succeeded
  <2>1. CASE cycle' = cycle
    BY <1>2, <2>1
  <2>2. ASSUME NEW r \in RunId, NEW u \in Trader, TraderStart(r, u) \/ TraderInterrupted(r, u)
        PROVE  cycle[x][t] \in Succeeded
    <3>1. PICK v \in {"running", "unsuccessful"} : cycle' = [cycle EXCEPT ![r][u] = v]
      BY <2>2 DEF TraderStart, TraderInterrupted
    <3>2. cycle'[x][t] \in {v, cycle[x][t]}
      BY <3>1 DEF TypeOK
    <3> QED
      BY <1>2, <3>2 DEF Succeeded
  <2>3. ASSUME NEW r \in RunId, NEW u \in Trader, NEW st \in CycleStatus, TraderFinish(r, u, st)
        PROVE  cycle[x][t] \in Succeeded
    BY <1>2, <2>3 DEF TraderFinish, MayWork, TypeOK
  <2>4. CASE ApiStop
    BY <1>2, <2>4 DEF ApiStop, Succeeded
  <2>5. CASE SchedulerStart
    BY <1>2, <2>5 DEF SchedulerStart, Succeeded
  <2> QED
    BY <2>1, <2>2, <2>3, <2>4, <2>5
    DEF Next, RunStep, tables, memory, BeginReserve, CommitReserve, Crash, BeginRetry,
        CommitRetry, CancelManual, GraceExpires, Age, TraderPropose, SchedulerStop,
        SchedulerExit, StartRun, ReadOutcome, CompleteRun, FinishInterrupted, TraderRaises
<1> QED
  BY <1>1, <1>2

(* What makes a run retryable stays so.                                    *)
LEMMA SettledStays ==
  ASSUME TypeOK, WorkInv, RequestInv, Next, NEW r \in RunId, Settled(r)
  PROVE  Settled(r)'
<1>1. RowsKept /\ HistoryStep
  BY TableSteps, RowsAreKept, HistorySteps
<1>2. r \in Rows /\ r \notin OpenRows
  BY DEF Settled, Ledger!MayRetry, OpenRows, Ledger!OpenRows, Rows, Ledger!Open
<1>3. Ledger!MayRetry(r)'
  BY <1>1, <1>2 DEF RowsKept, Settled, Ledger!MayRetry, Rows
<1>4. CASE Excused(r)
  BY <1>1, <1>3, <1>4, RaisedStays DEF HistoryStep, Excused, Settled
<1>5. CASE ~Excused(r)
  <2>1. Quiet(r)
    BY <1>5 DEF Settled
  <2>2. exec[r] \notin {"running", "raised"}
    BY <1>5 DEF WorkInv, WorkSound, Held, Excused, Settled, Ledger!MayRetry
  <2>3. Quiet(r)'
    BY <2>1, <2>2, OnlyWorkCounts DEF Quiet
  <2> QED
    BY <1>3, <2>3 DEF Settled
<1> QED
  BY <1>4, <1>5

(* The two exceptions are for ever.                                        *)
LEMMA ExcusedStays ==
  ASSUME TypeOK, WorkInv, Next, NEW x \in RunId, Excused(x)
  PROVE  Excused(x)'
BY HistorySteps, RaisedStays DEF HistoryStep, Excused

(* A proposal lies inside the window of its run, or its run is excused:    *)
(* why retryability, which looks at windows only, does not miss one.       *)
ProducedInv == \A r \in produced : r \in windowed \/ Excused(r)

(* A proposal falls into the window of its run, or the run is excused.     *)
LEMMA ProducedStep ==
  ASSUME TypeOK, WorkInv, ProducedInv, [Next]_vars
  PROVE  ProducedInv'
<1>1. CASE UNCHANGED vars
  BY <1>1 DEF vars, tables, memory, ProducedInv, Excused
<1> SUFFICES ASSUME Next, NEW x \in produced' PROVE (x \in windowed \/ Excused(x))'
  BY <1>1 DEF ProducedInv
<1>2. HistoryStep
  BY HistorySteps
<1>3. CASE x \in produced
  <2>1. x \in RunId
    BY <1>3 DEF TypeOK, Rows, Ledger!Rows
  <2> QED
    BY <1>2, <1>3, <2>1, ExcusedStays DEF ProducedInv, HistoryStep
<1>4. ASSUME NEW r \in RunId, NEW t \in Trader, TraderPropose(r, t), x = r
      PROVE  (x \in windowed \/ Excused(x))'
  <2>1. CASE exec[r] = "raised" \/ r \in aged
    BY <1>4, <2>1, ExcusedStays DEF Excused
  <2>2. CASE exec[r] = "running" /\ r \notin aged
    <3>1. r \in OpenRows
      BY <2>2 DEF WorkInv, WorkSound, Held, OpenRows, Ledger!OpenRows, Rows, Ledger!Rows, Ledger!Open
    <3> QED
      BY <1>4, <3>1 DEF TraderPropose
  <2> QED
    BY <1>4, <2>1, <2>2 DEF TraderPropose, MayWork
<1>5. CASE x \notin produced
  <2>1. produced' # produced
    BY <1>5
  <2>2. PICK r \in RunId, t \in Trader : TraderPropose(r, t)
    BY <2>1
    DEF Next, RunStep, tables, memory, BeginReserve, CommitReserve, Crash, BeginRetry,
        CommitRetry, SchedulerStart, SchedulerStop, SchedulerExit, ApiStop,
      StartRun, ReadOutcome, CompleteRun,
        FinishInterrupted, TraderStart, TraderInterrupted, TraderFinish, CancelManual,
        GraceExpires, TraderRaises, Age
  <2>3. x = r
    BY <1>5, <2>2 DEF TraderPropose
  <2> QED
    BY <1>4, <2>2, <2>3
<1> QED
  BY <1>3, <1>5

(* Between the two transactions of a retry its run stays settled.          *)
LEMMA RequestStep ==
  ASSUME TypeOK, WorkInv, RequestInv, ProducedInv, [Next]_vars
  PROVE  RequestInv'
<1>1. CASE UNCHANGED vars
  BY <1>1 DEF vars, tables, memory, RequestInv, Settled, Ledger!MayRetry, Ledger!Rows,
              Quiet, Excused
<1> SUFFICES ASSUME Next PROVE RequestInv'
  BY <1>1
<1> DEFINE q == request["api"]
<1>2. q \in Request \cup {NoRequest} /\ (q # NoRequest /\ q.of # NoRun => q.of \in RunId)
  BY DEF TypeOK, Process, Request
<1>3. CASE q' = q
  <2>1. ASSUME NEW r \in RunId, r = q.of, q # NoRequest, q.of # NoRun
        PROVE  Settled(r)' /\ q.snapshot = run'[r].snapshot
    <3>1. Settled(r) /\ q.snapshot = run[r].snapshot
      BY <2>1 DEF RequestInv
    <3>2. run'[r].snapshot = run[r].snapshot
      BY <3>1, TableSteps, RowsAreKept DEF RowsKept, Settled, Ledger!MayRetry, Rows
    <3> QED
      BY <3>1, <3>2, SettledStays
  <2> QED
    BY <1>2, <1>3, <2>1 DEF RequestInv, Settled, Ledger!MayRetry, Ledger!Rows, Quiet, Excused
<1>4. CASE q' = NoRequest
  BY <1>4 DEF RequestInv
<1>5. ASSUME NEW p \in Process, NEW k \in Key, NEW s \in Snapshot, BeginReserve(p, k, s)
      PROVE  RequestInv'
  <2>1. q' = q \/ q'.of = NoRun
    BY <1>5 DEF BeginReserve, TypeOK
  <2> QED
    BY <1>3, <2>1 DEF RequestInv
<1>6. ASSUME NEW r \in RunId, NEW k \in ManualKey, BeginRetry(r, k)
      PROVE  RequestInv'
  <2>1. q' = [key |-> k, snapshot |-> run[r].snapshot, of |-> r] /\ UNCHANGED <<tables, exec>>
    BY <1>6 DEF BeginRetry, TypeOK, Process
  <2>2. Settled(r)
    BY <1>6 DEF BeginRetry, Retryable, Settled, Quiet, ProducedInv
  <2> QED
    BY <2>1, <2>2 DEF RequestInv, tables, Settled, Ledger!MayRetry, Ledger!Rows, Quiet, Excused
<1>7. ASSUME NEW p \in Process, CommitReserve(p) \/ Crash(p)
      PROVE  q' = q \/ q' = NoRequest
  BY <1>7 DEF CommitReserve, Crash, TypeOK, Process
<1>8. CommitRetry => q' = NoRequest
  BY DEF CommitRetry, TypeOK, Process
<1> QED
  BY <1>3, <1>4, <1>5, <1>6, <1>7, <1>8
  DEF Next, RunStep, tables, memory, SchedulerStart, SchedulerStop, SchedulerExit, ApiStop, StartRun,
      ReadOutcome, CompleteRun, FinishInterrupted, TraderStart, TraderInterrupted, TraderFinish,
      CancelManual, GraceExpires, TraderRaises, TraderPropose, Age

(* The parents of retries are settled.                                     *)
RetryInv == \A q \in Rows : run[q].retryOf # NoRun => Settled(run[q].retryOf)

(* A retry is inserted for a settled run, and its run stays settled.       *)
LEMMA RetryStep ==
  ASSUME TypeOK, WorkInv, RequestInv, RetryInv, [Next]_vars
  PROVE  RetryInv'
<1>1. CASE UNCHANGED vars
  BY <1>1 DEF vars, tables, memory, RetryInv, Settled, Ledger!MayRetry, Ledger!Rows, Rows,
              Quiet, Excused
<1> SUFFICES ASSUME Next, NEW q \in Rows', run'[q].retryOf # NoRun
             PROVE  Settled(run[q].retryOf)'
  BY <1>1 DEF RetryInv
<1>2. TableStep /\ RowsKept
  BY TableSteps, RowsAreKept
<1>3. CASE q \in Rows
  <2>1. run'[q].retryOf = run[q].retryOf /\ run[q].retryOf \in RunId
    BY <1>2, <1>3 DEF RowsKept, TypeOK, Rows, Ledger!Rows, Ledger!Row
  <2>2. PICK r \in RunId : r = run[q].retryOf /\ r = run'[q].retryOf
    BY <2>1
  <2>3. Settled(r)'
    BY <1>3, <2>2, SettledStays DEF RetryInv
  <2> QED
    BY <2>2, <2>3
<1>4. CASE q \notin Rows
  <2>1. Inserting
    <3>1. CASE Restating
      BY <1>4, <3>1, RestatedRows DEF Restating
    <3>2. CASE Starting
      BY <1>4, <3>2, StartedRow DEF Starting
    <3>3. ~UNCHANGED run
      BY <1>4 DEF Rows, Ledger!Rows
    <3> QED
      BY <1>2, <3>1, <3>2, <3>3 DEF TableStep
  <2>2. PICK x \in Fresh, k \in Key, s \in Snapshot, r \in RunId \cup {NoRun} :
          /\ r # NoRun => Settled(r)
          /\ run' = [run EXCEPT ![x] = Ledger!Queued(k, s, r)]
    BY <2>1 DEF Inserting
  <2>3. q = x /\ run'[q].retryOf = r
    <3>1. run' = [run EXCEPT ![x] = Ledger!Queued(k, s, r)]
      BY <2>2
    <3>2. Rows' = Rows \cup {x} /\ run'[x].retryOf = r
      BY <3>1, InsertedRow DEF Fresh
    <3> QED
      BY <1>4, <3>2
  <2>4. r \in RunId /\ Settled(r)'
    BY <2>2, <2>3, SettledStays
  <2> QED
    BY <2>3, <2>4
<1> QED
  BY <1>3, <1>4

(* At most one run is open.                                                *)
OneOpen == \A r, q \in OpenRows : r = q

(* A row is inserted only when none is open.                               *)
LEMMA OneOpenStep ==
  ASSUME TypeOK, WorkInv, RequestInv, OneOpen, [Next]_vars
  PROVE  OneOpen'
<1>1. CASE UNCHANGED run
  BY <1>1 DEF OneOpen, OpenRows, Ledger!OpenRows, Ledger!Rows
<1>2. CASE Restating
  BY <1>2, RestatedRows DEF Restating, OneOpen
<1>3. CASE Starting
  BY <1>3, StartedRow DEF Starting, OneOpen
<1>4. CASE Inserting
  BY <1>4, InsertedRow DEF Inserting, OneOpen, MayInsert
<1>5. TableStep \/ UNCHANGED run
  BY TableSteps DEF vars, tables
<1> QED
  BY <1>1, <1>2, <1>3, <1>4, <1>5 DEF TableStep

-----------------------------------------------------------------------------
(* The ledger                                                              *)

(* Every write of the table is a step of the ledger.                       *)
LEMMA LedgerStep ==
  ASSUME TypeOK, OneOpen, TableStep
  PROVE  [Ledger!Next]_run
<1>1. CASE Starting
  BY <1>1 DEF Starting, Ledger!Next, Ledger!Begin, Rows, Ledger!Rows
<1>2. CASE Inserting
  <2>1. PICK r \in Fresh, k \in Key, s \in Snapshot, q \in RunId \cup {NoRun} :
          /\ MayInsert(k)
          /\ q = NoRun => s \notin Ledger!SnapsTaken
          /\ q # NoRun => Settled(q) /\ s = run[q].snapshot
          /\ run' = [run EXCEPT ![r] = Ledger!Queued(k, s, q)]
    BY <1>2 DEF Inserting
  <2>2. r \in RunId /\ r \notin Ledger!Rows /\ Ledger!OpenRows = {} /\ k \notin Ledger!KeysTaken
    BY <2>1 DEF Fresh, Rows, MayInsert, OpenRows
  <2>3. CASE q = NoRun
    <3>1. Ledger!Reserve(r, k, s)
      BY <2>1, <2>2, <2>3 DEF Ledger!Reserve
    <3> QED
      BY <2>2, <3>1 DEF Ledger!Next
  <2>4. CASE q # NoRun
    <3>1. Ledger!Retry(r, k, q)
      BY <2>1, <2>2, <2>4 DEF Ledger!Retry, Settled
    <3> QED
      BY <2>2, <2>4, <3>1 DEF Ledger!Next
  <2> QED
    BY <2>3, <2>4
<1>3. CASE Restating
  <2>1. PICK S \in SUBSET RunId, st \in Ledger!Closed :
          /\ run' = Restated(S, st)
          /\ st = "interrupted" \/ \A r \in S : run[r].status # "queued"
    BY <1>3 DEF Restating
  <2>2. CASE OpenRows \cap S = {}
    BY <2>1, <2>2 DEF Restated, TypeOK
  <2>3. ASSUME NEW r \in OpenRows \cap S
        PROVE  Ledger!Next
    <3>1. \A x \in RunId : x \in OpenRows \cap S <=> x = r
      BY <2>3 DEF OneOpen
    <3>2. run' = [run EXCEPT ![r].status = st]
      BY <2>1, <2>3, <3>1 DEF Restated, TypeOK
    <3>3. Ledger!Close(r, st)
      BY <2>1, <2>3, <3>2 DEF Ledger!Close, OpenRows
    <3> QED
      BY <2>1, <3>3 DEF Ledger!Next
  <2> QED
    BY <2>2, <2>3
<1> QED
  BY <1>1, <1>2, <1>3 DEF TableStep

-----------------------------------------------------------------------------
(* Outcomes                                                                *)

(* An outcome that was read, or stored, and the cycles it was read from.   *)
Agrees(r, outcome) ==
  /\ outcome = "succeeded" => \A t \in Trader : cycle[r][t] = "succeeded"
  /\ outcome = "partial_success" => \E t \in Trader : cycle[r][t] \in Succeeded
  /\ outcome = "failed" => \A t \in Trader : cycle[r][t] \notin Succeeded

(* A run that got its outcome is over; one that failed may have been left  *)
(* by an exception while the siblings go on. The outcome that was read but *)
(* not yet stored agrees with the cycles.                                  *)
OutcomeInv ==
  /\ \A r \in Rows :
       /\ run[r].status \in {"succeeded", "partial_success"} => exec[r] = "none"
       /\ run[r].status = "failed" => exec[r] \in {"none", "raised"}
  /\ \A r \in RunId : exec[r] \in Outcome => Agrees(r, exec[r])

(* The cycles of a run that is over, or has read its outcome, are final,   *)
(* but for the scheduler's start, which closes those that are still        *)
(* running.                                                                *)
LEMMA OverCyclesStay ==
  ASSUME TypeOK, WorkInv, Next, NEW x \in RunId, exec[x] \in Outcome \cup {"none"},
         NEW t \in Trader
  PROVE  \/ cycle'[x][t] = cycle[x][t]
         \/ cycle[x][t] = "running" /\ cycle'[x][t] = "unsuccessful"
<1> DEFINE Kept == cycle'[x][t] = cycle[x][t]
<1>1. exec[x] \notin {"running", "raised", "cancelling", "unwinding"} /\ trader[x][t] # "working"
  BY DEF Outcome, WorkInv, WorkSound
<1>2. CASE cycle' = cycle
  BY <1>2
<1>3. ASSUME NEW r \in RunId, NEW u \in Trader, ~(r = x /\ u = t),
             \E v : cycle' = [cycle EXCEPT ![r][u] = v]
      PROVE  Kept
  BY <1>3 DEF TypeOK
<1>4. ASSUME NEW r \in RunId, NEW u \in Trader,
             \/ TraderStart(r, u) \/ TraderInterrupted(r, u)
             \/ \E st \in CycleStatus : TraderFinish(r, u, st)
      PROVE  Kept
  <2>1. ~(r = x /\ u = t)
    BY <1>1, <1>4 DEF TraderStart, TraderInterrupted, TraderFinish, MayWork, Working
  <2>2. \E v : cycle' = [cycle EXCEPT ![r][u] = v]
    BY <1>4 DEF TraderStart, TraderInterrupted, TraderFinish
  <2> QED
    BY <1>3, <2>1, <2>2
<1>5. CASE ApiStop
  BY <1>1, <1>5 DEF ApiStop, Working
<1>6. ASSUME SchedulerStart
      PROVE  Kept \/ (cycle[x][t] = "running" /\ cycle'[x][t] = "unsuccessful")
  BY <1>6 DEF SchedulerStart
<1> QED
  BY <1>2, <1>4, <1>5, <1>6
  DEF Next, RunStep, tables, memory, BeginReserve, CommitReserve, Crash, BeginRetry,
      CommitRetry, CancelManual, GraceExpires, Age, TraderPropose, SchedulerStop,
      SchedulerExit, StartRun, ReadOutcome, CompleteRun, FinishInterrupted, TraderRaises

(* So an outcome that agrees with them goes on doing so.                   *)
LEMMA AgreementStays ==
  ASSUME TypeOK, WorkInv, Next, NEW x \in RunId, exec[x] \in Outcome \cup {"none"},
         NEW o, Agrees(x, o)
  PROVE  Agrees(x, o)'
<1>1. \A t \in Trader : \/ cycle'[x][t] = cycle[x][t]
                        \/ cycle[x][t] = "running" /\ cycle'[x][t] = "unsuccessful"
  BY OverCyclesStay
<1>2. \A t \in Trader : /\ cycle[x][t] = "succeeded" => cycle'[x][t] = "succeeded"
                        /\ cycle[x][t] \in Succeeded <=> cycle'[x][t] \in Succeeded
  BY <1>1 DEF Succeeded
<1> QED
  BY <1>2 DEF Agrees

(* The outcome that cycle_outcome reads agrees with the cycles.            *)
LEMMA OutcomeAgrees == \A r \in RunId : Agrees(r, CycleOutcome(r))
BY DEF Agrees, CycleOutcome, Succeeded

(* Only ReadOutcome gives a coroutine an outcome to store.                 *)
LEMMA OutcomeReads ==
  ASSUME TypeOK, Next, NEW x \in RunId, exec'[x] \in Outcome
  PROVE  \/ exec'[x] = exec[x]
         \/ ReadOutcome(x) /\ exec'[x] = CycleOutcome(x)
<1>1. CASE exec' = exec
  BY <1>1
<1>2. ASSUME NEW r \in RunId, NEW v, v \notin Outcome, exec' = [exec EXCEPT ![r] = v]
      PROVE  exec'[x] = exec[x]
  BY <1>2 DEF TypeOK
<1>3. ASSUME NEW r \in RunId,
             \/ StartRun(r) \/ CompleteRun(r) \/ FinishInterrupted(r)
             \/ CancelManual(r) \/ GraceExpires(r) \/ \E t \in Trader : TraderRaises(r, t)
      PROVE  exec'[x] = exec[x]
  <2>1. {"running", "none", "unwinding", "cancelling", "raised"} \cap Outcome = {}
    BY DEF Outcome
  <2>2. \E v \in {"running", "none", "unwinding", "cancelling", "raised"} :
          exec' = [exec EXCEPT ![r] = v]
    BY <1>3 DEF StartRun, RunEnds, CompleteRun, FinishInterrupted, CancelManual, GraceExpires,
                TraderRaises
  <2> QED
    BY <1>2, <2>1, <2>2
<1>4. ASSUME NEW p \in Process, NEW r \in RunId, Launch(p, r)
      PROVE  exec'[x] = exec[x]
  BY <1>2, <1>4 DEF Launch, Outcome
<1>5. ASSUME NEW p \in Process, EndCoroutines(p)
      PROVE  exec'[x] = exec[x]
  BY <1>5 DEF EndCoroutines, ExecWithout, Outcome
<1>6. ASSUME NEW r \in RunId, ReadOutcome(r)
      PROVE  exec'[x] = exec[x] \/ (ReadOutcome(x) /\ exec'[x] = CycleOutcome(x))
  BY <1>6 DEF ReadOutcome, TypeOK
<1> QED
  BY <1>1, <1>3, <1>4, <1>5, <1>6
  DEF Next, RunStep, tables, memory, BeginReserve, CommitReserve, Crash, BeginRetry, CommitRetry,
      Insert, NoNewRun, Fresh, Rows, Ledger!Rows, SchedulerStart, SchedulerStop, SchedulerExit,
      ApiStop, Age, TraderPropose, TraderStart, TraderInterrupted, TraderFinish, Process

(* Only the completion of a run and an exception of a trader write an      *)
(* outcome.                                                                *)
LEMMA OutcomeWrites ==
  ASSUME TypeOK, WorkInv, Next, NEW x \in RunId, run'[x] # run[x], run'[x].status \in Outcome
  PROVE  \/ CompleteRun(x) /\ run'[x].status = exec[x]
         \/ /\ \E t \in Trader : TraderRaises(x, t)
            /\ run'[x].status = "failed"
<1>1. \A S, st : run' = Restated(S, st) =>
        x \in S /\ run[x] \in Ledger!Row /\ run'[x] = [run[x] EXCEPT !.status = st]
  BY DEF Restated, TypeOK, OpenRows, Ledger!OpenRows, Ledger!Rows
<1>2. ASSUME NEW S, NEW st, run' = Restated(S, st)
      PROVE  x \in S /\ run'[x].status = st
  <2>1. x \in S /\ run[x] \in Ledger!Row /\ run'[x] = [run[x] EXCEPT !.status = st]
    BY <1>1, <1>2
  <2>2. [run[x] EXCEPT !.status = st].status = st
    BY <2>1 DEF Ledger!Row
  <2> QED
    BY <2>1, <2>2
<1>3. ASSUME NEW S, run' = Restated(S, "interrupted")
      PROVE  FALSE
  BY <1>2, <1>3 DEF Outcome
<1>4. ASSUME NEW p \in Process, NEW k \in Key, NEW s \in Snapshot, BeginReserve(p, k, s)
      PROVE  FALSE
  BY <1>3, <1>4, RecoveringRestates DEF BeginReserve
<1>5. ASSUME NEW r \in RunId, NEW k, NEW s, NEW q, run' = [run EXCEPT ![r] = Ledger!Queued(k, s, q)]
      PROVE  FALSE
  <2>1. run'[x] = Ledger!Queued(k, s, q)
    BY <1>5 DEF TypeOK
  <2> QED
    BY <2>1 DEF Ledger!Queued, Outcome
<1>6. ASSUME CommitRetry \/ \E p \in Process : CommitReserve(p)
      PROVE  FALSE
  BY <1>5, <1>6 DEF CommitReserve, CommitRetry, Insert, NoNewRun, Fresh
<1>7. ASSUME NEW r \in RunId, StartRun(r)
      PROVE  FALSE
  <2>1. run' = [run EXCEPT ![r].status = "running"] /\ r \in Rows
    BY <1>7 DEF StartRun, WorkInv, WorkSound
  <2>2. run[r] \in Ledger!Row
    BY <2>1 DEF TypeOK, Rows, Ledger!Rows
  <2>3. run'[x].status = "running"
    BY <2>1, <2>2 DEF TypeOK, Ledger!Row
  <2> QED
    BY <2>3 DEF Outcome
<1>8. ASSUME NEW r \in RunId, CompleteRun(r)
      PROVE  CompleteRun(x) /\ run'[x].status = exec[x]
  <2>1. run' = Restated({r}, exec[r])
    BY <1>8, ClosingRestates DEF CompleteRun
  <2>2. x = r
    BY <1>2, <2>1
  <2> QED
    BY <1>2, <1>8, <2>1, <2>2
<1>9. ASSUME NEW r \in RunId, FinishInterrupted(r)
      PROVE  FALSE
  BY <1>3, <1>9, ClosingRestates DEF FinishInterrupted
<1>10. ASSUME NEW r \in RunId, NEW t \in Trader, TraderRaises(r, t)
       PROVE  TraderRaises(x, t) /\ run'[x].status = "failed"
  <2>1. run' = Restated({r}, "failed")
    BY <1>10, ClosingRestates DEF TraderRaises
  <2>2. x = r
    BY <1>2, <2>1
  <2> QED
    BY <1>2, <1>10, <2>1, <2>2
<1>11. ASSUME ApiStop
       PROVE  FALSE
  <2>1. \A r \in RunId : Closing(r, "interrupted")[r] =
          IF r \in OpenRows THEN [run[r] EXCEPT !.status = "interrupted"] ELSE run[r]
    BY DEF Closing, TypeOK
  <2>2. run'[x] = [run[x] EXCEPT !.status = "interrupted"] /\ x \in OpenRows
    BY <1>11, <2>1 DEF ApiStop
  <2>3. run[x] \in Ledger!Row
    BY <2>2 DEF TypeOK, OpenRows, Ledger!OpenRows, Ledger!Rows
  <2>4. run'[x].status = "interrupted"
    BY <2>2, <2>3 DEF Ledger!Row
  <2> QED
    BY <2>4 DEF Outcome
<1> QED
  BY <1>4, <1>6, <1>7, <1>8, <1>9, <1>10, <1>11
  DEF Next, RunStep, tables, memory, BeginRetry, Crash, SchedulerStart,
      SchedulerStop, SchedulerExit, ReadOutcome, Age, CancelManual, GraceExpires,
      TraderStart, TraderInterrupted, TraderFinish, TraderPropose

(* Steps keep the outcomes in agreement with the cycles.                   *)
LEMMA OutcomeStep ==
  ASSUME TypeOK, WorkInv, RequestInv, OutcomeInv, OutcomeMatchesCycles, [Next]_vars
  PROVE  OutcomeInv' /\ OutcomeMatchesCycles'
<1>1. CASE UNCHANGED vars
  BY <1>1 DEF vars, tables, memory, OutcomeInv, OutcomeMatchesCycles, Agrees, Rows, Ledger!Rows
<1>2. ASSUME Next, NEW x \in RunId, exec'[x] \in Outcome
      PROVE  Agrees(x, exec[x])'
  <2>1. CASE exec'[x] = exec[x]
    <3>1. PICK o : o = exec[x]
      OBVIOUS
    <3>2. Agrees(x, o)'
      BY <1>2, <2>1, <3>1, AgreementStays DEF OutcomeInv
    <3> QED
      BY <2>1, <3>1, <3>2 DEF Agrees
  <2>2. CASE ReadOutcome(x) /\ exec'[x] = CycleOutcome(x)
    <3>1. PICK o : o = CycleOutcome(x)
      OBVIOUS
    <3>2. Agrees(x, o) /\ cycle' = cycle
      BY <2>2, <3>1, OutcomeAgrees DEF ReadOutcome, tables
    <3> QED
      BY <2>2, <3>1, <3>2 DEF Agrees
  <2> QED
    BY <1>2, <2>1, <2>2, OutcomeReads
<1>3. ASSUME Next, NEW x \in Rows', run'[x].status \in Outcome
      PROVE  \/ exec'[x] = "none" /\ Agrees(x, run[x].status)'
             \/ exec'[x] = "raised" /\ run'[x].status = "failed"
  <2>0. x \in RunId
    BY <1>3 DEF Rows, Ledger!Rows
  <2>1. CASE run'[x] = run[x]
    <3>1. x \in Rows /\ run[x].status \in Outcome
      BY <1>3, <2>1 DEF Rows, Ledger!Rows
    <3>2. x \notin OpenRows /\ exec[x] \in {"none", "raised"}
      BY <3>1 DEF OutcomeInv, Outcome, OpenRows, Ledger!OpenRows, Ledger!Open
    <3>3. exec'[x] = exec[x]
      BY <1>3, <2>0, <3>1, <3>2, OverStays
    <3>4. CASE exec[x] = "raised"
      BY <2>1, <3>1, <3>3, <3>4 DEF OutcomeInv, Outcome
    <3>5. CASE exec[x] = "none"
      <4>1. PICK o : o = run[x].status
        OBVIOUS
      <4>2. Agrees(x, o)
        BY <3>1, <3>5, <4>1 DEF OutcomeMatchesCycles, Agrees
      <4>3. Agrees(x, o)'
        BY <1>3, <2>0, <3>5, <4>2, AgreementStays
      <4> QED
        BY <2>1, <3>3, <3>5, <4>1, <4>3 DEF Agrees
    <3> QED
      BY <3>2, <3>4, <3>5
  <2>2. CASE CompleteRun(x) /\ run'[x].status = exec[x]
    <3>1. exec'[x] = "none" /\ cycle' = cycle /\ Agrees(x, exec[x])
      BY <2>0, <2>2 DEF CompleteRun, RunEnds, OutcomeInv, TypeOK
    <3> QED
      BY <2>2, <3>1 DEF Agrees
  <2>3. CASE (\E t \in Trader : TraderRaises(x, t)) /\ run'[x].status = "failed"
    BY <2>0, <2>3 DEF TraderRaises, TypeOK
  <2> QED
    BY <1>3, <2>0, <2>1, <2>2, <2>3, OutcomeWrites
<1>4. ASSUME Next
      PROVE  OutcomeInv' /\ OutcomeMatchesCycles'
  <2>1. OutcomeInv'
    BY <1>2, <1>3, <1>4 DEF OutcomeInv, Outcome
  <2>2. \A x \in Rows' : run'[x].status \in Outcome =>
          \/ exec'[x] = "none" /\ Agrees(x, run[x].status)'
          \/ exec'[x] = "raised" /\ run'[x].status = "failed"
    BY <1>3, <1>4
  <2>3. OutcomeMatchesCycles'
    BY <2>2 DEF OutcomeMatchesCycles, Agrees, Outcome
  <2> QED
    BY <2>1, <2>3
<1> QED
  BY <1>1, <1>4

-----------------------------------------------------------------------------
(* The inductive invariant                                                 *)

IInv ==
  /\ TypeOK /\ WorkInv /\ RequestInv /\ ProducedInv /\ RetryInv /\ OneOpen
  /\ OutcomeInv /\ OutcomeMatchesCycles

(* The invariant holds of an empty database.                               *)
LEMMA IInvInit == Init => IInv
<1> SUFFICES ASSUME Init PROVE IInv
  OBVIOUS
<1>1. Rows = {} /\ OpenRows = {}
  BY DEF Init, Rows, Ledger!Rows, OpenRows, Ledger!OpenRows
<1>2. TypeOK
  BY <1>1, ConstantsAreValid DEF Init, TypeOK, ExecState, CycleStatus, Process
<1>3. WorkInv
  BY DEF Init, WorkInv, WorkSound, Outcome
<1>4. RequestInv /\ ProducedInv /\ RetryInv /\ OneOpen
  BY <1>1 DEF Init, RequestInv, ProducedInv, RetryInv, OneOpen, Process
<1>5. OutcomeInv /\ OutcomeMatchesCycles
  BY <1>1 DEF Init, Outcome, OutcomeInv, OutcomeMatchesCycles
<1> QED
  BY <1>2, <1>3, <1>4, <1>5 DEF IInv

(* Every step keeps the invariant.                                         *)
LEMMA IInvStep == IInv /\ [Next]_vars => IInv'
BY TypeStep, WorkStep, RequestStep, ProducedStep, RetryStep, OneOpenStep, OutcomeStep DEF IInv

(* So it always holds.                                                     *)
LEMMA IInvHolds == Spec => []IInv
BY IInvInit, IInvStep, PTL DEF Spec

(* Every reachable state is of the declared type, whatever the processes,  *)
(* their faults and the clients do.                                        *)
THEOREM TypeIsSound == Spec => []TypeOK
<1>1. IInv => TypeOK
  BY DEF IInv
<1> QED
  BY <1>1, IInvHolds, PTL

(* A trader works under the lock of a running row, unless its run is past  *)
(* its recovery window, was left by an exception of a sibling, or was      *)
(* cancelled and closed while this trader still unwinds.                   *)
THEOREM WorkIsUnderLock == Spec => []WorkUnderLock
<1>1. IInv => WorkUnderLock
  BY DEF IInv, WorkInv, WorkSound, Held, WorkUnderLock, Working
<1> QED
  BY <1>1, IInvHolds, PTL

(* A retried run produced nothing and never will, unless it is past its    *)
(* recovery window or was left by an exception of a trader.                *)
THEOREM RetriesAreQuiet == Spec => []RetriedRunsAreQuiet
<1>1. IInv => RetriedRunsAreQuiet
  BY DEF IInv, RetryInv, Settled, Quiet, Excused, RetriedRunsAreQuiet
<1> QED
  BY <1>1, IInvHolds, PTL

(* The outcome of a run agrees with the cycles of its traders for ever     *)
(* after, unless it was left by an exception while siblings went on.       *)
THEOREM OutcomesAreTrue == Spec => []OutcomeMatchesCycles
<1>1. IInv => OutcomeMatchesCycles
  BY DEF IInv
<1> QED
  BY <1>1, IInvHolds, PTL

(* The API and the scheduler, whatever the interleaving of their           *)
(* transactions and wherever they crash, do to the agent_runs table what   *)
(* its specification allows and nothing else.                              *)
THEOREM ProcessesImplementLedger == Spec => ImplementsLedger
<1>1. Init => Ledger!Init
  BY DEF Init, Ledger!Init
<1>2. IInv /\ [Next]_vars => [Ledger!Next]_run
  <2>1. CASE UNCHANGED vars
    BY <2>1 DEF vars, tables
  <2>2. ASSUME IInv, Next
        PROVE  [Ledger!Next]_run
    BY <2>2, TableSteps, LedgerStep DEF IInv
  <2> QED
    BY <2>1, <2>2
<1> QED
  BY <1>1, <1>2, IInvHolds, PTL DEF Spec, ImplementsLedger, Ledger!Spec

-----------------------------------------------------------------------------
(* What the ledger's theorems mean for the processes                       *)

LedgerProofs == INSTANCE AgentRunLedgerProofs WITH ledger <- run

(* The two instances of the ledger speak of the same table.                *)
LEMMA SameLedger ==
  /\ LedgerProofs!NullsAreFresh
  /\ Ledger!Init => LedgerProofs!Init
  /\ [Ledger!Next]_run => [LedgerProofs!Next]_run
  /\ LedgerProofs!OneOpenRun => Ledger!OneOpenRun
  /\ LedgerProofs!KeysAreUnique => Ledger!KeysAreUnique
  /\ LedgerProofs!SnapshotLineage => Ledger!SnapshotLineage
<1>1. /\ LedgerProofs!Open = Ledger!Open /\ LedgerProofs!Closed = Ledger!Closed
      /\ LedgerProofs!Row = Ledger!Row
  BY DEF LedgerProofs!Open, Ledger!Open, LedgerProofs!Closed, Ledger!Closed,
         LedgerProofs!Row, Ledger!Row
<1>2. LedgerProofs!Rows = Ledger!Rows
  BY DEF LedgerProofs!Rows, Ledger!Rows
<1>3. LedgerProofs!OpenRows = Ledger!OpenRows
  BY <1>1, <1>2 DEF LedgerProofs!OpenRows, Ledger!OpenRows
<1>4. /\ LedgerProofs!KeysTaken = Ledger!KeysTaken /\ LedgerProofs!SnapsTaken = Ledger!SnapsTaken
      /\ \A r : LedgerProofs!MayRetry(r) = Ledger!MayRetry(r)
  BY <1>2 DEF LedgerProofs!KeysTaken, Ledger!KeysTaken, LedgerProofs!SnapsTaken,
              Ledger!SnapsTaken, LedgerProofs!MayRetry, Ledger!MayRetry
<1>5. LedgerProofs!NullsAreFresh
  BY <1>1, ConstantsAreValid
     DEF ConstantsAreValid, LedgerProofs!NullsAreFresh, Ledger!NullsAreFresh
<1>6. [Ledger!Next]_run => [LedgerProofs!Next]_run
  BY <1>1, <1>2, <1>3, <1>4
     DEF Ledger!Next, LedgerProofs!Next, Ledger!Reserve, LedgerProofs!Reserve,
         Ledger!Retry, LedgerProofs!Retry, Ledger!Begin, LedgerProofs!Begin,
         Ledger!Close, LedgerProofs!Close, Ledger!Queued, LedgerProofs!Queued
<1> QED
  BY <1>2, <1>3, <1>4, <1>5, <1>6
     DEF Ledger!Init, LedgerProofs!Init, Ledger!OneOpenRun, LedgerProofs!OneOpenRun,
         Ledger!KeysAreUnique, LedgerProofs!KeysAreUnique, Ledger!SnapshotLineage,
         LedgerProofs!SnapshotLineage

(* So the processes do what the proofs about the ledger assume.            *)
LEMMA ProcessesKeepLedger == Spec => LedgerProofs!Spec
BY ProcessesImplementLedger, SameLedger, PTL
   DEF ImplementsLedger, Ledger!Spec, LedgerProofs!Spec

(* Whatever API and scheduler interleave and crash, the table has one open *)
(* run at most, one run for a key, and one lineage of retries for a        *)
(* snapshot.                                                               *)
THEOREM TableIsSound ==
  Spec => [](Ledger!OneOpenRun /\ Ledger!KeysAreUnique /\ Ledger!SnapshotLineage)
<1>1. LedgerProofs!Spec =>
        [](LedgerProofs!TypeOK /\ LedgerProofs!OneOpenRun /\ LedgerProofs!KeysAreUnique /\ LedgerProofs!SnapshotLineage)
  BY SameLedger, LedgerProofs!LedgerIsSound
<1> QED
  BY <1>1, ProcessesKeepLedger, SameLedger, PTL

(* Whatever they do, a row that has closed is never written again.         *)
THEOREM ClosedRunsStay == Spec => Ledger!ClosedIsFinal
<1>1. LedgerProofs!Spec => LedgerProofs!ClosedIsFinal
  BY SameLedger, LedgerProofs!ClosedRowsStay
<1>2. LedgerProofs!ClosedIsFinal => Ledger!ClosedIsFinal
  BY PTL DEF LedgerProofs!ClosedIsFinal, Ledger!ClosedIsFinal, LedgerProofs!Rows, Ledger!Rows,
         LedgerProofs!Closed, Ledger!Closed
<1> QED
  BY <1>1, <1>2, ProcessesKeepLedger, PTL
=============================================================================
