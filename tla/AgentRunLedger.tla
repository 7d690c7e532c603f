--------------------------- MODULE AgentRunLedger ---------------------------
(***************************************************************************)
(* What the agent_runs table promises to its readers, with no word about   *)
(* the processes that write it: a run is queued, may start, and closes     *)
(* once; at most one run is open; a request key and a market snapshot are  *)
(* reserved once; only a failed or interrupted run gets another attempt.   *)
(* AgentRuns implements this specification (ImplementsLedger there).       *)
(***************************************************************************)
CONSTANTS
  RunId,      (* agent_runs.run_id                                         *)
  Key,        (* agent_runs.idempotency_key                                *)
  Snapshot,   (* a (market_mode, market_timestamp) pair                    *)
  NoRun,      (* retry_of of a first attempt                               *)
  NoRow       (* the ledger entry of a run_id that is not in the table     *)

Open   == {"queued", "running"}
Closed == {"succeeded", "partial_success", "failed", "interrupted"}

Row == [status : Open \cup Closed, key : Key, snapshot : Snapshot,
        retryOf : RunId \cup {NoRun}]

(* What the theorems assume; AgentRuns assumes it of its own constants.     *)
NullsAreFresh == NoRun \notin RunId /\ NoRow \notin Row

VARIABLE ledger

Rows        == {r \in RunId : ledger[r] # NoRow}
OpenRows    == {r \in Rows : ledger[r].status \in Open}
KeysTaken   == {ledger[r].key : r \in Rows}
SnapsTaken  == {ledger[r].snapshot : r \in Rows}
MayRetry(r) == r \in Rows /\ ledger[r].status \in {"failed", "interrupted"}

Queued(k, s, q) == [status |-> "queued", key |-> k, snapshot |-> s, retryOf |-> q]

Init == ledger = [r \in RunId |-> NoRow]

Reserve(r, k, s) ==
  /\ r \notin Rows /\ OpenRows = {}
  /\ k \notin KeysTaken /\ s \notin SnapsTaken
  /\ ledger' = [ledger EXCEPT ![r] = Queued(k, s, NoRun)]

Retry(r, k, q) ==
  /\ r \notin Rows /\ OpenRows = {}
  /\ k \notin KeysTaken
  /\ MayRetry(q)
  /\ ledger' = [ledger EXCEPT ![r] = Queued(k, ledger[q].snapshot, q)]

Begin(r) ==
  /\ r \in Rows /\ ledger[r].status = "queued"
  /\ ledger' = [ledger EXCEPT ![r].status = "running"]

(* A run that never started can only be interrupted.                       *)
Close(r, st) ==
  /\ r \in OpenRows
  /\ ledger[r].status = "queued" => st = "interrupted"
  /\ ledger' = [ledger EXCEPT ![r].status = st]

Next ==
  \E r \in RunId :
    \/ \E k \in Key, s \in Snapshot : Reserve(r, k, s)
    \/ \E k \in Key, q \in RunId : Retry(r, k, q)
    \/ Begin(r)
    \/ \E st \in Closed : Close(r, st)

Spec == Init /\ [][Next]_ledger

-----------------------------------------------------------------------------
TypeOK == ledger \in [RunId -> Row \cup {NoRow}]

(* Two different runs are never open together: the lock of the README      *)
(* ("A shared SQLite lock rejects overlapping runs"), seen in the table.   *)
OneOpenRun == \A r, q \in OpenRows : r = q

(* One request key never stands for two runs, whatever was resubmitted.    *)
KeysAreUnique == \A r, q \in Rows : ledger[r].key = ledger[q].key => r = q

(* A snapshot is reserved by one first attempt; every other run on it is a *)
(* retry, on its parent's snapshot, of a parent that closed without        *)
(* success and stays so.                                                   *)
SnapshotLineage ==
  /\ \A r, q \in Rows :
       /\ ledger[r].retryOf = NoRun /\ ledger[q].retryOf = NoRun
       /\ ledger[r].snapshot = ledger[q].snapshot
       => r = q
  /\ \A r \in Rows : ledger[r].retryOf # NoRun =>
       /\ MayRetry(ledger[r].retryOf)
       /\ ledger[r].snapshot = ledger[ledger[r].retryOf].snapshot

(* No step changes a row that has closed.                                  *)
ClosedIsFinal ==
  [][\A r \in Rows : ledger[r].status \in Closed => ledger'[r] = ledger[r]]_ledger
=============================================================================
