------------------------ MODULE AgentRunLedgerProofs ------------------------
(***************************************************************************)
(* The promises of the agent_runs table, for any number of runs, request   *)
(* keys and snapshots. Every step writes one row: InsertStep says what a   *)
(* queued row changes, StatusStep what a new status changes, and the parts *)
(* of the inductive invariant LInv follow from these two.                  *)
(***************************************************************************)
EXTENDS AgentRunLedger, TLAPS

LInv == TypeOK /\ OneOpenRun /\ KeysAreUnique /\ SnapshotLineage

Inserting(r, k, s, q) ==
  /\ r \in RunId \ Rows /\ OpenRows = {} /\ k \in Key \ KeysTaken
  /\ s \in Snapshot /\ q \in RunId \cup {NoRun}
  /\ q = NoRun => s \notin SnapsTaken
  /\ q # NoRun => MayRetry(q) /\ s = ledger[q].snapshot
  /\ ledger' = [ledger EXCEPT ![r] = Queued(k, s, q)]

Restating(r, st) ==
  /\ r \in OpenRows /\ st \in {"running"} \cup Closed
  /\ ledger' = [ledger EXCEPT ![r].status = st]

(* Every action of the ledger is one of the two writes.                    *)
LEMMA StepShape ==
  ASSUME NullsAreFresh, TypeOK, Next
  PROVE  \/ \E r, k, s, q : Inserting(r, k, s, q)
         \/ \E r, st : Restating(r, st)
<1>1. ASSUME NEW r \in RunId, NEW k \in Key, NEW s \in Snapshot, Reserve(r, k, s)
      PROVE  Inserting(r, k, s, NoRun)
  BY <1>1 DEF Reserve, Inserting
<1>2. ASSUME NEW r \in RunId, NEW k \in Key, NEW q \in RunId, Retry(r, k, q)
      PROVE  Inserting(r, k, ledger[q].snapshot, q)
  <2>1. ledger[q] \in Row
    BY <1>2 DEF TypeOK, Retry, MayRetry, Rows
  <2> QED
    BY <1>2, <2>1, NullsAreFresh DEF Retry, Inserting, Row, NullsAreFresh
<1>3. ASSUME NEW r \in RunId, Begin(r)
      PROVE  Restating(r, "running")
  BY <1>3 DEF Begin, Restating, OpenRows, Open
<1>4. ASSUME NEW r \in RunId, NEW st \in Closed, Close(r, st)
      PROVE  Restating(r, st)
  BY <1>4 DEF Close, Restating
<1> QED
  BY <1>1, <1>2, <1>3, <1>4 DEF Next

(* An insertion adds one row, alone open, and leaves the others alone.     *)
LEMMA InsertStep ==
  ASSUME NullsAreFresh, TypeOK, NEW r, NEW k, NEW s, NEW q, Inserting(r, k, s, q)
  PROVE  /\ TypeOK'
         /\ Rows' = Rows \cup {r} /\ OpenRows' = {r}
         /\ ledger'[r] = [status |-> "queued", key |-> k, snapshot |-> s, retryOf |-> q]
         /\ \A x \in Rows : ledger'[x] = ledger[x]
<1>1. Queued(k, s, q) \in Row
  BY DEF Inserting, Queued, Row, Open
<1>2. Queued(k, s, q) # NoRow
  BY <1>1, NullsAreFresh DEF NullsAreFresh
<1>3. /\ ledger'[r] = Queued(k, s, q)
      /\ \A x \in RunId \ {r} : ledger'[x] = ledger[x]
      /\ TypeOK'
  BY <1>1 DEF Inserting, TypeOK
<1>4. Rows' = Rows \cup {r}
  BY <1>2, <1>3 DEF Inserting, Rows
<1>5. \A x \in Rows : ledger'[x] = ledger[x]
  BY <1>3 DEF Inserting, Rows
<1>6. OpenRows' = {r}
  <2>1. r \in OpenRows'
    BY <1>3, <1>4 DEF OpenRows, Queued, Open
  <2>2. \A x \in Rows : x \notin OpenRows'
    BY <1>5 DEF Inserting, OpenRows
  <2> QED
    BY <1>4, <2>1, <2>2 DEF OpenRows
<1> QED
  BY <1>3, <1>4, <1>5, <1>6 DEF Queued

(* A change of status keeps the rows, and all their other columns.         *)
LEMMA StatusStep ==
  ASSUME NullsAreFresh, TypeOK, NEW r, NEW st, Restating(r, st)
  PROVE  /\ TypeOK'
         /\ Rows' = Rows /\ OpenRows' \subseteq OpenRows
         /\ \A x \in Rows :
              /\ ledger'[x].key = ledger[x].key
              /\ ledger'[x].snapshot = ledger[x].snapshot
              /\ ledger'[x].retryOf = ledger[x].retryOf
         /\ \A x \in Rows : x # r => ledger'[x] = ledger[x]
<1>1. r \in RunId /\ r \in Rows /\ ledger[r] \in Row /\ ledger[r].status \in Open
  BY DEF Restating, OpenRows, Rows, TypeOK
<1>2. [ledger[r] EXCEPT !.status = st] \in Row
  BY <1>1 DEF Restating, Row, Open
<1>3. /\ ledger'[r] = [ledger[r] EXCEPT !.status = st]
      /\ \A x \in RunId \ {r} : ledger'[x] = ledger[x]
      /\ TypeOK'
  BY <1>1, <1>2 DEF Restating, TypeOK
<1>4. ledger'[r] # NoRow
  BY <1>2, <1>3, NullsAreFresh DEF NullsAreFresh
<1>5. Rows' = Rows
  BY <1>1, <1>3, <1>4 DEF Rows
<1>6. OpenRows' \subseteq OpenRows
  BY <1>1, <1>3, <1>5 DEF OpenRows, Rows
<1>7. /\ ledger'[r].key = ledger[r].key
      /\ ledger'[r].snapshot = ledger[r].snapshot
      /\ ledger'[r].retryOf = ledger[r].retryOf
  BY <1>1, <1>3 DEF Row
<1> QED
  BY <1>3, <1>5, <1>6, <1>7 DEF Rows

(* The empty table is sound.                                               *)
LEMMA LInvInit == Init => LInv
BY DEF Init, LInv, TypeOK, OneOpenRun, KeysAreUnique, SnapshotLineage, Rows, OpenRows

(* Every step of the table keeps it sound.                                 *)
LEMMA LInvStep ==
  ASSUME NullsAreFresh
  PROVE  LInv /\ [Next]_ledger => LInv'
<1> SUFFICES ASSUME LInv, [Next]_ledger PROVE LInv'
  OBVIOUS
<1> USE DEF LInv
<1>1. CASE UNCHANGED ledger
  BY <1>1 DEF TypeOK, OneOpenRun, KeysAreUnique, SnapshotLineage, Rows, OpenRows, MayRetry
<1>2. ASSUME NEW r, NEW k, NEW s, NEW q, Inserting(r, k, s, q)
      PROVE  LInv'
  <2>0. r \notin Rows
    BY <1>2 DEF Inserting
  <2>1. /\ TypeOK' /\ Rows' = Rows \cup {r} /\ OpenRows' = {r}
        /\ ledger'[r] = [status |-> "queued", key |-> k, snapshot |-> s, retryOf |-> q]
        /\ \A x \in Rows : ledger'[x] = ledger[x]
    BY <1>2, InsertStep
  <2>2. OneOpenRun'
    BY <2>1 DEF OneOpenRun
  <2>3. KeysAreUnique'
    BY <1>2, <2>0, <2>1 DEF KeysAreUnique, Inserting, KeysTaken
  <2>4. SnapshotLineage'
    BY <1>2, <2>0, <2>1 DEF SnapshotLineage, Inserting, SnapsTaken, MayRetry
  <2> QED
    BY <2>1, <2>2, <2>3, <2>4
<1>3. ASSUME NEW r, NEW st, Restating(r, st)
      PROVE  LInv'
  <2>1. /\ TypeOK' /\ Rows' = Rows /\ OpenRows' \subseteq OpenRows
        /\ \A x \in Rows :
             /\ ledger'[x].key = ledger[x].key
             /\ ledger'[x].snapshot = ledger[x].snapshot
             /\ ledger'[x].retryOf = ledger[x].retryOf
        /\ \A x \in Rows : x # r => ledger'[x] = ledger[x]
    BY <1>3, StatusStep
  <2>2. OneOpenRun' /\ KeysAreUnique'
    BY <2>1 DEF OneOpenRun, KeysAreUnique
  <2>3. \A x \in Rows : MayRetry(x) => MayRetry(x)'
    BY <1>3, <2>1 DEF MayRetry, Restating, OpenRows, Open
  <2>4. SnapshotLineage'
    BY <2>1, <2>3 DEF SnapshotLineage, MayRetry
  <2> QED
    BY <2>1, <2>2, <2>4
<1> QED
  BY <1>1, <1>2, <1>3, StepShape

(* At most one run is open, keys stand for one run, a retried snapshot has *)
(* one lineage: in every state of the table, for every set of runs.        *)
THEOREM LedgerIsSound ==
  ASSUME NullsAreFresh
  PROVE  Spec => [](TypeOK /\ OneOpenRun /\ KeysAreUnique /\ SnapshotLineage)
<1>1. Spec => []LInv
  BY LInvInit, LInvStep, PTL DEF Spec
<1> QED
  BY <1>1, PTL DEF LInv

(* A row that has closed is never written again.                           *)
THEOREM ClosedRowsStay ==
  ASSUME NullsAreFresh
  PROVE  Spec => ClosedIsFinal
<1>1. LInv /\ [Next]_ledger =>
        [\A r \in Rows : ledger[r].status \in Closed => ledger'[r] = ledger[r]]_ledger
  <2> SUFFICES ASSUME LInv, Next, NEW x \in Rows, ledger[x].status \in Closed
               PROVE  ledger'[x] = ledger[x]
    OBVIOUS
  <2> USE DEF LInv
  <2>1. ASSUME NEW r, NEW k, NEW s, NEW q, Inserting(r, k, s, q)
        PROVE  ledger'[x] = ledger[x]
    BY <2>1, InsertStep
  <2>2. ASSUME NEW r, NEW st, Restating(r, st)
        PROVE  ledger'[x] = ledger[x]
    BY <2>2, StatusStep DEF Restating, OpenRows, Open, Closed
  <2> QED
    BY <2>1, <2>2, StepShape
<1>2. Spec => []LInv
  BY LInvInit, LInvStep, PTL DEF Spec
<1> QED
  BY <1>1, <1>2, PTL DEF Spec, ClosedIsFinal
=============================================================================
