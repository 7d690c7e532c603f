------------------------- MODULE NotificationsProofs -------------------------
(***************************************************************************)
(* The delivery of notifications, for any number of events, dispatchers,   *)
(* attempts, calls and faults. Every step is one of seven kinds (a task    *)
(* leaves, an attempt starts, a task settles its event, a call, the query  *)
(* ready, an event enters, a run publishes), and each keeps the inductive  *)
(* invariant IInv, from which the properties follow.                       *)
(***************************************************************************)
EXTENDS Notifications, TLAPS

Busy     == {"pushing", "crediting", "failing", "dropping"}
Entering == {"enqueuing", "recording"}

(* What a dispatcher knows about its attempt, which may be given up: its   *)
(* number was granted, and only its own calls used it.                     *)
TaskOK(d) ==
  /\ task[d].step \in Busy =>
       task[d].on \in Event /\ task[d].number \in 1..attempts[task[d].on]
  /\ task[d].step # "pushing" => task[d].calls = 0
  /\ task[d].step = "pushing" =>
       /\ task[d].calls < CallsPerAttempt
       /\ accepted[task[d].on][task[d].number] <= task[d].calls
  /\ task[d].step = "crediting" => accepted[task[d].on][task[d].number] > 0
  /\ task[d].step \in Entering => task[d].todo \subseteq Absent

TaskInv == \A d \in Dispatcher : TaskOK(d)

(* Two dispatchers share neither an attempt nor an event to enqueue.       *)
PairInv ==
  \A c, d \in Dispatcher : c # d =>
    /\ ~ (/\ task[c].step = "pushing" /\ task[d].step = "pushing"
          /\ task[c].on = task[d].on /\ task[c].number = task[d].number)
    /\ task[c].step \in Entering /\ task[d].step \in Entering =>
         task[c].todo \cap task[d].todo = {}

(* An attempt that was not granted has reached nobody.                     *)
FutureInv ==
  \A e \in Event : \A n \in Outbox!Attempt : n > attempts[e] => accepted[e][n] = 0

(* An event that is not doubtful: nobody but the holder of its last        *)
(* attempt is busy with it, and only that attempt can have been accepted.  *)
OnceOK(e) ==
  /\ \A n \in Outbox!Attempt : accepted[e][n] > 0 =>
       accepted[e][n] = 1 /\ n = attempts[e] /\ status[e] \in {"sending", "sent"}
  /\ \A d \in Dispatcher : task[d].step \in Busy /\ task[d].on = e =>
       /\ status[e] = "sending" /\ task[d].number = attempts[e]
       /\ task[d].step # "crediting" => \A n \in Outbox!Attempt : accepted[e][n] = 0
       /\ \A c \in Dispatcher : task[c].step \in Busy /\ task[c].on = e => c = d

OnceInv == \A e \in Event : e \notin doubtful => OnceOK(e)

IInv == TypeOK /\ TaskInv /\ PairInv /\ FutureInv /\ OnceInv

-----------------------------------------------------------------------------
(* The tasks the actions build                                             *)

(* A task that starts an attempt keeps its loop and its calls.             *)
LEMMA TryingIs ==
  ASSUME ConstantsAreValid, TypeOK, NEW d \in Dispatcher, NEW e \in Event,
         NEW step \in {"pushing", "dropping"}, attempts[e] < MaxAttempts
  PROVE  /\ Trying(d, e, step) \in Task
         /\ Trying(d, e, step).step = step /\ Trying(d, e, step).on = e
         /\ Trying(d, e, step).number = attempts[e] + 1
         /\ Trying(d, e, step).calls = task[d].calls
<1>1. task[d] \in Task /\ attempts[e] + 1 \in 0..MaxAttempts
  BY DEF ConstantsAreValid, TypeOK
<1> QED
  BY <1>1 DEF Trying, Task, Step

(* A task that leaves an event behind goes on claiming.                    *)
LEMMA BehindIs ==
  ASSUME ConstantsAreValid, TypeOK, NEW d \in Dispatcher, NEW e \in Event
  PROVE  /\ Behind(d, e) \in Task
         /\ Behind(d, e).step = "claiming" /\ Behind(d, e).calls = task[d].calls
<1>1. task[d] \in Task /\ 0 \in 0..MaxAttempts
  BY DEF ConstantsAreValid, TypeOK
<1> QED
  BY <1>1 DEF Behind, Task, Step

(* An idle task is a task.                                                 *)
LEMMA IdleIs ==
  ASSUME ConstantsAreValid, TypeOK
  PROVE  /\ Idle \in Task /\ Idle.step = "idle" /\ Idle.calls = 0
BY DEF ConstantsAreValid, Idle, Task, Step

(* A task that enters the except branch is busy with no event.             *)
LEMMA DrainingIs ==
  ASSUME ConstantsAreValid, TypeOK, NEW d \in Dispatcher
  PROVE  /\ Draining(d) \in Task
         /\ Draining(d).step = "draining" /\ Draining(d).calls = 0
<1>1. task[d] \in Task /\ Idle \in Task
  BY IdleIs DEF TypeOK
<1> QED
  BY <1>1 DEF Draining, Idle, Task, Step

(* So it is after each event it visited there.                             *)
LEMMA DrainedIs ==
  ASSUME ConstantsAreValid, TypeOK, NEW d \in Dispatcher, NEW e \in Event
  PROVE  /\ Drained(d, e) \in Task
         /\ Drained(d, e).step \in {"idle", "draining"} /\ Drained(d, e).calls = 0
<1>1. task[d] \in Task /\ Idle \in Task
  BY IdleIs DEF TypeOK
<1>2. [Idle EXCEPT !.step = "draining", !.todo = task[d].todo \ {e}] \in Task
  BY <1>1 DEF Task, Step
<1> QED
  BY <1>1, <1>2 DEF Drained, Idle

(* A call that ended keeps its event and its number.                       *)
LEMMA CreditingIs ==
  ASSUME ConstantsAreValid, TypeOK, NEW d \in Dispatcher
  PROVE  /\ Crediting(d) \in Task /\ Failing(d) \in Task
         /\ Crediting(d).step = "crediting" /\ Failing(d).step = "failing"
         /\ Crediting(d).calls = 0 /\ Failing(d).calls = 0
         /\ Crediting(d).on = task[d].on /\ Crediting(d).number = task[d].number
         /\ Failing(d).on = task[d].on /\ Failing(d).number = task[d].number
<1>1. task[d] \in Task /\ 0 \in 0..CallsPerAttempt
  BY DEF ConstantsAreValid, TypeOK
<1> QED
  BY <1>1 DEF Crediting, Failing, Task, Step
-----------------------------------------------------------------------------
(* The seven kinds of step                                                 *)

Leaves(d) ==
  \E t \in Task : t.step \notin Busy \cup Entering /\ t.calls = 0 /\ Become(d, t)

(* A task leaves what it was busy with.                                    *)
Leaving(d) ==
  /\ Leaves(d)
  /\ overdue' \subseteq Event /\ faults' \in 0..MaxFaults
  /\ UNCHANGED <<status, attempts, accepted, doubtful>>

(* A task starts an attempt.                                               *)
Starting(d, e, step) ==
  /\ task[d].calls = 0 /\ step \in {"pushing", "dropping"}
  /\ Startable(e) /\ Start(e) /\ Become(d, Trying(d, e, step))
  /\ UNCHANGED <<accepted, doubtful, faults>>

(* A task settles its event, whoever holds it by now.                      *)
Settling(d, st) ==
  /\ \/ task[d].step = "crediting" /\ st = "sent"
     \/ task[d].step \in {"failing", "dropping"} /\ st = "failed"
  /\ Creditable(task[d].on) /\ Mark(task[d].on, st)
  /\ Leaves(d)
  /\ UNCHANGED <<attempts, accepted, doubtful, faults>>

(* A task that leaves changes no other task.                               *)
LEMMA LeavesIs ==
  ASSUME TypeOK, NEW d \in Dispatcher, Leaves(d)
  PROVE  /\ task' \in [Dispatcher -> Task]
         /\ \A x \in Dispatcher : x # d => task'[x] = task[x]
         /\ task'[d].step \notin Busy \cup Entering /\ task'[d].calls = 0
BY DEF TypeOK, Leaves, Become

(* A task that leaves takes nothing with it: the table is as before.       *)
LEMMA LeavingKeeps ==
  ASSUME ConstantsAreValid, IInv, NEW d \in Dispatcher, Leaving(d)
  PROVE  IInv'
<1>1. /\ task' \in [Dispatcher -> Task]
      /\ \A x \in Dispatcher : x # d => task'[x] = task[x]
      /\ task'[d].step \notin Busy \cup Entering /\ task'[d].calls = 0
  BY LeavesIs DEF IInv, Leaving
<1>2. TypeOK'
  BY <1>1 DEF IInv, TypeOK, Leaving
<1>3. TaskInv'
  <2>1. TaskOK(d)'
    BY <1>1 DEF TaskOK, Busy, Entering
  <2>2. ASSUME NEW x \in Dispatcher, x # d
        PROVE  TaskOK(x)'
    BY <1>1, <2>2 DEF IInv, TaskInv, TaskOK, Leaving, Absent
  <2> QED
    BY <2>1, <2>2 DEF TaskInv
<1>4. PairInv'
  BY <1>1 DEF IInv, PairInv, Busy
<1>5. FutureInv'
  BY DEF IInv, FutureInv, Leaving
<1>6. OnceInv'
  BY <1>1 DEF IInv, OnceInv, OnceOK, Leaving
<1> QED
  BY <1>2, <1>3, <1>4, <1>5, <1>6 DEF IInv

(* An attempt starts with a number above all those in use, and with an     *)
(* event nobody is busy with unless it is doubtful.                        *)
LEMMA StartingKeeps ==
  ASSUME ConstantsAreValid, IInv, NEW d \in Dispatcher, NEW e \in Event,
         NEW step \in {"pushing", "dropping"}, Starting(d, e, step)
  PROVE  IInv'
<1> USE DEF Starting
<1>1. /\ task' \in [Dispatcher -> Task]
      /\ \A x \in Dispatcher : x # d => task'[x] = task[x]
      /\ task'[d].step = step /\ task'[d].on = e
      /\ task'[d].number = attempts[e] + 1 /\ task'[d].calls = 0
  BY TryingIs DEF IInv, TypeOK, Startable, Become
<1>2. /\ attempts \in [Event -> 0..MaxAttempts] /\ attempts[e] < MaxAttempts
      /\ attempts' = [attempts EXCEPT ![e] = @ + 1]
      /\ status' = [status EXCEPT ![e] = "sending"]
      /\ status[e] \in {"pending", "failed"}
      /\ accepted' = accepted /\ doubtful' = doubtful
      /\ accepted \in [Event -> [Outbox!Attempt -> 0..CallsPerAttempt]]
      /\ status \in [Event -> Outbox!Status]
  BY DEF IInv, TypeOK, Start, Startable
<1>3. /\ attempts'[e] = attempts[e] + 1
      /\ \A x \in Event : attempts'[x] >= attempts[x]
      /\ \A x \in Event : x # e => attempts'[x] = attempts[x] /\ status'[x] = status[x]
      /\ status'[e] = "sending"
      /\ attempts' \in [Event -> 0..MaxAttempts]
  BY <1>2, ConstantsAreValid DEF ConstantsAreValid
<1>4. attempts[e] + 1 \in Outbox!Attempt /\ accepted[e][attempts[e] + 1] = 0
  <2>1. attempts[e] + 1 \in Outbox!Attempt
    BY <1>2, ConstantsAreValid DEF ConstantsAreValid, Outbox!Attempt
  <2> QED
    BY <1>2, <2>1 DEF IInv, FutureInv
<1>5. TypeOK'
  BY <1>1, <1>2, <1>3 DEF IInv, TypeOK, Start, Outbox!Status
<1>6. TaskInv'
  <2>1. TaskOK(d)'
    BY <1>1, <1>2, <1>3, <1>4, ConstantsAreValid DEF TaskOK, Busy, Entering, ConstantsAreValid
  <2>2. Absent \subseteq Absent'
    BY <1>2, <1>3 DEF Absent
  <2>3. ASSUME NEW x \in Dispatcher, x # d
        PROVE  TaskOK(x)'
    <3>1. TaskOK(x) /\ task'[x] = task[x]
      BY <1>1, <2>3 DEF IInv, TaskInv
    <3>2. ASSUME task[x].step \in Busy
          PROVE  task[x].number \in 1..attempts'[task[x].on]
      BY <1>2, <1>3, <3>1, <3>2 DEF TaskOK
    <3> QED
      BY <1>2, <2>2, <3>1, <3>2 DEF TaskOK
  <2> QED
    BY <2>1, <2>3 DEF TaskInv
<1>7. PairInv'
  <2>1. ASSUME NEW x \in Dispatcher, x # d, task[x].step = "pushing", task[x].on = e
        PROVE  task[x].number # attempts[e] + 1
    BY <1>2, <2>1 DEF IInv, TaskInv, TaskOK, Busy
  <2>2. ASSUME NEW x \in Dispatcher, NEW y \in Dispatcher, x # y
        PROVE  ~ (/\ task'[x].step = "pushing" /\ task'[y].step = "pushing"
                  /\ task'[x].on = task'[y].on /\ task'[x].number = task'[y].number)
    <3>1. CASE x = d
      BY <1>1, <2>1, <2>2, <3>1
    <3>2. CASE y = d
      BY <1>1, <2>1, <2>2, <3>2
    <3>3. CASE x # d /\ y # d
      BY <1>1, <2>2, <3>3 DEF IInv, PairInv
    <3> QED
      BY <3>1, <3>2, <3>3
  <2> QED
    BY <1>1, <2>2 DEF IInv, PairInv, Entering
<1>8. FutureInv'
  BY <1>2, <1>3 DEF IInv, FutureInv, Outbox!Attempt
<1>9. OnceInv'
  <2>1. ASSUME e \notin doubtful
        PROVE  OnceOK(e)'
    <3>1. /\ OnceOK(e)
          /\ \A n \in Outbox!Attempt : accepted[e][n] = 0
          /\ \A x \in Dispatcher : ~ (task[x].step \in Busy /\ task[x].on = e)
      BY <1>2, <2>1 DEF IInv, OnceInv, OnceOK, Outbox!Attempt
    <3>2. \A x \in Dispatcher : task'[x].step \in Busy /\ task'[x].on = e => x = d
      BY <1>1, <3>1
    <3>3. \A n \in Outbox!Attempt : accepted'[e][n] = 0
      BY <1>2, <3>1
    <3> QED
      BY <1>1, <1>3, <3>2, <3>3 DEF OnceOK
  <2>2. ASSUME NEW x \in Event, x # e, x \notin doubtful
        PROVE  OnceOK(x)'
    <3>1. OnceOK(x)
      BY <2>2 DEF IInv, OnceInv
    <3>2. /\ accepted'[x] = accepted[x]
          /\ attempts'[x] = attempts[x] /\ status'[x] = status[x]
      BY <1>2, <1>3, <2>2
    <3>3. \A c \in Dispatcher :
            task'[c].step \in Busy /\ task'[c].on = x => c # d /\ task'[c] = task[c]
      BY <1>1, <2>2
    <3> QED
      BY <3>1, <3>2, <3>3 DEF OnceOK
  <2> QED
    BY <1>2, <2>1, <2>2 DEF OnceInv
<1> QED
  BY <1>5, <1>6, <1>7, <1>8, <1>9 DEF IInv

(* A settled event that is not doubtful was settled by its only holder, so *)
(* a failed one has been accepted by nobody.                               *)
LEMMA SettlingKeeps ==
  ASSUME ConstantsAreValid, IInv, NEW d \in Dispatcher, NEW st, Settling(d, st)
  PROVE  IInv'
<1> DEFINE e == task[d].on
<1>1. /\ task' \in [Dispatcher -> Task]
      /\ \A x \in Dispatcher : x # d => task'[x] = task[x]
      /\ task'[d].step \notin Busy \cup Entering /\ task'[d].calls = 0
  BY LeavesIs DEF IInv, Settling
<1>2. /\ e \in Event /\ status[e] = "sending" /\ st \in {"sent", "failed"}
      /\ status \in [Event -> Outbox!Status]
      /\ status' = [status EXCEPT ![e] = st] /\ overdue' = overdue \ {e}
      /\ attempts' = attempts /\ accepted' = accepted /\ doubtful' = doubtful
  BY DEF IInv, TypeOK, TaskInv, TaskOK, Busy, Settling, Mark, Creditable
<1>3. status'[e] = st /\ \A x \in Event : x # e => status'[x] = status[x]
  BY <1>2
<1>4. TypeOK'
  BY <1>1, <1>2 DEF IInv, TypeOK, Settling, Outbox!Status
<1>5. TaskInv'
  <2>1. TaskOK(d)'
    BY <1>1 DEF TaskOK, Busy, Entering
  <2>2. Absent \subseteq Absent'
    BY <1>2, <1>3 DEF Absent
  <2>3. ASSUME NEW x \in Dispatcher, x # d
        PROVE  TaskOK(x)'
    BY <1>1, <1>2, <2>2, <2>3 DEF IInv, TaskInv, TaskOK
  <2> QED
    BY <2>1, <2>3 DEF TaskInv
<1>6. PairInv'
  BY <1>1 DEF IInv, PairInv, Busy
<1>7. FutureInv'
  BY <1>2 DEF IInv, FutureInv
<1>8. OnceInv'
  <2>1. ASSUME NEW x \in Event, x = e, x \notin doubtful
        PROVE  OnceOK(x)'
    <3>1. OnceOK(x)
      BY <2>1 DEF IInv, OnceInv
    <3>2. \A c \in Dispatcher : ~ (task'[c].step \in Busy /\ task'[c].on = x)
      BY <1>1, <2>1, <3>1 DEF OnceOK, Settling, Busy
    <3>3. st = "failed" => \A n \in Outbox!Attempt : accepted[x][n] = 0
      BY <2>1, <3>1 DEF OnceOK, Settling, Busy
    <3>4. accepted \in [Event -> [Outbox!Attempt -> 0..CallsPerAttempt]]
      BY DEF IInv, TypeOK
    <3>5. ASSUME NEW n \in Outbox!Attempt, accepted[x][n] > 0
          PROVE  accepted[x][n] = 1 /\ n = attempts[x] /\ st = "sent"
      <4>1. accepted[x][n] # 0
        BY <3>4, <3>5
      <4> QED
        BY <1>2, <3>1, <3>3, <3>5, <4>1 DEF OnceOK
    <3>6. status'[x] = st
      BY <1>3, <2>1
    <3> QED
      BY <1>2, <3>2, <3>5, <3>6 DEF OnceOK
  <2>2. ASSUME NEW x \in Event, x # e, x \notin doubtful
        PROVE  OnceOK(x)'
    <3>1. OnceOK(x)
      BY <2>2 DEF IInv, OnceInv
    <3>2. \A c \in Dispatcher :
            task'[c].step \in Busy /\ task'[c].on = x => c # d /\ task'[c] = task[c]
      BY <1>1
    <3> QED
      BY <1>2, <1>3, <2>2, <3>1, <3>2 DEF OnceOK
  <2> QED
    BY <1>2, <2>1, <2>2 DEF OnceInv
<1> QED
  BY <1>4, <1>5, <1>6, <1>7, <1>8 DEF IInv

(* A call is counted for its attempt, and leaves the task pushing only     *)
(* when the client repeats it.                                             *)
LEMMA PushIs ==
  ASSUME ConstantsAreValid, IInv, NEW d \in Dispatcher, NEW accepts \in BOOLEAN, Push(d, accepts)
  PROVE  /\ task' \in [Dispatcher -> Task]
         /\ \A x \in Dispatcher : x # d => task'[x] = task[x]
         /\ task'[d].on = task[d].on /\ task'[d].number = task[d].number
         /\ \/ task'[d].step = "crediting" /\ task'[d].calls = 0 /\ accepts /\ doubtful' = doubtful
            \/ /\ \/ task'[d].step = "failing" /\ task'[d].calls = 0
                  \/ /\ task'[d].step = "pushing" /\ task'[d].calls = task[d].calls + 1
                     /\ task'[d].calls < CallsPerAttempt
               /\ doubtful' = IF accepts THEN doubtful \cup {task[d].on} ELSE doubtful
<1>1. /\ task \in [Dispatcher -> Task] /\ task[d] \in Task
      /\ task[d].step = "pushing" /\ task[d].calls \in 0..CallsPerAttempt
  BY DEF IInv, TypeOK, Push, At, Task
<1>2. /\ Crediting(d) \in Task /\ Failing(d) \in Task
      /\ Crediting(d).step = "crediting" /\ Failing(d).step = "failing"
      /\ Crediting(d).calls = 0 /\ Failing(d).calls = 0
      /\ Crediting(d).on = task[d].on /\ Crediting(d).number = task[d].number
      /\ Failing(d).on = task[d].on /\ Failing(d).number = task[d].number
  BY CreditingIs DEF IInv
<1>3. CASE Become(d, Crediting(d)) /\ accepts /\ UNCHANGED doubtful
  BY <1>1, <1>2, <1>3 DEF Become
<1>4. CASE /\ Become(d, Failing(d))
           /\ doubtful' = IF accepts THEN doubtful \cup {task[d].on} ELSE doubtful
  BY <1>1, <1>2, <1>4 DEF Become
<1>5. CASE /\ task[d].calls + 1 < CallsPerAttempt
           /\ Become(d, [task[d] EXCEPT !.calls = @ + 1])
           /\ doubtful' = IF accepts THEN doubtful \cup {task[d].on} ELSE doubtful
  <2>1. task[d].calls + 1 \in 0..CallsPerAttempt
    BY <1>1, <1>5, ConstantsAreValid DEF ConstantsAreValid
  <2>2. DEFINE t == [task[d] EXCEPT !.calls = @ + 1]
  <2>3. /\ t \in Task /\ t.step = "pushing" /\ t.calls = task[d].calls + 1
        /\ t.on = task[d].on /\ t.number = task[d].number
    BY <1>1, <2>1 DEF Task, Step
  <2> HIDE DEF t
  <2>4. task' = [task EXCEPT ![d] = t]
    BY <1>5 DEF Become, t
  <2> QED
    BY <1>1, <1>5, <2>3, <2>4
<1> QED
  BY <1>3, <1>4, <1>5 DEF Push, ErrorResult, Repeated

(* What a call adds to the count of its attempt, and that it may.          *)
LEMMA PushCounts ==
  ASSUME ConstantsAreValid, IInv, NEW d \in Dispatcher, NEW accepts \in BOOLEAN, Push(d, accepts)
  PROVE  /\ task[d].step = "pushing" /\ task[d].on \in Event
         /\ task[d].number \in Outbox!Attempt /\ task[d].number <= attempts[task[d].on]
         /\ accepted[task[d].on][task[d].number] < CallsPerAttempt
         /\ accepted' \in [Event -> [Outbox!Attempt -> 0..CallsPerAttempt]]
         /\ accepted'[task[d].on][task[d].number] =
              accepted[task[d].on][task[d].number] + (IF accepts THEN 1 ELSE 0)
         /\ \A e \in Event : \A n \in Outbox!Attempt :
              e # task[d].on \/ n # task[d].number => accepted'[e][n] = accepted[e][n]
<1> DEFINE e == task[d].on
           n == task[d].number
<1>1. /\ task[d].step = "pushing" /\ e \in Event /\ n \in 1..attempts[e]
      /\ accepted[e][n] <= task[d].calls /\ task[d].calls < CallsPerAttempt
  BY DEF IInv, TaskInv, TaskOK, Busy, Push, At
<1>2. /\ attempts[e] \in 0..MaxAttempts /\ task[d].calls \in 0..CallsPerAttempt
      /\ accepted \in [Event -> [Outbox!Attempt -> 0..CallsPerAttempt]]
  BY <1>1 DEF IInv, TypeOK, Task
<1>3. n \in Outbox!Attempt /\ n <= attempts[e]
  BY <1>1, <1>2, ConstantsAreValid DEF Outbox!Attempt, ConstantsAreValid
<1>4. accepted[e][n] \in 0..CallsPerAttempt /\ accepted[e][n] < CallsPerAttempt
  BY <1>1, <1>2, <1>3, ConstantsAreValid DEF ConstantsAreValid
<1>5. accepted[e][n] + 1 \in 0..CallsPerAttempt
  BY <1>4, ConstantsAreValid DEF ConstantsAreValid
<1>6. accepted' = IF accepts THEN [accepted EXCEPT ![e][n] = @ + 1] ELSE accepted
  BY DEF Push
<1> HIDE DEF e, n
<1>7. CASE accepts
  <2>1. accepted' = [accepted EXCEPT ![e] = [accepted[e] EXCEPT ![n] = accepted[e][n] + 1]]
    BY <1>6, <1>7
  <2>2. accepted[e] \in [Outbox!Attempt -> 0..CallsPerAttempt]
    BY <1>1, <1>2
  <2>3. [accepted[e] EXCEPT ![n] = accepted[e][n] + 1] \in [Outbox!Attempt -> 0..CallsPerAttempt]
    BY <1>3, <1>5, <2>2
  <2> QED
    BY <1>1, <1>2, <1>3, <1>4, <1>7, <2>1, <2>2, <2>3 DEF e, n
<1>8. CASE ~accepts
  BY <1>1, <1>2, <1>3, <1>4, <1>6, <1>8 DEF e, n
<1> QED
  BY <1>7, <1>8

(* A call adds to an attempt that no other task uses; when its answer is   *)
(* lost the event becomes doubtful.                                        *)
LEMMA PushKeeps ==
  ASSUME ConstantsAreValid, IInv, NEW d \in Dispatcher, NEW accepts \in BOOLEAN, Push(d, accepts)
  PROVE  IInv'
<1> DEFINE n == task[d].number
<1>1. /\ task' \in [Dispatcher -> Task]
      /\ \A x \in Dispatcher : x # d => task'[x] = task[x]
      /\ task'[d].on = task[d].on /\ task'[d].number = n
      /\ \/ task'[d].step = "crediting" /\ task'[d].calls = 0 /\ accepts /\ doubtful' = doubtful
         \/ /\ \/ task'[d].step = "failing" /\ task'[d].calls = 0
               \/ /\ task'[d].step = "pushing" /\ task'[d].calls = task[d].calls + 1
                  /\ task'[d].calls < CallsPerAttempt
            /\ doubtful' = IF accepts THEN doubtful \cup {task[d].on} ELSE doubtful
  BY PushIs
<1>2. /\ task[d].step = "pushing" /\ task[d].on \in Event
      /\ n \in Outbox!Attempt /\ n <= attempts[task[d].on]
      /\ accepted' \in [Event -> [Outbox!Attempt -> 0..CallsPerAttempt]]
      /\ accepted'[task[d].on][n] = accepted[task[d].on][n] + (IF accepts THEN 1 ELSE 0)
      /\ \A e \in Event : \A m \in Outbox!Attempt :
           e # task[d].on \/ m # n => accepted'[e][m] = accepted[e][m]
  BY PushCounts
<1>3. /\ status' = status /\ attempts' = attempts /\ overdue' = overdue /\ faults' = faults
      /\ accepted \in [Event -> [Outbox!Attempt -> 0..CallsPerAttempt]]
      /\ attempts \in [Event -> 0..MaxAttempts]
      /\ task \in [Dispatcher -> Task]
  BY DEF IInv, TypeOK, Push
<1>4. TypeOK'
  BY <1>1, <1>2, <1>3 DEF IInv, TypeOK
<1>5. accepted[task[d].on][n] \in Nat /\ task[d].calls \in Nat /\ n \in Nat
  BY <1>2, <1>3, ConstantsAreValid DEF ConstantsAreValid, Outbox!Attempt, Task
<1>6. TaskInv'
  <2>1. TaskOK(d)'
    <3>1. /\ TaskOK(d) /\ accepted[task[d].on][n] <= task[d].calls
      BY <1>2 DEF IInv, TaskInv, TaskOK
    <3>2. task'[d].number \in 1..attempts'[task'[d].on]
      BY <1>1, <1>2, <1>3, <3>1 DEF TaskOK, Busy
    <3>3. task'[d].step = "crediting" => accepted'[task'[d].on][task'[d].number] > 0
      BY <1>1, <1>2, <1>5
    <3>4. task'[d].step = "pushing" => accepted'[task'[d].on][task'[d].number] <= task'[d].calls
      BY <1>1, <1>2, <1>5, <3>1
    <3> QED
      BY <1>1, <1>2, <3>2, <3>3, <3>4 DEF TaskOK, Entering
  <2>2. ASSUME NEW x \in Dispatcher, x # d
        PROVE  TaskOK(x)'
    <3>1. TaskOK(x) /\ task'[x] = task[x]
      BY <1>1, <2>2 DEF IInv, TaskInv
    <3>2. task[x].step \in Busy => task[x].on \in Event /\ task[x].number \in Outbox!Attempt
      BY <1>3, <3>1, ConstantsAreValid DEF TaskOK, Outbox!Attempt, ConstantsAreValid
    <3>3. ASSUME task[x].step = "pushing"
          PROVE  accepted'[task[x].on][task[x].number] = accepted[task[x].on][task[x].number]
      BY <1>2, <2>2, <3>2, <3>3 DEF IInv, PairInv, Busy
    <3>4. ASSUME task[x].step = "crediting"
          PROVE  accepted'[task[x].on][task[x].number] > 0
      BY <1>2, <1>5, <3>1, <3>2, <3>4 DEF TaskOK, Busy
    <3> QED
      BY <1>3, <3>1, <3>3, <3>4 DEF TaskOK, Absent
  <2> QED
    BY <2>1, <2>2 DEF TaskInv
<1>7. PairInv'
  BY <1>1, <1>2 DEF IInv, PairInv, Entering
<1>8. FutureInv'
  <2>1. ASSUME NEW e \in Event, NEW m \in Outbox!Attempt, m > attempts[e]
        PROVE  accepted'[e][m] = 0
    <3>1. attempts[e] \in Nat /\ m \in Nat
      BY <1>3, ConstantsAreValid DEF ConstantsAreValid, Outbox!Attempt
    <3>2. e # task[d].on \/ m # n
      BY <1>2, <1>5, <2>1, <3>1
    <3> QED
      BY <1>2, <2>1, <3>2 DEF IInv, FutureInv
  <2> QED
    BY <1>3, <2>1 DEF FutureInv
<1>9. OnceInv'
  <2>1. ASSUME NEW x \in Event, x = task[d].on, x \notin doubtful'
        PROVE  OnceOK(x)'
    <3>1. OnceOK(x) /\ x \notin doubtful
      BY <1>1, <2>1 DEF IInv, OnceInv
    <3>2. /\ n = attempts[x] /\ status[x] = "sending"
          /\ \A m \in Outbox!Attempt : accepted[x][m] = 0
          /\ \A c \in Dispatcher : task[c].step \in Busy /\ task[c].on = x => c = d
      BY <1>2, <2>1, <3>1 DEF OnceOK, Busy
    <3>3. \A m \in Outbox!Attempt : m # n => accepted'[x][m] = 0
      BY <1>2, <2>1, <3>2
    <3>4. accepted'[x][n] = IF accepts THEN 1 ELSE 0
      BY <1>2, <2>1, <3>2
    <3>5. task'[d].step # "crediting" => ~accepts
      BY <1>1, <2>1
    <3>6. \A c \in Dispatcher : task'[c].step \in Busy /\ task'[c].on = x => c = d
      BY <1>1, <3>2
    <3>7. ASSUME NEW m \in Outbox!Attempt, accepted'[x][m] > 0
          PROVE  accepted'[x][m] = 1 /\ m = attempts[x]
      BY <3>2, <3>3, <3>4, <3>7
    <3>8. task'[d].step # "crediting" => \A m \in Outbox!Attempt : accepted'[x][m] = 0
      BY <3>3, <3>4, <3>5
    <3> QED
      BY <1>1, <1>3, <3>2, <3>6, <3>7, <3>8 DEF OnceOK
  <2>2. ASSUME NEW x \in Event, x # task[d].on, x \notin doubtful'
        PROVE  OnceOK(x)'
    <3>1. OnceOK(x)
      BY <1>1, <2>2 DEF IInv, OnceInv
    <3>2. /\ \A m \in Outbox!Attempt : accepted'[x][m] = accepted[x][m]
          /\ \A c \in Dispatcher :
               task'[c].step \in Busy /\ task'[c].on = x => c # d /\ task'[c] = task[c]
      BY <1>1, <1>2, <2>2
    <3> QED
      BY <1>3, <3>1, <3>2 DEF OnceOK
  <2> QED
    BY <2>1, <2>2 DEF OnceInv
<1> QED
  BY <1>4, <1>6, <1>7, <1>8, <1>9 DEF IInv

(* The query ready gives interrupted attempts up and makes them doubtful.  *)
LEMMA ReadyKeeps ==
  ASSUME ConstantsAreValid, IInv, NEW d \in Dispatcher, Ready(d)
  PROVE  IInv'
<1>1. Leaves(d)
  <2> DEFINE ready == {e \in Event : status'[e] \in {"pending", "failed"} /\ attempts[e] < MaxAttempts}
             t == [Idle EXCEPT !.step = "connecting", !.todo = ready, !.ready = ready]
  <2>1. Idle \in Task /\ Idle.step = "idle" /\ Idle.calls = 0
    BY IdleIs DEF IInv
  <2>2. t \in Task /\ t.step = "connecting" /\ t.calls = 0
    BY <2>1 DEF Task, Step
  <2>3. Become(d, Idle) \/ Become(d, t)
    BY DEF Ready
  <2> HIDE DEF t
  <2> QED
    BY <2>1, <2>2, <2>3 DEF Leaves, Busy, Entering
<1>2. /\ task' \in [Dispatcher -> Task]
      /\ \A x \in Dispatcher : x # d => task'[x] = task[x]
      /\ task'[d].step \notin Busy \cup Entering /\ task'[d].calls = 0
  BY <1>1, LeavesIs DEF IInv
<1>3. /\ status' = [e \in Event |-> IF e \in Interrupted THEN "failed" ELSE status[e]]
      /\ overdue' = overdue \ Interrupted /\ doubtful' = doubtful \cup Interrupted
      /\ attempts' = attempts /\ accepted' = accepted /\ faults' = faults
      /\ \A e \in Interrupted : status[e] = "sending"
  BY DEF Ready, Interrupted
<1>4. TypeOK'
  BY <1>2, <1>3 DEF IInv, TypeOK, Interrupted, Outbox!Status
<1>5. TaskInv'
  <2>1. TaskOK(d)'
    BY <1>2 DEF TaskOK, Busy, Entering
  <2>2. Absent \subseteq Absent'
    BY <1>3 DEF Absent
  <2>3. ASSUME NEW x \in Dispatcher, x # d
        PROVE  TaskOK(x)'
    BY <1>2, <1>3, <2>2, <2>3 DEF IInv, TaskInv, TaskOK
  <2> QED
    BY <2>1, <2>3 DEF TaskInv
<1>6. PairInv'
  BY <1>2 DEF IInv, PairInv, Busy
<1>7. FutureInv'
  BY <1>3 DEF IInv, FutureInv
<1>8. OnceInv'
  <2>1. ASSUME NEW x \in Event, x \notin doubtful'
        PROVE  OnceOK(x)'
    <3>1. OnceOK(x) /\ status'[x] = status[x]
      BY <1>3, <2>1 DEF IInv, OnceInv
    <3> QED
      BY <1>2, <1>3, <3>1 DEF OnceOK
  <2> QED
    BY <2>1 DEF OnceInv
<1> QED
  BY <1>4, <1>5, <1>6, <1>7, <1>8 DEF IInv

(* An event enters the outbox once.                                        *)
LEMMA EnqueueKeeps ==
  ASSUME ConstantsAreValid, IInv, NEW d \in Dispatcher, NEW e \in Event, Enqueue(d, e)
  PROVE  IInv'
<1>1. /\ status \in [Event -> Outbox!Status] /\ status[e] = "absent"
      /\ task[d] \in Task /\ task[d].step \in Entering
      /\ e \in task[d].todo /\ task[d].calls = 0
  BY DEF IInv, TypeOK, TaskInv, TaskOK, Enqueue, At, Absent, Entering
<1>2. /\ status' = [status EXCEPT ![e] = "pending"]
      /\ attempts' = attempts /\ accepted' = accepted /\ overdue' = overdue
      /\ doubtful' = doubtful /\ faults' = faults
      /\ status'[e] = "pending" /\ \A x \in Event : x # e => status'[x] = status[x]
  BY <1>1 DEF Enqueue
<1>3. /\ task' \in [Dispatcher -> Task]
      /\ \A x \in Dispatcher : x # d => task'[x] = task[x]
      /\ task'[d].calls = 0 /\ task'[d].step \notin Busy
      /\ task'[d].step \in Entering => task'[d].todo = task[d].todo \ {e}
  <2>1. CASE Become(d, [task[d] EXCEPT !.todo = @ \ {e}])
    <3> DEFINE t == [task[d] EXCEPT !.todo = @ \ {e}]
    <3>1. /\ t \in Task /\ t.step = task[d].step /\ t.calls = 0
          /\ t.todo = task[d].todo \ {e}
      BY <1>1 DEF Task, Step
    <3>2. task' = [task EXCEPT ![d] = t] /\ task \in [Dispatcher -> Task]
      BY <2>1 DEF Become, IInv, TypeOK
    <3> HIDE DEF t
    <3> QED
      BY <1>1, <3>1, <3>2 DEF Busy, Entering
  <2>2. CASE Become(d, [Idle EXCEPT !.step = "listing"]) \/ Become(d, Idle)
    <3>1. Leaves(d)
      <4>1. Idle \in Task /\ Idle.step = "idle" /\ Idle.calls = 0
        BY IdleIs DEF IInv
      <4>2. /\ [Idle EXCEPT !.step = "listing"] \in Task
            /\ [Idle EXCEPT !.step = "listing"].step = "listing"
            /\ [Idle EXCEPT !.step = "listing"].calls = 0
        BY <4>1 DEF Task, Step
      <4> QED
        BY <2>2, <4>1, <4>2 DEF Leaves, Busy, Entering
    <3> QED
      BY <3>1, LeavesIs DEF IInv
  <2> QED
    BY <2>1, <2>2 DEF Enqueue
<1>4. TypeOK'
  BY <1>1, <1>2, <1>3 DEF IInv, TypeOK, Outbox!Status
<1>5. TaskInv'
  <2>1. TaskOK(d)'
    <3>1. task[d].todo \subseteq Absent
      BY <1>1 DEF IInv, TaskInv, TaskOK
    <3>2. task[d].todo \ {e} \subseteq Absent'
      BY <1>2, <3>1 DEF Absent
    <3> QED
      BY <1>3, <3>2 DEF TaskOK, Busy
  <2>2. ASSUME NEW x \in Dispatcher, x # d
        PROVE  TaskOK(x)'
    <3>1. TaskOK(x) /\ task'[x] = task[x]
      BY <1>3, <2>2 DEF IInv, TaskInv
    <3>2. task[x].step \in Entering => e \notin task[x].todo
      BY <1>1, <2>2 DEF IInv, PairInv
    <3>3. task[x].step \in Entering => task[x].todo \subseteq Absent'
      BY <1>2, <3>1, <3>2 DEF TaskOK, Absent
    <3> QED
      BY <1>2, <3>1, <3>3 DEF TaskOK
  <2> QED
    BY <2>1, <2>2 DEF TaskInv
<1>6. PairInv'
  <2>1. ASSUME NEW x \in Dispatcher, NEW y \in Dispatcher, x # y,
               task'[x].step \in Entering, task'[y].step \in Entering
        PROVE  task'[x].todo \cap task'[y].todo = {}
    <3>1. /\ task[x].step \in Entering /\ task'[x].todo \subseteq task[x].todo
          /\ task[y].step \in Entering /\ task'[y].todo \subseteq task[y].todo
      BY <1>1, <1>3, <2>1
    <3>2. task[x].todo \cap task[y].todo = {}
      BY <2>1, <3>1 DEF IInv, PairInv
    <3> QED
      BY <3>1, <3>2
  <2> QED
    BY <1>3, <2>1 DEF IInv, PairInv, Busy
<1>7. FutureInv'
  BY <1>2 DEF IInv, FutureInv
<1>8. OnceInv'
  <2>1. ASSUME NEW x \in Event, x \notin doubtful
        PROVE  OnceOK(x)'
    <3>1. OnceOK(x)
      BY <2>1 DEF IInv, OnceInv
    <3>2. \A c \in Dispatcher : task'[c].step \in Busy => c # d /\ task'[c] = task[c]
      BY <1>3
    <3>3. status[x] \in {"sending", "sent"} => status'[x] = status[x]
      BY <1>1, <1>2
    <3> QED
      BY <1>2, <3>1, <3>2, <3>3 DEF OnceOK
  <2> QED
    BY <1>2, <2>1 DEF OnceInv
<1> QED
  BY <1>4, <1>5, <1>6, <1>7, <1>8 DEF IInv

(* A publication holds events that nobody else will enqueue.               *)
LEMMA PublishKeeps ==
  ASSUME ConstantsAreValid, IInv, NEW d \in Dispatcher, NEW es \in SUBSET Event,
         NEW step \in Step, Publish(d, es, step)
  PROVE  IInv'
<1> DEFINE t == [Idle EXCEPT !.step = step, !.todo = es]
<1>1. /\ t \in Task /\ t.step = step /\ t.todo = es /\ t.calls = 0
  <2>1. Idle \in Task /\ Idle.step = "idle" /\ Idle.calls = 0
    BY IdleIs DEF IInv
  <2> QED
    BY <2>1 DEF Task
<1>2. /\ task' = [task EXCEPT ![d] = t] /\ task \in [Dispatcher -> Task]
      /\ step \in Entering /\ es \subseteq Absent
      /\ \A x \in Dispatcher : es \cap task[x].todo = {}
      /\ status' = status /\ attempts' = attempts /\ accepted' = accepted
      /\ overdue' = overdue /\ doubtful' = doubtful /\ faults' = faults
  BY DEF IInv, TypeOK, Publish, Become, Entering
<1> HIDE DEF t
<1>3. /\ task' \in [Dispatcher -> Task]
      /\ \A x \in Dispatcher : x # d => task'[x] = task[x]
      /\ task'[d].calls = 0 /\ task'[d].step \in Entering /\ task'[d].todo = es
      /\ task'[d].step \notin Busy
  BY <1>1, <1>2 DEF Busy, Entering
<1>4. TypeOK'
  BY <1>2, <1>3 DEF IInv, TypeOK
<1>5. TaskInv'
  <2>1. Absent' = Absent
    BY <1>2 DEF Absent
  <2>2. TaskOK(d)'
    BY <1>2, <1>3, <2>1 DEF TaskOK, Busy
  <2>3. ASSUME NEW x \in Dispatcher, x # d
        PROVE  TaskOK(x)'
    BY <1>2, <1>3, <2>1, <2>3 DEF IInv, TaskInv, TaskOK
  <2> QED
    BY <2>2, <2>3 DEF TaskInv
<1>6. PairInv'
  <2>1. ASSUME NEW x \in Dispatcher, NEW y \in Dispatcher, x # y,
               task'[x].step \in Entering, task'[y].step \in Entering
        PROVE  task'[x].todo \cap task'[y].todo = {}
    BY <1>2, <1>3, <2>1 DEF IInv, PairInv
  <2> QED
    BY <1>3, <2>1 DEF IInv, PairInv, Busy
<1>7. FutureInv'
  BY <1>2 DEF IInv, FutureInv
<1>8. OnceInv'
  <2>1. \A c \in Dispatcher : task'[c].step \in Busy => c # d /\ task'[c] = task[c]
    BY <1>3
  <2> QED
    BY <1>2, <2>1 DEF IInv, OnceInv, OnceOK
<1> QED
  BY <1>4, <1>5, <1>6, <1>7, <1>8 DEF IInv

-----------------------------------------------------------------------------
(* Every step is of one of the kinds                                       *)

Kind(d) ==
  \/ Leaving(d) \/ Ready(d)
  \/ \E e \in Event, step \in {"pushing", "dropping"} : Starting(d, e, step)
  \/ \E st \in {"sent", "failed"} : Settling(d, st)
  \/ \E accepts \in BOOLEAN : Push(d, accepts)
  \/ \E e \in Event : Enqueue(d, e)
  \/ \E es \in SUBSET Event, step \in Step : Publish(d, es, step)

(* What a running dispatcher does is of one kind.                          *)
LEMMA AdvanceKind ==
  ASSUME ConstantsAreValid, IInv, NEW d \in Dispatcher, Advance(d)
  PROVE  Kind(d)
<1>1. /\ task[d] \in Task /\ overdue \subseteq Event /\ faults \in 0..MaxFaults
      /\ task[d].step # "pushing" => task[d].calls = 0
      /\ task[d].step \in Busy => task[d].on \in Event
  BY DEF IInv, TypeOK, TaskInv, TaskOK
<1>2. /\ Idle \in Task /\ Idle.step = "idle" /\ Idle.calls = 0
      /\ Draining(d) \in Task /\ Draining(d).step = "draining" /\ Draining(d).calls = 0
  BY IdleIs, DrainingIs DEF IInv
<1>3. \A e \in Event : /\ Behind(d, e) \in Task /\ Behind(d, e).step = "claiming"
                       /\ Behind(d, e).calls = task[d].calls
  BY BehindIs DEF IInv
<1>4. \A e \in Event : /\ Drained(d, e) \in Task /\ Drained(d, e).step \in {"idle", "draining"}
                       /\ Drained(d, e).calls = 0
  BY DrainedIs DEF IInv
<1>5. Become(d, Idle) \/ Become(d, Draining(d)) => Leaves(d)
  BY <1>2 DEF Leaves, Busy, Entering
<1>6. ASSUME NEW e \in Event, task[d].step # "pushing", Become(d, Behind(d, e))
      PROVE  Leaves(d)
  BY <1>1, <1>3, <1>6 DEF Leaves, Busy, Entering
<1>7. ASSUME NEW e \in Event, Become(d, Drained(d, e))
      PROVE  Leaves(d)
  BY <1>4, <1>7 DEF Leaves, Busy, Entering
<1>8. CASE Connect(d)
  <2>1. /\ [task[d] EXCEPT !.step = "claiming"] \in Task
        /\ [task[d] EXCEPT !.step = "claiming"].step = "claiming"
        /\ [task[d] EXCEPT !.step = "claiming"].calls = task[d].calls
    BY <1>1 DEF Task, Step
  <2>2. Leaves(d)
    BY <1>1, <1>5, <1>8, <2>1 DEF Connect, At, Leaves, Busy, Entering
  <2> QED
    BY <1>1, <1>8, <2>2 DEF Connect, Leaving, Kind
<1>9. CASE Disconnect(d)
  BY <1>1, <1>5, <1>9 DEF Disconnect, Leaving, Kind
<1>10. CASE Credit(d)
  <2>1. task[d].step = "crediting" /\ task[d].on \in Event
    BY <1>1, <1>10 DEF Credit, At, Busy
  <2>2. CASE Creditable(task[d].on)
    BY <1>6, <1>10, <2>1, <2>2 DEF Credit, Settling, Kind
  <2>3. CASE ~Creditable(task[d].on)
    BY <1>1, <1>5, <1>10, <2>3 DEF Credit, Conflict, Leaving, Kind
  <2> QED
    BY <2>2, <2>3
<1>11. CASE Fail(d)
  <2>1. task[d].step = "failing" /\ task[d].on \in Event /\ task[d].calls = 0
    BY <1>1, <1>11 DEF Fail, At, Busy
  <2>2. CASE Creditable(task[d].on)
    <3>1. 0 \in 0..MaxAttempts
      BY ConstantsAreValid DEF ConstantsAreValid
    <3>2. /\ [task[d] EXCEPT !.step = "claiming", !.number = 0] \in Task
          /\ [task[d] EXCEPT !.step = "claiming", !.number = 0].step = "claiming"
          /\ [task[d] EXCEPT !.step = "claiming", !.number = 0].calls = 0
      BY <1>1, <2>1, <3>1 DEF Task, Step
    <3>3. \/ Become(d, Behind(d, task[d].on))
          \/ Become(d, [task[d] EXCEPT !.step = "claiming", !.number = 0])
      BY <1>11, <2>2 DEF Fail
    <3>4. Leaves(d)
      BY <1>6, <2>1, <3>2, <3>3 DEF Leaves, Busy, Entering
    <3> QED
      BY <1>11, <2>1, <2>2, <3>4 DEF Fail, Settling, Kind
  <2>3. CASE ~Creditable(task[d].on)
    BY <1>1, <1>5, <1>11, <2>3 DEF Fail, Conflict, Leaving, Kind
  <2> QED
    BY <2>2, <2>3
<1>12. CASE Drop(d)
  <2>1. task[d].step = "dropping" /\ task[d].on \in Event
    BY <1>1, <1>12 DEF Drop, At, Busy
  <2>2. CASE Creditable(task[d].on)
    BY <1>7, <1>12, <2>1, <2>2 DEF Drop, Settling, Kind
  <2>3. CASE ~Creditable(task[d].on)
    BY <1>1, <1>5, <1>12, <2>3 DEF Drop, Conflict, Leaving, Kind
  <2> QED
    BY <2>2, <2>3
<1>13. ASSUME NEW e \in Event, Claim(d, e)
       PROVE  Kind(d)
  <2>1. task[d].step = "claiming" /\ task[d].calls = 0
    BY <1>1, <1>13 DEF Claim, At
  <2>2. CASE Startable(e)
    BY <1>13, <2>1, <2>2 DEF Claim, Starting, Kind
  <2>3. CASE ~Startable(e)
    BY <1>1, <1>6, <1>13, <2>1, <2>3 DEF Claim, Leaving, Kind
  <2> QED
    BY <2>2, <2>3
<1>14. ASSUME NEW e \in Event, Drain(d, e)
       PROVE  Kind(d)
  <2>1. task[d].step = "draining" /\ task[d].calls = 0
    BY <1>1, <1>14 DEF Drain, At
  <2>2. CASE Startable(e)
    BY <1>14, <2>1, <2>2 DEF Drain, Starting, Kind
  <2>3. CASE ~Startable(e)
    BY <1>1, <1>7, <1>14, <2>3 DEF Drain, Leaving, Kind
  <2> QED
    BY <2>2, <2>3
<1>15. CASE At(d, "listing") /\ Ready(d)
  BY <1>15 DEF Kind
<1>16. CASE \E accepts \in BOOLEAN : Push(d, accepts)
  BY <1>16 DEF Kind
<1>17. CASE \E e \in Event : Enqueue(d, e)
  BY <1>17 DEF Kind
<1> QED
  BY <1>8, <1>9, <1>10, <1>11, <1>12, <1>13, <1>14, <1>15, <1>16, <1>17 DEF Advance

(* A fault is a task that leaves.                                          *)
LEMMA FaultKind ==
  ASSUME ConstantsAreValid, IInv, NEW d \in Dispatcher, TransactionFails(d) \/ Die(d)
  PROVE  Leaving(d)
<1>1. overdue \subseteq Event /\ faults \in 0..MaxFaults /\ faults < MaxFaults
  BY DEF IInv, TypeOK, TransactionFails, Die
<1>2. /\ Idle \in Task /\ Idle.step = "idle" /\ Idle.calls = 0
      /\ Draining(d) \in Task /\ Draining(d).step = "draining" /\ Draining(d).calls = 0
  BY IdleIs, DrainingIs DEF IInv
<1>3. Leaves(d)
  BY <1>2 DEF TransactionFails, Die, Leaves, Busy, Entering
<1>4. faults + 1 \in 0..MaxFaults
  BY <1>1, ConstantsAreValid DEF ConstantsAreValid
<1> QED
  BY <1>1, <1>3, <1>4 DEF TransactionFails, Die, Leaving

(* So is every step, but for the passing of time.                          *)
LEMMA StepKind ==
  ASSUME ConstantsAreValid, IInv, Next
  PROVE  (\E e \in Event : Delay(e)) \/ (\E d \in Dispatcher : Kind(d))
<1>1. ASSUME NEW d \in Dispatcher, Advance(d) \/ LaterRun(d) \/ TransactionFails(d) \/ Die(d)
      PROVE  Kind(d)
  <2>1. CASE Advance(d)
    BY <2>1, AdvanceKind
  <2>2. CASE LaterRun(d)
    BY <2>2 DEF LaterRun, Kind
  <2>3. CASE TransactionFails(d) \/ Die(d)
    BY <2>3, FaultKind DEF Kind
  <2> QED
    BY <1>1, <2>1, <2>2, <2>3
<1>2. ASSUME NEW d \in Dispatcher, NEW es \in SUBSET Event, NEW step \in Step,
             Publish(d, es, step)
      PROVE  Kind(d)
  BY <1>2 DEF Kind
<1> QED
  BY <1>1, <1>2 DEF Next

-----------------------------------------------------------------------------
(* The inductive invariant                                                 *)

(* The invariant holds of the empty outbox.                                *)
LEMMA IInvInit ==
  ASSUME ConstantsAreValid, Init
  PROVE  IInv
<1>1. /\ status = [e \in Event |-> "absent"]
      /\ attempts = [e \in Event |-> 0]
      /\ accepted = [e \in Event |-> [n \in Outbox!Attempt |-> 0]]
      /\ \A d \in Dispatcher : task[d] = Idle
  BY DEF Init, Outbox!Init
<1>2. Idle \in Task /\ Idle.step = "idle" /\ Idle.calls = 0
  BY ConstantsAreValid DEF ConstantsAreValid, Idle, Task, Step
<1>3. TypeOK
  BY <1>1, <1>2, ConstantsAreValid
     DEF Init, TypeOK, ConstantsAreValid, Outbox!Status
<1>4. TaskInv /\ PairInv
  BY <1>1, <1>2 DEF TaskInv, TaskOK, PairInv, Busy, Entering
<1>5. FutureInv /\ OnceInv
  BY <1>1, <1>2 DEF FutureInv, OnceInv, OnceOK, Busy
<1> QED
  BY <1>3, <1>4, <1>5 DEF IInv

(* Every step keeps it.                                                    *)
LEMMA IInvStep ==
  ASSUME ConstantsAreValid, IInv, [Next]_vars
  PROVE  IInv'
<1>1. CASE UNCHANGED vars
  BY <1>1 DEF vars, IInv, TypeOK, TaskInv, TaskOK, PairInv, FutureInv, OnceInv, OnceOK, Absent
<1>2. ASSUME NEW e \in Event, Delay(e)
      PROVE  IInv'
  BY <1>2 DEF Delay, IInv, TypeOK, TaskInv, TaskOK, PairInv, FutureInv, OnceInv, OnceOK, Absent
<1>3. ASSUME NEW d \in Dispatcher, Kind(d)
      PROVE  IInv'
  BY <1>3, LeavingKeeps, ReadyKeeps, StartingKeeps, SettlingKeeps, PushKeeps, EnqueueKeeps,
     PublishKeeps DEF Kind
<1> QED
  BY <1>1, <1>2, <1>3, StepKind

(* So it always holds.                                                     *)
LEMMA IInvHolds == Spec => []IInv
<1>1. Init => IInv
  BY ConstantsAreValid, IInvInit
<1>2. IInv /\ [Next]_vars => IInv'
  BY ConstantsAreValid, IInvStep
<1> QED
  BY <1>1, <1>2, PTL DEF Spec

-----------------------------------------------------------------------------
(* Every reachable state has the declared type; in particular an attempt   *)
(* is numbered at most max_attempts and makes no more calls than the       *)
(* client's retries allow.                                                 *)
THEOREM TypeIsSound == Spec => []TypeOK
<1>1. IInv => TypeOK
  BY DEF IInv
<1> QED
  BY <1>1, IInvHolds, PTL

(* However many dispatchers of how many processes hold the same ready      *)
(* list, none delivers what another delivered, unless the answer of a call *)
(* was lost or an attempt was found interrupted.                           *)
THEOREM DuplicatesNeedDoubt == Spec => []NoNeedlessDuplicate
<1>1. IInv => NoNeedlessDuplicate
  <2>1. SUFFICES ASSUME IInv, NEW e \in Event \ doubtful, NEW n \in Outbox!Attempt
                 PROVE  /\ accepted[e][n] <= 1
                        /\ \A m \in Outbox!Attempt :
                             accepted[e][n] > 0 /\ accepted[e][m] > 0 => n = m
    BY DEF NoNeedlessDuplicate
  <2>2. OnceOK(e)
    BY <2>1 DEF IInv, OnceInv
  <2>3. accepted[e][n] \in 0..CallsPerAttempt
    BY <2>1 DEF IInv, TypeOK
  <2>4. accepted[e][n] <= 1
    BY <2>2, <2>3, ConstantsAreValid DEF OnceOK, ConstantsAreValid
  <2> QED
    BY <2>2, <2>4 DEF OnceOK
<1> QED
  BY <1>1, IInvHolds, PTL

(* Each kind of step does to the outbox one thing it allows, or nothing.   *)
LEMMA KindImplements ==
  ASSUME ConstantsAreValid, IInv, NEW d \in Dispatcher, Kind(d)
  PROVE  [Outbox!Next]_Outbox!outbox
<1>1. CASE Leaving(d)
  BY <1>1 DEF Leaving, Outbox!outbox
<1>2. CASE Ready(d)
  <2>1. Interrupted \in SUBSET Event /\ Outbox!GiveUp(Interrupted)
    BY <1>2 DEF Ready, Interrupted, Outbox!GiveUp
  <2> QED
    BY <2>1 DEF Outbox!Next
<1>3. ASSUME NEW e \in Event, NEW step \in {"pushing", "dropping"}, Starting(d, e, step)
      PROVE  Outbox!Next
  <2>1. Outbox!Start(e)
    BY <1>3 DEF Starting, Startable, Start, Outbox!Start
  <2> QED
    BY <2>1 DEF Outbox!Next
<1>4. ASSUME NEW st \in {"sent", "failed"}, Settling(d, st)
      PROVE  Outbox!Next
  <2> DEFINE e == task[d].on
  <2>1. /\ e \in Event /\ status[e] = "sending" /\ status \in [Event -> Outbox!Status]
        /\ status' = [status EXCEPT ![e] = st] /\ UNCHANGED <<attempts, accepted>>
    BY <1>4 DEF IInv, TypeOK, TaskInv, TaskOK, Busy, Settling, Mark, Creditable
  <2>2. CASE st = "sent"
    <3>1. task[d].number \in Outbox!Attempt /\ accepted[e][task[d].number] > 0
      <4>1. /\ attempts[e] \in 0..MaxAttempts /\ task[d].number \in 1..attempts[e]
            /\ accepted[e][task[d].number] > 0
        BY <1>4, <2>1, <2>2 DEF Settling, IInv, TypeOK, TaskInv, TaskOK, Busy
      <4> QED
        BY <4>1, ConstantsAreValid DEF ConstantsAreValid, Outbox!Attempt
    <3>2. Outbox!Credit(e)
      BY <2>1, <2>2, <3>1 DEF Outbox!Credit
    <3> QED
      BY <2>1, <3>2 DEF Outbox!Next
  <2>3. CASE st = "failed"
    <3>1. Outbox!GiveUp({e}) /\ {e} \in SUBSET Event
      BY <2>1, <2>3 DEF Outbox!GiveUp
    <3> QED
      BY <3>1 DEF Outbox!Next
  <2> QED
    BY <2>2, <2>3
<1>5. ASSUME NEW accepts \in BOOLEAN, Push(d, accepts)
      PROVE  [Outbox!Next]_Outbox!outbox
  <2> DEFINE e == task[d].on
             n == task[d].number
  <2>1. CASE accepts
    <3>1. /\ e \in Event /\ n \in Outbox!Attempt /\ n <= attempts[e]
          /\ accepted[e][n] < CallsPerAttempt
      BY <1>5, PushCounts
    <3>2. Outbox!Accept(e, n)
      BY <1>5, <2>1, <3>1 DEF Push, Outbox!Accept
    <3> QED
      BY <3>1, <3>2 DEF Outbox!Next
  <2>2. CASE ~accepts
    BY <1>5, <2>2 DEF Push, Outbox!outbox
  <2> QED
    BY <2>1, <2>2
<1>6. ASSUME NEW e \in Event, Enqueue(d, e)
      PROVE  Outbox!Next
  <2>1. status[e] = "absent"
    BY <1>6 DEF IInv, TaskInv, TaskOK, Enqueue, At, Entering, Absent
  <2>2. Outbox!Enter(e)
    BY <1>6, <2>1 DEF Enqueue, Outbox!Enter
  <2> QED
    BY <2>2 DEF Outbox!Next
<1>7. ASSUME NEW es \in SUBSET Event, NEW step \in Step, Publish(d, es, step)
      PROVE  UNCHANGED Outbox!outbox
  BY <1>7 DEF Publish, Outbox!outbox
<1> QED
  BY <1>1, <1>2, <1>3, <1>4, <1>5, <1>6, <1>7 DEF Kind

(* Every step of the dispatchers is a step of the outbox.                  *)
LEMMA DispatcherSteps == IInv /\ [Next]_vars => [Outbox!Next]_Outbox!outbox
<1>1. CASE UNCHANGED vars
  BY <1>1 DEF vars, Outbox!outbox
<1>2. ASSUME NEW e \in Event, Delay(e)
      PROVE  UNCHANGED Outbox!outbox
  BY <1>2 DEF Delay, Outbox!outbox
<1>3. ASSUME IInv, Next
      PROVE  [Outbox!Next]_Outbox!outbox
  BY <1>2, <1>3, StepKind, KindImplements, ConstantsAreValid
<1> QED
  BY <1>1, <1>3

(* Dispatchers, wherever they overlap, overtake one another's attempts,    *)
(* lose their database or die, keep what the outbox promises.              *)
THEOREM DispatchersImplementOutbox == Spec => ImplementsOutbox
<1>1. Init => Outbox!Init
  BY DEF Init
<1> QED
  BY <1>1, DispatcherSteps, IInvHolds, PTL DEF Spec, ImplementsOutbox, Outbox!Spec

-----------------------------------------------------------------------------
(* What the outbox promises of its rows                                    *)

(* An event is marked sent only if the provider accepted its message.      *)
SentWasAccepted ==
  \A e \in Event : status[e] = "sent" => \E n \in Outbox!Attempt : accepted[e][n] > 0

(* A sent event is never pushed into another state or another attempt, the *)
(* attempts of an event are never counted back, and no event leaves.       *)
OutboxStep ==
  \A e \in Event :
    /\ status[e] = "sent" => status'[e] = "sent" /\ attempts'[e] = attempts[e]
    /\ attempts[e] <= attempts'[e]
    /\ status[e] # "absent" => status'[e] # "absent"

OutboxIsForward == [][OutboxStep]_vars

(* A step of the outbox keeps both.                                        *)
LEMMA OutboxKeeps ==
  ASSUME TypeOK, TypeOK', [Outbox!Next]_Outbox!outbox
  PROVE  OutboxStep /\ (SentWasAccepted => SentWasAccepted')
<1>1. /\ status \in [Event -> Outbox!Status] /\ attempts \in [Event -> 0..MaxAttempts]
      /\ accepted \in [Event -> [Outbox!Attempt -> 0..CallsPerAttempt]]
      /\ \A e \in Event : attempts[e] \in Nat
      /\ \A e \in Event, n \in Outbox!Attempt : accepted[e][n] \in Nat
  BY ConstantsAreValid DEF TypeOK
<1>2. CASE UNCHANGED Outbox!outbox
  BY <1>1, <1>2 DEF Outbox!outbox, OutboxStep, SentWasAccepted
<1>3. ASSUME NEW e \in Event, Outbox!Enter(e) \/ Outbox!Start(e) \/ Outbox!Credit(e)
      PROVE  OutboxStep /\ (SentWasAccepted => SentWasAccepted')
  <2>1. CASE Outbox!Enter(e)
    BY <1>1, <2>1 DEF Outbox!Enter, OutboxStep, SentWasAccepted
  <2>2. CASE Outbox!Start(e)
    <3>1. /\ \A f \in Event : f # e => status'[f] = status[f] /\ attempts'[f] = attempts[f]
          /\ status[e] \in {"pending", "failed"} /\ status'[e] = "sending"
          /\ attempts[e] <= attempts'[e] /\ accepted' = accepted
      BY <1>1, <2>2 DEF Outbox!Start
    <3> QED
      BY <1>1, <3>1 DEF OutboxStep, SentWasAccepted
  <2>3. CASE Outbox!Credit(e)
    <3>1. /\ \A f \in Event : f # e => status'[f] = status[f]
          /\ status[e] = "sending" /\ status'[e] = "sent"
          /\ \E n \in Outbox!Attempt : accepted[e][n] > 0
          /\ UNCHANGED <<attempts, accepted>>
      BY <1>1, <2>3 DEF Outbox!Credit
    <3> QED
      BY <1>1, <3>1 DEF OutboxStep, SentWasAccepted
  <2> QED
    BY <1>3, <2>1, <2>2, <2>3
<1>4. ASSUME NEW e \in Event, NEW n \in Outbox!Attempt, Outbox!Accept(e, n)
      PROVE  OutboxStep /\ (SentWasAccepted => SentWasAccepted')
  <2>1. \A f \in Event, m \in Outbox!Attempt : accepted[f][m] <= accepted'[f][m]
    BY <1>1, <1>4 DEF Outbox!Accept
  <2>2. UNCHANGED <<status, attempts>>
    BY <1>4 DEF Outbox!Accept
  <2>3. \A f \in Event, m \in Outbox!Attempt : accepted'[f][m] \in Nat
    BY ConstantsAreValid DEF TypeOK
  <2> QED
    BY <1>1, <2>1, <2>2, <2>3 DEF OutboxStep, SentWasAccepted
<1>5. ASSUME NEW S \in SUBSET Event, Outbox!GiveUp(S)
      PROVE  OutboxStep /\ (SentWasAccepted => SentWasAccepted')
  BY <1>1, <1>5 DEF Outbox!GiveUp, OutboxStep, SentWasAccepted
<1> QED
  BY <1>2, <1>3, <1>4, <1>5 DEF Outbox!Next

(* Whatever dispatchers overlap or fail, "sent" is true of the provider.   *)
THEOREM SentIsTrue == Spec => []SentWasAccepted
<1>1. Init => SentWasAccepted
  BY DEF Init, Outbox!Init, SentWasAccepted
<1>2. SentWasAccepted /\ IInv /\ IInv' /\ [Next]_vars => SentWasAccepted'
  BY DispatcherSteps, OutboxKeeps DEF IInv
<1> QED
  BY <1>1, <1>2, IInvHolds, PTL DEF Spec

(* Whatever dispatchers overlap or fail, sent events stay sent, and no     *)
(* attempt is granted twice.                                               *)
THEOREM OutboxMovesForward == Spec => OutboxIsForward
<1>1. IInv /\ IInv' /\ [Next]_vars => [OutboxStep]_vars
  BY DispatcherSteps, OutboxKeeps DEF IInv
<1> QED
  BY <1>1, IInvHolds, PTL DEF Spec, OutboxIsForward
=============================================================================
