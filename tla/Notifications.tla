---------------------------- MODULE Notifications ----------------------------
(***************************************************************************)
(* The delivery of notifications (backend/notifications.py): what follows  *)
(* the end of a run in execute_agent_run. A dispatcher is one coroutine    *)
(* that publishes the events of its run and then delivers whatever is      *)
(* ready. Runs may end in the API and in the scheduler, and a run may end  *)
(* while the events of the last one are still being delivered, so several  *)
(* dispatchers share the outbox. A step is one SQLite transaction or one   *)
(* awaited call; a dispatcher may die or lose its database at any of them. *)
(***************************************************************************)
EXTENDS Naturals

CONSTANTS
  Event, MaxAttempts,
  CallsPerAttempt,    (* 1 + MCP retries: the client repeats a failed call *)
  Dispatcher,
  MaxFaults,          (* bound: deaths and failed transactions             *)
  NoEvent

ASSUME ConstantsAreValid ==
  /\ MaxAttempts \in Nat \ {0} /\ CallsPerAttempt \in Nat \ {0} /\ MaxFaults \in Nat
  /\ NoEvent \notin Event

VARIABLES
  status, attempts, accepted,   (* as in Outbox                            *)
  overdue,    (* events in sending whose attempt began 10 minutes ago      *)
  doubtful,   (* events with a call whose answer was lost, or an attempt   *)
              (* that was found interrupted                                *)
  task,       (* the coroutine of a dispatcher                             *)
  faults

vars == <<status, attempts, accepted, overdue, doubtful, task, faults>>

Outbox == INSTANCE Outbox

Step == {"idle",
         "enqueuing",    (* enqueue_run_notifications, delivery follows    *)
         "recording",    (* the same after an interrupted run: no delivery *)
         "listing", "connecting", "claiming", "pushing", "crediting", "failing",
         "draining",     (* the except branch of dispatch_pending          *)
         "dropping"}     (* between its two transactions                   *)

Task == [step   : Step,
         todo   : SUBSET Event,             (* what the loop has still to visit *)
         ready  : SUBSET Event,             (* the result of ready              *)
         on     : Event \cup {NoEvent},     (* the event of the running attempt *)
         number : 0..MaxAttempts,           (* attempts as start_attempt returned it *)
         calls  : 0..CallsPerAttempt]       (* calls this attempt has made      *)

Idle == [step |-> "idle", todo |-> {}, ready |-> {}, on |-> NoEvent, number |-> 0, calls |-> 0]

-----------------------------------------------------------------------------
(* Helpers                                                                 *)

At(d, step)  == task[d].step = step
Become(d, t) == task' = [task EXCEPT ![d] = t]
Absent       == {e \in Event : status[e] = "absent"}

(* Defect: the claim does not compare the status.                          *)
StartableAnyhow(e) == status[e] \in {"pending", "failed", "sending"} /\ attempts[e] < MaxAttempts

(* Defect: the claim does not compare the attempts.                        *)
StartableForEver(e) == status[e] \in {"pending", "failed"}

(* The WHERE clause of start_attempt.                                      *)
Startable(e) == status[e] \in {"pending", "failed"} /\ attempts[e] < MaxAttempts

(* start_attempt                                                           *)
Start(e) ==
  /\ status'   = [status EXCEPT ![e] = "sending"]
  /\ attempts' = [attempts EXCEPT ![e] = @ + 1]
  /\ overdue'  = overdue \ {e}

Trying(d, e, step) ==
  [task[d] EXCEPT !.step = step, !.on = e, !.number = attempts[e] + 1]

(* The loop goes on behind event e.                                        *)
Behind(d, e) ==
  [task[d] EXCEPT !.step = "claiming", !.todo = @ \ {e}, !.on = NoEvent, !.number = 0]

(* An exception leaves the loop: every ready event is visited once more.   *)
Draining(d) == [Idle EXCEPT !.step = "draining", !.todo = task[d].ready]

Drained(d, e) ==
  IF task[d].todo = {e} THEN Idle
  ELSE [Idle EXCEPT !.step = "draining", !.todo = task[d].todo \ {e}]

(* The WHERE clause of mark_sent and mark_failed.                          *)
Creditable(e) == status[e] = "sending"

(* mark_sent and mark_failed                                               *)
Mark(e, st) ==
  /\ status'  = [status EXCEPT ![e] = st]
  /\ overdue' = overdue \ {e}

Conflict == UNCHANGED <<status, overdue>>

-----------------------------------------------------------------------------
Init ==
  /\ Outbox!Init
  /\ overdue = {} /\ doubtful = {}
  /\ task = [d \in Dispatcher |-> Idle]
  /\ faults = 0

(* Ten minutes pass since the last attempt began.                          *)
Delay(e) ==
  /\ status[e] = "sending" /\ e \notin overdue
  /\ overdue' = overdue \cup {e}
  /\ UNCHANGED <<status, attempts, accepted, doubtful, task, faults>>

(* A run has closed, with the events es; step tells whether delivery       *)
(* follows. The keys of its events are its own and a run closes once.      *)
Publish(d, es, step) ==
  /\ At(d, "idle") /\ es # {} /\ step \in {"enqueuing", "recording"}
  /\ es \subseteq Absent
  /\ \A x \in Dispatcher : es \cap task[x].todo = {}
  /\ Become(d, [Idle EXCEPT !.step = step, !.todo = es])
  /\ UNCHANGED <<status, attempts, accepted, overdue, doubtful, faults>>

(* enqueue: one transaction for each event, in an order left open.         *)
Enqueue(d, e) ==
  /\ At(d, "enqueuing") \/ At(d, "recording")
  /\ e \in task[d].todo
  /\ status' = [status EXCEPT ![e] = "pending"]
  /\ Become(d, IF task[d].todo # {e} THEN [task[d] EXCEPT !.todo = @ \ {e}]
               ELSE IF At(d, "enqueuing") THEN [Idle EXCEPT !.step = "listing"] ELSE Idle)
  /\ UNCHANGED <<attempts, accepted, overdue, doubtful, faults>>

(* Defect: no attempt is ever found interrupted.                           *)
InterruptedNever == {e \in Event : FALSE}

(* Attempts that ready takes for interrupted.                              *)
Interrupted == {e \in Event : status[e] = "sending" /\ e \in overdue}

(* ready: of the dispatcher's own publication, or of a later run whose     *)
(* events are none of Event. Its LIMIT of 50 is above Cardinality(Event).  *)
Ready(d) ==
  /\ At(d, "listing") \/ At(d, "idle")
  /\ status' = [e \in Event |-> IF e \in Interrupted THEN "failed" ELSE status[e]]
  /\ overdue' = overdue \ Interrupted
  /\ doubtful' = doubtful \cup Interrupted
  /\ LET ready == {e \in Event : status'[e] \in {"pending", "failed"} /\ attempts[e] < MaxAttempts}
     IN Become(d, IF ready = {} THEN Idle
                  ELSE [Idle EXCEPT !.step = "connecting", !.todo = ready, !.ready = ready])
  /\ UNCHANGED <<attempts, accepted, faults>>

(* __aenter__ of the sender starts the push server; it may fail.           *)
Connect(d) ==
  /\ At(d, "connecting")
  /\ \/ Become(d, [task[d] EXCEPT !.step = "claiming"])
     \/ Become(d, Draining(d))
  /\ UNCHANGED <<status, attempts, accepted, overdue, doubtful, faults>>

(* start_attempt in the loop: of the event that just failed, or of the     *)
(* next one. An event somebody else claimed or settled is left behind.     *)
Claim(d, e) ==
  /\ At(d, "claiming")
  /\ IF task[d].on = NoEvent THEN e \in task[d].todo ELSE e = task[d].on
  /\ IF Startable(e)
     THEN Start(e) /\ Become(d, Trying(d, e, "pushing"))
     ELSE Become(d, Behind(d, e)) /\ UNCHANGED <<status, attempts, overdue>>
  /\ UNCHANGED <<accepted, doubtful, faults>>

(* __aexit__ of the sender; it may raise.                                  *)
Disconnect(d) ==
  /\ At(d, "claiming") /\ task[d].on = NoEvent /\ task[d].todo = {}
  /\ Become(d, Idle) \/ Become(d, Draining(d))
  /\ UNCHANGED <<status, attempts, accepted, overdue, doubtful, faults>>

Crediting(d) == [task[d] EXCEPT !.step = "crediting", !.calls = 0]
Failing(d)   == [task[d] EXCEPT !.step = "failing", !.calls = 0]

(* A call that raised is repeated while the client has retries.            *)
Repeated(d) ==
  IF task[d].calls + 1 < CallsPerAttempt THEN [task[d] EXCEPT !.calls = @ + 1] ELSE Failing(d)

(* Defect: an error result of the tool is taken for a success.             *)
AnyResult(d) == Crediting(d)

(* send raises when the tool's result is an error.                         *)
ErrorResult(d) == Failing(d)

(* One call of the push tool: a result, an error result or an exception    *)
(* (a time-out, a lost child, an open circuit). Only a result says that    *)
(* the provider accepted the message; it may have accepted it anyway.      *)
Push(d, accepts) ==
  /\ At(d, "pushing")
  /\ LET e == task[d].on  n == task[d].number IN
       /\ accepted' = IF accepts THEN [accepted EXCEPT ![e][n] = @ + 1] ELSE accepted
       /\ \/ accepts /\ Become(d, Crediting(d)) /\ UNCHANGED doubtful
          \/ /\ Become(d, ErrorResult(d)) \/ Become(d, Repeated(d))
             /\ doubtful' = IF accepts THEN doubtful \cup {e} ELSE doubtful
  /\ UNCHANGED <<status, attempts, overdue, faults>>

(* mark_sent, or its conflict.                                             *)
Credit(d) ==
  /\ At(d, "crediting")
  /\ LET e == task[d].on IN
       IF Creditable(e)
       THEN Mark(e, "sent") /\ Become(d, Behind(d, e))
       ELSE Conflict /\ Become(d, Draining(d))
  /\ UNCHANGED <<attempts, accepted, doubtful, faults>>

(* mark_failed, or its conflict; then the next attempt of the event, or    *)
(* the next event when this was the last attempt.                          *)
Fail(d) ==
  /\ At(d, "failing")
  /\ LET e == task[d].on IN
       IF Creditable(e)
       THEN /\ Mark(e, "failed")
            /\ Become(d, IF task[d].number >= MaxAttempts THEN Behind(d, e)
                         ELSE [task[d] EXCEPT !.step = "claiming", !.number = 0])
       ELSE Conflict /\ Become(d, Draining(d))
  /\ UNCHANGED <<attempts, accepted, doubtful, faults>>

(* The except branch: every ready event that is not settled loses one      *)
(* attempt, in two transactions.                                           *)
Drain(d, e) ==
  /\ At(d, "draining") /\ e \in task[d].todo
  /\ IF Startable(e)
     THEN Start(e) /\ Become(d, Trying(d, e, "dropping"))
     ELSE Become(d, Drained(d, e)) /\ UNCHANGED <<status, attempts, overdue>>
  /\ UNCHANGED <<accepted, doubtful, faults>>

(* Its mark_failed; a conflict leaves dispatch_pending for good.           *)
Drop(d) ==
  /\ At(d, "dropping")
  /\ LET e == task[d].on IN
       IF Creditable(e)
       THEN Mark(e, "failed") /\ Become(d, Drained(d, e))
       ELSE Conflict /\ Become(d, Idle)
  /\ UNCHANGED <<attempts, accepted, doubtful, faults>>

-----------------------------------------------------------------------------
(* Faults                                                                  *)

(* A transaction fails (the database stays locked): an exception.          *)
TransactionFails(d) ==
  /\ faults < MaxFaults /\ faults' = faults + 1
  /\ \/ task[d].step \in {"claiming", "crediting", "failing"} /\ Become(d, Draining(d))
     \/ /\ task[d].step \in {"enqueuing", "recording", "listing", "draining", "dropping"}
        /\ Become(d, Idle)
  /\ UNCHANGED <<status, attempts, accepted, overdue, doubtful>>

(* The process dies, or the coroutine is cancelled.                        *)
Die(d) ==
  /\ faults < MaxFaults /\ faults' = faults + 1
  /\ ~At(d, "idle") /\ Become(d, Idle)
  /\ UNCHANGED <<status, attempts, accepted, overdue, doubtful>>

-----------------------------------------------------------------------------
Advance(d) ==
  \/ Connect(d) \/ Disconnect(d) \/ Credit(d) \/ Fail(d) \/ Drop(d)
  \/ At(d, "listing") /\ Ready(d)
  \/ \E accepts \in BOOLEAN : Push(d, accepts)
  \/ \E e \in Event : Enqueue(d, e) \/ Claim(d, e) \/ Drain(d, e)

LaterRun(d) == At(d, "idle") /\ Ready(d)

Next ==
  \/ \E e \in Event : Delay(e)
  \/ \E d \in Dispatcher, es \in SUBSET Event, step \in Step : Publish(d, es, step)
  \/ \E d \in Dispatcher : Advance(d) \/ LaterRun(d) \/ TransactionFails(d) \/ Die(d)

Spec == Init /\ [][Next]_vars

(* Coroutines are resumed, calls return by their time-outs, time passes,   *)
(* and runs keep ending.                                                   *)
Fairness ==
  /\ \A d \in Dispatcher : WF_vars(Advance(d))
  /\ \A e \in Event : WF_vars(Delay(e))
  /\ WF_vars(\E d \in Dispatcher : LaterRun(d))

FairSpec == Spec /\ Fairness

-----------------------------------------------------------------------------
(* Properties                                                              *)

TypeOK ==
  /\ status \in [Event -> Outbox!Status]
  /\ attempts \in [Event -> 0..MaxAttempts]
  /\ accepted \in [Event -> [Outbox!Attempt -> 0..CallsPerAttempt]]
  /\ overdue \subseteq Event /\ doubtful \subseteq Event
  /\ task \in [Dispatcher -> Task]
  /\ faults \in 0..MaxFaults

(* However dispatchers overlap, overtake one another's attempts, lose      *)
(* their database or die, the outbox keeps its promises: bounded attempts  *)
(* and calls, sent only if accepted, sent for ever.                        *)
ImplementsOutbox == Outbox!Spec

(* The same message reaches the user twice only after the answer of a call *)
(* was lost or an attempt was found interrupted: two dispatchers that both *)
(* see an event as ready never both deliver it.                            *)
NoNeedlessDuplicate ==
  \A e \in Event \ doubtful : \A n \in Outbox!Attempt :
    /\ accepted[e][n] <= 1
    /\ \A m \in Outbox!Attempt : accepted[e][n] > 0 /\ accepted[e][m] > 0 => n = m

(* Every event that entered the outbox is sent, or has used up its         *)
(* attempts, as long as runs keep ending.                                  *)
Settled(e) == status[e] = "sent" \/ (status[e] = "failed" /\ attempts[e] = MaxAttempts)

EventsSettle == \A e \in Event : status[e] = "pending" ~> Settled(e)
=============================================================================
