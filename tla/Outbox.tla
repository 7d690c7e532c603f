------------------------------- MODULE Outbox --------------------------------
(***************************************************************************)
(* What the notification outbox promises, with no word about dispatchers:  *)
(* an event is attempted a bounded number of times, an attempt makes a     *)
(* bounded number of calls to the provider, an event is marked sent only   *)
(* when the provider accepted it, and a sent event stays sent ("enter an   *)
(* idempotent SQLite outbox and are delivered with bounded retries",       *)
(* README). Notifications implements it.                                   *)
(***************************************************************************)
EXTENDS Naturals

CONSTANTS
  Event,             (* notification_outbox.event_key                      *)
  MaxAttempts,       (* max_attempts of the dispatcher                     *)
  CallsPerAttempt    (* calls of the push tool one attempt may make        *)

Attempt == 1..MaxAttempts
Status  == {"absent", "pending", "sending", "sent", "failed"}

VARIABLES
  status,     (* notification_outbox.status                                *)
  attempts,   (* notification_outbox.attempts                              *)
  accepted    (* messages the provider accepted, by event and attempt      *)

outbox == <<status, attempts, accepted>>

Init ==
  /\ status = [e \in Event |-> "absent"]
  /\ attempts = [e \in Event |-> 0]
  /\ accepted = [e \in Event |-> [n \in Attempt |-> 0]]

Enter(e) ==
  /\ status[e] = "absent"
  /\ status' = [status EXCEPT ![e] = "pending"]
  /\ UNCHANGED <<attempts, accepted>>

Start(e) ==
  /\ status[e] \in {"pending", "failed"} /\ attempts[e] < MaxAttempts
  /\ status' = [status EXCEPT ![e] = "sending"]
  /\ attempts' = [attempts EXCEPT ![e] = @ + 1]
  /\ UNCHANGED accepted

(* Also an attempt that was given up may still reach the provider.         *)
Accept(e, n) ==
  /\ n <= attempts[e] /\ accepted[e][n] < CallsPerAttempt
  /\ accepted' = [accepted EXCEPT ![e][n] = @ + 1]
  /\ UNCHANGED <<status, attempts>>

Credit(e) ==
  /\ status[e] = "sending"
  /\ \E n \in Attempt : accepted[e][n] > 0
  /\ status' = [status EXCEPT ![e] = "sent"]
  /\ UNCHANGED <<attempts, accepted>>

(* Any number of attempts may be given up at once.                         *)
GiveUp(S) ==
  /\ \A e \in S : status[e] = "sending"
  /\ status' = [e \in Event |-> IF e \in S THEN "failed" ELSE status[e]]
  /\ UNCHANGED <<attempts, accepted>>

Next ==
  \/ \E e \in Event : Enter(e) \/ Start(e) \/ Credit(e)
  \/ \E e \in Event, n \in Attempt : Accept(e, n)
  \/ \E S \in SUBSET Event : GiveUp(S)

Spec == Init /\ [][Next]_outbox
=============================================================================
