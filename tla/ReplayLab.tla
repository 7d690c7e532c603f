------------------------------ MODULE ReplayLab ------------------------------
(***************************************************************************)
(* The replay lab (backend/product.py): a replay decides one scenario of   *)
(* the data set offline and persists the decision; its outcome is shown    *)
(* only after a separate reveal. The handlers run in threads and make a    *)
(* transaction of every statement; a repeated request meets the row of the *)
(* first, because the id is a digest of what was asked for.                *)
(***************************************************************************)
EXTENDS Naturals

CONSTANTS Client, Replay

VARIABLES
  session,   (* replay_sessions: the status of each row                    *)
  reveals,   (* history: the UPDATEs of revealed_at that took effect       *)
  asking     (* the request of each client and the last answer to it       *)

labVars == <<session, reveals, asking>>

Step == {"idle", "inserting", "reading", "updating", "rereading"}
Answers == {"none", "decision", "outcome", "unknown", "conflict"}

LabInit ==
  /\ session = [r \in Replay |-> "absent"] /\ reveals = [r \in Replay |-> 0]
  /\ asking \in [Client -> {[at |-> "idle", of |-> r, got |-> "none"] : r \in Replay}]

Asks(c, step, r) == asking' = [asking EXCEPT ![c] = [at |-> step, of |-> r, got |-> "none"]]
Gets(c, got) == asking' = [asking EXCEPT ![c].at = "idle", ![c].got = got]

(* ProductService.replay                                                   *)
Shown(r) == CASE session[r] = "absent"            -> "unknown"
              [] session[r] = "decision_complete" -> "decision"
              [] session[r] = "outcome_revealed"  -> "outcome"

(* create_replay: the SELECT finds a row, which is read in another step,   *)
(* or none, and an INSERT follows.                                         *)
Create(c) ==
  /\ asking[c].at = "idle"
  /\ \E r \in Replay : Asks(c, IF session[r] = "absent" THEN "inserting" ELSE "reading", r)
  /\ UNCHANGED <<session, reveals>>

(* The primary key refuses the row of a client that was faster.            *)
InsertReplay(c) ==
  /\ asking[c].at = "inserting"
  /\ LET r == asking[c].of IN
       IF session[r] = "absent"
       THEN session' = [session EXCEPT ![r] = "decision_complete"] /\ Gets(c, "decision")
       ELSE Gets(c, "conflict") /\ UNCHANGED session
  /\ UNCHANGED reveals

ReadReplay(c) ==
  /\ asking[c].at \in {"reading", "rereading"}
  /\ Gets(c, Shown(asking[c].of))
  /\ UNCHANGED <<session, reveals>>

(* GET of a replay, and the first read of a reveal: an outcome or nothing  *)
(* at all is the answer, a decision is scored against its outcome.         *)
Reveal(c) ==
  /\ asking[c].at = "idle"
  /\ \E r \in Replay :
       \/ Asks(c, "reading", r)
       \/ session[r] = "decision_complete" /\ Asks(c, "updating", r)
  /\ UNCHANGED <<session, reveals>>

(* Defect: the UPDATE names the row alone.                                 *)
MayUpdateAgain(r) == session[r] # "absent"

MayUpdate(r) == session[r] = "decision_complete"

UpdateReplay(c) ==
  /\ asking[c].at = "updating"
  /\ LET r == asking[c].of IN
       /\ session' = [session EXCEPT ![r] = IF MayUpdate(r) THEN "outcome_revealed" ELSE @]
       /\ reveals' = [reveals EXCEPT ![r] = IF MayUpdate(r) THEN @ + 1 ELSE @]
       /\ Asks(c, "rereading", r)

LabStep(c) == InsertReplay(c) \/ ReadReplay(c) \/ UpdateReplay(c)
LabNext == \E c \in Client : Create(c) \/ Reveal(c) \/ LabStep(c)

LabTypeOK ==
  /\ session \in [Replay -> {"absent", "decision_complete", "outcome_revealed"}]
  /\ reveals \in [Replay -> Nat]
  /\ asking \in [Client -> [at : Step, of : Replay, got : Answers]]
=============================================================================
