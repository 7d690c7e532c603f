------------------------------ MODULE Evaluation ------------------------------
(***************************************************************************)
(* The offline evaluation of one run id (evals/runner.py): evaluators, on  *)
(* the command line or in threads of the API (run_experiment), score the   *)
(* scenarios in order, write a checkpoint after each and a report at the   *)
(* end, and take up what the checkpoint of an earlier one holds. All of    *)
(* them share the directory of the run id and nothing locks it. A file is  *)
(* torn from the truncation that opens it to the end of the write. The     *)
(* replay lab of the same API is composed with them.                       *)
(***************************************************************************)
EXTENDS ReplayLab, Sequences

CONSTANTS
  Evaluator,
  DecisionAt,   (* the cutoff of each scenario, strategy after strategy    *)
  OutcomeAt,    (* when its outcome was known                              *)
  MaxDeaths,    (* bound of the model on evaluators that die               *)
  NoFile, Torn

Key  == DOMAIN DecisionAt
Time == {DecisionAt[k] : k \in Key} \cup {OutcomeAt[k] : k \in Key}

(* What a checkpoint holds: the rows of some scenarios, with the clock     *)
(* that stands in the timing of the row.                                   *)
Rows == UNION {[K -> {DecisionAt[k] : k \in Key}] : K \in SUBSET Key}
File == Rows \cup {NoFile, Torn}

(* load_dataset refuses an outcome that is not after its cutoff.           *)
OutcomesFollow == OutcomeAt \in [Key -> Nat] /\ \A k \in Key : DecisionAt[k] < OutcomeAt[k]

ASSUME EvaluationAssumption ==
  /\ DecisionAt \in Seq(Nat) /\ DecisionAt # <<>>
  /\ OutcomesFollow
  /\ MaxDeaths \in Nat
  /\ NoFile \notin Rows /\ Torn \notin Rows /\ NoFile # Torn

VARIABLES
  file,        (* checkpoint.json, its .tmp, report.json and report.md     *)
  at,          (* where each evaluator stands                              *)
  store,       (* its CheckpointStore.rows                                 *)
  clock,       (* its SimulationClock                                      *)
  target,      (* the file its open descriptor writes to                   *)
  mixed,       (* the evaluators whose open file another one opened, too   *)
  overlapped,  (* history: two evaluators were at work together            *)
  deaths

evalVars == <<file, at, store, clock, target, mixed, overlapped, deaths>>
vars == <<evalVars, labVars>>

Name == {"checkpoint", "tmp", "report", "markdown"}
Working == {"loading", "scoring", "opening", "writing", "replacing", "reporting", "printing"}
NoRows == [k \in {} |-> 0]

Init ==
  /\ LabInit
  /\ file = [n \in Name |-> NoFile]
  /\ at = [e \in Evaluator |-> "idle"]
  /\ store = [e \in Evaluator |-> NoRows]
  /\ clock = [e \in Evaluator |-> DecisionAt[1]]
  /\ target = [e \in Evaluator |-> "none"] /\ mixed = {}
  /\ overlapped = FALSE /\ deaths = 0

Goes(e, place) == at' = [at EXCEPT ![e] = place]
Busy == {e \in Evaluator : at[e] \in Working}
Whole(n) == file[n] \notin {NoFile, Torn}

-----------------------------------------------------------------------------
(* run_evaluation                                                          *)

(* Defect: a complete report does not end the evaluation.                  *)
ReportedNever == FALSE

Reported == file["report"] # NoFile

(* A report that is there is returned, or raises when it does not parse.   *)
Begin(e) ==
  /\ at[e] \in {"idle", "returned", "raised"}
  /\ IF Reported
     THEN /\ Goes(e, IF Whole("report") THEN "returned" ELSE "raised")
          /\ UNCHANGED overlapped
     ELSE Goes(e, "loading") /\ overlapped' = (overlapped \/ Busy # {})
  /\ UNCHANGED <<file, store, clock, target, mixed, deaths>>

(* Defect: an evaluation starts with an empty store.                       *)
LoadedNothing == NoRows

Loaded == IF Whole("checkpoint") THEN file["checkpoint"] ELSE NoRows

(* CheckpointStore.__init__                                                *)
Load(e) ==
  /\ at[e] = "loading"
  /\ IF file["checkpoint"] = Torn
     THEN Goes(e, "raised") /\ UNCHANGED <<store, clock>>
     ELSE /\ Goes(e, "scoring")
          /\ store' = [store EXCEPT ![e] = Loaded]
          /\ clock' = [clock EXCEPT ![e] = DecisionAt[1]]
  /\ UNCHANGED <<file, target, mixed, overlapped, deaths>>

(* Defect: the loop ends one scenario early.                               *)
MissingButLast(e) == {k \in Key : k \notin DOMAIN store[e] /\ k < Len(DecisionAt)}

Missing(e) == {k \in Key : k \notin DOMAIN store[e]}

(* Defect: the clock of the scenario before goes on.                       *)
ClockGoesOn(e, k) == clock[e]

(* reset_to                                                                *)
Cutoff(e, k) == DecisionAt[k]

(* reveal_outcome refuses a decision that is not complete.                 *)
Revealable(k, now) == DecisionAt[k] <= now

(* advance_to refuses to go backwards.                                     *)
Advances(k, now) == now <= OutcomeAt[k]

(* _score: of the row of a scenario the model keeps its timing.            *)
WithRow(rows, k, now) == [j \in DOMAIN rows \cup {k} |-> IF j = k THEN now ELSE rows[j]]

(* One scenario that the store does not have: the strategy decides, its    *)
(* outcome is revealed, the row is scored and the clock moves on.          *)
Score(e) ==
  /\ at[e] = "scoring" /\ Missing(e) # {}
  /\ LET k   == CHOOSE k \in Missing(e) : \A j \in Missing(e) : k <= j
         now == Cutoff(e, k)
     IN IF Revealable(k, now) /\ Advances(k, now)
        THEN /\ store' = [store EXCEPT ![e] = WithRow(@, k, now)]
             /\ clock' = [clock EXCEPT ![e] = OutcomeAt[k]]
             /\ Goes(e, "opening")
        ELSE Goes(e, "raised") /\ UNCHANGED <<store, clock>>
  /\ UNCHANGED <<file, target, mixed, overlapped, deaths>>

(* write_text opens a file: what it held is gone.                          *)
Opens(e, n) ==
  LET others == {d \in Evaluator : target[d] = n} IN
    /\ file' = [file EXCEPT ![n] = Torn]
    /\ target' = [target EXCEPT ![e] = n]
    /\ mixed' = mixed \cup others \cup (IF others # {} THEN {e} ELSE {})

(* The end of a write: its text, or a mixture with that of another writer. *)
Writes(e) ==
  /\ IF target[e] = "gone" THEN UNCHANGED file
     ELSE \E text \in {store[e]} \cup IF e \in mixed THEN {Torn} ELSE {} :
            file' = [file EXCEPT ![target[e]] = text]
  /\ target' = [target EXCEPT ![e] = "none"]
  /\ mixed' = mixed \ {e}

(* Defect: the checkpoint is written in place.                             *)
InPlace == "checkpoint"

Temporary == "tmp"

(* Defect: a temporary file that is there already is not written over.     *)
MayOpenOnlyNew == file["tmp"] = NoFile

MayOpen == TRUE

(* CheckpointStore.put: open the temporary file, write it, replace.        *)
OpenTemporary(e) ==
  /\ at[e] = "opening"
  /\ IF MayOpen THEN Opens(e, Temporary) /\ Goes(e, "writing")
     ELSE Goes(e, "raised") /\ UNCHANGED <<file, target, mixed>>
  /\ UNCHANGED <<store, clock, overlapped, deaths>>

WriteTemporary(e) ==
  /\ at[e] = "writing"
  /\ Writes(e) /\ Goes(e, "replacing")
  /\ UNCHANGED <<store, clock, overlapped, deaths>>

(* The name moves, and with it what others write to; a temporary file that *)
(* another evaluator moved is missing.                                     *)
Moved(n) == CASE n = "tmp" -> "checkpoint" [] n = "checkpoint" -> "gone" [] OTHER -> n

Replace(e) ==
  /\ at[e] = "replacing"
  /\ IF file["tmp"] = NoFile
     THEN Goes(e, "raised") /\ UNCHANGED <<file, target>>
     ELSE /\ file' = [file EXCEPT !["checkpoint"] = file["tmp"], !["tmp"] = NoFile]
          /\ target' = [d \in Evaluator |-> Moved(target[d])]
          /\ Goes(e, "scoring")
  /\ UNCHANGED <<store, clock, mixed, overlapped, deaths>>

(* Every scenario is there: report.json in place, then report.md.          *)
OpenReport(e) ==
  /\ at[e] = "scoring" /\ Missing(e) = {}
  /\ Opens(e, "report") /\ Goes(e, "reporting")
  /\ UNCHANGED <<store, clock, overlapped, deaths>>

WriteReport(e) ==
  /\ at[e] = "reporting"
  /\ Writes(e) /\ Goes(e, "printing")
  /\ UNCHANGED <<store, clock, overlapped, deaths>>

PrintReport(e) ==
  /\ at[e] = "printing"
  /\ file' = [file EXCEPT !["markdown"] = store[e]]
  /\ Goes(e, "returned")
  /\ UNCHANGED <<store, clock, target, mixed, overlapped, deaths>>

(* The process ends anywhere; what it had opened stays as it is.           *)
Die(e) ==
  /\ e \in Busy /\ deaths < MaxDeaths
  /\ deaths' = deaths + 1
  /\ Goes(e, "idle") /\ target' = [target EXCEPT ![e] = "none"] /\ mixed' = mixed \ {e}
  /\ UNCHANGED <<file, store, clock, overlapped>>

Evaluate(e) ==
  \/ Load(e) \/ Score(e) \/ OpenTemporary(e) \/ WriteTemporary(e) \/ Replace(e)
  \/ OpenReport(e) \/ WriteReport(e) \/ PrintReport(e)

EvalNext == \E e \in Evaluator : Begin(e) \/ Evaluate(e) \/ Die(e)

Next ==
  \/ EvalNext /\ UNCHANGED labVars
  \/ LabNext /\ UNCHANGED evalVars

Spec == Init /\ [][Next]_vars

(* An evaluator works on until it dies, and the evaluation is asked for    *)
(* again: the code retries nothing by itself.                              *)
FairSpec ==
  Spec /\ \A e \in Evaluator : WF_vars(Evaluate(e) /\ UNCHANGED labVars)
                               /\ WF_vars(Begin(e) /\ UNCHANGED labVars)

-----------------------------------------------------------------------------
(* Properties                                                              *)

TypeOK ==
  /\ LabTypeOK
  /\ \A n \in Name : file[n] \in File
  /\ at \in [Evaluator -> Working \cup {"idle", "returned", "raised"}]
  /\ \A e \in Evaluator : store[e] \in Rows
  /\ clock \in [Evaluator -> Time]
  /\ target \in [Evaluator -> {"none", "tmp", "checkpoint", "report", "gone"}]
  /\ mixed \subseteq Evaluator
  /\ overlapped \in BOOLEAN /\ deaths \in 0..MaxDeaths

(* A report has a row of every scenario, whichever evaluators, dead and     *)
(* alive, have scored it, and each row was decided at the cutoff of its    *)
(* own scenario, also after the outcomes of later ones were revealed: no   *)
(* look-ahead through the one clock that all scenarios share.              *)
ReportIsRight ==
  Whole("report") => \A k \in Key :
    k \in DOMAIN file["report"] /\ file["report"][k] = DecisionAt[k]

(* The checkpoint is "Atomic" (CheckpointStore): a death leaves it whole.  *)
(* Two evaluators of one run id can tear it, because they share its        *)
(* temporary file. The report is not: a death in its write tears it.       *)
TornNeedsReason ==
  /\ file["checkpoint"] = Torn => overlapped
  /\ file["report"] = Torn => overlapped \/ deaths > 0 \/ \E e \in Busy : target[e] = "report"

(* No death loses the rows that a checkpoint holds, unless evaluators      *)
(* overlapped: one that loaded early writes back what it knew.             *)
ProgressIsKept ==
  [][Whole("checkpoint") /\ ~overlapped' =>
       /\ Whole("checkpoint")'
       /\ DOMAIN file["checkpoint"] \subseteq DOMAIN file'["checkpoint"]]_vars

(* A whole report is the answer for ever, unless evaluators overlapped.    *)
ReportIsFinal ==
  [][Whole("report") /\ ~overlapped' => file'["report"] = file["report"]]_vars

(* Asked again and again, the evaluation of a run id comes to a report,    *)
(* unless from some moment on a torn file stops every later attempt:       *)
(* nothing repairs one. While a file is being written is no such moment.   *)
Stuck == Torn \in {file["checkpoint"], file["report"]}
EvaluationSucceeds == <>Whole("report") \/ <>[]Stuck

(* The reveal of an outcome is idempotent: however many clients ask, one   *)
(* UPDATE sets revealed_at, and it is that of a persisted decision.        *)
RevealedOnce ==
  \A r \in Replay : reveals[r] = IF session[r] = "outcome_revealed" THEN 1 ELSE 0
=============================================================================
