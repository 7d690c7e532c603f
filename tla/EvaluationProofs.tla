-------------------------- MODULE EvaluationProofs --------------------------
(***************************************************************************)
(* The evaluation of one run id and the replay lab, for any evaluators,    *)
(* clients, scenarios and deaths.                                          *)
(***************************************************************************)
EXTENDS Evaluation, WellFoundedInduction, TLAPS

-----------------------------------------------------------------------------
(* The inductive invariant                                                 *)

Right(rows) == \A k \in DOMAIN rows : rows[k] = DecisionAt[k]

(* Every row that any file or store holds was decided at its own cutoff,   *)
(* and a report that is whole has them all.                                *)
RowsInv ==
  /\ \A e \in Evaluator : Right(store[e])
  /\ \A n \in Name : Whole(n) => Right(file[n])
  /\ Whole("report") => DOMAIN file["report"] = Key

(* Only the two writes have an open file; a report is opened by one who    *)
(* has every row.                                                          *)
PlaceInv ==
  \A e \in Evaluator :
    /\ at[e] = "writing" => target[e] \in {"tmp", "checkpoint", "gone"}
    /\ at[e] = "reporting" => target[e] = "report" /\ DOMAIN store[e] = Key
    /\ at[e] \notin {"writing", "reporting"} => target[e] = "none" /\ e \notin mixed

(* As long as no two overlapped, the one at work finds the files as it     *)
(* left them: nothing it wrote is torn, the checkpoint holds no row that   *)
(* it does not have, and a report is there only from its opening on.       *)
Alone(e) ==
  /\ at[e] = "writing" => target[e] = "tmp"
  /\ at[e] = "replacing" => file["tmp"] = store[e]
  /\ at[e] \in {"scoring", "opening", "writing", "replacing"} /\ Whole("checkpoint") =>
       DOMAIN file["checkpoint"] \subseteq DOMAIN store[e]
  /\ file["report"] # NoFile => at[e] \in {"reporting", "printing"}
  /\ at[e] = "reporting" => file["report"] = Torn

SoleInv ==
  ~overlapped => /\ mixed = {} /\ file["checkpoint"] # Torn
                 /\ \A d, e \in Busy : d = e
                 /\ \A e \in Busy : Alone(e)

TornInv ==
  file["report"] = Torn => overlapped \/ deaths > 0 \/ \E e \in Busy : target[e] = "report"

IInv ==
  /\ TypeOK /\ file \in [Name -> File] /\ store \in [Evaluator -> Rows]
  /\ RowsInv /\ PlaceInv /\ SoleInv /\ TornInv /\ RevealedOnce

-----------------------------------------------------------------------------
(* Rows and scenarios                                                      *)

(* A set of natural numbers has a smallest member.                         *)
LEMMA SmallestNumber ==
  ASSUME NEW B, B \subseteq Nat, B # {}
  PROVE  \E n \in B : \A m \in B : n <= m
<1>1. \E n \in B : \A m \in B : ~ (<<m, n>> \in OpToRel(<, Nat))
  BY NatLessThanWellFounded, WFMin
<1>2. PICK n \in B : \A m \in B : ~ (<<m, n>> \in {ss \in Nat \X Nat : ss[1] < ss[2]})
  BY <1>1 DEF OpToRel
<1>3. ASSUME NEW m \in B, m < n
      PROVE  FALSE
  <2>1. <<m, n>> \in Nat \X Nat /\ <<m, n>>[1] < <<m, n>>[2]
    BY <1>3
  <2> QED
    BY <1>2, <2>1
<1>4. \A m \in B : n <= m
  BY <1>3
<1> QED
  BY <1>4

(* The scenarios are numbered, and there is a first one.                   *)
LEMMA Scenarios ==
  /\ Key \subseteq Nat /\ 1 \in Key /\ DecisionAt[1] \in Time
  /\ \A k \in Key : DecisionAt[k] \in Time /\ OutcomeAt[k] \in Time
  /\ NoFile \notin Rows /\ Torn \notin Rows /\ NoFile # Torn /\ MaxDeaths \in Nat
<1>1. Key = 1..Len(DecisionAt) /\ Len(DecisionAt) \in Nat /\ Len(DecisionAt) # 0
  BY EvaluationAssumption DEF EvaluationAssumption, Key
<1>2. Key \subseteq Nat /\ 1 \in Key
  BY <1>1
<1>3. \A k \in Key : DecisionAt[k] \in Time /\ OutcomeAt[k] \in Time
  BY DEF Time
<1> QED
  BY <1>2, <1>3, EvaluationAssumption DEF EvaluationAssumption

(* The first scenario that is missing.                                     *)
LEMMA FirstMissing ==
  ASSUME NEW e \in Evaluator, Missing(e) # {}
  PROVE  (CHOOSE k \in Missing(e) : \A j \in Missing(e) : k <= j) \in Missing(e)
<1>1. Missing(e) \subseteq Nat
  BY Scenarios DEF Missing
<1> QED
  BY <1>1, SmallestNumber

(* Rows are no missing or torn file, and those of scenarios only.          *)
LEMMA RowsAre == \A r \in Rows : r # NoFile /\ r # Torn /\ r \in File /\ DOMAIN r \subseteq Key
BY Scenarios DEF Rows, File

(* The empty store is one of rows.                                         *)
LEMMA NoRowsAre == NoRows \in Rows /\ Right(NoRows) /\ DOMAIN NoRows = {}
<1>1. NoRows \in [{} -> {DecisionAt[k] : k \in Key}]
  BY DEF NoRows
<1> QED
  BY <1>1 DEF Rows, Right, NoRows

(* A scored scenario adds its row.                                         *)
LEMMA WithRowIs ==
  \A rows \in Rows, k \in Key :
    Right(rows) => LET r == WithRow(rows, k, DecisionAt[k]) IN
                     r \in Rows /\ Right(r) /\ DOMAIN r = DOMAIN rows \cup {k}
<1> SUFFICES ASSUME NEW rows \in Rows, NEW k \in Key, Right(rows)
             PROVE  LET r == WithRow(rows, k, DecisionAt[k]) IN
                      r \in Rows /\ Right(r) /\ DOMAIN r = DOMAIN rows \cup {k}
  OBVIOUS
<1> DEFINE r == WithRow(rows, k, DecisionAt[k])
           D == DOMAIN rows \cup {k}
<1>1. D \subseteq Key
  BY RowsAre
<1>2. r = [j \in D |-> IF j = k THEN DecisionAt[k] ELSE rows[j]]
  BY DEF WithRow
<1>3. \A j \in D : r[j] = DecisionAt[j]
  BY <1>2 DEF Right
<1>4. r \in [D -> {DecisionAt[j] : j \in Key}]
  BY <1>1, <1>2, <1>3
<1>5. r \in Rows
  BY <1>1, <1>4 DEF Rows
<1> QED
  BY <1>2, <1>3, <1>5 DEF Right

(* A whole file has rows.                                                  *)
LEMMA WholeIs ==
  ASSUME IInv
  PROVE  \A n \in Name : Whole(n) => file[n] \in Rows /\ Right(file[n])
BY DEF IInv, Whole, File, RowsInv

-----------------------------------------------------------------------------
(* The replay lab                                                          *)

(* A step of the evaluators leaves the lab as it is.                       *)
LEMMA LabStays ==
  ASSUME IInv, UNCHANGED labVars
  PROVE  LabTypeOK' /\ RevealedOnce'
BY DEF IInv, TypeOK, LabTypeOK, RevealedOnce, labVars

(* A step of the lab: only the UPDATE that finds a decision counts one.    *)
LEMMA LabKeeps ==
  ASSUME LabTypeOK, RevealedOnce, LabNext
  PROVE  LabTypeOK' /\ RevealedOnce'
<1> USE DEF LabTypeOK
<1>1. PICK c \in Client : Create(c) \/ Reveal(c) \/ LabStep(c)
  BY DEF LabNext
<1>2. asking[c] \in [at : Step, of : Replay, got : Answers]
  OBVIOUS
<1>3. \A step \in Step, r \in Replay :
        Asks(c, step, r) => asking' \in [Client -> [at : Step, of : Replay, got : Answers]]
  BY DEF Asks, Answers
<1>4. \A got \in Answers :
        Gets(c, got) => asking' \in [Client -> [at : Step, of : Replay, got : Answers]]
  <2> SUFFICES ASSUME NEW got \in Answers, Gets(c, got)
               PROVE  asking' \in [Client -> [at : Step, of : Replay, got : Answers]]
    OBVIOUS
  <2>1. PICK a : a = [[asking[c] EXCEPT !.at = "idle"] EXCEPT !.got = got]
    OBVIOUS
  <2>2. a \in [at : Step, of : Replay, got : Answers]
    BY <1>2, <2>1 DEF Step
  <2>3. asking' = [asking EXCEPT ![c] = a]
    BY <1>2, <2>1 DEF Gets
  <2> QED
    BY <2>2, <2>3
<1>5. CASE Create(c)
  <2>1. UNCHANGED <<session, reveals>>
    BY <1>5 DEF Create
  <2>2. PICK r \in Replay : Asks(c, IF session[r] = "absent" THEN "inserting" ELSE "reading", r)
    BY <1>5 DEF Create
  <2> QED
    BY <1>3, <2>1, <2>2 DEF Step, RevealedOnce
<1>6. CASE Reveal(c)
  <2>1. UNCHANGED <<session, reveals>>
    BY <1>6 DEF Reveal
  <2>2. PICK r \in Replay : Asks(c, "reading", r) \/ Asks(c, "updating", r)
    BY <1>6 DEF Reveal
  <2> QED
    BY <1>3, <2>1, <2>2 DEF Step, RevealedOnce
<1>7. CASE InsertReplay(c)
  <2>1. PICK r \in Replay : r = asking[c].of
    BY <1>2
  <2>2. UNCHANGED reveals /\ (Gets(c, "decision") \/ Gets(c, "conflict"))
        /\ \/ UNCHANGED session
           \/ session[r] = "absent" /\ session' = [session EXCEPT ![r] = "decision_complete"]
    BY <1>7, <2>1 DEF InsertReplay
  <2> QED
    BY <1>4, <2>2 DEF Answers, RevealedOnce
<1>8. CASE ReadReplay(c)
  <2>1. Shown(asking[c].of) \in Answers
    BY <1>2 DEF Shown, Answers
  <2> QED
    BY <1>4, <1>8, <2>1 DEF ReadReplay, RevealedOnce
<1>9. CASE UpdateReplay(c)
  <2>1. PICK r \in Replay : r = asking[c].of
    BY <1>2
  <2>2. /\ session' = [session EXCEPT ![r] = IF MayUpdate(r) THEN "outcome_revealed" ELSE @]
        /\ reveals' = [reveals EXCEPT ![r] = IF MayUpdate(r) THEN @ + 1 ELSE @]
        /\ Asks(c, "rereading", r)
    BY <1>9, <2>1 DEF UpdateReplay
  <2>3. CASE session[r] = "decision_complete"
    BY <1>3, <2>2, <2>3 DEF MayUpdate, Step, RevealedOnce
  <2>4. CASE session[r] # "decision_complete"
    <3>1. session' = session /\ reveals' = reveals
      BY <2>2, <2>4 DEF MayUpdate
    <3> QED
      BY <1>3, <2>2, <3>1 DEF Step, RevealedOnce
  <2> QED
    BY <2>3, <2>4
<1> QED
  BY <1>1, <1>5, <1>6, <1>7, <1>8, <1>9 DEF LabStep

-----------------------------------------------------------------------------
(* The evaluators                                                          *)

Places == Working \cup {"idle", "returned", "raised"}

(* An evaluator moves, the others stay.                                    *)
LEMMA Moves ==
  ASSUME IInv, NEW e \in Evaluator, NEW place \in Places, Goes(e, place)
  PROVE  /\ at'[e] = place /\ \A d \in Evaluator : d # e => at'[d] = at[d]
         /\ at' \in [Evaluator -> Places] /\ at[e] \in Places
         /\ place \in Working => Busy' = Busy \cup {e}
         /\ place \notin Working => Busy' = Busy \ {e}
<1>1. /\ at'[e] = place /\ \A d \in Evaluator : d # e => at'[d] = at[d]
      /\ at' \in [Evaluator -> Places] /\ at[e] \in Places
  BY DEF IInv, TypeOK, Goes, Places
<1> QED
  BY <1>1 DEF Busy

(* One at work that never overlapped is the only one.                      *)
LEMMA Sole ==
  ASSUME IInv, NEW e \in Busy, ~overlapped
  PROVE  /\ Alone(e) /\ Busy = {e} /\ mixed = {} /\ file["checkpoint"] # Torn
         /\ \A d \in Evaluator : d # e => target[d] = "none"
<1>1. Alone(e) /\ Busy = {e} /\ mixed = {} /\ file["checkpoint"] # Torn
  BY DEF IInv, SoleInv
<1>2. \A d \in Evaluator : d # e => at[d] \notin {"writing", "reporting"}
  BY <1>1 DEF Busy, Working
<1> QED
  BY <1>1, <1>2 DEF IInv, PlaceInv

(* After its step it is enough that it still works alone.                  *)
LEMMA StaysSole ==
  ASSUME IInv, NEW e \in Busy, NEW place \in Places, Goes(e, place), overlapped' = overlapped,
         ~overlapped => /\ mixed' = {} /\ file'["checkpoint"] # Torn
                        /\ place \in Working => Alone(e)'
  PROVE  SoleInv'
<1> SUFFICES ASSUME ~overlapped PROVE /\ mixed' = {} /\ file'["checkpoint"] # Torn
                                      /\ \A c, d \in Busy' : c = d
                                      /\ \A d \in Busy' : Alone(d)'
  BY DEF SoleInv
<1>1. Busy = {e} /\ e \in Evaluator
  BY Sole DEF Busy
<1>2. IF place \in Working THEN Busy' = {e} ELSE Busy' = {}
  BY <1>1, Moves
<1> QED
  BY <1>2

(* An evaluation begins only where no report is.                           *)
LEMMA BeginKeeps ==
  ASSUME IInv, NEW e \in Evaluator, Begin(e), UNCHANGED labVars
  PROVE  IInv'
<1>1. PICK place \in {"loading", "returned", "raised"} : Goes(e, place)
  BY DEF Begin
<1>2. place \in Places
  BY DEF Places, Working
<1>3. /\ UNCHANGED <<file, store, clock, target, mixed, deaths>>
      /\ at[e] \in {"idle", "returned", "raised"}
  BY DEF Begin
<1>4. /\ at'[e] = place /\ \A d \in Evaluator : d # e => at'[d] = at[d]
      /\ at' \in [Evaluator -> Places]
      /\ place \in Working => Busy' = Busy \cup {e}
      /\ place \notin Working => Busy' = Busy \ {e}
  BY <1>1, <1>2, Moves
<1>5. e \notin Busy
  BY <1>3 DEF Busy, Working
<1>6. /\ place = "loading" => /\ file["report"] = NoFile
                              /\ overlapped' = (overlapped \/ Busy # {})
      /\ place # "loading" => overlapped' = overlapped
  BY <1>1, <1>4 DEF Begin, Goes, Reported, IInv, TypeOK
<1>7. TypeOK' /\ file' \in [Name -> File] /\ store' \in [Evaluator -> Rows] /\ RevealedOnce'
  BY <1>3, <1>4, <1>6, LabStays DEF IInv, TypeOK, Places
<1>8. RowsInv'
  BY <1>3 DEF IInv, RowsInv, Whole
<1>9. PlaceInv'
  BY <1>3, <1>4 DEF IInv, PlaceInv
<1>10. SoleInv'
  <2> SUFFICES ASSUME ~overlapped' PROVE /\ mixed = {} /\ file["checkpoint"] # Torn
                                         /\ \A c, d \in Busy' : c = d
                                         /\ \A d \in Busy' : Alone(d)'
    BY <1>3 DEF SoleInv
  <2>1. ~overlapped /\ mixed = {} /\ file["checkpoint"] # Torn
    BY <1>6 DEF IInv, SoleInv, TypeOK
  <2>2. CASE place = "loading"
    <3>1. Busy' = {e}
      BY <1>4, <1>6, <2>2 DEF Working
    <3> QED
      BY <1>3, <1>4, <1>6, <2>1, <2>2, <3>1 DEF Alone
  <2>3. CASE place # "loading"
    <3>1. Busy' = Busy
      BY <1>1, <1>4, <1>5, <2>3 DEF Working
    <3>2. \A d \in Busy : d \in Evaluator /\ d # e
      BY <1>5 DEF Busy
    <3>3. \A d \in Busy : Alone(d)' = Alone(d)
      BY <1>3, <1>4, <3>2 DEF Alone, Whole
    <3> QED
      BY <2>1, <3>1, <3>3 DEF IInv, SoleInv
  <2> QED
    BY <2>2, <2>3
<1>11. TornInv'
  <2>1. \A d \in Busy : d \in Busy'
    BY <1>4, <1>5
  <2> QED
    BY <1>3, <1>6, <2>1 DEF IInv, TornInv, TypeOK
<1> QED
  BY <1>7, <1>8, <1>9, <1>10, <1>11 DEF IInv

(* It takes up the rows of the checkpoint.                                 *)
LEMMA LoadKeeps ==
  ASSUME IInv, NEW e \in Evaluator, Load(e), UNCHANGED labVars
  PROVE  IInv'
<1>1. PICK place \in {"scoring", "raised"} : Goes(e, place)
  BY DEF Load
<1>2. /\ UNCHANGED <<file, target, mixed, overlapped, deaths>> /\ at[e] = "loading"
      /\ place \in Places /\ e \in Busy
  BY DEF Load, Places, Working, Busy
<1>3. /\ at'[e] = place /\ \A d \in Evaluator : d # e => at'[d] = at[d]
      /\ at' \in [Evaluator -> Places]
      /\ place \in Working => Busy' = Busy \cup {e}
      /\ place \notin Working => Busy' = Busy \ {e}
  BY <1>1, <1>2, Moves
<1>4. Loaded \in Rows /\ Right(Loaded)
  BY WholeIs, NoRowsAre DEF Loaded, Name
<1>5. /\ store' \in [Evaluator -> Rows] /\ clock' \in [Evaluator -> Time]
      /\ \A d \in Evaluator : store'[d] = store[d] \/ (d = e /\ store'[d] = Loaded)
  BY <1>4, Scenarios DEF Load, IInv, TypeOK
<1>6. place = "scoring" => store'[e] = Loaded
  BY <1>1, <1>3 DEF Load, IInv, Goes, TypeOK
<1>7. TypeOK' /\ file' \in [Name -> File] /\ RevealedOnce'
  BY <1>2, <1>3, <1>5, LabStays DEF IInv, TypeOK, Places
<1>8. RowsInv'
  BY <1>2, <1>4, <1>5 DEF IInv, RowsInv, Whole
<1>9. PlaceInv'
  <2>1. \A d \in Evaluator : d # e => store'[d] = store[d]
    BY <1>5
  <2> QED
    BY <1>2, <1>3, <2>1 DEF IInv, PlaceInv
<1>10. SoleInv'
  <2>1. ASSUME ~overlapped
        PROVE  /\ mixed' = {} /\ file'["checkpoint"] # Torn
               /\ place \in Working => Alone(e)'
    <3>1. Alone(e) /\ mixed = {} /\ file["checkpoint"] # Torn
      BY <1>2, <2>1, Sole
    <3>2. place = "scoring" => Alone(e)'
      BY <1>2, <1>3, <1>6, <3>1 DEF Alone, Whole, Loaded
    <3> QED
      BY <1>2, <3>1, <3>2 DEF Working
  <2> QED
    BY <1>1, <1>2, <2>1, StaysSole
<1>11. TornInv'
  <2>1. \A d \in Busy : target[d] = "report" => d # e
    BY <1>2 DEF IInv, PlaceInv
  <2>2. \A d \in Busy : d # e => d \in Busy'
    BY <1>3
  <2> QED
    BY <1>2, <2>1, <2>2 DEF IInv, TornInv
<1> QED
  BY <1>5, <1>7, <1>8, <1>9, <1>10, <1>11 DEF IInv

(* A scenario is decided at its own cutoff.                                *)
LEMMA ScoreKeeps ==
  ASSUME IInv, NEW e \in Evaluator, Score(e), UNCHANGED labVars
  PROVE  IInv'
<1>1. PICK place \in {"opening", "raised"} : Goes(e, place)
  BY DEF Score
<1>2. /\ UNCHANGED <<file, target, mixed, overlapped, deaths>> /\ at[e] = "scoring"
      /\ Missing(e) # {} /\ place \in Places /\ e \in Busy
  BY DEF Score, Places, Working, Busy
<1>3. /\ at'[e] = place /\ \A d \in Evaluator : d # e => at'[d] = at[d]
      /\ at' \in [Evaluator -> Places]
      /\ place \in Working => Busy' = Busy \cup {e}
      /\ place \notin Working => Busy' = Busy \ {e}
  BY <1>1, <1>2, Moves
<1>4. PICK k : k = CHOOSE i \in Missing(e) : \A j \in Missing(e) : i <= j
  OBVIOUS
<1>5. k \in Key
  BY <1>2, <1>4, FirstMissing DEF Missing
<1>6. PICK r : r = WithRow(store[e], k, DecisionAt[k])
  OBVIOUS
<1>7. r \in Rows /\ Right(r) /\ DOMAIN r = DOMAIN store[e] \cup {k}
  BY <1>5, <1>6, WithRowIs DEF IInv, RowsInv
<1>8. \/ /\ store' = [store EXCEPT ![e] = r] /\ clock' = [clock EXCEPT ![e] = OutcomeAt[k]]
         /\ Goes(e, "opening")
      \/ Goes(e, "raised") /\ UNCHANGED <<store, clock>>
  BY <1>4, <1>6 DEF Score, Cutoff, IInv
<1>9. /\ store' \in [Evaluator -> Rows] /\ clock' \in [Evaluator -> Time]
      /\ \A d \in Evaluator : d # e => store'[d] = store[d]
      /\ store'[e] \in {store[e], r}
  BY <1>5, <1>7, <1>8, Scenarios DEF IInv, TypeOK
<1>10. TypeOK' /\ file' \in [Name -> File] /\ RevealedOnce'
  BY <1>2, <1>3, <1>9, LabStays DEF IInv, TypeOK, Places
<1>11. RowsInv'
  BY <1>2, <1>7, <1>9 DEF IInv, RowsInv, Whole
<1>12. PlaceInv'
  BY <1>2, <1>3, <1>9 DEF IInv, PlaceInv
<1>13. SoleInv'
  <2>1. ASSUME ~overlapped
        PROVE  /\ mixed' = {} /\ file'["checkpoint"] # Torn
               /\ place \in Working => Alone(e)'
    <3>1. Alone(e) /\ mixed = {} /\ file["checkpoint"] # Torn
      BY <1>2, <2>1, Sole
    <3>2. DOMAIN store[e] \subseteq DOMAIN store'[e]
      BY <1>7, <1>9
    <3>3. place = "opening" => Alone(e)'
      BY <1>2, <1>3, <3>1, <3>2 DEF Alone, Whole
    <3> QED
      BY <1>2, <3>1, <3>3 DEF Working
  <2> QED
    BY <1>1, <1>2, <2>1, StaysSole
<1>14. TornInv'
  <2>1. \A d \in Busy : target[d] = "report" => d # e
    BY <1>2 DEF IInv, PlaceInv
  <2>2. \A d \in Busy : d # e => d \in Busy'
    BY <1>3
  <2> QED
    BY <1>2, <2>1, <2>2 DEF IInv, TornInv
<1> QED
  BY <1>9, <1>10, <1>11, <1>12, <1>13, <1>14 DEF IInv

Target == {"none", "tmp", "checkpoint", "report", "gone"}

(* A file that is opened is torn, and mixes with those who have it open.   *)
LEMMA OpensIs ==
  ASSUME IInv, NEW e \in Evaluator, NEW n \in {"tmp", "report"}, Opens(e, n), target[e] = "none"
  PROVE  /\ file' \in [Name -> File] /\ file'[n] = Torn
         /\ \A m \in Name : m # n => file'[m] = file[m]
         /\ target' \in [Evaluator -> Target] /\ target'[e] = n
         /\ \A d \in Evaluator : d # e => target'[d] = target[d]
         /\ mixed' \subseteq Evaluator
         /\ \A d \in mixed' : d = e \/ d \in mixed \/ target[d] # "none"
         /\ (\A d \in Evaluator : target[d] = "none") => mixed' = mixed
<1>1. file' = [file EXCEPT ![n] = Torn] /\ target' = [target EXCEPT ![e] = n]
  BY DEF Opens
<1>2. /\ file' \in [Name -> File] /\ file'[n] = Torn
      /\ \A m \in Name : m # n => file'[m] = file[m]
  BY <1>1 DEF IInv, Name, File
<1>3. /\ target' \in [Evaluator -> Target] /\ target'[e] = n
      /\ \A d \in Evaluator : d # e => target'[d] = target[d]
  BY <1>1 DEF IInv, TypeOK, Target
<1> DEFINE others == {d \in Evaluator : target[d] = n}
<1>4. mixed' = mixed \cup others \cup (IF others # {} THEN {e} ELSE {})
  BY DEF Opens
<1>5. /\ mixed' \subseteq Evaluator
      /\ \A d \in mixed' : d = e \/ d \in mixed \/ target[d] # "none"
      /\ (\A d \in Evaluator : target[d] = "none") => mixed' = mixed
  BY <1>4 DEF IInv, TypeOK
<1> QED
  BY <1>2, <1>3, <1>5

(* A write puts the rows of the writer, or a mixture, where it points to.  *)
LEMMA WritesIs ==
  ASSUME IInv, NEW e \in Evaluator, Writes(e), target[e] \in {"tmp", "checkpoint", "report", "gone"}
  PROVE  /\ file' \in [Name -> File]
         /\ \A m \in Name : m # target[e] => file'[m] = file[m]
         /\ target[e] # "gone" => /\ file'[target[e]] = store[e] \/ file'[target[e]] = Torn
                                  /\ e \notin mixed => file'[target[e]] = store[e]
         /\ target' \in [Evaluator -> Target] /\ target'[e] = "none"
         /\ \A d \in Evaluator : d # e => target'[d] = target[d]
         /\ mixed' \subseteq Evaluator /\ mixed' = mixed \ {e}
<1>1. mixed' = mixed \ {e} /\ target' = [target EXCEPT ![e] = "none"]
  BY DEF Writes
<1>2. /\ target' \in [Evaluator -> Target] /\ target'[e] = "none"
      /\ \A d \in Evaluator : d # e => target'[d] = target[d]
      /\ mixed' \subseteq Evaluator
  BY <1>1 DEF IInv, TypeOK, Target
<1>3. CASE target[e] = "gone"
  BY <1>1, <1>2, <1>3 DEF Writes, IInv
<1>4. CASE target[e] # "gone"
  <2>1. PICK text \in {store[e]} \cup IF e \in mixed THEN {Torn} ELSE {} :
          file' = [file EXCEPT ![target[e]] = text]
    BY <1>4 DEF Writes
  <2>2. text \in File /\ target[e] \in Name
    BY <1>4, <2>1, RowsAre DEF IInv, File, Name
  <2> QED
    BY <1>1, <1>2, <1>4, <2>1, <2>2 DEF IInv
<1> QED
  BY <1>3, <1>4

(* The temporary file is opened.                                           *)
LEMMA OpenTemporaryKeeps ==
  ASSUME IInv, NEW e \in Evaluator, OpenTemporary(e), UNCHANGED labVars
  PROVE  IInv'
<1>1. /\ UNCHANGED <<store, clock, overlapped, deaths>> /\ at[e] = "opening" /\ e \in Busy
      /\ "writing" \in Places /\ Goes(e, "writing") /\ Opens(e, "tmp") /\ target[e] = "none"
  BY DEF OpenTemporary, MayOpen, Temporary, Places, Working, Busy, IInv, PlaceInv
<1>2. /\ at'[e] = "writing" /\ \A d \in Evaluator : d # e => at'[d] = at[d]
      /\ at' \in [Evaluator -> Places] /\ Busy' = Busy
  BY <1>1, Moves DEF Working
<1>3. /\ file' \in [Name -> File] /\ file'["tmp"] = Torn
      /\ \A m \in Name : m # "tmp" => file'[m] = file[m]
      /\ target' \in [Evaluator -> Target] /\ target'[e] = "tmp"
      /\ \A d \in Evaluator : d # e => target'[d] = target[d]
      /\ mixed' \subseteq Evaluator
      /\ \A d \in mixed' : d = e \/ d \in mixed \/ target[d] # "none"
      /\ (\A d \in Evaluator : target[d] = "none") => mixed' = mixed
  BY <1>1, OpensIs
<1>4. TypeOK' /\ store' \in [Evaluator -> Rows] /\ RevealedOnce'
  BY <1>1, <1>2, <1>3, LabStays DEF IInv, TypeOK, Places, Target
<1>5. RowsInv'
  BY <1>1, <1>3 DEF IInv, RowsInv, Whole, Name
<1>6. PlaceInv'
  BY <1>1, <1>2, <1>3 DEF IInv, PlaceInv
<1>7. SoleInv'
  <2>1. ASSUME ~overlapped
        PROVE  mixed' = {} /\ file'["checkpoint"] # Torn /\ Alone(e)'
    <3>1. /\ Alone(e) /\ mixed = {} /\ file["checkpoint"] # Torn
          /\ \A d \in Evaluator : target[d] = "none"
      BY <1>1, <2>1, Sole
    <3>2. Alone(e)'
      BY <1>1, <1>2, <1>3, <3>1 DEF Alone, Whole, Name
    <3> QED
      BY <1>3, <3>1, <3>2 DEF Name
  <2> QED
    BY <1>1, <2>1, StaysSole
<1>8. TornInv'
  BY <1>1, <1>2, <1>3 DEF IInv, TornInv, Busy, Name
<1> QED
  BY <1>3, <1>4, <1>5, <1>6, <1>7, <1>8 DEF IInv

(* It is written, or the checkpoint it has become, or nothing.             *)
LEMMA WriteTemporaryKeeps ==
  ASSUME IInv, NEW e \in Evaluator, WriteTemporary(e), UNCHANGED labVars
  PROVE  IInv'
<1>1. /\ UNCHANGED <<store, clock, overlapped, deaths>> /\ at[e] = "writing" /\ e \in Busy
      /\ "replacing" \in Places /\ Goes(e, "replacing") /\ Writes(e)
      /\ target[e] \in {"tmp", "checkpoint", "gone"}
  BY DEF WriteTemporary, Places, Working, Busy, IInv, PlaceInv
<1>2. /\ at'[e] = "replacing" /\ \A d \in Evaluator : d # e => at'[d] = at[d]
      /\ at' \in [Evaluator -> Places] /\ Busy' = Busy
  BY <1>1, Moves DEF Working
<1>3. /\ file' \in [Name -> File]
      /\ \A m \in Name : m # target[e] => file'[m] = file[m]
      /\ target[e] # "gone" => /\ file'[target[e]] = store[e] \/ file'[target[e]] = Torn
                               /\ e \notin mixed => file'[target[e]] = store[e]
      /\ target' \in [Evaluator -> Target] /\ target'[e] = "none"
      /\ \A d \in Evaluator : d # e => target'[d] = target[d]
      /\ mixed' \subseteq Evaluator /\ mixed' = mixed \ {e}
  BY <1>1, WritesIs
<1>4. TypeOK' /\ store' \in [Evaluator -> Rows] /\ RevealedOnce'
  BY <1>1, <1>2, <1>3, LabStays DEF IInv, TypeOK, Places, Target
<1>5. RowsInv'
  BY <1>1, <1>3 DEF IInv, RowsInv, Whole, Name
<1>6. PlaceInv'
  BY <1>1, <1>2, <1>3 DEF IInv, PlaceInv
<1>7. SoleInv'
  <2>1. ASSUME ~overlapped
        PROVE  mixed' = {} /\ file'["checkpoint"] # Torn /\ Alone(e)'
    <3>1. /\ Alone(e) /\ mixed = {} /\ file["checkpoint"] # Torn /\ target[e] = "tmp"
      BY <1>1, <2>1, Sole DEF Alone
    <3>2. file'["tmp"] = store[e] /\ \A m \in Name : m # "tmp" => file'[m] = file[m]
      BY <1>3, <3>1
    <3>3. Alone(e)'
      BY <1>1, <1>2, <1>3, <3>1, <3>2 DEF Alone, Whole, Name
    <3> QED
      BY <1>3, <3>1, <3>2, <3>3 DEF Name
  <2> QED
    BY <1>1, <2>1, StaysSole
<1>8. TornInv'
  BY <1>1, <1>2, <1>3 DEF IInv, TornInv, Busy, Name
<1> QED
  BY <1>3, <1>4, <1>5, <1>6, <1>7, <1>8 DEF IInv

(* The temporary file becomes the checkpoint, or is missing.               *)
LEMMA ReplaceKeeps ==
  ASSUME IInv, NEW e \in Evaluator, Replace(e), UNCHANGED labVars
  PROVE  IInv'
<1>1. /\ UNCHANGED <<store, clock, mixed, overlapped, deaths>> /\ at[e] = "replacing" /\ e \in Busy
      /\ target[e] = "none" /\ e \notin mixed
  BY DEF Replace, Working, Busy, IInv, PlaceInv
<1>2. CASE file["tmp"] = NoFile
  <2>1. Goes(e, "raised") /\ UNCHANGED <<file, target>> /\ "raised" \in Places
    BY <1>2 DEF Replace, Places
  <2>2. /\ at'[e] = "raised" /\ \A d \in Evaluator : d # e => at'[d] = at[d]
        /\ at' \in [Evaluator -> Places] /\ Busy' = Busy \ {e}
    BY <2>1, Moves DEF Working
  <2>3. TypeOK' /\ file' \in [Name -> File] /\ store' \in [Evaluator -> Rows] /\ RevealedOnce'
    BY <1>1, <2>1, <2>2, LabStays DEF IInv, TypeOK, Places
  <2>4. RowsInv' /\ PlaceInv'
    BY <1>1, <2>1, <2>2 DEF IInv, RowsInv, PlaceInv, Whole
  <2>5. SoleInv'
    <3>1. ~overlapped => mixed = {} /\ file["checkpoint"] # Torn
      BY DEF IInv, SoleInv
    <3> QED
      BY <1>1, <2>1, <3>1, StaysSole DEF Working
  <2>6. TornInv'
    BY <1>1, <2>1, <2>2 DEF IInv, TornInv
  <2> QED
    BY <2>3, <2>4, <2>5, <2>6 DEF IInv
<1>3. CASE file["tmp"] # NoFile
  <2>1. /\ file' = [file EXCEPT !["checkpoint"] = file["tmp"], !["tmp"] = NoFile]
        /\ target' = [d \in Evaluator |-> Moved(target[d])]
        /\ Goes(e, "scoring") /\ "scoring" \in Places
    BY <1>3 DEF Replace, Places, Working
  <2>2. /\ at'[e] = "scoring" /\ \A d \in Evaluator : d # e => at'[d] = at[d]
        /\ at' \in [Evaluator -> Places] /\ Busy' = Busy
    BY <1>1, <2>1, Moves DEF Working
  <2>3. /\ file' \in [Name -> File] /\ file'["checkpoint"] = file["tmp"] /\ file'["tmp"] = NoFile
        /\ file'["report"] = file["report"] /\ file'["markdown"] = file["markdown"]
    BY <2>1 DEF IInv, Name, File
  <2>4. /\ target' \in [Evaluator -> Target]
        /\ \A d \in Evaluator : /\ target[d] = "none" => target'[d] = "none"
                                /\ target[d] = "report" => target'[d] = "report"
                                /\ target[d] \in {"tmp", "checkpoint", "gone"} =>
                                     target'[d] \in {"tmp", "checkpoint", "gone"}
    BY <2>1 DEF Moved, IInv, TypeOK, Target
  <2>5. TypeOK' /\ store' \in [Evaluator -> Rows] /\ RevealedOnce'
    BY <1>1, <2>2, <2>3, <2>4, LabStays DEF IInv, TypeOK, Places, Target
  <2>6. RowsInv'
    BY <1>1, <2>3, <2>5 DEF IInv, RowsInv, Whole, Name
  <2>7. PlaceInv'
    BY <1>1, <2>2, <2>4 DEF IInv, PlaceInv
  <2>8. SoleInv'
    <3>1. ASSUME ~overlapped
          PROVE  mixed' = {} /\ file'["checkpoint"] # Torn /\ Alone(e)'
      <4>1. /\ Alone(e) /\ mixed = {} /\ file["tmp"] = store[e]
        BY <1>1, <3>1, Sole DEF Alone
      <4>2. file["tmp"] # Torn
        BY <4>1, RowsAre DEF IInv
      <4>3. Alone(e)'
        BY <1>1, <2>2, <2>3, <4>1 DEF Alone, Whole
      <4> QED
        BY <1>1, <2>3, <4>1, <4>2, <4>3
    <3> QED
      BY <1>1, <2>1, <3>1, StaysSole
  <2>9. TornInv'
    BY <1>1, <2>2, <2>3, <2>4 DEF IInv, TornInv, Busy
  <2> QED
    BY <2>3, <2>5, <2>6, <2>7, <2>8, <2>9 DEF IInv
<1> QED
  BY <1>2, <1>3

(* A report is opened with a row of every scenario.                        *)
LEMMA OpenReportKeeps ==
  ASSUME IInv, NEW e \in Evaluator, OpenReport(e), UNCHANGED labVars
  PROVE  IInv'
<1>1. /\ UNCHANGED <<store, clock, overlapped, deaths>> /\ at[e] = "scoring" /\ e \in Busy
      /\ "reporting" \in Places /\ Goes(e, "reporting") /\ Opens(e, "report") /\ target[e] = "none"
      /\ Missing(e) = {}
  BY DEF OpenReport, Places, Working, Busy, IInv, PlaceInv
<1>2. /\ at'[e] = "reporting" /\ \A d \in Evaluator : d # e => at'[d] = at[d]
      /\ at' \in [Evaluator -> Places] /\ Busy' = Busy
  BY <1>1, Moves DEF Working
<1>3. /\ file' \in [Name -> File] /\ file'["report"] = Torn
      /\ \A m \in Name : m # "report" => file'[m] = file[m]
      /\ target' \in [Evaluator -> Target] /\ target'[e] = "report"
      /\ \A d \in Evaluator : d # e => target'[d] = target[d]
      /\ mixed' \subseteq Evaluator
      /\ \A d \in mixed' : d = e \/ d \in mixed \/ target[d] # "none"
      /\ (\A d \in Evaluator : target[d] = "none") => mixed' = mixed
  BY <1>1, OpensIs
<1>4. DOMAIN store[e] = Key
  BY <1>1, RowsAre DEF Missing, IInv
<1>5. TypeOK' /\ store' \in [Evaluator -> Rows] /\ RevealedOnce'
  BY <1>1, <1>2, <1>3, LabStays DEF IInv, TypeOK, Places, Target
<1>6. RowsInv'
  BY <1>1, <1>3 DEF IInv, RowsInv, Whole, Name
<1>7. PlaceInv'
  BY <1>1, <1>2, <1>3, <1>4 DEF IInv, PlaceInv
<1>8. SoleInv'
  <2>1. ASSUME ~overlapped
        PROVE  mixed' = {} /\ file'["checkpoint"] # Torn /\ Alone(e)'
    <3>1. /\ Alone(e) /\ mixed = {} /\ file["checkpoint"] # Torn
          /\ \A d \in Evaluator : target[d] = "none"
      BY <1>1, <2>1, Sole
    <3>2. Alone(e)'
      BY <1>1, <1>2, <1>3, <3>1 DEF Alone, Whole, Name
    <3> QED
      BY <1>3, <3>1, <3>2 DEF Name
  <2> QED
    BY <1>1, <2>1, StaysSole
<1>9. TornInv'
  BY <1>1, <1>2, <1>3 DEF TornInv
<1> QED
  BY <1>3, <1>5, <1>6, <1>7, <1>8, <1>9 DEF IInv

(* It is written whole unless it was opened twice.                         *)
LEMMA WriteReportKeeps ==
  ASSUME IInv, NEW e \in Evaluator, WriteReport(e), UNCHANGED labVars
  PROVE  IInv'
<1>1. /\ UNCHANGED <<store, clock, overlapped, deaths>> /\ at[e] = "reporting" /\ e \in Busy
      /\ "printing" \in Places /\ Goes(e, "printing") /\ Writes(e)
      /\ target[e] = "report" /\ DOMAIN store[e] = Key
  BY DEF WriteReport, Places, Working, Busy, IInv, PlaceInv
<1>2. /\ at'[e] = "printing" /\ \A d \in Evaluator : d # e => at'[d] = at[d]
      /\ at' \in [Evaluator -> Places] /\ Busy' = Busy
  BY <1>1, Moves DEF Working
<1>3. /\ file' \in [Name -> File]
      /\ \A m \in Name : m # "report" => file'[m] = file[m]
      /\ file'["report"] = store[e] \/ file'["report"] = Torn
      /\ e \notin mixed => file'["report"] = store[e]
      /\ target' \in [Evaluator -> Target] /\ target'[e] = "none"
      /\ \A d \in Evaluator : d # e => target'[d] = target[d]
      /\ mixed' \subseteq Evaluator /\ mixed' = mixed \ {e}
  BY <1>1, WritesIs
<1>4. TypeOK' /\ store' \in [Evaluator -> Rows] /\ RevealedOnce'
  BY <1>1, <1>2, <1>3, LabStays DEF IInv, TypeOK, Places, Target
<1>5. RowsInv'
  BY <1>1, <1>3 DEF IInv, RowsInv, Whole, Name
<1>6. PlaceInv'
  BY <1>1, <1>2, <1>3 DEF IInv, PlaceInv
<1>7. SoleInv'
  <2>1. ASSUME ~overlapped
        PROVE  mixed' = {} /\ file'["checkpoint"] # Torn /\ Alone(e)'
    <3>1. mixed = {} /\ file["checkpoint"] # Torn
      BY <1>1, <2>1, Sole
    <3> QED
      BY <1>1, <1>2, <1>3, <3>1 DEF Alone, Name
  <2> QED
    BY <1>1, <2>1, StaysSole
<1>8. TornInv'
  <2>1. ~overlapped => file'["report"] # Torn
    BY <1>1, <1>3, Sole, RowsAre DEF IInv
  <2> QED
    BY <1>1, <2>1 DEF TornInv, IInv, TypeOK
<1> QED
  BY <1>3, <1>4, <1>5, <1>6, <1>7, <1>8 DEF IInv

(* The same rows are printed.                                              *)
LEMMA PrintReportKeeps ==
  ASSUME IInv, NEW e \in Evaluator, PrintReport(e), UNCHANGED labVars
  PROVE  IInv'
<1>1. /\ UNCHANGED <<store, clock, target, mixed, overlapped, deaths>>
      /\ at[e] = "printing" /\ e \in Busy /\ target[e] = "none" /\ e \notin mixed
      /\ file' = [file EXCEPT !["markdown"] = store[e]]
      /\ "returned" \in Places /\ Goes(e, "returned")
  BY DEF PrintReport, Places, Working, Busy, IInv, PlaceInv
<1>2. /\ at'[e] = "returned" /\ \A d \in Evaluator : d # e => at'[d] = at[d]
      /\ at' \in [Evaluator -> Places] /\ Busy' = Busy \ {e}
  BY <1>1, Moves DEF Working
<1>3. store[e] \in Rows /\ store[e] \in File /\ Right(store[e])
  BY <1>1, RowsAre DEF IInv, RowsInv
<1>4. /\ file' \in [Name -> File] /\ file'["markdown"] = store[e]
      /\ \A m \in Name : m # "markdown" => file'[m] = file[m]
  BY <1>1, <1>3 DEF IInv, Name
<1>5. TypeOK' /\ store' \in [Evaluator -> Rows] /\ RevealedOnce'
  BY <1>1, <1>2, <1>4, LabStays DEF IInv, TypeOK, Places
<1>6. RowsInv'
  BY <1>1, <1>3, <1>4 DEF IInv, RowsInv, Whole, Name
<1>7. PlaceInv'
  BY <1>1, <1>2 DEF IInv, PlaceInv
<1>8. SoleInv'
  <2>1. ~overlapped => mixed = {} /\ file["checkpoint"] # Torn
    BY DEF IInv, SoleInv
  <2> QED
    BY <1>1, <1>4, <2>1, StaysSole DEF Working, Name
<1>9. TornInv'
  BY <1>1, <1>2, <1>4 DEF IInv, TornInv, Name
<1> QED
  BY <1>4, <1>5, <1>6, <1>7, <1>8, <1>9 DEF IInv

(* A death leaves the files as they are, a report it was writing torn.     *)
LEMMA DieKeeps ==
  ASSUME IInv, NEW e \in Evaluator, Die(e), UNCHANGED labVars
  PROVE  IInv'
<1>1. /\ UNCHANGED <<file, store, clock, overlapped>> /\ e \in Busy
      /\ "idle" \in Places /\ Goes(e, "idle")
      /\ deaths \in Nat /\ deaths' = deaths + 1 /\ deaths' \in 0..MaxDeaths
      /\ target' = [target EXCEPT ![e] = "none"] /\ mixed' = mixed \ {e}
  BY Scenarios DEF Die, Places, IInv, TypeOK
<1>2. /\ at'[e] = "idle" /\ \A d \in Evaluator : d # e => at'[d] = at[d]
      /\ at' \in [Evaluator -> Places] /\ Busy' = Busy \ {e}
  BY <1>1, Moves DEF Working
<1>3. /\ target' \in [Evaluator -> Target] /\ target'[e] = "none"
      /\ \A d \in Evaluator : d # e => target'[d] = target[d]
      /\ mixed' \subseteq Evaluator
  BY <1>1 DEF IInv, TypeOK, Target
<1>4. TypeOK' /\ file' \in [Name -> File] /\ store' \in [Evaluator -> Rows] /\ RevealedOnce'
  BY <1>1, <1>2, <1>3, LabStays DEF IInv, TypeOK, Places, Target
<1>5. RowsInv'
  BY <1>1 DEF IInv, RowsInv, Whole
<1>6. PlaceInv'
  BY <1>1, <1>2, <1>3 DEF IInv, PlaceInv
<1>7. SoleInv'
  <2>1. ~overlapped => mixed = {} /\ file["checkpoint"] # Torn
    BY DEF IInv, SoleInv
  <2> QED
    BY <1>1, <2>1, StaysSole DEF Working
<1>8. TornInv'
  BY <1>1 DEF TornInv
<1> QED
  BY <1>4, <1>5, <1>6, <1>7, <1>8 DEF IInv

-----------------------------------------------------------------------------
(* Every step keeps the invariant                                          *)

(* Before the first evaluation there is no file.                           *)
LEMMA IInvInit == Init => IInv
<1> SUFFICES ASSUME Init PROVE IInv
  OBVIOUS
<1>1. LabTypeOK /\ RevealedOnce
  BY DEF Init, LabInit, LabTypeOK, RevealedOnce, Step, Answers
<1>2. file \in [Name -> File] /\ store \in [Evaluator -> Rows] /\ \A n \in Name : ~Whole(n)
  BY NoRowsAre DEF Init, File, Whole
<1>3. TypeOK
  <2>1. clock \in [Evaluator -> Time] /\ deaths \in 0..MaxDeaths
    BY Scenarios DEF Init
  <2>2. at \in [Evaluator -> Working \cup {"idle", "returned", "raised"}]
    BY DEF Init
  <2> QED
    BY <1>1, <1>2, <2>1, <2>2 DEF Init, TypeOK
<1>4. Busy = {}
  BY DEF Init, Busy, Working
<1>5. RowsInv
  BY <1>2, NoRowsAre DEF Init, RowsInv, Name
<1>6. PlaceInv /\ SoleInv /\ TornInv
  BY <1>4, Scenarios DEF Init, PlaceInv, SoleInv, TornInv, Name
<1> QED
  BY <1>1, <1>2, <1>3, <1>5, <1>6 DEF IInv

(* So it is kept by the steps that change nothing of the evaluation.       *)
LEMMA EvalStays ==
  ASSUME IInv, UNCHANGED evalVars, LabTypeOK', RevealedOnce'
  PROVE  IInv'
<1>1. UNCHANGED <<file, at, store, clock, target, mixed, overlapped, deaths>>
  BY DEF evalVars
<1>2. TypeOK'
  BY <1>1 DEF IInv, TypeOK
<1>3. RowsInv' /\ PlaceInv' /\ SoleInv' /\ TornInv'
  BY <1>1 DEF IInv, RowsInv, PlaceInv, SoleInv, TornInv, Alone, Whole, Busy
<1> QED
  BY <1>1, <1>2, <1>3 DEF IInv

(* An evaluator's step.                                                    *)
LEMMA EvalKeeps ==
  ASSUME IInv, EvalNext, UNCHANGED labVars
  PROVE  IInv'
BY BeginKeeps, LoadKeeps, ScoreKeeps, OpenTemporaryKeeps, WriteTemporaryKeeps, ReplaceKeeps,
   OpenReportKeeps, WriteReportKeeps, PrintReportKeeps, DieKeeps DEF EvalNext, Evaluate

(* Every step.                                                             *)
LEMMA IInvStep == IInv /\ [Next]_vars => IInv'
<1> SUFFICES ASSUME IInv, [Next]_vars PROVE IInv'
  OBVIOUS
<1>1. CASE EvalNext /\ UNCHANGED labVars
  BY <1>1, EvalKeeps
<1>2. CASE LabNext /\ UNCHANGED evalVars
  BY <1>2, LabKeeps, EvalStays DEF IInv, TypeOK
<1>3. CASE UNCHANGED vars
  BY <1>3, LabStays, EvalStays DEF vars
<1> QED
  BY <1>1, <1>2, <1>3 DEF Next

(* It holds in every state.                                                *)
LEMMA Invariance == Spec => []IInv
BY IInvInit, IInvStep, PTL DEF Spec

-----------------------------------------------------------------------------
(* What an evaluation guarantees                                           *)

(* Files, stores and clocks of the evaluation, and sessions and requests   *)
(* of the lab, are well-formed.                                            *)
THEOREM TypeIsSound == Spec => []TypeOK
BY Invariance, PTL DEF IInv

(* A whole report has every scenario, each decided at its own cutoff,      *)
(* however many evaluators scored it, died and took it up again.           *)
THEOREM ReportsAreRight == Spec => []ReportIsRight
<1>1. IInv => ReportIsRight
  BY DEF IInv, RowsInv, Right, ReportIsRight, Name
<1> QED
  BY <1>1, Invariance, PTL

(* No death tears a checkpoint, only an overlap does; a report is torn by  *)
(* an overlap or by a death in its write.                                  *)
THEOREM TornFilesHaveReasons == Spec => []TornNeedsReason
<1>1. IInv => TornNeedsReason
  BY DEF IInv, SoleInv, TornInv, TornNeedsReason
<1> QED
  BY <1>1, Invariance, PTL

(* However many clients ask, an outcome is revealed by one UPDATE.         *)
THEOREM OutcomesAreRevealedOnce == Spec => []RevealedOnce
BY Invariance, PTL DEF IInv

(* Without an overlap only the replacement changes a checkpoint, for one   *)
(* with more rows, and nothing changes a report once it is whole.          *)
LEMMA FilesAreKept ==
  ASSUME IInv, [Next]_vars, ~overlapped'
  PROVE  /\ Whole("checkpoint") => /\ Whole("checkpoint")'
                                   /\ DOMAIN file["checkpoint"] \subseteq DOMAIN file'["checkpoint"]
         /\ Whole("report") => file'["report"] = file["report"]
<1>1. CASE UNCHANGED file
  BY <1>1 DEF Whole
<1>2. CASE ~UNCHANGED file
  <2>1. PICK e \in Evaluator : \/ OpenTemporary(e) \/ WriteTemporary(e) \/ Replace(e)
                               \/ OpenReport(e) \/ WriteReport(e) \/ PrintReport(e)
    BY <1>2 DEF Next, EvalNext, Evaluate, Begin, Load, Score, Die, vars, evalVars
  <2>2. /\ ~overlapped /\ e \in Busy
        /\ at[e] \in {"opening", "writing", "replacing", "scoring", "reporting", "printing"}
    BY <2>1 DEF OpenTemporary, WriteTemporary, Replace, OpenReport, WriteReport, PrintReport,
                Busy, Working
  <2>3. Alone(e) /\ mixed = {}
    BY <2>2, Sole
  <2>4. target[e] = "none" \/ at[e] \in {"writing", "reporting"}
    BY <2>2 DEF IInv, PlaceInv, Busy
  <2>5. CASE OpenTemporary(e)
    <3>1. Opens(e, "tmp") /\ target[e] = "none"
      BY <2>4, <2>5 DEF OpenTemporary, MayOpen, Temporary
    <3>2. \A m \in Name : m # "tmp" => file'[m] = file[m]
      BY <3>1, OpensIs
    <3> QED
      BY <3>2 DEF Name, Whole
  <2>6. CASE WriteTemporary(e)
    <3>1. Writes(e) /\ target[e] = "tmp"
      BY <2>3, <2>6 DEF WriteTemporary, Alone
    <3>2. \A m \in Name : m # "tmp" => file'[m] = file[m]
      BY <3>1, WritesIs
    <3> QED
      BY <3>2 DEF Name, Whole
  <2>7. CASE Replace(e)
    <3>1. /\ at[e] = "replacing" /\ file["tmp"] = store[e]
          /\ Whole("checkpoint") => DOMAIN file["checkpoint"] \subseteq DOMAIN store[e]
      BY <2>3, <2>7 DEF Replace, Alone
    <3>2. store[e] # NoFile /\ store[e] # Torn
      BY RowsAre DEF IInv
    <3>3. file'["checkpoint"] = store[e] /\ file'["report"] = file["report"]
      BY <2>7, <3>1, <3>2 DEF Replace, IInv, Name
    <3> QED
      BY <3>1, <3>2, <3>3 DEF Whole
  <2>8. CASE OpenReport(e)
    <3>1. Opens(e, "report") /\ target[e] = "none" /\ at[e] = "scoring"
      BY <2>4, <2>8 DEF OpenReport
    <3>2. \A m \in Name : m # "report" => file'[m] = file[m]
      BY <3>1, OpensIs
    <3>3. ~Whole("report")
      BY <2>3, <3>1 DEF Alone, Whole
    <3> QED
      BY <3>2, <3>3 DEF Name, Whole
  <2>9. CASE WriteReport(e)
    <3>1. Writes(e) /\ target[e] = "report" /\ at[e] = "reporting"
      BY <2>9 DEF WriteReport, IInv, PlaceInv
    <3>2. \A m \in Name : m # "report" => file'[m] = file[m]
      BY <3>1, WritesIs
    <3>3. ~Whole("report")
      BY <2>3, <3>1 DEF Alone, Whole
    <3> QED
      BY <3>2, <3>3 DEF Name, Whole
  <2>10. CASE PrintReport(e)
    BY <2>10 DEF PrintReport, IInv, Name, Whole
  <2> QED
    BY <2>1, <2>5, <2>6, <2>7, <2>8, <2>9, <2>10
<1> QED
  BY <1>1, <1>2

(* No death loses the rows of a checkpoint, as long as none overlapped.    *)
THEOREM ProgressStays == Spec => ProgressIsKept
<1>1. IInv /\ [Next]_vars =>
        [Whole("checkpoint") /\ ~overlapped' =>
           /\ Whole("checkpoint")'
           /\ DOMAIN file["checkpoint"] \subseteq DOMAIN file'["checkpoint"]]_vars
  BY FilesAreKept
<1> QED
  BY <1>1, Invariance, PTL DEF Spec, ProgressIsKept

(* A whole report is never written again, as long as none overlapped.      *)
THEOREM ReportsAreFinal == Spec => ReportIsFinal
<1>1. IInv /\ [Next]_vars =>
        [Whole("report") /\ ~overlapped' => file'["report"] = file["report"]]_vars
  BY FilesAreKept
<1> QED
  BY <1>1, Invariance, PTL DEF Spec, ReportIsFinal
=============================================================================
