------------------------- MODULE TraderCyclesProofs -------------------------
(***************************************************************************)
(* The cycles of a trader, for any services, budgets, prices, responses,   *)
(* turns, repairs, retries and other processes.                            *)
(***************************************************************************)
EXTENDS TraderCycles, TLAPS

-----------------------------------------------------------------------------
(* The inductive invariant                                                 *)

(* A cycle on its way, before its recommendation is processed.             *)
Going ==
  \/ at \in {"dialing", "connecting", "backoff", "reading", "calling", "waiting",
             "listing", "preparing", "prompting", "requesting"}
  \/ at = "marking" /\ call.what # "failing"

(* Nothing has been raised or proposed on the way, the model is asked in a *)
(* stage, and what comes after the way without an exception has a          *)
(* recommendation.                                                         *)
FlowInv ==
  /\ at = "idle" <=> cycle.status # "running"
  /\ Going => raised = NoError /\ batch = NoBatch
  /\ Going /\ stage.name = "research" => ~usage.researched
  /\ at \in {"preparing", "prompting", "requesting"} => stage.name # "none"
  /\ at = "listing" => stage.name = "trader"
  /\ at = "backoff" => AttemptsLeft
  /\ at = "processing" => raised = NoError
  /\ at = "failing" => raised # NoError
  /\ at = "marking" /\ call.what = "failing" => raised # NoError
  /\ at \in {"processing", "closing"} /\ raised = NoError =>
       stage.name = "trader" /\ stage.hooks = 0

(* The books of the two stages: what was spent and not lost is in the      *)
(* finished attempts or seen by the hooks of the running one.              *)
UsageInv ==
  /\ stage.name = "none" => /\ spent = Zero /\ lost = Zero /\ usage = NoUsage
                            /\ stage.used = 0 /\ stage.hooks = 0
  /\ stage.name # "none" => usage.last = Prior + stage.used
  /\ stage.name = "research" =>
       /\ spent.trader = 0 /\ lost.trader = 0
       /\ spent.research = lost.research + stage.used + stage.hooks
       /\ usage.researched => stage.used = usage.research /\ stage.hooks = 0
  /\ stage.name = "trader" =>
       /\ usage.researched
       /\ spent.research = lost.research + usage.research
       /\ spent.trader = lost.trader + stage.used + stage.hooks

(* Tokens are lost with an exception only.                                 *)
RaisedInv == at # "idle" /\ raised = NoError => lost = Zero

BatchInv ==
  batch.executed <= batch.processed /\ batch.left + batch.processed <= MaxProposals

(* A request is made within the budget.                                    *)
RequestInv == at = "requesting" => Total(spent) < MaxTokens

(* An open circuit has counted enough failures.                            *)
CircuitInv == \A s \in Service : IsOpen(s) => health[s].failures >= Threshold

IInv ==
  /\ TypeOK /\ CircuitInv /\ FlowInv /\ UsageInv /\ RaisedInv /\ BatchInv /\ RequestInv
  /\ UsageIsAccounted /\ OverspendBounded /\ PipelineIsWithinBudget

-----------------------------------------------------------------------------
(* Types                                                                   *)

CallType  == [on : Service, try : 0..Retries, read : 0..MaxFailures,
              what : {"connecting", "waiting", "listing", "failing"}]
StageType == [name : {"none", "research", "trader"}, repair : 0..Repairs,
              turn : 0..(ResearchTurns + TraderTurns), used : Nat, hooks : Nat]

(* The constants are what they are assumed to be.                          *)
LEMMA Constants ==
  /\ Market \in Service /\ Search \in Service /\ Service = {Market, Search}
  /\ Retries \in Nat /\ Repairs \in Nat /\ ResearchTurns \in Nat \ {0} /\ TraderTurns \in Nat \ {0}
  /\ MaxTokens \in Nat \ {0} /\ MaxSpend \in Nat \ {0}
  /\ ResearchRate \in Nat /\ TraderRate \in Nat /\ ResponseTokens \subseteq Nat
  /\ MaxProposals \in Nat /\ \A services \in SUBSET Service : services # NoError
  /\ Threshold \in Nat \ {0} /\ MaxFailures \in Nat /\ Threshold <= MaxFailures
BY CycleAssumption, CircuitAssumption DEF CycleAssumption, CircuitAssumption

(* The initial values have their types.                                    *)
LEMMA InitialValues ==
  /\ NoCall \in CallType /\ NoStage \in StageType
  /\ \A s \in Service : [NoCall EXCEPT !.on = s] \in CallType
  /\ \A s \in Service, n \in 0..Retries : [NoCall EXCEPT !.on = s, !.try = n] \in CallType
  /\ \A name \in {"none", "research", "trader"} :
       /\ [NoStage EXCEPT !.name = name] \in StageType
       /\ [NoStage EXCEPT !.name = name].name = name
       /\ [NoStage EXCEPT !.name = name].used = 0 /\ [NoStage EXCEPT !.name = name].hooks = 0
<1>1. /\ 0 \in 0..Retries /\ 0 \in 0..MaxFailures /\ 0 \in 0..Repairs
      /\ 0 \in 0..(ResearchTurns + TraderTurns) /\ Market \in Service
  BY Constants
<1>2. NoCall \in CallType
  BY <1>1 DEF NoCall, CallType
<1>3. NoStage \in StageType
  BY <1>1 DEF NoStage, StageType
<1>4. \A s \in Service : [NoCall EXCEPT !.on = s] \in CallType
  BY <1>2 DEF CallType
<1>5. \A s \in Service, n \in 0..Retries : [NoCall EXCEPT !.on = s, !.try = n] \in CallType
  BY <1>2 DEF CallType
<1>6. \A name \in {"none", "research", "trader"} :
        /\ [NoStage EXCEPT !.name = name] \in StageType
        /\ [NoStage EXCEPT !.name = name].name = name
        /\ [NoStage EXCEPT !.name = name].used = 0 /\ [NoStage EXCEPT !.name = name].hooks = 0
  BY <1>3 DEF StageType, NoStage
<1> QED
  BY <1>2, <1>3, <1>4, <1>5, <1>6

(* What the type invariant says of the parts.                              *)
LEMMA Types ==
  ASSUME TypeOK
  PROVE  /\ at \in Place /\ call \in CallType /\ stage \in StageType
         /\ raised \in {NoError} \cup SUBSET Service
         /\ call.on \in Service /\ call.try \in 0..Retries /\ call.read \in 0..MaxFailures
         /\ call.what \in {"connecting", "waiting", "listing", "failing"}
         /\ stage.name \in {"none", "research", "trader"} /\ stage.used \in Nat /\ stage.hooks \in Nat
         /\ stage.turn \in 0..(ResearchTurns + TraderTurns) /\ stage.repair \in 0..Repairs
         /\ usage.last \in Nat /\ usage.research \in Nat /\ usage.researched \in BOOLEAN
         /\ spent.research \in Nat /\ spent.trader \in Nat
         /\ lost.research \in Nat /\ lost.trader \in Nat
         /\ batch.executed \in Nat /\ batch.processed \in Nat /\ batch.left \in Nat
         /\ batch.hard \in BOOLEAN
         /\ cycle.status \in {"none", "running", "succeeded", "failed", "interrupted"}
<1>1. /\ call \in CallType /\ stage \in StageType
      /\ usage \in [last : Nat, research : Nat, researched : BOOLEAN]
      /\ spent \in [research : Nat, trader : Nat] /\ lost \in [research : Nat, trader : Nat]
      /\ batch \in [left : 0..MaxProposals, processed : 0..MaxProposals,
                    executed : 0..MaxProposals, hard : BOOLEAN]
  BY DEF TypeOK, CallType, StageType
<1>2. /\ call.on \in Service /\ call.try \in 0..Retries /\ call.read \in 0..MaxFailures
      /\ call.what \in {"connecting", "waiting", "listing", "failing"}
  BY <1>1 DEF CallType
<1>3. /\ stage.name \in {"none", "research", "trader"} /\ stage.used \in Nat /\ stage.hooks \in Nat
      /\ stage.turn \in 0..(ResearchTurns + TraderTurns) /\ stage.repair \in 0..Repairs
  BY <1>1 DEF StageType
<1>4. batch.executed \in Nat /\ batch.processed \in Nat /\ batch.left \in Nat /\ batch.hard \in BOOLEAN
  BY <1>1, Constants
<1>5. /\ usage.last \in Nat /\ usage.research \in Nat /\ usage.researched \in BOOLEAN
      /\ spent.research \in Nat /\ spent.trader \in Nat
      /\ lost.research \in Nat /\ lost.trader \in Nat
  BY <1>1
<1> QED
  BY <1>1, <1>2, <1>3, <1>4, <1>5 DEF TypeOK

-----------------------------------------------------------------------------
(* The circuits                                                            *)

(* Each write of a row keeps its type, and opens it with enough failures.  *)
LEMMA CircuitKeeps ==
  ASSUME health \in [Service -> Row], CircuitInv, NEW s \in Service, NEW c \in 0..MaxFailures,
         \/ health' = health \/ MarkStarting(s) \/ MarkSuccess(s) \/ MarkFailed(s, c)
         \/ health' = [health EXCEPT ![s].circuit = "expired"]
  PROVE  health' \in [Service -> Row] /\ CircuitInv'
<1>1. health[s] \in Row /\ health[s].failures \in 0..MaxFailures
  BY DEF Row
<1>2. ASSUME NEW row \in Row, health' = [health EXCEPT ![s] = row],
             row.circuit = "open" => row.failures >= Threshold
      PROVE  health' \in [Service -> Row] /\ CircuitInv'
  BY <1>2 DEF CircuitInv, IsOpen
<1>3. CASE health' = health
  BY <1>3 DEF CircuitInv, IsOpen
<1>4. CASE MarkStarting(s)
  <2>1. PICK row : row = [health[s] EXCEPT !.state = "starting"]
    OBVIOUS
  <2>2. row \in Row /\ row.circuit = health[s].circuit /\ row.failures = health[s].failures
    BY <1>1, <2>1 DEF Row
  <2>3. health' = [health EXCEPT ![s] = row]
    BY <1>4, <2>1 DEF MarkStarting, Started
  <2> QED
    BY <1>2, <2>2, <2>3 DEF CircuitInv, IsOpen
<1>5. CASE MarkSuccess(s)
  <2>1. Succeeded \in Row /\ Succeeded.circuit = "closed"
    BY Constants DEF Succeeded, Row
  <2> QED
    BY <1>2, <1>5, <2>1 DEF MarkSuccess
<1>6. CASE MarkFailed(s, c)
  <2>1. c + 1 \in Nat /\ c + 1 <= MaxFailures + 1 /\ MaxFailures \in Nat /\ Threshold \in Nat
        /\ Threshold <= MaxFailures
    BY Constants
  <2>2. PICK f : f = IF c + 1 > MaxFailures THEN MaxFailures ELSE c + 1
    OBVIOUS
  <2>3. f \in 0..MaxFailures /\ (c + 1 >= Threshold => f >= Threshold)
    BY <2>1, <2>2
  <2>4. CASE c + 1 >= Threshold
    <3>1. Failed(c + 1) = [state |-> "unavailable", failures |-> f, circuit |-> "open"]
      BY <2>2, <2>4 DEF Failed, Opens
    <3>2. Failed(c + 1) \in Row /\ Failed(c + 1).failures = f
      BY <2>3, <3>1 DEF Row
    <3> QED
      BY <1>2, <1>6, <2>3, <2>4, <3>2 DEF MarkFailed
  <2>5. CASE ~(c + 1 >= Threshold)
    <3>1. Failed(c + 1) = [state |-> "degraded", failures |-> f, circuit |-> "closed"]
      BY <2>2, <2>5 DEF Failed, Opens
    <3>2. Failed(c + 1) \in Row /\ Failed(c + 1).circuit = "closed"
      BY <2>3, <3>1 DEF Row
    <3> QED
      BY <1>2, <1>6, <3>2 DEF MarkFailed
  <2> QED
    BY <2>4, <2>5
<1>7. CASE health' = [health EXCEPT ![s].circuit = "expired"]
  <2>1. PICK row : row = [health[s] EXCEPT !.circuit = "expired"]
    OBVIOUS
  <2>2. row \in Row /\ row.circuit = "expired"
    BY <1>1, <2>1 DEF Row
  <2>3. health' = [health EXCEPT ![s] = row]
    BY <1>7, <2>1
  <2> QED
    BY <1>2, <2>2, <2>3
<1> QED
  BY <1>3, <1>4, <1>5, <1>6, <1>7

(* The trader's client keeps the circuits.                                 *)
LEMMA ClientKeeps ==
  ASSUME TypeOK, CircuitInv, UNCHANGED <<reading, up>>,
         \/ health' = health \/ MarkStarting(call.on) \/ MarkSuccess(call.on)
         \/ MarkFailed(call.on, call.read)
  PROVE  CircuitTypeOK' /\ CircuitInv'
<1>1. PICK s \in Service, c \in 0..MaxFailures : s = call.on /\ c = call.read
  BY Types
<1>2. health \in [Service -> Row]
  BY DEF TypeOK, CircuitTypeOK
<1>3. health' \in [Service -> Row] /\ CircuitInv'
  BY <1>1, <1>2, CircuitKeeps
<1> QED
  BY <1>3 DEF TypeOK, CircuitTypeOK

-----------------------------------------------------------------------------
(* Steps that neither ask the model nor execute                            *)

(* They keep the books, as long as they keep the way of the cycle.         *)
LEMMA QuietKeeps ==
  ASSUME IInv, at # "idle", UNCHANGED <<stage, usage, batch, cycle, spent, lost>>,
         CircuitTypeOK', CircuitInv', at' \in Place \ {"idle", "requesting", "processing"},
         call' \in CallType, raised' \in {NoError} \cup SUBSET Service,
         FlowInv', RaisedInv'
  PROVE  IInv'
<1>1. TypeOK'
  BY DEF IInv, TypeOK, CallType
<1>2. UsageInv' /\ BatchInv' /\ OverspendBounded' /\ RequestInv'
  BY DEF IInv, UsageInv, Prior, BatchInv, OverspendBounded, Total, RequestInv
<1>3. ~Closed'
  BY DEF IInv, FlowInv, Closed
<1>4. UsageIsAccounted'
  BY <1>3 DEF UsageIsAccounted
<1>5. PipelineIsWithinBudget'
  BY DEF IInv, PipelineIsWithinBudget, Total, Price
<1> QED
  BY <1>1, <1>2, <1>4, <1>5 DEF IInv

(* Connections, calls, listings and their failures.                        *)
LEMMA ServersKeep ==
  ASSUME IInv, \/ Refused \/ Dial \/ Redial \/ Connected \/ ReadAccount \/ Call \/ Listed
               \/ CallFails \/ MarkFailure \/ \E s \in Service : Blame(s)
  PROVE  IInv'
<1> USE DEF IInv
<1>0. /\ call \in CallType /\ call.on \in Service /\ call.try \in 0..Retries
      /\ call.read \in 0..MaxFailures /\ stage.name \in {"none", "research", "trader"}
      /\ raised \in {NoError} \cup SUBSET Service
      /\ call.what \in {"connecting", "waiting", "listing", "failing"}
  BY Types
<1>1. /\ {} \in SUBSET Service /\ {} # NoError /\ {call.on} \in SUBSET Service /\ {call.on} # NoError
      /\ \A s \in SUBSET Service : s # NoError
      /\ NoCall \in CallType /\ [NoCall EXCEPT !.on = Search] \in CallType
      /\ [NoCall EXCEPT !.on = call.on, !.try = call.try] \in CallType
      /\ NoBatch.executed = 0
  BY <1>0, Constants, InitialValues DEF NoBatch
<1>2. CASE Refused
  <2>1. /\ UNCHANGED <<circuitVars, call, stage, usage, batch, cycle, spent, lost>>
        /\ at \in {"dialing", "calling"} /\ Going
        /\ \/ at' = "closing" /\ raised' = {call.on}
           \/ at' = "listing" /\ raised' = raised /\ stage.name = "trader"
    BY <1>2 DEF Refused, Throw, ShownToModel, Going
  <2>2. CircuitTypeOK' /\ CircuitInv'
    BY <2>1, ClientKeeps DEF circuitVars
  <2>3. FlowInv' /\ RaisedInv'
    BY <1>1, <2>1 DEF FlowInv, RaisedInv, Going
  <2> QED
    BY <1>0, <1>1, <2>1, <2>2, <2>3, QuietKeeps DEF Place, Await
<1>3. CASE Dial
  <2>1. /\ UNCHANGED <<reading, up, call, raised, stage, usage, batch, cycle, spent, lost>>
        /\ at = "dialing" /\ at' = "connecting" /\ MarkStarting(call.on)
    BY <1>3 DEF Dial
  <2>2. CircuitTypeOK' /\ CircuitInv'
    BY <2>1, ClientKeeps
  <2>3. FlowInv' /\ RaisedInv'
    BY <1>1, <2>1 DEF FlowInv, RaisedInv, Going
  <2> QED
    BY <1>0, <2>1, <2>2, <2>3, QuietKeeps DEF Place, Await
<1>4. CASE Redial
  <2>1. /\ UNCHANGED <<reading, up, raised, stage, usage, batch, cycle, spent, lost>>
        /\ at = "backoff" /\ at' = "connecting" /\ MarkStarting(call.on)
        /\ call' = [call EXCEPT !.try = call.try + 1] /\ AttemptsLeft
    BY <1>4 DEF Redial, NextTry, FlowInv
  <2>2. CircuitTypeOK' /\ CircuitInv'
    BY <2>1, ClientKeeps
  <2>3. call' \in CallType
    <3>1. call.try + 1 \in 0..Retries
      BY <1>0, <2>1, Constants DEF AttemptsLeft
    <3> QED
      BY <1>0, <2>1, <3>1 DEF CallType
  <2>4. FlowInv' /\ RaisedInv'
    BY <1>1, <2>1 DEF FlowInv, RaisedInv, Going
  <2> QED
    BY <1>0, <2>1, <2>2, <2>3, <2>4, QuietKeeps DEF Place, Await
<1>5. CASE Connected
  <2>1. /\ UNCHANGED <<reading, up, raised, stage, usage, batch, cycle, spent, lost>>
        /\ at = "connecting" /\ at' \in {"dialing", "reading"} /\ MarkSuccess(call.on)
        /\ call' = [NoCall EXCEPT !.on = Search]
    BY <1>5 DEF Connected
  <2>2. CircuitTypeOK' /\ CircuitInv'
    BY <2>1, ClientKeeps
  <2>3. FlowInv' /\ RaisedInv'
    BY <1>1, <2>1 DEF FlowInv, RaisedInv, Going
  <2> QED
    BY <1>0, <1>1, <2>1, <2>2, <2>3, QuietKeeps DEF Place, Await
<1>6. CASE Call
  <2>1. /\ UNCHANGED <<circuitVars, call, raised, stage, usage, batch, cycle, spent, lost>>
        /\ at = "calling" /\ at' = "waiting"
    BY <1>6 DEF Call
  <2>2. CircuitTypeOK' /\ CircuitInv'
    BY <2>1, ClientKeeps DEF circuitVars
  <2>3. FlowInv' /\ RaisedInv'
    BY <1>1, <2>1 DEF FlowInv, RaisedInv, Going
  <2> QED
    BY <1>0, <2>1, <2>2, <2>3, QuietKeeps DEF Place, Await
<1>7. CASE Listed
  <2>1. /\ UNCHANGED <<reading, up, call, raised, stage, usage, batch, cycle, spent, lost>>
        /\ at = "listing" /\ at' = "prompting" /\ MarkSuccess(call.on) /\ stage.name = "trader"
    BY <1>7 DEF Listed, FlowInv
  <2>2. CircuitTypeOK' /\ CircuitInv'
    BY <2>1, ClientKeeps
  <2>3. FlowInv' /\ RaisedInv'
    BY <1>1, <2>1 DEF FlowInv, RaisedInv, Going
  <2> QED
    BY <1>0, <2>1, <2>2, <2>3, QuietKeeps DEF Place
<1>8. CASE CallFails
  <2>1. /\ UNCHANGED <<circuitVars, raised, stage, usage, batch, cycle, spent, lost>>
        /\ at \in {"connecting", "waiting", "listing"} /\ at' = "marking"
        /\ call' = [call EXCEPT !.read = health[call.on].failures, !.what = at]
    BY <1>8 DEF CallFails
  <2>2. CircuitTypeOK' /\ CircuitInv'
    BY <2>1, ClientKeeps DEF circuitVars
  <2>3. health[call.on].failures \in 0..MaxFailures
    BY <1>0 DEF TypeOK, CircuitTypeOK, Row
  <2>4. call' \in CallType /\ call'.what = at
    BY <1>0, <2>1, <2>3 DEF CallType
  <2>5. FlowInv' /\ RaisedInv'
    BY <1>1, <2>1, <2>4 DEF FlowInv, RaisedInv, Going
  <2> QED
    BY <1>0, <2>1, <2>2, <2>4, <2>5, QuietKeeps DEF Place
<1>9. CASE MarkFailure
  <2>1. /\ UNCHANGED <<reading, up, stage, usage, batch, cycle, spent, lost>>
        /\ at = "marking" /\ MarkFailed(call.on, call.read)
    BY <1>9 DEF MarkFailure
  <2>2. CircuitTypeOK' /\ CircuitInv'
    BY <2>1, ClientKeeps
  <2>3. call' \in CallType
    BY <1>0, <1>1, <1>9 DEF MarkFailure
  <2>4. CASE call.what = "failing"
    <3>1. at' = "failing" /\ UNCHANGED raised
      BY <1>9, <2>4 DEF MarkFailure
    <3>2. FlowInv' /\ RaisedInv'
      BY <1>1, <2>1, <2>4, <3>1 DEF FlowInv, RaisedInv, Going
    <3> QED
      BY <1>0, <2>1, <2>2, <2>3, <3>1, <3>2, QuietKeeps DEF Place
  <2>5. CASE call.what # "failing"
    <3>1. /\ Going
          /\ \/ at' = "backoff" /\ AttemptsLeft /\ UNCHANGED raised
             \/ at' = "closing" /\ raised' \in {{}, {call.on}}
             \/ at' = "listing" /\ stage.name = "trader" /\ UNCHANGED raised
      BY <1>9, <2>1, <2>5 DEF MarkFailure, Throw, ShownToModel, Going
    <3>2. call'.try = call.try
      BY <1>9, <2>5 DEF MarkFailure, NoCall
    <3>3. FlowInv' /\ RaisedInv'
      BY <1>1, <2>1, <2>5, <3>1, <3>2 DEF FlowInv, RaisedInv, Going, AttemptsLeft
    <3> QED
      BY <1>0, <1>1, <2>1, <2>2, <2>3, <3>1, <3>3, QuietKeeps DEF Place, Await
  <2> QED
    BY <2>4, <2>5
<1>10. ASSUME NEW s \in Service, Blame(s)
       PROVE  IInv'
  <2>1. /\ UNCHANGED <<circuitVars, stage, usage, batch, cycle, spent, lost>>
        /\ at = "failing" /\ s \in raised /\ at' = "marking" /\ raised' = raised \ {s}
        /\ call' = [call EXCEPT !.on = s, !.read = health[s].failures, !.what = "failing"]
    BY <1>10 DEF Blame
  <2>2. CircuitTypeOK' /\ CircuitInv'
    BY <2>1, ClientKeeps DEF circuitVars
  <2>3. health[s].failures \in 0..MaxFailures
    BY DEF TypeOK, CircuitTypeOK, Row
  <2>4. call' \in CallType /\ call'.what = "failing"
    BY <1>0, <2>1, <2>3 DEF CallType
  <2>5. raised # NoError /\ raised' \in SUBSET Service /\ raised' # NoError
    BY <1>0, <1>1, <2>1 DEF FlowInv
  <2>6. FlowInv' /\ RaisedInv'
    BY <1>1, <2>1, <2>4, <2>5 DEF FlowInv, RaisedInv, Going
  <2> QED
    BY <1>0, <2>1, <2>2, <2>4, <2>5, <2>6, QuietKeeps DEF Place
<1>11. CASE ReadAccount
  <2>1. /\ UNCHANGED <<circuitVars, call, stage, usage, batch, cycle, spent, lost>>
        /\ at = "reading" /\ Going
        /\ \/ at' = "closing" /\ raised' = {}
           \/ at' = "calling" /\ raised' = raised
    BY <1>11 DEF ReadAccount, Throw, Going
  <2>2. CircuitTypeOK' /\ CircuitInv'
    BY <2>1, ClientKeeps DEF circuitVars
  <2>3. FlowInv' /\ RaisedInv'
    BY <1>1, <2>1 DEF FlowInv, RaisedInv, Going
  <2> QED
    BY <1>0, <1>1, <2>1, <2>2, <2>3, QuietKeeps DEF Place, Await
<1> QED
  BY <1>2, <1>3, <1>4, <1>5, <1>6, <1>7, <1>8, <1>9, <1>10, <1>11

(* Refused preparations, failures of the model, timeouts, the end of the   *)
(* pipeline and the closing of the servers.                                *)
LEMMA OthersKeep ==
  ASSUME IInv, \/ Prepare \/ ModelFails \/ PipelineRaises \/ PipelineEnds \/ Unwound \/ Timeout
  PROVE  IInv'
<1> USE DEF IInv
<1>0. /\ call \in CallType /\ stage.name \in {"none", "research", "trader"} /\ stage.hooks \in Nat
      /\ raised \in {NoError} \cup SUBSET Service
      /\ batch.executed \in Nat /\ batch.processed \in Nat
  BY Types
<1>1. /\ {} \in SUBSET Service /\ {} # NoError /\ NoCall \in CallType /\ NoBatch.executed = 0
  BY Constants, InitialValues DEF NoBatch
<1>2. CASE Prepare
  <2>1. /\ UNCHANGED <<circuitVars, call, stage, usage, batch, cycle, spent, lost>>
        /\ at = "preparing" /\ Going
        /\ \/ at' = "closing" /\ raised' = {}
           \/ at' = "prompting" /\ raised' = raised
           \/ at' = "listing" /\ raised' = raised /\ stage.name # "research"
    BY <1>2 DEF Prepare, Throw, Going
  <2>2. CircuitTypeOK' /\ CircuitInv'
    BY <2>1, ClientKeeps DEF circuitVars
  <2>3. FlowInv' /\ RaisedInv'
    BY <1>0, <1>1, <2>1 DEF FlowInv, RaisedInv, Going
  <2> QED
    BY <1>0, <1>1, <2>1, <2>2, <2>3, QuietKeeps DEF Place, Await
<1>3. CASE ModelFails
  <2>1. /\ UNCHANGED <<circuitVars, call, stage, usage, batch, cycle, spent, lost>>
        /\ at = "requesting" /\ Going /\ at' = "closing" /\ raised' = {}
    BY <1>3 DEF ModelFails, Throw, Going
  <2>2. CircuitTypeOK' /\ CircuitInv'
    BY <2>1, ClientKeeps DEF circuitVars
  <2>3. FlowInv' /\ RaisedInv'
    BY <1>0, <1>1, <2>1 DEF FlowInv, RaisedInv, Going
  <2> QED
    BY <1>0, <1>1, <2>1, <2>2, <2>3, QuietKeeps DEF Place, Await
<1>4. CASE PipelineRaises
  <2>1. /\ UNCHANGED <<circuitVars, call, stage, usage, batch, cycle, spent, lost>>
        /\ at = "processing" /\ at' = "closing" /\ raised' = {}
    BY <1>4 DEF PipelineRaises, Throw
  <2>2. CircuitTypeOK' /\ CircuitInv'
    BY <2>1, ClientKeeps DEF circuitVars
  <2>3. FlowInv' /\ RaisedInv'
    BY <1>0, <1>1, <2>1 DEF FlowInv, RaisedInv, Going
  <2> QED
    BY <1>0, <1>1, <2>1, <2>2, <2>3, QuietKeeps DEF Place, Await
<1>5. CASE PipelineEnds
  <2>1. /\ UNCHANGED <<circuitVars, call, stage, usage, batch, cycle, spent, lost>>
        /\ at = "processing" /\ at' = "closing"
        /\ \/ batch.processed = 0 /\ raised' = {}
           \/ raised' = raised
    BY <1>5 DEF PipelineEnds, Throw
  <2>2. CircuitTypeOK' /\ CircuitInv'
    BY <2>1, ClientKeeps DEF circuitVars
  <2>3. FlowInv' /\ RaisedInv'
    BY <1>0, <1>1, <2>1 DEF FlowInv, RaisedInv, BatchInv, Going
  <2> QED
    BY <1>0, <1>1, <2>1, <2>2, <2>3, QuietKeeps DEF Place, Await
<1>6. CASE Unwound
  <2>1. /\ UNCHANGED <<circuitVars, raised, stage, usage, batch, cycle, spent, lost>>
        /\ at = "closing" /\ raised # NoError /\ at' = "failing" /\ call' = NoCall
    BY <1>6 DEF Unwound
  <2>2. CircuitTypeOK' /\ CircuitInv'
    BY <2>1, ClientKeeps DEF circuitVars
  <2>3. FlowInv' /\ RaisedInv'
    BY <1>0, <1>1, <2>1 DEF FlowInv, RaisedInv, Going
  <2> QED
    BY <1>0, <1>1, <2>1, <2>2, <2>3, QuietKeeps DEF Place, Await
<1>7. CASE Timeout
  <2>1. /\ UNCHANGED <<circuitVars, stage, usage, batch, cycle, spent, lost>>
        /\ at \in Await /\ at' \in {"closing", "failing"} /\ raised' = {} /\ call' = NoCall
    BY <1>7 DEF Timeout
  <2>2. CircuitTypeOK' /\ CircuitInv'
    BY <2>1, ClientKeeps DEF circuitVars
  <2>3. FlowInv' /\ RaisedInv'
    BY <1>0, <1>1, <2>1 DEF FlowInv, RaisedInv, Going, Await
  <2> QED
    BY <1>0, <1>1, <2>1, <2>2, <2>3, QuietKeeps DEF Place, Await
<1> QED
  BY <1>2, <1>3, <1>4, <1>5, <1>6, <1>7

-----------------------------------------------------------------------------
(* The stages of the model                                                 *)

(* Closed rows are not touched on the way.                                 *)
LEMMA StageKeeps ==
  ASSUME IInv, at # "idle", UNCHANGED cycle, TypeOK', CircuitInv', FlowInv', UsageInv', RaisedInv',
         BatchInv', RequestInv', OverspendBounded', PipelineIsWithinBudget'
  PROVE  IInv'
<1>1. ~Closed'
  BY DEF IInv, FlowInv, Closed
<1>2. UsageIsAccounted'
  BY <1>1 DEF UsageIsAccounted
<1> QED
  BY <1>2 DEF IInv

(* A stage starts with nothing used.                                       *)
LEMMA StageBegins ==
  /\ NoStage \in StageType /\ NoStage.name = "none" /\ NoStage.used = 0 /\ NoStage.hooks = 0
  /\ NoUsage.last = 0 /\ NoUsage.research = 0 /\ NoUsage.researched = FALSE
  /\ Zero.research = 0 /\ Zero.trader = 0 /\ Zero \in [research : Nat, trader : Nat]
  /\ NoUsage \in [last : Nat, research : Nat, researched : BOOLEAN]
  /\ NoBatch.left = 0 /\ NoBatch.processed = 0 /\ NoBatch.executed = 0 /\ NoBatch.hard = FALSE
  /\ NoBatch \in [left : 0..MaxProposals, processed : 0..MaxProposals,
                  executed : 0..MaxProposals, hard : BOOLEAN]
<1>1. NoStage \in StageType
  BY InitialValues
<1>2. 0 \in 0..MaxProposals
  BY Constants
<1> QED
  BY <1>1, <1>2 DEF NoStage, NoUsage, Zero, NoBatch

(* The answered search begins the research stage.                          *)
LEMMA AnsweredKeeps ==
  ASSUME IInv, Answered
  PROVE  IInv'
<1> USE DEF IInv
<1>1. /\ UNCHANGED <<reading, up, call, usage, batch, cycle, spent, lost>>
      /\ at = "waiting" /\ MarkSuccess(call.on) /\ Going /\ raised = NoError
      /\ \/ at' = "listing" /\ stage.name = "trader" /\ UNCHANGED <<raised, stage>>
         \/ at' = "closing" /\ raised' = {} /\ UNCHANGED stage
         \/ /\ at' = "preparing" /\ stage.name = "none"
            /\ stage' = [NoStage EXCEPT !.name = "research"] /\ UNCHANGED raised
  BY DEF Answered, Throw, Going, FlowInv
<1>2. CircuitTypeOK' /\ CircuitInv'
  BY <1>1, ClientKeeps
<1>3. /\ {} \in SUBSET Service /\ {} # NoError
  BY Constants
<1>4. CASE UNCHANGED stage
  <2>0. at' \in {"listing", "closing"}
    BY <1>1, <1>4, InitialValues
  <2>1. FlowInv' /\ RaisedInv'
    BY <1>1, <1>3, <1>4, <2>0, StageBegins DEF FlowInv, RaisedInv, Going
  <2>2. call' \in CallType /\ raised' \in {NoError} \cup SUBSET Service
    BY <1>1, <1>3, Types
  <2> QED
    BY <1>1, <1>2, <1>4, <2>0, <2>1, <2>2, QuietKeeps DEF Place, Await
<1>5. CASE stage' # stage
  <2>1. /\ at' = "preparing" /\ stage.name = "none" /\ UNCHANGED raised
        /\ stage' = [NoStage EXCEPT !.name = "research"]
    BY <1>1, <1>5
  <2>2. stage' \in StageType /\ stage'.name = "research" /\ stage'.used = 0 /\ stage'.hooks = 0
    BY <2>1, InitialValues
  <2>3. TypeOK'
    BY <1>1, <1>2, <2>1, <2>2 DEF TypeOK, StageType, Place
  <2>4. FlowInv' /\ RaisedInv'
    BY <1>1, <2>1, <2>2, StageBegins DEF FlowInv, RaisedInv, Going, UsageInv
  <2>5. UsageInv'
    BY <1>1, <2>1, <2>2, StageBegins DEF UsageInv, Prior
  <2>6. BatchInv' /\ RequestInv' /\ OverspendBounded' /\ PipelineIsWithinBudget'
    BY <1>1, <2>1 DEF BatchInv, RequestInv, OverspendBounded, PipelineIsWithinBudget, Total, Price
  <2> QED
    BY <1>1, <1>2, <2>3, <2>4, <2>5, <2>6, StageKeeps
<1> QED
  BY <1>4, <1>5

(* What an attempt leaves when it is ended: its tokens are added once.     *)
LEMMA EndedKeeps ==
  \A s \in StageType :
    /\ Ended(s) \in StageType /\ Ended(s).name = s.name
    /\ Ended(s).used = s.used + s.hooks /\ Ended(s).hooks = 0
    /\ Ended(s).repair = s.repair /\ Ended(s).turn = s.turn
<1> SUFFICES ASSUME NEW s \in StageType
             PROVE  /\ Ended(s) \in StageType /\ Ended(s).name = s.name
                    /\ Ended(s).used = s.used + s.hooks /\ Ended(s).hooks = 0
                    /\ Ended(s).repair = s.repair /\ Ended(s).turn = s.turn
  OBVIOUS
<1>1. s.used + s.hooks \in Nat
  BY DEF StageType
<1> QED
  BY <1>1 DEF Ended, StageType

(* The stage before and after a repair, or the refusal of one.             *)
LEMMA RepairKeeps ==
  ASSUME TypeOK
  PROVE  \A s \in StageType :
           Repair(s) =>
             /\ usage' = [usage EXCEPT !.last = Prior + s.used + s.hooks]
             /\ stage' \in StageType /\ stage'.name = s.name
             /\ stage'.used = s.used + s.hooks /\ stage'.hooks = 0
             /\ \/ at' = "preparing" /\ UNCHANGED raised
                \/ at' = "closing" /\ raised' = {}
<1> SUFFICES ASSUME NEW s \in StageType, Repair(s)
             PROVE  /\ usage' = [usage EXCEPT !.last = Prior + s.used + s.hooks]
                    /\ stage' \in StageType /\ stage'.name = s.name
                    /\ stage'.used = s.used + s.hooks /\ stage'.hooks = 0
                    /\ \/ at' = "preparing" /\ UNCHANGED raised
                       \/ at' = "closing" /\ raised' = {}
  OBVIOUS
<1>0. s.used \in Nat /\ s.hooks \in Nat /\ s.repair \in 0..Repairs
  BY DEF StageType
<1>1. PICK e : e = Ended(s)
  OBVIOUS
<1>2. /\ e \in StageType /\ e.name = s.name /\ e.used = s.used + s.hooks /\ e.hooks = 0
      /\ e.repair = s.repair
  BY <1>1, EndedKeeps
<1>3. usage' = [usage EXCEPT !.last = Prior + s.used + s.hooks]
  <2>1. Prior \in Nat
    BY Types DEF Prior
  <2>2. Prior + e.used = Prior + s.used + s.hooks
    BY <1>0, <1>2, <2>1
  <2>3. usage' = [usage EXCEPT !.last = Prior + e.used]
    BY <1>1 DEF Repair
  <2> QED
    BY <2>2, <2>3
<1>4. CASE MayRepair(s)
  <2>1. stage' = [e EXCEPT !.repair = e.repair + 1, !.turn = 0] /\ at' = "preparing" /\ UNCHANGED raised
    BY <1>1, <1>4 DEF Repair
  <2>2. e.repair + 1 \in 0..Repairs /\ 0 \in 0..(ResearchTurns + TraderTurns)
    BY <1>0, <1>2, <1>4, Constants DEF MayRepair
  <2>3. stage' \in StageType /\ stage'.name = e.name /\ stage'.used = e.used /\ stage'.hooks = e.hooks
    BY <1>2, <2>1, <2>2 DEF StageType
  <2> QED
    BY <1>2, <1>3, <2>1, <2>3
<1>5. CASE ~MayRepair(s)
  <2>1. stage' = e /\ at' = "closing" /\ raised' = {}
    BY <1>1, <1>5 DEF Repair, Throw
  <2> QED
    BY <1>2, <1>3, <2>1
<1> QED
  BY <1>4, <1>5

UsageType  == [last : Nat, research : Nat, researched : BOOLEAN]
TokensType == [research : Nat, trader : Nat]

(* A step of a stage that proposes nothing keeps the invariant if it keeps *)
(* the books of the two stages and goes on or raises an exception.         *)
LEMMA StageMoves ==
  ASSUME IInv, Going, UNCHANGED <<circuitVars, batch, cycle>>,
         call' \in CallType, stage' \in StageType, usage' \in UsageType,
         spent' \in TokensType, lost' \in TokensType,
         \/ at' = "closing" /\ raised' = {}
         \/ /\ at' \in {"preparing", "prompting", "requesting", "calling", "listing"}
            /\ UNCHANGED <<raised, lost>>
            /\ at' \in {"preparing", "prompting", "requesting"} => stage'.name # "none"
            /\ at' = "listing" => stage'.name = "trader"
            /\ stage'.name = "research" => ~usage'.researched
            /\ at' = "requesting" => spent'.research + spent'.trader < MaxTokens,
         UsageInv', OverspendBounded'
  PROVE  IInv'
<1>1. /\ raised = NoError /\ batch = NoBatch /\ lost = Zero /\ at # "idle"
  <2>1. at # "idle"
    BY DEF Going
  <2> QED
    BY <2>1, Types DEF IInv, FlowInv, RaisedInv
<1>2. {} \in SUBSET Service /\ {} # NoError
  BY Constants
<1>3. CircuitTypeOK' /\ CircuitInv'
  BY ClientKeeps DEF IInv, circuitVars
<1>4. TypeOK'
  BY <1>1, <1>2, <1>3 DEF IInv, TypeOK, CallType, StageType, UsageType, TokensType, Place, Await
<1>5. FlowInv'
  BY <1>1, <1>2 DEF IInv, FlowInv, Going
<1>6. RaisedInv'
  BY <1>1, <1>2, StageBegins DEF RaisedInv
<1>7. BatchInv' /\ PipelineIsWithinBudget'
  BY <1>1, StageBegins DEF IInv, BatchInv, PipelineIsWithinBudget
<1>8. RequestInv'
  BY DEF RequestInv, Total
<1> QED
  BY <1>1, <1>3, <1>4, <1>5, <1>6, <1>7, <1>8, StageKeeps

(* The next turn of a stage.                                               *)
LEMMA PromptKeeps ==
  ASSUME IInv, Prompt
  PROVE  IInv'
<1> USE DEF IInv
<1>1. /\ UNCHANGED <<circuitVars, call, batch, cycle, spent, lost>>
      /\ at = "prompting" /\ Going /\ stage.name # "none"
      /\ stage.name = "research" => ~usage.researched
  BY DEF Prompt, Going, FlowInv
<1>2. /\ call \in CallType /\ stage \in StageType /\ usage \in UsageType
      /\ spent \in TokensType /\ lost \in TokensType /\ lost = Zero
  BY <1>1, Types DEF TypeOK, UsageType, TokensType, FlowInv, RaisedInv
<1>3. OverspendBounded'
  BY <1>1 DEF OverspendBounded, Total
<1>4. CASE stage.turn = TurnLimit /\ Repair(stage)
  <2>1. /\ usage' = [usage EXCEPT !.last = Prior + stage.used + stage.hooks]
        /\ stage' \in StageType /\ stage'.name = stage.name
        /\ stage'.used = stage.used + stage.hooks /\ stage'.hooks = 0
        /\ \/ at' = "preparing" /\ UNCHANGED raised
           \/ at' = "closing" /\ raised' = {}
    BY <1>2, <1>4, RepairKeeps
  <2>2. /\ Prior \in Nat /\ Prior + stage.used + stage.hooks \in Nat
        /\ stage.used \in Nat /\ stage.hooks \in Nat
    BY Types DEF Prior
  <2>3. /\ usage' \in UsageType /\ usage'.last = Prior + stage.used + stage.hooks
        /\ usage'.research = usage.research /\ usage'.researched = usage.researched
    BY <1>2, <2>1, <2>2 DEF UsageType
  <2>4. UsageInv'
    BY <1>1, <1>2, <2>1, <2>2, <2>3, Types DEF UsageInv, Prior
  <2> QED
    BY <1>1, <1>2, <1>3, <2>1, <2>3, <2>4, StageMoves
<1>5. CASE Throw({}) /\ UNCHANGED <<stage, usage>>
  <2>1. UsageInv'
    BY <1>1, <1>5 DEF UsageInv, Prior
  <2> QED
    BY <1>1, <1>2, <1>3, <1>5, <2>1, StageMoves DEF Throw
<1>6. CASE /\ stage.turn < TurnLimit /\ ~Exhausted
           /\ at' = "requesting" /\ stage' = [stage EXCEPT !.turn = @ + 1] /\ UNCHANGED <<usage, raised>>
  <2>1. stage.turn + 1 \in 0..(ResearchTurns + TraderTurns)
    BY <1>6, Types, Constants DEF TurnLimit
  <2>2. /\ stage' \in StageType /\ stage'.name = stage.name
        /\ stage'.used = stage.used /\ stage'.hooks = stage.hooks
    BY <1>2, <1>6, <2>1 DEF StageType
  <2>3. UsageInv'
    BY <1>1, <1>6, <2>2 DEF UsageInv, Prior
  <2>4. spent.research + spent.trader < MaxTokens
    <3>1. stage.hooks < AttemptTokens
      BY <1>6, Types, Constants DEF Exhausted, AttemptTokens, StageTokens
    <3> QED
      BY <1>1, <1>2, <3>1, Types, Constants, StageBegins DEF AttemptTokens, StageTokens, UsageInv
  <2> QED
    BY <1>1, <1>2, <1>3, <1>6, <2>2, <2>3, <2>4, StageMoves
<1> QED
  BY <1>4, <1>5, <1>6 DEF Prompt

(* The tokens of a stage grow.                                             *)
LEMMA TokensGrow ==
  \A t \in TokensType : \A n \in Nat :
    /\ [t EXCEPT !["research"] = @ + n] \in TokensType
    /\ [t EXCEPT !["research"] = @ + n].research = t.research + n
    /\ [t EXCEPT !["research"] = @ + n].trader = t.trader
    /\ [t EXCEPT !["trader"] = @ + n] \in TokensType
    /\ [t EXCEPT !["trader"] = @ + n].trader = t.trader + n
    /\ [t EXCEPT !["trader"] = @ + n].research = t.research
<1> SUFFICES ASSUME NEW t \in TokensType, NEW n \in Nat
             PROVE  /\ [t EXCEPT !["research"] = @ + n] \in TokensType
                    /\ [t EXCEPT !["research"] = @ + n].research = t.research + n
                    /\ [t EXCEPT !["research"] = @ + n].trader = t.trader
                    /\ [t EXCEPT !["trader"] = @ + n] \in TokensType
                    /\ [t EXCEPT !["trader"] = @ + n].trader = t.trader + n
                    /\ [t EXCEPT !["trader"] = @ + n].research = t.research
  OBVIOUS
<1>1. t["research"] = t.research /\ t["trader"] = t.trader
  BY DEF TokensType
<1>2. t.research + n \in Nat /\ t.trader + n \in Nat
  BY DEF TokensType
<1> QED
  BY <1>1, <1>2 DEF TokensType

(* A response is paid for: the tokens spent and seen by the hooks grow by  *)
(* it, from less than the budget.                                          *)
LEMMA ReceiveKeeps ==
  ASSUME IInv, NEW n \in ResponseTokens, Receive(n)
  PROVE  /\ Going /\ n \in Nat /\ raised = NoError /\ batch = NoBatch /\ lost = Zero
         /\ UNCHANGED <<circuitVars, cycle, lost>>
         /\ stage.name \in {"research", "trader"}
         /\ With(n) \in StageType /\ With(n).name = stage.name /\ With(n).used = stage.used
         /\ With(n).hooks = stage.hooks + n
         /\ spent' \in TokensType
         /\ stage.name = "research" =>
              spent'.research = spent.research + n /\ spent'.trader = spent.trader
         /\ stage.name = "trader" =>
              spent'.trader = spent.trader + n /\ spent'.research = spent.research
         /\ OverspendBounded'
<1> USE DEF IInv
<1>1. /\ Going /\ n \in Nat /\ at = "requesting"
      /\ UNCHANGED <<circuitVars, cycle, lost>>
      /\ spent' = [spent EXCEPT ![stage.name] = @ + n]
  BY Constants DEF Receive, Going
<1>2. stage.name \in {"research", "trader"}
  BY <1>1, Types DEF FlowInv
<1>3. raised = NoError /\ batch = NoBatch /\ lost = Zero
  BY <1>1 DEF FlowInv, RaisedInv
<1>4. stage \in StageType /\ spent \in TokensType
  BY Types DEF TypeOK, TokensType
<1>5. stage.hooks + n \in Nat
  BY <1>1, <1>4 DEF StageType
<1>6. /\ With(n) \in StageType /\ With(n).name = stage.name /\ With(n).used = stage.used
      /\ With(n).hooks = stage.hooks + n
  BY <1>4, <1>5 DEF With, StageType
<1>7. /\ spent' \in TokensType
      /\ stage.name = "research" =>
           spent'.research = spent.research + n /\ spent'.trader = spent.trader
      /\ stage.name = "trader" =>
           spent'.trader = spent.trader + n /\ spent'.research = spent.research
  <2>1. CASE stage.name = "research"
    <3>1. spent' = [spent EXCEPT !["research"] = @ + n]
      BY <1>1, <2>1
    <3>2. /\ [spent EXCEPT !["research"] = @ + n] \in TokensType
          /\ [spent EXCEPT !["research"] = @ + n].research = spent.research + n
          /\ [spent EXCEPT !["research"] = @ + n].trader = spent.trader
      BY <1>1, <1>4, TokensGrow, Zenon
    <3> QED
      BY <2>1, <3>1, <3>2, Zenon
  <2>2. CASE stage.name = "trader"
    <3>1. spent' = [spent EXCEPT !["trader"] = @ + n]
      BY <1>1, <2>2
    <3>2. /\ [spent EXCEPT !["trader"] = @ + n] \in TokensType
          /\ [spent EXCEPT !["trader"] = @ + n].trader = spent.trader + n
          /\ [spent EXCEPT !["trader"] = @ + n].research = spent.research
      BY <1>1, <1>4, TokensGrow, Zenon
    <3> QED
      BY <2>2, <3>1, <3>2, Zenon
  <2> QED
    BY <1>2, <2>1, <2>2
<1>8. OverspendBounded'
  <2>1. spent.research + spent.trader < MaxTokens
    BY <1>1 DEF RequestInv, Total
  <2>2. spent'.research + spent'.trader < MaxTokens + n
    BY <1>1, <1>2, <1>4, <1>7, <2>1, Constants DEF TokensType
  <2>3. spent'.research + spent'.trader \in Nat
    BY <1>7 DEF TokensType
  <2>4. \A m \in ResponseTokens : n <= m => spent'.research + spent'.trader < MaxTokens + m
    BY <1>1, <2>2, <2>3, Constants
  <2> QED
    BY <2>4 DEF OverspendBounded, Total
<1> QED
  BY <1>1, <1>2, <1>3, <1>6, <1>7, <1>8

(* A response that asks for another turn, or one that is not understood.   *)
LEMMA TurnsKeep ==
  ASSUME IInv, NEW n \in ResponseTokens, Continue(n) \/ Malformed(n)
  PROVE  IInv'
<1> USE DEF IInv
<1>0. Receive(n)
  BY DEF Continue, Malformed
<1>1. /\ Going /\ n \in Nat /\ raised = NoError /\ batch = NoBatch /\ lost = Zero
      /\ UNCHANGED <<circuitVars, cycle, lost>>
      /\ stage.name \in {"research", "trader"}
      /\ With(n) \in StageType /\ With(n).name = stage.name /\ With(n).used = stage.used
      /\ With(n).hooks = stage.hooks + n
      /\ spent' \in TokensType
      /\ stage.name = "research" =>
           spent'.research = spent.research + n /\ spent'.trader = spent.trader
      /\ stage.name = "trader" =>
           spent'.trader = spent.trader + n /\ spent'.research = spent.research
      /\ OverspendBounded'
  BY <1>0, ReceiveKeeps
<1>2. /\ call \in CallType /\ stage \in StageType /\ usage \in UsageType
      /\ lost \in TokensType /\ (stage.name = "research" => ~usage.researched)
      /\ spent \in TokensType
  BY <1>1, Types DEF TypeOK, UsageType, TokensType, FlowInv
<1>3. CASE Continue(n)
  <2>1. /\ stage' = With(n) /\ UNCHANGED <<call, raised, usage, batch>>
        /\ at' \in {"prompting", "calling", "listing"}
        /\ at' = "listing" => stage.name = "trader"
    BY <1>1, <1>3 DEF Continue
  <2>2. /\ usage.research \in Nat /\ stage.used \in Nat /\ stage.hooks \in Nat
        /\ spent.research \in Nat /\ spent.trader \in Nat
        /\ lost.research \in Nat /\ lost.trader \in Nat
    BY Types
  <2>3. stage.name = "research" => UsageInv'
    BY <1>1, <1>2, <2>1, <2>2 DEF UsageInv, Prior
  <2>4. stage.name = "trader" => UsageInv'
    BY <1>1, <1>2, <2>1, <2>2 DEF UsageInv, Prior
  <2>5. UsageInv'
    BY <1>1, <2>3, <2>4
  <2> QED
    BY <1>1, <1>2, <2>1, <2>5, StageMoves
<1>4. CASE Malformed(n)
  <2>1. Repair(With(n)) /\ UNCHANGED <<call, batch>>
    BY <1>4 DEF Malformed
  <2>2. /\ usage' = [usage EXCEPT !.last = Prior + With(n).used + With(n).hooks]
        /\ stage' \in StageType /\ stage'.name = With(n).name
        /\ stage'.used = With(n).used + With(n).hooks /\ stage'.hooks = 0
        /\ \/ at' = "preparing" /\ UNCHANGED raised
           \/ at' = "closing" /\ raised' = {}
    BY <1>1, <2>1, RepairKeeps
  <2>3. /\ Prior \in Nat /\ Prior + stage.used + (stage.hooks + n) \in Nat
        /\ stage.used \in Nat /\ stage.hooks \in Nat
    BY <1>1, Types DEF Prior
  <2>4. /\ usage' \in UsageType /\ usage'.last = Prior + stage.used + (stage.hooks + n)
        /\ usage'.research = usage.research /\ usage'.researched = usage.researched
    BY <1>1, <1>2, <2>2, <2>3 DEF UsageType
  <2>5. UsageInv'
    BY <1>1, <1>2, <2>2, <2>3, <2>4, Types DEF UsageInv, Prior
  <2> QED
    BY <1>1, <1>2, <2>1, <2>2, <2>4, <2>5, StageMoves
<1> QED
  BY <1>3, <1>4

(* The research output is final: the trader stage begins with its tokens.  *)
LEMMA ResearchKeeps ==
  ASSUME IInv, NEW n \in ResponseTokens, Research(n)
  PROVE  IInv'
<1> USE DEF IInv
<1>1. /\ Going /\ n \in Nat /\ raised = NoError /\ batch = NoBatch /\ lost = Zero
      /\ UNCHANGED <<circuitVars, cycle, lost>>
      /\ With(n) \in StageType /\ With(n).name = stage.name /\ With(n).used = stage.used
      /\ With(n).hooks = stage.hooks + n
      /\ spent' \in TokensType
      /\ stage.name = "research" =>
           spent'.research = spent.research + n /\ spent'.trader = spent.trader
      /\ OverspendBounded'
  BY ReceiveKeeps DEF Research
<1>2. /\ call \in CallType /\ stage \in StageType /\ lost \in TokensType /\ stage.name = "research"
      /\ spent \in TokensType
  BY Types DEF TypeOK, TokensType, Research
<1>3. PICK s : s = Ended(With(n))
  OBVIOUS
<1>4. /\ s \in StageType /\ s.name = "research" /\ s.used = stage.used + (stage.hooks + n)
      /\ s.hooks = 0
  BY <1>1, <1>2, <1>3, EndedKeeps
<1>5. /\ usage' = [last |-> s.used, research |-> s.used, researched |-> TRUE]
      /\ UNCHANGED batch
      /\ \/ stage' = s /\ at' = "closing" /\ raised' = {} /\ UNCHANGED call
         \/ /\ stage' = [NoStage EXCEPT !.name = "trader"]
            /\ call' = NoCall /\ at' = "preparing" /\ UNCHANGED raised
  BY <1>3 DEF Research, Throw
<1>6. /\ usage' \in UsageType /\ usage'.last = s.used /\ usage'.research = s.used
      /\ usage'.researched = TRUE
  BY <1>4, <1>5 DEF UsageType, StageType
<1>7. s.used \in Nat /\ spent'.research = lost.research + s.used /\ spent'.trader = 0 /\ lost.trader = 0
      /\ lost.research \in Nat
  BY <1>1, <1>2, <1>4 DEF UsageInv, StageType, TokensType
<1>8. CASE stage' = s /\ at' = "closing" /\ raised' = {} /\ UNCHANGED call
  <2>1. UsageInv'
    BY <1>1, <1>4, <1>6, <1>7, <1>8 DEF UsageInv, Prior
  <2> QED
    BY <1>1, <1>2, <1>4, <1>5, <1>6, <1>8, <2>1, StageMoves
<1>9. CASE /\ stage' = [NoStage EXCEPT !.name = "trader"]
           /\ call' = NoCall /\ at' = "preparing" /\ UNCHANGED raised
  <2>1. /\ stage' \in StageType /\ stage'.name = "trader" /\ stage'.used = 0 /\ stage'.hooks = 0
        /\ call' \in CallType
    BY <1>9, InitialValues
  <2>2. UsageInv'
    BY <1>1, <1>6, <1>7, <2>1 DEF UsageInv, Prior
  <2> QED
    BY <1>1, <1>2, <1>5, <1>6, <1>9, <2>1, <2>2, StageMoves
<1> QED
  BY <1>5, <1>8, <1>9

(* An HTTP 400: what the hooks saw of the attempt is lost.                 *)
LEMMA BadRequestKeeps ==
  ASSUME IInv, BadRequest
  PROVE  IInv'
<1> USE DEF IInv
<1>1. /\ at = "requesting" /\ Going /\ at' = "closing" /\ raised' = {}
      /\ UNCHANGED <<circuitVars, call, batch, cycle, spent>>
      /\ usage' = [usage EXCEPT !.last = Prior + stage.used]
      /\ stage' = [stage EXCEPT !.hooks = 0]
      /\ lost' = [lost EXCEPT ![stage.name] = @ + stage.hooks]
  BY DEF BadRequest, Throw, Going
<1>2. /\ call \in CallType /\ stage \in StageType /\ usage \in UsageType
      /\ spent \in TokensType /\ lost \in TokensType /\ lost = Zero
      /\ stage.name \in {"research", "trader"} /\ (stage.name = "research" => ~usage.researched)
  BY <1>1, Types DEF TypeOK, UsageType, TokensType, FlowInv, RaisedInv
<1>3. /\ stage.used \in Nat /\ stage.hooks \in Nat /\ Prior + stage.used \in Nat
      /\ usage.research \in Nat
  BY Types DEF Prior
<1>4. /\ stage' \in StageType /\ stage'.name = stage.name /\ stage'.used = stage.used
      /\ stage'.hooks = 0
  BY <1>1, <1>2 DEF StageType
<1>5. /\ usage' \in UsageType /\ usage'.last = Prior + stage.used
      /\ usage'.research = usage.research /\ usage'.researched = usage.researched
  BY <1>1, <1>2, <1>3 DEF UsageType
<1>6. /\ lost' \in TokensType
      /\ stage.name = "research" =>
           lost'.research = lost.research + stage.hooks /\ lost'.trader = lost.trader
      /\ stage.name = "trader" =>
           lost'.trader = lost.trader + stage.hooks /\ lost'.research = lost.research
  <2>1. CASE stage.name = "research"
    <3>1. lost' = [lost EXCEPT !["research"] = @ + stage.hooks]
      BY <1>1, <2>1
    <3>2. /\ [lost EXCEPT !["research"] = @ + stage.hooks] \in TokensType
          /\ [lost EXCEPT !["research"] = @ + stage.hooks].research = lost.research + stage.hooks
          /\ [lost EXCEPT !["research"] = @ + stage.hooks].trader = lost.trader
      BY <1>2, <1>3, TokensGrow, Zenon
    <3> QED
      BY <2>1, <3>1, <3>2, Zenon
  <2>2. CASE stage.name = "trader"
    <3>1. lost' = [lost EXCEPT !["trader"] = @ + stage.hooks]
      BY <1>1, <2>2
    <3>2. /\ [lost EXCEPT !["trader"] = @ + stage.hooks] \in TokensType
          /\ [lost EXCEPT !["trader"] = @ + stage.hooks].trader = lost.trader + stage.hooks
          /\ [lost EXCEPT !["trader"] = @ + stage.hooks].research = lost.research
      BY <1>2, <1>3, TokensGrow, Zenon
    <3> QED
      BY <2>2, <3>1, <3>2, Zenon
  <2> QED
    BY <1>2, <2>1, <2>2
<1>7. UsageInv'
  BY <1>1, <1>2, <1>3, <1>4, <1>5, <1>6 DEF UsageInv, Prior, TokensType
<1>8. OverspendBounded'
  BY <1>1 DEF OverspendBounded, Total
<1> QED
  BY <1>1, <1>2, <1>4, <1>5, <1>6, <1>7, <1>8, StageMoves

(* The recommendation is final: it reaches the pipeline with what was      *)
(* spent within the budget, because nothing was lost on the way to it.     *)
LEMMA RecommendKeeps ==
  ASSUME IInv, NEW n \in ResponseTokens, Recommend(n)
  PROVE  IInv'
<1> USE DEF IInv
<1>1. /\ Going /\ n \in Nat /\ raised = NoError /\ batch = NoBatch /\ lost = Zero
      /\ UNCHANGED <<circuitVars, cycle, lost>>
      /\ With(n) \in StageType /\ With(n).name = stage.name /\ With(n).used = stage.used
      /\ With(n).hooks = stage.hooks + n
      /\ spent' \in TokensType
      /\ stage.name = "trader" =>
           spent'.trader = spent.trader + n /\ spent'.research = spent.research
      /\ OverspendBounded'
  BY ReceiveKeeps DEF Recommend
<1>2. /\ call \in CallType /\ stage \in StageType /\ usage \in UsageType /\ lost \in TokensType
      /\ spent \in TokensType /\ stage.name = "trader" /\ at # "idle"
  <2>1. at # "idle"
    BY <1>1 DEF Going
  <2> QED
    BY <1>1, <2>1, Types DEF TypeOK, UsageType, TokensType, Recommend, RaisedInv
<1>3. PICK s, total : s = Ended(With(n)) /\ total = usage.research + s.used
  OBVIOUS
<1>4. /\ s \in StageType /\ s.name = "trader" /\ s.used = stage.used + (stage.hooks + n)
      /\ s.hooks = 0
  BY <1>1, <1>2, <1>3, EndedKeeps
<1>5. /\ stage' = s /\ usage' = [usage EXCEPT !.last = total] /\ UNCHANGED call
      /\ \/ at' = "closing" /\ raised' = {} /\ UNCHANGED batch
         \/ /\ ~OverBudget(total, CycleCost(total))
            /\ at' = "processing" /\ UNCHANGED raised
            /\ \/ \E k \in 0..MaxProposals : batch' = [NoBatch EXCEPT !.left = k]
               \/ batch' = [NoBatch EXCEPT !.hard = TRUE]
  BY <1>3 DEF Recommend, Throw
<1>6. /\ stage.used \in Nat /\ stage.hooks \in Nat /\ usage.research \in Nat /\ total \in Nat
      /\ s.used \in Nat
  BY <1>1, <1>3, <1>4, Types
<1>7. /\ usage' \in UsageType /\ usage'.last = total /\ usage'.research = usage.research
      /\ usage'.researched = usage.researched
  BY <1>2, <1>5, <1>6 DEF UsageType
<1>8. /\ usage.researched /\ spent'.research = lost.research + usage.research
      /\ spent'.trader = lost.trader + s.used
  BY <1>1, <1>2, <1>4, <1>6 DEF UsageInv, TokensType
<1>9. UsageInv'
  BY <1>1, <1>2, <1>3, <1>4, <1>5, <1>6, <1>7, <1>8 DEF UsageInv, Prior, TokensType
<1>10. CASE at' = "closing" /\ raised' = {} /\ UNCHANGED batch
  BY <1>1, <1>2, <1>4, <1>5, <1>7, <1>9, <1>10, StageMoves
<1>11. CASE /\ ~OverBudget(total, CycleCost(total))
            /\ at' = "processing" /\ UNCHANGED raised
            /\ \/ \E k \in 0..MaxProposals : batch' = [NoBatch EXCEPT !.left = k]
               \/ batch' = [NoBatch EXCEPT !.hard = TRUE]
  <2>1. /\ batch' \in [left : 0..MaxProposals, processed : 0..MaxProposals,
                       executed : 0..MaxProposals, hard : BOOLEAN]
        /\ batch'.processed = 0 /\ batch'.executed = 0 /\ batch'.left <= MaxProposals
    <3>1. PICK x : x = NoBatch
      OBVIOUS
    <3>2. /\ x \in [left : 0..MaxProposals, processed : 0..MaxProposals,
                    executed : 0..MaxProposals, hard : BOOLEAN]
          /\ x.left = 0 /\ x.processed = 0 /\ x.executed = 0
      BY <3>1, StageBegins
    <3>3. ASSUME NEW k \in 0..MaxProposals, batch' = [x EXCEPT !.left = k]
          PROVE  /\ batch' \in [left : 0..MaxProposals, processed : 0..MaxProposals,
                              executed : 0..MaxProposals, hard : BOOLEAN]
                 /\ batch'.processed = 0 /\ batch'.executed = 0 /\ batch'.left <= MaxProposals
      BY <3>2, <3>3, Constants
    <3>4. ASSUME batch' = [x EXCEPT !.hard = TRUE]
          PROVE  /\ batch' \in [left : 0..MaxProposals, processed : 0..MaxProposals,
                              executed : 0..MaxProposals, hard : BOOLEAN]
                 /\ batch'.processed = 0 /\ batch'.executed = 0 /\ batch'.left <= MaxProposals
      <4>1. PICK h \in BOOLEAN : h = TRUE
        OBVIOUS
      <4>2. batch' = [x EXCEPT !.hard = h]
        BY <3>4, <4>1, Zenon
      <4>3. /\ batch' \in [left : 0..MaxProposals, processed : 0..MaxProposals,
                            executed : 0..MaxProposals, hard : BOOLEAN]
            /\ batch'.left = x.left /\ batch'.processed = x.processed /\ batch'.executed = x.executed
        BY <3>2, <4>2
      <4> QED
        BY <3>2, <4>3, Constants
    <3> QED
      BY <1>11, <3>1, <3>3, <3>4
  <2>2. CircuitTypeOK' /\ CircuitInv'
    BY <1>1, ClientKeeps DEF circuitVars
  <2>3. TypeOK'
    BY <1>1, <1>2, <1>4, <1>5, <1>7, <1>11, <2>1, <2>2
    DEF TypeOK, CallType, StageType, UsageType, TokensType, Place
  <2>4. FlowInv'
    BY <1>1, <1>4, <1>5, <1>11 DEF FlowInv, Going
  <2>5. RaisedInv'
    BY <1>1, <1>2, <1>11, <2>1 DEF RaisedInv
  <2>6. BatchInv'
    BY <2>1, Constants DEF BatchInv
  <2>7. RequestInv'
    BY <1>11 DEF RequestInv
  <2>8. spent'.research = usage.research /\ spent'.trader = s.used
    BY <1>1, <1>6, <1>8, StageBegins
  <2>9. CycleCost(total) = usage.research * ResearchRate + s.used * TraderRate
    <3>1. Above(total, usage.research) = s.used
      BY <1>3, <1>6 DEF Above
    <3> QED
      BY <1>8, <3>1 DEF CycleCost
  <2>10. ~(total > MaxTokens) /\ ~(CycleCost(total) > MaxSpend)
    BY <1>11 DEF OverBudget
  <2>11. spent'.research + spent'.trader <= MaxTokens
    BY <1>3, <1>6, <2>8, <2>10, Constants
  <2>12. /\ usage.research * ResearchRate \in Nat /\ s.used * TraderRate \in Nat
    BY <1>6, Constants
  <2>13. spent'.research * ResearchRate + spent'.trader * TraderRate <= MaxSpend
    <3>1. PICK a \in Nat, b \in Nat : a = usage.research * ResearchRate /\ b = s.used * TraderRate
      BY <2>12
    <3>2. ~(a + b > MaxSpend)
      BY <2>9, <2>10, <3>1
    <3>3. a + b <= MaxSpend
      BY <3>1, <3>2, Constants
    <3> QED
      BY <2>8, <3>1, <3>3
  <2>14. PipelineIsWithinBudget'
    BY <2>11, <2>13 DEF PipelineIsWithinBudget, Total, Price
  <2> QED
    BY <1>1, <1>2, <1>9, <2>2, <2>3, <2>4, <2>5, <2>6, <2>7, <2>14, StageKeeps
<1> QED
  BY <1>5, <1>10, <1>11

(* A proposal is processed, executed or left out.                          *)
LEMMA ProposalsKeep ==
  ASSUME IInv, NEW b \in BOOLEAN, Process(b) \/ Skip(b)
  PROVE  IInv'
<1> USE DEF IInv
<1>0. PICK x : x = batch
  OBVIOUS
<1>1. /\ at = "processing" /\ x.left > 0
      /\ UNCHANGED <<circuitVars, at, call, raised, stage, usage, cycle, spent, lost>>
      /\ x \in [left : 0..MaxProposals, processed : 0..MaxProposals,
                executed : 0..MaxProposals, hard : BOOLEAN]
      /\ x.executed <= x.processed /\ x.left + x.processed <= MaxProposals
  BY <1>0 DEF Process, Skip, TypeOK, BatchInv
<1>2. MaxProposals \in Nat
  BY Constants
<1>3. /\ batch' \in [left : 0..MaxProposals, processed : 0..MaxProposals,
                     executed : 0..MaxProposals, hard : BOOLEAN]
      /\ batch'.executed <= batch'.processed /\ batch'.left + batch'.processed <= MaxProposals
  <2>1. x.left - 1 \in 0..MaxProposals
    BY <1>1, <1>2
  <2>2. CASE Process(b)
    <3>1. PICK e : e = IF b THEN x.executed + 1 ELSE x.executed
      OBVIOUS
    <3>2. x.processed + 1 \in 0..MaxProposals /\ e \in 0..MaxProposals /\ e <= x.processed + 1
      BY <1>1, <1>2, <3>1
    <3>3. batch' = [x EXCEPT !.left = x.left - 1, !.processed = x.processed + 1, !.executed = e]
      BY <1>0, <2>2, <3>1 DEF Process
    <3>4. /\ batch' \in [left : 0..MaxProposals, processed : 0..MaxProposals,
                         executed : 0..MaxProposals, hard : BOOLEAN]
          /\ batch'.left = x.left - 1 /\ batch'.processed = x.processed + 1 /\ batch'.executed = e
      BY <1>1, <2>1, <3>2, <3>3
    <3> QED
      BY <1>1, <1>2, <3>2, <3>4
  <2>3. CASE Skip(b)
    <3>1. PICK h \in BOOLEAN : h = (x.hard \/ ~b)
      OBVIOUS
    <3>2. batch' = [x EXCEPT !.left = x.left - 1, !.hard = h]
      BY <1>0, <2>3, <3>1 DEF Skip
    <3>3. /\ batch' \in [left : 0..MaxProposals, processed : 0..MaxProposals,
                         executed : 0..MaxProposals, hard : BOOLEAN]
          /\ batch'.left = x.left - 1 /\ batch'.processed = x.processed
          /\ batch'.executed = x.executed
      BY <1>1, <2>1, <3>2
    <3> QED
      BY <1>1, <1>2, <3>3
  <2> QED
    BY <2>2, <2>3
<1>4. CircuitTypeOK' /\ CircuitInv'
  BY <1>1, ClientKeeps DEF circuitVars
<1>5. TypeOK'
  BY <1>1, <1>3, <1>4 DEF TypeOK
<1>6. FlowInv' /\ RequestInv' /\ UsageInv'
  BY <1>1 DEF FlowInv, RequestInv, UsageInv, Going, Prior
<1>7. RaisedInv' /\ BatchInv'
  BY <1>1, <1>3 DEF RaisedInv, BatchInv, FlowInv
<1>8. OverspendBounded' /\ PipelineIsWithinBudget'
  BY <1>1 DEF OverspendBounded, PipelineIsWithinBudget, Total, Price
<1> QED
  BY <1>1, <1>4, <1>5, <1>6, <1>7, <1>8, StageKeeps

-----------------------------------------------------------------------------
(* The end and the start of a cycle                                        *)

(* Prices are linear.                                                      *)
LEMMA Prices ==
  \A a, b, c \in Nat : a * c \in Nat /\ (a + b) * c = a * c + b * c /\ 0 * c = 0
OBVIOUS

(* What a closing row accounts for is what was spent and not lost, at the  *)
(* price of its stage.                                                     *)
LEMMA Books ==
  ASSUME TypeOK, UsageInv
  PROVE  /\ FailureUsage \in Nat /\ CycleCost(FailureUsage) \in Nat
         /\ FailureUsage = Total(spent) - Total(lost)
         /\ CycleCost(FailureUsage) = Price(spent) - Price(lost)
<1>0. PICK sr \in Nat, st \in Nat, lr \in Nat, lt \in Nat, u \in Nat, h \in Nat, r \in Nat :
        /\ sr = spent.research /\ st = spent.trader /\ lr = lost.research /\ lt = lost.trader
        /\ u = stage.used /\ h = stage.hooks /\ r = usage.research
  BY Types
<1>1. PICK R \in Nat, T \in Nat : R = ResearchRate /\ T = TraderRate
  BY Constants
<1>2. /\ Total(spent) = sr + st /\ Total(lost) = lr + lt
      /\ Price(spent) = sr * R + st * T /\ Price(lost) = lr * R + lt * T
  BY <1>0, <1>1 DEF Total, Price
<1>3. stage.name \in {"none", "research", "trader"} /\ usage.researched \in BOOLEAN
  BY Types
<1>4. CASE stage.name = "none"
  <2>1. /\ FailureUsage = 0 /\ ~usage.researched /\ sr = 0 /\ st = 0 /\ lr = 0 /\ lt = 0
    BY <1>0, <1>4, StageBegins DEF UsageInv, FailureUsage
  <2>2. CycleCost(FailureUsage) = 0 * T
    BY <1>1, <1>4, <2>1 DEF CycleCost, Rate
  <2> QED
    BY <1>1, <1>2, <2>1, <2>2, Prices
<1>5. CASE stage.name = "research" /\ ~usage.researched
  <2>1. /\ FailureUsage = u + h /\ sr = lr + (u + h) /\ st = 0 /\ lt = 0
    BY <1>0, <1>5 DEF UsageInv, FailureUsage, Prior
  <2>2. CycleCost(FailureUsage) = (u + h) * R
    BY <1>1, <1>5, <2>1 DEF CycleCost, Rate
  <2>3. sr * R = lr * R + (u + h) * R /\ lr * R \in Nat /\ (u + h) * R \in Nat /\ 0 * T = 0
    BY <2>1, Prices
  <2> QED
    BY <1>2, <2>1, <2>2, <2>3
<1>6. CASE stage.name = "research" /\ usage.researched
  <2>1. /\ FailureUsage = r /\ sr = lr + r /\ st = 0 /\ lt = 0
    BY <1>0, <1>6 DEF UsageInv, FailureUsage, Prior
  <2>2. CycleCost(FailureUsage) = r * R + 0 * T
    BY <1>0, <1>1, <1>6, <2>1 DEF CycleCost, Above
  <2>3. sr * R = lr * R + r * R /\ lr * R \in Nat /\ r * R \in Nat /\ 0 * T = 0
    BY <2>1, Prices
  <2> QED
    BY <1>2, <2>1, <2>2, <2>3
<1>7. CASE stage.name = "trader"
  <2>1. /\ FailureUsage = r + (u + h) /\ sr = lr + r /\ st = lt + (u + h) /\ usage.researched
    BY <1>0, <1>7 DEF UsageInv, FailureUsage, Prior
  <2>2. Above(r + (u + h), r) = u + h
    BY DEF Above
  <2>3. CycleCost(FailureUsage) = r * R + (u + h) * T
    BY <1>0, <1>1, <2>1, <2>2 DEF CycleCost
  <2>4. /\ sr * R = lr * R + r * R /\ lr * R \in Nat /\ r * R \in Nat
        /\ st * T = lt * T + (u + h) * T /\ lt * T \in Nat /\ (u + h) * T \in Nat
    BY <2>1, Prices
  <2> QED
    BY <1>2, <2>1, <2>3, <2>4
<1> QED
  BY <1>3, <1>4, <1>5, <1>6, <1>7

(* The row that FinishCycle writes.                                        *)
LEMMA ClosingKeeps ==
  ASSUME IInv, UNCHANGED <<circuitVars, stage, usage, batch, spent, lost, raised>>,
         NEW status \in {"succeeded", "failed", "interrupted"}, NEW linked \in 0..MaxProposals,
         FinishCycle(status, FailureUsage, linked)
  PROVE  IInv'
<1> USE DEF IInv
<1>1. /\ FailureUsage \in Nat /\ CycleCost(FailureUsage) \in Nat
      /\ FailureUsage = Total(spent) - Total(lost)
      /\ CycleCost(FailureUsage) = Price(spent) - Price(lost)
  BY Books
<1>2. /\ cycle' = [status |-> status, tokens |-> FailureUsage, cost |-> CycleCost(FailureUsage),
                   linked |-> linked]
      /\ at' = "idle" /\ call' = NoCall
  BY DEF FinishCycle
<1>3. /\ cycle'.status = status /\ cycle'.tokens = FailureUsage
      /\ cycle'.cost = CycleCost(FailureUsage) /\ cycle'.linked = linked
      /\ cycle' \in [status : {"none", "running", "succeeded", "failed", "interrupted"},
                     tokens : Nat, cost : Nat, linked : 0..MaxProposals]
  BY <1>1, <1>2
<1>4. CircuitTypeOK' /\ CircuitInv'
  BY ClientKeeps DEF circuitVars
<1>5. TypeOK'
  BY <1>2, <1>3, <1>4, InitialValues DEF TypeOK, CallType, Place
<1>6. FlowInv' /\ RaisedInv' /\ RequestInv'
  BY <1>2, <1>3 DEF FlowInv, RaisedInv, RequestInv, Going
<1>7. UsageInv' /\ BatchInv' /\ OverspendBounded'
  BY DEF UsageInv, Prior, BatchInv, OverspendBounded, Total
<1>8. PipelineIsWithinBudget'
  BY <1>2 DEF PipelineIsWithinBudget, Total, Price
<1>9. UsageIsAccounted'
  <2>1. UNCHANGED <<Total(spent), Total(lost), Price(spent), Price(lost)>>
    BY DEF Total, Price
  <2> QED
    BY <1>1, <1>3, <2>1 DEF UsageIsAccounted
<1> QED
  BY <1>4, <1>5, <1>6, <1>7, <1>8, <1>9

(* A cycle succeeds, fails or is interrupted.                              *)
LEMMA EndsKeep ==
  ASSUME IInv, Succeed \/ Fail \/ Interrupt
  PROVE  IInv'
<1> USE DEF IInv
<1>1. /\ batch.processed \in 0..MaxProposals /\ usage.last \in Nat /\ 0 \in 0..MaxProposals
  BY Types, Constants DEF TypeOK
<1>2. CASE Succeed
  <2>1. /\ at = "closing" /\ raised = NoError /\ FinishCycle("succeeded", usage.last, batch.processed)
        /\ UNCHANGED <<circuitVars, raised, stage, usage, batch, spent, lost>>
    BY <1>2 DEF Succeed, Linked
  <2>2. FailureUsage = usage.last
    BY <1>1, <2>1 DEF FlowInv, FailureUsage
  <2> QED
    BY <1>1, <2>1, <2>2, ClosingKeeps
<1>3. CASE Fail
  BY <1>1, <1>3, ClosingKeeps DEF Fail
<1>4. CASE Interrupt
  BY <1>1, <1>4, ClosingKeeps DEF Interrupt
<1> QED
  BY <1>2, <1>3, <1>4

(* A cycle starts with everything reset, whatever the last one left.       *)
LEMMA StartKeeps ==
  ASSUME IInv, Start
  PROVE  IInv'
<1> USE DEF IInv
<1>1. /\ at' = "dialing" /\ call' = NoCall /\ raised' = NoError
      /\ stage' = NoStage /\ usage' = NoUsage /\ batch' = NoBatch
      /\ cycle' = Running /\ spent' = Zero /\ lost' = Zero
      /\ UNCHANGED circuitVars
  BY DEF Start
<1>2. Running = [status |-> "running", tokens |-> 0, cost |-> 0, linked |-> 0]
  BY DEF Running, NeverRun
<1>3. /\ cycle'.status = "running"
      /\ cycle' \in [status : {"none", "running", "succeeded", "failed", "interrupted"},
                     tokens : Nat, cost : Nat, linked : 0..MaxProposals]
  BY <1>1, <1>2, Constants
<1>4. CircuitTypeOK' /\ CircuitInv'
  BY <1>1, ClientKeeps DEF circuitVars
<1>5. TypeOK'
  BY <1>1, <1>3, <1>4, InitialValues, StageBegins DEF TypeOK, CallType, StageType, Place
<1>6. FlowInv' /\ RaisedInv' /\ RequestInv'
  BY <1>1, <1>3, StageBegins DEF FlowInv, RaisedInv, RequestInv, Going
<1>7. UsageInv' /\ BatchInv' /\ PipelineIsWithinBudget'
  BY <1>1, StageBegins, Constants DEF UsageInv, Prior, BatchInv, PipelineIsWithinBudget
<1>8. OverspendBounded'
  BY <1>1, StageBegins, Constants DEF OverspendBounded, Total
<1>9. UsageIsAccounted'
  BY <1>3 DEF UsageIsAccounted, Closed
<1> QED
  BY <1>4, <1>5, <1>6, <1>7, <1>8, <1>9

-----------------------------------------------------------------------------
(* The environment                                                         *)

(* Other processes, outages and the reset time keep the circuits.          *)
LEMMA EnvironmentKeeps ==
  ASSUME IInv, (\E s \in Service : ResetPasses(s)) \/ (Others /\ UNCHANGED cycleVars)
  PROVE  IInv'
<1> USE DEF IInv
<1>1. UNCHANGED cycleVars
  BY DEF ResetPasses
<1>2. health \in [Service -> Row] /\ CircuitInv /\ up \in BOOLEAN
      /\ reading \in [Outsider -> Reading \cup {NoRead}]
  BY DEF TypeOK, CircuitTypeOK
<1>3. CircuitTypeOK' /\ CircuitInv'
  <2>1. ASSUME NEW s \in Service, Expire(s)
        PROVE  CircuitTypeOK' /\ CircuitInv'
    <3>1. health' = [health EXCEPT ![s].circuit = "expired"] /\ UNCHANGED <<reading, up>>
      BY <2>1 DEF Expire
    <3>2. 0 \in 0..MaxFailures
      BY Constants
    <3>3. health' \in [Service -> Row] /\ CircuitInv'
      BY <1>2, <3>1, <3>2, CircuitKeeps
    <3> QED
      BY <1>2, <3>1, <3>3 DEF CircuitTypeOK
  <2>2. ASSUME NEW o \in Outsider, OutsiderWrites(o)
        PROVE  CircuitTypeOK' /\ CircuitInv'
    <3>1. reading[o] \in Reading
      BY <1>2, <2>2 DEF OutsiderWrites
    <3>2. PICK s \in Service, c \in 0..MaxFailures : s = reading[o].on /\ c = reading[o].read
      BY <3>1 DEF Reading
    <3>3. /\ MarkFailed(s, c) /\ UNCHANGED up
          /\ reading' \in {[reading EXCEPT ![o] = NoRead], [reading EXCEPT ![o] = Raised(s)]}
      BY <2>2, <3>2 DEF OutsiderWrites
    <3>4. health' \in [Service -> Row] /\ CircuitInv'
      BY <1>2, <3>3, CircuitKeeps
    <3>5. Raised(s) \in Reading
      BY Constants DEF Raised, Reading
    <3> QED
      BY <1>2, <3>3, <3>4, <3>5 DEF CircuitTypeOK
  <2>3. ASSUME NEW o \in Outsider, NEW s \in Service, OutsiderSucceeds(o, s)
        PROVE  CircuitTypeOK' /\ CircuitInv'
    <3>1. MarkSuccess(s) /\ UNCHANGED <<reading, up>>
      BY <2>3 DEF OutsiderSucceeds
    <3>2. 0 \in 0..MaxFailures
      BY Constants
    <3>3. health' \in [Service -> Row] /\ CircuitInv'
      BY <1>2, <3>1, <3>2, CircuitKeeps
    <3> QED
      BY <1>2, <3>1, <3>3 DEF CircuitTypeOK
  <2>4. ASSUME NEW o \in Outsider, NEW s \in Service,
               OutsiderFails(o, s) \/ OutsiderRefused(o, s)
               \/ (OutsiderBlames(o) /\ s = reading[o].on)
        PROVE  CircuitTypeOK' /\ CircuitInv'
    <3>1. health[s].failures \in 0..MaxFailures /\ 0 \in 0..MaxFailures
      BY <1>2, Constants DEF Row
    <3>2. /\ Raised(s) \in Reading /\ Marks("marking", s) \in Reading
          /\ Marks("blaming", s) \in Reading
      BY <3>1 DEF Raised, Marks, Reading
    <3>3. /\ UNCHANGED <<health, up>>
          /\ \E r \in Reading : reading' = [reading EXCEPT ![o] = r]
      BY <2>4, <3>2 DEF OutsiderFails, OutsiderRefused, OutsiderBlames
    <3> QED
      BY <1>2, <3>3 DEF CircuitTypeOK, CircuitInv, IsOpen
  <2>6. ASSUME NEW o \in Outsider, OutsiderBlames(o)
        PROVE  \E s \in Service : s = reading[o].on
    <3>1. reading[o] \in Reading
      BY <1>2, <2>6 DEF OutsiderBlames
    <3> QED
      BY <3>1 DEF Reading
  <2>5. CASE Outage
    BY <1>2, <2>5 DEF Outage, CircuitTypeOK, CircuitInv, IsOpen
  <2> QED
    BY <2>1, <2>2, <2>3, <2>4, <2>5, <2>6 DEF Others, ResetPasses
<1>4. TypeOK'
  BY <1>1, <1>3 DEF TypeOK, cycleVars
<1>5. FlowInv' /\ RaisedInv' /\ RequestInv' /\ UsageInv' /\ BatchInv'
  BY <1>1 DEF FlowInv, RaisedInv, RequestInv, UsageInv, BatchInv, Going, Prior, AttemptsLeft, Total,
              cycleVars
<1>6. OverspendBounded' /\ PipelineIsWithinBudget' /\ UsageIsAccounted'
  BY <1>1 DEF OverspendBounded, PipelineIsWithinBudget, UsageIsAccounted, Closed,
              Total, Price, cycleVars
<1> QED
  BY <1>3, <1>4, <1>5, <1>6

-----------------------------------------------------------------------------
(* The invariant                                                           *)

(* The invariant holds in the initial states.                              *)
LEMMA IInvInit == Init => IInv
<1> SUFFICES ASSUME Init
             PROVE  IInv
  OBVIOUS
<1>1. /\ at = "idle" /\ call = NoCall /\ raised = NoError
      /\ stage = NoStage /\ usage = NoUsage /\ batch = NoBatch
      /\ cycle = NeverRun /\ spent = Zero /\ lost = Zero
  BY DEF Init
<1>2. /\ cycle.status = "none"
      /\ cycle \in [status : {"none", "running", "succeeded", "failed", "interrupted"},
                    tokens : Nat, cost : Nat, linked : 0..MaxProposals]
  BY <1>1, Constants DEF NeverRun
<1>3. CircuitTypeOK /\ CircuitInv
  <2>1. Registered \in Row /\ Registered.circuit = "closed"
    BY Constants DEF Registered, Row
  <2> QED
    BY <2>1 DEF Init, CircuitInit, CircuitTypeOK, CircuitInv, IsOpen
<1>4. TypeOK
  BY <1>1, <1>2, <1>3, InitialValues, StageBegins DEF TypeOK, CallType, StageType, Place
<1>5. FlowInv /\ RaisedInv /\ RequestInv
  BY <1>1, <1>2, StageBegins DEF FlowInv, RaisedInv, RequestInv, Going
<1>6. UsageInv /\ BatchInv /\ PipelineIsWithinBudget
  BY <1>1, StageBegins, Constants DEF UsageInv, Prior, BatchInv, PipelineIsWithinBudget
<1>7. OverspendBounded
  BY <1>1, StageBegins, Constants DEF OverspendBounded, Total
<1>8. UsageIsAccounted
  BY <1>2 DEF UsageIsAccounted, Closed
<1> QED
  BY <1>3, <1>4, <1>5, <1>6, <1>7, <1>8 DEF IInv

(* Every step keeps it.                                                    *)
LEMMA IInvStep == IInv /\ [Next]_vars => IInv'
<1> SUFFICES ASSUME IInv, [Next]_vars
             PROVE  IInv'
  OBVIOUS
<1>1. CASE Start
  BY <1>1, StartKeeps
<1>2. CASE Advance
  <2>1. CASE \/ Refused \/ Dial \/ Redial \/ Connected \/ ReadAccount \/ Call \/ Listed
             \/ CallFails \/ MarkFailure \/ \E s \in Service : Blame(s)
    BY <2>1, ServersKeep
  <2>2. CASE \/ Prepare \/ ModelFails \/ PipelineRaises \/ PipelineEnds \/ Unwound \/ Timeout
    BY <2>2, OthersKeep
  <2>3. CASE Answered
    BY <2>3, AnsweredKeeps
  <2>4. CASE Prompt
    BY <2>4, PromptKeeps
  <2>5. CASE BadRequest
    BY <2>5, BadRequestKeeps
  <2>6. CASE Succeed \/ Fail \/ Interrupt
    BY <2>6, EndsKeep
  <2>7. ASSUME NEW n \in ResponseTokens, Continue(n) \/ Malformed(n) \/ Research(n) \/ Recommend(n)
        PROVE  IInv'
    BY <2>7, TurnsKeep, ResearchKeeps, RecommendKeeps
  <2>8. ASSUME NEW b \in BOOLEAN, Process(b) \/ Skip(b)
        PROVE  IInv'
    BY <2>8, ProposalsKeep
  <2> QED
    BY <1>2, <2>1, <2>2, <2>3, <2>4, <2>5, <2>6, <2>7, <2>8 DEF Advance
<1>3. CASE (\E s \in Service : ResetPasses(s)) \/ (Others /\ UNCHANGED cycleVars)
  BY <1>3, EnvironmentKeeps
<1>4. CASE UNCHANGED vars
  <2>1. /\ UNCHANGED circuitVars
        /\ UNCHANGED <<at, call, raised, stage, usage, batch, cycle, spent, lost>>
    BY <1>4 DEF vars, cycleVars
  <2>2. CircuitTypeOK' /\ CircuitInv'
    BY <2>1, ClientKeeps DEF IInv, circuitVars
  <2>3. TypeOK'
    BY <2>1, <2>2 DEF IInv, TypeOK
  <2>4. FlowInv' /\ RaisedInv' /\ RequestInv' /\ UsageInv' /\ BatchInv'
    BY <2>1 DEF IInv, FlowInv, RaisedInv, RequestInv, UsageInv, BatchInv, Going, Prior, AttemptsLeft,
                Total
  <2>5. OverspendBounded' /\ PipelineIsWithinBudget' /\ UsageIsAccounted'
    BY <2>1 DEF IInv, OverspendBounded, PipelineIsWithinBudget, UsageIsAccounted, Closed, Total, Price
  <2> QED
    BY <2>2, <2>3, <2>4, <2>5 DEF IInv
<1> QED
  BY <1>1, <1>2, <1>3, <1>4 DEF Next

(* It is an invariant of the specification.                                *)
LEMMA Invariance == Spec => []IInv
<1> QED
  BY IInvInit, IInvStep, PTL DEF Spec

(* The rows, the stage, the budgets and the recommendation have their      *)
(* types, whatever the services and the model answer.                      *)
THEOREM TypeIsSound == Spec => []TypeOK
<1>1. IInv => TypeOK
  BY DEF IInv
<1> QED
  BY <1>1, Invariance, PTL

(* The closed row of a cycle accounts for every response once, at the      *)
(* price of its stage, except for the tokens of an attempt that ended in   *)
(* an HTTP 400 (run, _failure_usage and _cycle_cost).                      *)
THEOREM UsageIsAlwaysAccounted == Spec => []UsageIsAccounted
<1>1. IInv => UsageIsAccounted
  BY DEF IInv
<1> QED
  BY <1>1, Invariance, PTL

(* Over both stages and all their repairs a cycle overspends its token     *)
(* budget by less than one response (BudgetHooks and run_agent).           *)
THEOREM OverspendIsBounded == Spec => []OverspendBounded
<1>1. IInv => OverspendBounded
  BY DEF IInv
<1> QED
  BY <1>1, Invariance, PTL

(* No proposal reaches the pipeline in a cycle whose responses exceed its  *)
(* token or its spend budget (the final checks of run_agent).              *)
THEOREM PipelineStaysWithinBudget == Spec => []PipelineIsWithinBudget
<1>1. IInv => PipelineIsWithinBudget
  BY DEF IInv
<1> QED
  BY <1>1, Invariance, PTL

-----------------------------------------------------------------------------
(* Open circuits                                                           *)

(* A write of a failure closes an open circuit only with a stale count.    *)
LEMMA FailureClosesStale ==
  ASSUME health \in [Service -> Row], CircuitInv, NEW s \in Service, IsOpen(s),
         NEW t \in Service, NEW c \in 0..MaxFailures, MarkFailed(t, c),
         health'[s].circuit = "closed"
  PROVE  t = s /\ c < health[s].failures
<1>1. health[s].failures \in 0..MaxFailures /\ health[s].failures >= Threshold
  BY DEF Row, CircuitInv
<1>2. t = s
  BY DEF MarkFailed, IsOpen
<1>3. health'[s] = Failed(c + 1)
  BY <1>2 DEF MarkFailed
<1>4. ~(c + 1 >= Threshold)
  BY <1>3 DEF Failed, Opens
<1> QED
  BY <1>1, <1>2, <1>4, Constants

(* No other step of the trader's client closes it, except for a success.   *)
LEMMA ClientRespectsOpen ==
  ASSUME health \in [Service -> Row], NEW s \in Service, IsOpen(s), NEW t \in Service,
         \/ health' = health \/ MarkStarting(t) \/ MarkSuccess(t)
         \/ health' = [health EXCEPT ![t].circuit = "expired"],
         health'[s].circuit = "closed"
  PROVE  health'[s].state = "healthy"
<1>1. health[s] \in Row /\ health[t] \in Row /\ health[s].circuit = "open"
  BY DEF IsOpen
<1>2. CASE health' = health
  BY <1>1, <1>2
<1>3. CASE MarkStarting(t)
  <2>1. health'[s].circuit = health[s].circuit
    BY <1>1, <1>3 DEF MarkStarting, Started, Row
  <2> QED
    BY <1>1, <2>1
<1>4. CASE MarkSuccess(t)
  <2>1. t = s
    BY <1>1, <1>4 DEF MarkSuccess
  <2> QED
    BY <1>4, <2>1 DEF MarkSuccess, Succeeded
<1>5. CASE health' = [health EXCEPT ![t].circuit = "expired"]
  <2>1. health'[s].circuit \in {"open", "expired"}
    BY <1>1, <1>5 DEF Row
  <2> QED
    BY <2>1
<1> QED
  BY <1>2, <1>3, <1>4, <1>5

(* What each step does to the rows of the circuits.                        *)
LEMMA HealthSteps ==
  ASSUME TypeOK, [Next]_vars
  PROVE  \/ health' = health
         \/ \E t \in Service : MarkStarting(t) \/ MarkSuccess(t)
         \/ \E t \in Service : health' = [health EXCEPT ![t].circuit = "expired"]
         \/ at = "marking" /\ MarkFailed(call.on, call.read)
         \/ \E o \in Outsider : /\ reading[o] # NoRead /\ reading[o].step # "raised"
                                /\ MarkFailed(reading[o].on, reading[o].read)
<1>0. call.on \in Service
  BY Types
<1>1. CASE Start
  BY <1>1 DEF Start, circuitVars
<1>2. CASE Advance
  <2>1. CASE Dial \/ Redial \/ Connected \/ Answered \/ Listed
    BY <1>0, <2>1 DEF Dial, Redial, Connected, Answered, Listed
  <2>2. CASE MarkFailure
    BY <2>2 DEF MarkFailure
  <2>3. CASE Refused \/ ReadAccount \/ Call \/ CallFails \/ \E s \in Service : Blame(s)
    BY <2>3 DEF Refused, ReadAccount, Call, CallFails, Blame, circuitVars
  <2>4. CASE \/ Prepare \/ Prompt \/ BadRequest \/ ModelFails \/ PipelineRaises \/ PipelineEnds
             \/ Succeed \/ Unwound \/ Timeout \/ Fail \/ Interrupt
    BY <2>4 DEF Prepare, Prompt, BadRequest, ModelFails, PipelineRaises, PipelineEnds, Succeed,
                Unwound, Timeout, Fail, Interrupt, circuitVars
  <2>5. CASE \E n \in ResponseTokens : Continue(n) \/ Malformed(n) \/ Research(n) \/ Recommend(n)
    BY <2>5 DEF Continue, Malformed, Research, Recommend, Receive, circuitVars
  <2>6. CASE \E b \in BOOLEAN : Process(b) \/ Skip(b)
    BY <2>6 DEF Process, Skip, circuitVars
  <2> QED
    BY <1>2, <2>1, <2>2, <2>3, <2>4, <2>5, <2>6 DEF Advance
<1>3. CASE \E s \in Service : ResetPasses(s)
  BY <1>3 DEF ResetPasses, Expire
<1>4. CASE Others
  BY <1>4 DEF Others, OutsiderWrites, OutsiderSucceeds, OutsiderFails, OutsiderRefused,
              OutsiderBlames, Outage
<1>5. CASE UNCHANGED vars
  BY <1>5 DEF vars, circuitVars
<1> QED
  BY <1>1, <1>2, <1>3, <1>4, <1>5 DEF Next

(* An open circuit is closed before its time only by a success, or by a    *)
(* failure whose count was read before the count that opened it            *)
(* (mark_failure reads and writes in two transactions).                    *)
THEOREM OpenCircuitsStayOpen == Spec => OpenStaysOpen
<1>1. ASSUME IInv, [Next]_vars, NEW s \in Service, IsOpen(s), health'[s].circuit = "closed"
      PROVE  health'[s].state = "healthy" \/ StaleRead(s)
  <2>1. /\ health \in [Service -> Row] /\ CircuitInv
        /\ reading \in [Outsider -> Reading \cup {NoRead}]
    BY <1>1 DEF IInv, TypeOK, CircuitTypeOK
  <2>2. CASE \/ health' = health
             \/ \E t \in Service : MarkStarting(t) \/ MarkSuccess(t)
             \/ \E t \in Service : health' = [health EXCEPT ![t].circuit = "expired"]
    BY <1>1, <2>1, <2>2, ClientRespectsOpen
  <2>3. CASE at = "marking" /\ MarkFailed(call.on, call.read)
    <3>1. PICK t \in Service, c \in 0..MaxFailures : t = call.on /\ c = call.read
      BY <1>1, Types DEF IInv
    <3>2. t = s /\ c < health[s].failures
      BY <1>1, <2>1, <2>3, <3>1, FailureClosesStale
    <3> QED
      BY <2>3, <3>1, <3>2 DEF StaleRead
  <2>4. ASSUME NEW o \in Outsider, reading[o] # NoRead, reading[o].step # "raised",
               MarkFailed(reading[o].on, reading[o].read)
        PROVE  StaleRead(s)
    <3>0. reading[o] \in Reading
      BY <2>1, <2>4
    <3>1. PICK t \in Service, c \in 0..MaxFailures : t = reading[o].on /\ c = reading[o].read
      BY <3>0 DEF Reading
    <3>2. t = s /\ c < health[s].failures
      BY <1>1, <2>1, <2>4, <3>1, FailureClosesStale
    <3> QED
      BY <2>4, <3>1, <3>2 DEF StaleRead
  <2> QED
    BY <1>1, <2>2, <2>3, <2>4, HealthSteps DEF IInv
<1>2. IInv /\ [Next]_vars =>
        [\A s \in Service : IsOpen(s) /\ health'[s].circuit = "closed" =>
           health'[s].state = "healthy" \/ StaleRead(s)]_vars
  BY <1>1
<1> QED
  BY <1>2, Invariance, PTL DEF Spec, OpenStaysOpen
=============================================================================
