----------------------------- MODULE TraderCycles -----------------------------
(***************************************************************************)
(* The cycles of one trader (backend/traders.py, Trader.run), one after    *)
(* another: the MCP servers are connected, the news is searched, a         *)
(* research stage and a trader stage talk to the model within the budget   *)
(* of the cycle, the recommendation goes through the decision pipeline,    *)
(* the servers are closed and finish_cycle writes the row. The service     *)
(* rows are those of ProviderCircuit, shared with other processes. A step  *)
(* ends at an await or at a transaction.                                   *)
(***************************************************************************)
EXTENDS ProviderCircuit, Integers

CONSTANTS
  Market, Search,             (* the services market-data, research-search *)
  Retries,                    (* MCP_MAX_RETRIES of connect                *)
  Repairs,                    (* MODEL_OUTPUT_REPAIR_ATTEMPTS              *)
  ResearchTurns, TraderTurns,
  MaxTokens, MaxSpend,        (* the budget of a cycle                     *)
  ResearchRate, TraderRate,   (* price of a token in the two stages        *)
  ResponseTokens,             (* tokens one response may report; 0: omitted *)
  MaxProposals,
  NoError

ASSUME CycleAssumption ==
  /\ Service = {Market, Search} /\ Market # Search
  /\ Retries \in Nat /\ Repairs \in Nat
  /\ ResearchTurns \in Nat \ {0} /\ TraderTurns \in Nat \ {0}
  /\ MaxTokens \in Nat \ {0} /\ MaxSpend \in Nat \ {0}
  /\ ResearchRate \in Nat /\ TraderRate \in Nat
  /\ ResponseTokens \subseteq Nat /\ MaxProposals \in Nat
  /\ \A services \in SUBSET Service : services # NoError

VARIABLES
  at,       (* where Trader.run stands                                     *)
  call,     (* the MCP call: service, attempt of connect, count read by    *)
            (* mark_failure and what failed                                *)
  raised,   (* the services named by the exception, NoError without one    *)
  stage,    (* the model stage: name, repair attempt, turn, tokens of its  *)
            (* finished attempts (stage_usage) and of this one (hooks)     *)
  usage,    (* _last_usage and, once there, _research_usage                *)
  batch,    (* the recommendation: proposals left, processed and executed, *)
            (* and whether an error was not a skippable one                *)
  cycle,    (* the row of cycle_metrics                                    *)
  spent,    (* history: tokens of the responses of this cycle              *)
  lost      (* history: those of an attempt that ended in a BadRequest     *)

cycleVars == <<at, call, raised, stage, usage, batch, cycle, spent, lost>>
vars == <<circuitVars, cycleVars>>

Await == {"connecting", "backoff", "reading", "waiting", "listing", "requesting", "closing"}
Place == Await \cup {"idle", "dialing", "calling", "marking", "preparing", "prompting",
                     "processing", "failing"}

NoCall  == [on |-> Market, try |-> 0, read |-> 0, what |-> "connecting"]
NoStage == [name |-> "none", repair |-> 0, turn |-> 0, used |-> 0, hooks |-> 0]
NoUsage == [last |-> 0, research |-> 0, researched |-> FALSE]
NoBatch == [left |-> 0, processed |-> 0, executed |-> 0, hard |-> FALSE]
Zero    == [research |-> 0, trader |-> 0]

NeverRun == [status |-> "none", tokens |-> 0, cost |-> 0, linked |-> 0]
Running  == [NeverRun EXCEPT !.status = "running"]

Init ==
  /\ CircuitInit
  /\ at = "idle" /\ call = NoCall /\ raised = NoError
  /\ stage = NoStage /\ usage = NoUsage /\ batch = NoBatch
  /\ cycle = NeverRun /\ spent = Zero /\ lost = Zero

-----------------------------------------------------------------------------
(* Budgets and prices                                                      *)

Rate(name) == IF name = "research" THEN ResearchRate ELSE TraderRate

(* Defect: the trader stage gets the whole budget again.                   *)
StageTokensWhole == MaxTokens

(* The stage budget of run_agent: the trader gets what research left.      *)
StageTokens == IF stage.name = "research" THEN MaxTokens ELSE MaxTokens - usage.research
StageSpend  == IF stage.name = "research" THEN MaxSpend
               ELSE MaxSpend - usage.research * ResearchRate

(* The attempt budget: less what the attempts before this one used.        *)
AttemptTokens == StageTokens - stage.used
AttemptSpend  == StageSpend - stage.used * Rate(stage.name)

(* BudgetHooks.on_llm_start                                                *)
Exhausted == stage.hooks >= AttemptTokens \/ stage.hooks * Rate(stage.name) >= AttemptSpend

(* Defect: what the running attempt used is forgotten.                     *)
FailureUsageFinished == usage.last

(* _failure_usage: the finished attempts and what hooks saw of this one.   *)
FailureUsage == usage.last + stage.hooks

Above(n, m) == IF n > m THEN n - m ELSE 0

(* _cycle_cost                                                             *)
CycleCost(tokens) ==
  IF usage.researched
  THEN usage.research * ResearchRate + Above(tokens, usage.research) * TraderRate
  ELSE tokens * Rate(stage.name)

TurnLimit == IF stage.name = "research" THEN ResearchTurns ELSE TraderTurns

-----------------------------------------------------------------------------
(* Servers: run_with_mcp_servers, connect, call_tool, list_tools           *)

Throw(services) == at' = "closing" /\ raised' = services

(* The SDK may hand the failure of a tool to the model, which goes on.     *)
ShownToModel == stage.name = "trader" /\ at' = "listing" /\ UNCHANGED raised

Start ==
  /\ at = "idle"
  /\ at' = "dialing" /\ call' = NoCall /\ raised' = NoError
  /\ stage' = NoStage /\ usage' = NoUsage /\ batch' = NoBatch
  /\ cycle' = Running /\ spent' = Zero /\ lost' = Zero
  /\ UNCHANGED circuitVars

(* circuit_is_open is asked once before the attempts of connect and before *)
(* each call; a refusal names its service.                                 *)
Refused ==
  /\ at \in {"dialing", "calling"} /\ IsOpen(call.on)
  /\ Throw({call.on}) \/ (at = "calling" /\ ShownToModel)
  /\ UNCHANGED <<circuitVars, call, stage, usage, batch, cycle, spent, lost>>

Dial ==
  /\ at = "dialing" /\ ~IsOpen(call.on)
  /\ MarkStarting(call.on) /\ at' = "connecting"
  /\ UNCHANGED <<reading, up, call, raised, stage, usage, batch, cycle, spent, lost>>

(* Defect: the attempts of connect are not counted.                        *)
NextTrySame == call.try

NextTry == call.try + 1

Redial ==
  /\ at = "backoff"
  /\ MarkStarting(call.on) /\ at' = "connecting" /\ call' = [call EXCEPT !.try = NextTry]
  /\ UNCHANGED <<reading, up, raised, stage, usage, batch, cycle, spent, lost>>

(* Both servers are connected in turn.                                     *)
Connected ==
  /\ at = "connecting" /\ up
  /\ MarkSuccess(call.on)
  /\ call' = [NoCall EXCEPT !.on = Search]
  /\ at' = IF call.on = Market THEN "dialing" ELSE "reading"
  /\ UNCHANGED <<reading, up, raised, stage, usage, batch, cycle, spent, lost>>

(* The account and the strategy are read from servers of the service       *)
(* paper-accounts, whose row is none of these; then the search is called.  *)
ReadAccount ==
  /\ at = "reading"
  /\ (at' = "calling" /\ UNCHANGED raised) \/ Throw({})
  /\ UNCHANGED <<circuitVars, call, stage, usage, batch, cycle, spent, lost>>

Call ==
  /\ at = "calling" /\ ~IsOpen(call.on)
  /\ at' = "waiting"
  /\ UNCHANGED <<circuitVars, call, raised, stage, usage, batch, cycle, spent, lost>>

(* An answered search starts the research stage unless the catalog is      *)
(* unusable; an answered tool returns to the model.                        *)
Answered ==
  /\ at = "waiting" /\ up
  /\ MarkSuccess(call.on)
  /\ \/ stage.name = "trader" /\ at' = "listing" /\ UNCHANGED <<raised, stage>>
     \/ stage.name = "none" /\ at' = "preparing" /\ stage' = [NoStage EXCEPT !.name = "research"]
        /\ UNCHANGED raised
     \/ stage.name = "none" /\ Throw({}) /\ UNCHANGED stage
  /\ UNCHANGED <<reading, up, call, usage, batch, cycle, spent, lost>>

(* Before each turn the SDK lists the tools of the trader's server.        *)
Listed ==
  /\ at = "listing"
  /\ MarkSuccess(call.on) /\ at' = "prompting"
  /\ UNCHANGED <<reading, up, call, raised, stage, usage, batch, cycle, spent, lost>>

(* A probe, a call, a listing fails or answers with an error; or the       *)
(* exception of the cycle is attributed to a service it names              *)
(* (attribute_runtime_failure): mark_failure reads the count.              *)
CallFails ==
  /\ at \in {"connecting", "waiting", "listing"} /\ ~up
  /\ at' = "marking"
  /\ call' = [call EXCEPT !.read = health[call.on].failures, !.what = at]
  /\ UNCHANGED <<circuitVars, raised, stage, usage, batch, cycle, spent, lost>>

Blame(s) ==
  /\ at = "failing" /\ s \in raised
  /\ at' = "marking" /\ raised' = raised \ {s}
  /\ call' = [call EXCEPT !.on = s, !.read = health[s].failures, !.what = at]
  /\ UNCHANGED <<circuitVars, stage, usage, batch, cycle, spent, lost>>

AttemptsLeft == call.try < Retries

(* mark_failure writes; the caller retries, raises, or goes on.            *)
MarkFailure ==
  /\ at = "marking"
  /\ MarkFailed(call.on, call.read)
  /\ call' = (IF call.what = "failing" THEN NoCall ELSE [NoCall EXCEPT !.on = call.on, !.try = call.try])
  /\ \/ call.what = "connecting" /\ AttemptsLeft /\ at' = "backoff" /\ UNCHANGED raised
     \/ call.what = "connecting" /\ ~AttemptsLeft /\ (Throw({}) \/ Throw({call.on}))
     \/ call.what \in {"waiting", "listing"} /\ (Throw({}) \/ Throw({call.on}))
     \/ call.what = "waiting" /\ ShownToModel
     \/ call.what = "failing" /\ at' = "failing" /\ UNCHANGED raised
  /\ UNCHANGED <<reading, up, stage, usage, batch, cycle, spent, lost>>

-----------------------------------------------------------------------------
(* Model stages: _run_structured_stage and run_agent                       *)

(* An attempt has budget left, or the repair is refused.                   *)
Prepare ==
  /\ at = "preparing"
  /\ IF AttemptTokens <= 0 \/ AttemptSpend <= 0
     THEN Throw({})
     ELSE at' = (IF stage.name = "research" THEN "prompting" ELSE "listing") /\ UNCHANGED raised
  /\ UNCHANGED <<circuitVars, call, stage, usage, batch, cycle, spent, lost>>

(* The stage s after an attempt: its tokens are added once.                *)
Ended(s) == [s EXCEPT !.used = @ + s.hooks, !.hooks = 0]

Prior == IF stage.name = "trader" THEN usage.research ELSE 0

(* Defect: one repair too many.                                            *)
MayRepairOnceMore(s) == s.repair <= Repairs

MayRepair(s) == s.repair < Repairs

(* MaxTurnsExceeded or ModelBehaviorError with the stage at s.             *)
Repair(s) ==
  /\ usage' = [usage EXCEPT !.last = Prior + Ended(s).used]
  /\ IF MayRepair(s)
     THEN /\ stage' = [Ended(s) EXCEPT !.repair = @ + 1, !.turn = 0]
          /\ at' = "preparing" /\ UNCHANGED raised
     ELSE stage' = Ended(s) /\ Throw({})

(* The next turn: over the limit, over the budget, or a request.           *)
Prompt ==
  /\ at = "prompting"
  /\ \/ stage.turn = TurnLimit /\ Repair(stage)
     \/ stage.turn < TurnLimit /\ Exhausted /\ Throw({}) /\ UNCHANGED <<stage, usage>>
     \/ /\ stage.turn < TurnLimit /\ ~Exhausted
        /\ at' = "requesting" /\ stage' = [stage EXCEPT !.turn = @ + 1] /\ UNCHANGED <<usage, raised>>
  /\ UNCHANGED <<circuitVars, call, batch, cycle, spent, lost>>

With(n) == [stage EXCEPT !.hooks = @ + n]

Receive(n) ==
  /\ at = "requesting"
  /\ spent' = [spent EXCEPT ![stage.name] = @ + n]
  /\ UNCHANGED <<circuitVars, cycle, lost>>

(* A response that asks for another turn, in the trader stage with or      *)
(* without a tool call.                                                    *)
Continue(n) ==
  /\ Receive(n)
  /\ stage' = With(n)
  /\ at' \in IF stage.name = "research" THEN {"prompting"} ELSE {"calling", "listing"}
  /\ UNCHANGED <<call, raised, usage, batch>>

Malformed(n) == Receive(n) /\ Repair(With(n)) /\ UNCHANGED <<call, batch>>

(* The research output is final: it may fail validation or have used up    *)
(* the cycle; otherwise the trader stage begins.                           *)
ResearchSpent(tokens) == tokens >= MaxTokens \/ tokens * ResearchRate >= MaxSpend

Research(n) ==
  /\ Receive(n) /\ stage.name = "research"
  /\ LET s == Ended(With(n)) IN
       /\ usage' = [last |-> s.used, research |-> s.used, researched |-> TRUE]
       /\ \/ stage' = s /\ Throw({}) /\ UNCHANGED call
          \/ /\ ~ResearchSpent(s.used)
             /\ stage' = [NoStage EXCEPT !.name = "trader"]
             /\ call' = NoCall /\ at' = "preparing" /\ UNCHANGED raised
  /\ UNCHANGED batch

(* Defect: the final check does not look at the spend.                     *)
OverTokens(tokens, cost) == tokens > MaxTokens

(* The final checks before the pipeline.                                   *)
OverBudget(tokens, cost) == tokens > MaxTokens \/ cost > MaxSpend

(* The recommendation is final: with proposals left to process, or refused *)
(* as a whole by the evidence policy.                                      *)
Recommend(n) ==
  /\ Receive(n) /\ stage.name = "trader"
  /\ LET s     == Ended(With(n))
         total == usage.research + s.used IN
       /\ stage' = s
       /\ usage' = [usage EXCEPT !.last = total]
       /\ \/ Throw({}) /\ UNCHANGED batch
          \/ /\ ~OverBudget(total, CycleCost(total))
             /\ at' = "processing" /\ UNCHANGED raised
             /\ \/ \E k \in 0..MaxProposals : batch' = [NoBatch EXCEPT !.left = k]
                \/ batch' = [NoBatch EXCEPT !.hard = TRUE]
  /\ UNCHANGED call

(* An HTTP 400 in place of a response: the tokens of the earlier turns of  *)
(* this attempt are left out of the usage.                                 *)
BadRequest ==
  /\ at = "requesting"
  /\ usage' = [usage EXCEPT !.last = Prior + stage.used]
  /\ stage' = [stage EXCEPT !.hooks = 0]
  /\ lost' = [lost EXCEPT ![stage.name] = @ + stage.hooks]
  /\ Throw({})
  /\ UNCHANGED <<circuitVars, call, batch, cycle, spent>>

(* Any other failure of the model provider: hooks stays for the accounts.  *)
ModelFails ==
  /\ at = "requesting" /\ Throw({})
  /\ UNCHANGED <<circuitVars, call, stage, usage, batch, cycle, spent, lost>>

-----------------------------------------------------------------------------
(* The pipeline: safely_process_recommendation                             *)

(* A proposal gets its decision, and an execution if it was approved.      *)
Process(executes) ==
  /\ at = "processing" /\ batch.left > 0
  /\ batch' = [batch EXCEPT !.left = @ - 1, !.processed = @ + 1,
                            !.executed = IF executes THEN @ + 1 ELSE @]
  /\ UNCHANGED <<circuitVars, at, call, raised, stage, usage, cycle, spent, lost>>

(* It is left out: without evidence or market data, or for a conflict.     *)
Skip(skippable) ==
  /\ at = "processing" /\ batch.left > 0
  /\ batch' = [batch EXCEPT !.left = @ - 1, !.hard = @ \/ ~skippable]
  /\ UNCHANGED <<circuitVars, at, call, raised, stage, usage, cycle, spent, lost>>

(* A proposal meets an exception the loop does not catch.                  *)
PipelineRaises ==
  /\ at = "processing" /\ batch.left > 0
  /\ Throw({})
  /\ UNCHANGED <<circuitVars, call, stage, usage, batch, cycle, spent, lost>>

PipelineEnds ==
  /\ at = "processing" /\ batch.left = 0
  /\ IF batch.hard /\ batch.processed = 0
     THEN Throw({})
     ELSE at' = "closing" /\ UNCHANGED raised
  /\ UNCHANGED <<circuitVars, call, stage, usage, batch, cycle, spent, lost>>

-----------------------------------------------------------------------------
(* The end of a cycle: run                                                 *)

FinishCycle(status, tokens, linked) ==
  /\ cycle' = [status |-> status, tokens |-> tokens, cost |-> CycleCost(tokens), linked |-> linked]
  /\ at' = "idle" /\ call' = NoCall

(* Only a cycle that succeeds stores decision ids and telemetry.           *)
Linked == batch.processed

Succeed ==
  /\ at = "closing" /\ raised = NoError
  /\ FinishCycle("succeeded", usage.last, Linked)
  /\ UNCHANGED <<circuitVars, raised, stage, usage, batch, spent, lost>>

Unwound ==
  /\ at = "closing" /\ raised # NoError
  /\ at' = "failing" /\ call' = NoCall
  /\ UNCHANGED <<circuitVars, raised, stage, usage, batch, cycle, spent, lost>>

(* asyncio.timeout cancels an await; the servers are closed on the way out *)
(* and the cycle has failed, also when only the closing was left.          *)
Timeout ==
  /\ at \in Await
  /\ at' = (IF at = "closing" THEN "failing" ELSE "closing") /\ raised' = {} /\ call' = NoCall
  /\ UNCHANGED <<circuitVars, stage, usage, batch, cycle, spent, lost>>

Fail ==
  /\ at = "failing" /\ raised = {}
  /\ FinishCycle("failed", FailureUsage, 0)
  /\ UNCHANGED <<circuitVars, raised, stage, usage, batch, spent, lost>>

(* The scheduler stops and cancels the task.                               *)
Interrupt ==
  /\ at \in Await
  /\ FinishCycle("interrupted", FailureUsage, 0)
  /\ UNCHANGED <<circuitVars, raised, stage, usage, batch, spent, lost>>

-----------------------------------------------------------------------------
Advance ==
  \/ Refused \/ Dial \/ Redial \/ Connected \/ ReadAccount \/ Call \/ Answered \/ Listed
  \/ CallFails \/ MarkFailure \/ Prepare \/ Prompt \/ BadRequest \/ ModelFails
  \/ PipelineRaises \/ PipelineEnds \/ Succeed \/ Unwound \/ Timeout \/ Fail \/ Interrupt
  \/ \E s \in Service : Blame(s)
  \/ \E n \in ResponseTokens : Continue(n) \/ Malformed(n) \/ Research(n) \/ Recommend(n)
  \/ \E b \in BOOLEAN : Process(b) \/ Skip(b)

ResetPasses(s) == Expire(s) /\ UNCHANGED cycleVars

Others ==
  \/ \E o \in Outsider : OutsiderBlames(o) \/ OutsiderWrites(o)
  \/ \E o \in Outsider, s \in Service :
       OutsiderSucceeds(o, s) \/ OutsiderFails(o, s) \/ OutsiderRefused(o, s)
  \/ Outage

Next == Start \/ Advance \/ (\E s \in Service : ResetPasses(s)) \/ (Others /\ UNCHANGED cycleVars)

Spec == Init /\ [][Next]_vars

(* No cycle is under way and no refusal or failure on its way.             *)
Pause == at = "idle" /\ \A o \in Outsider : reading[o] = NoRead

(* Awaited calls end, if only by the wall-time budget; the scheduler keeps *)
(* starting cycles; and a pause is longer than the reset time (60 minutes  *)
(* and 60 seconds by default).                                             *)
Fairness ==
  /\ WF_vars(Advance) /\ WF_vars(Start)
  /\ \A s \in Service : SF_vars(Pause /\ ResetPasses(s))

FairSpec == Spec /\ Fairness

-----------------------------------------------------------------------------
(* Properties                                                              *)

Closed == cycle.status \in {"succeeded", "failed", "interrupted"}

Total(tokens) == tokens.research + tokens.trader
Price(tokens) == tokens.research * ResearchRate + tokens.trader * TraderRate

TypeOK ==
  /\ CircuitTypeOK
  /\ at \in Place
  /\ call \in [on : Service, try : 0..Retries, read : 0..MaxFailures,
               what : {"connecting", "waiting", "listing", "failing"}]
  /\ raised \in {NoError} \cup SUBSET Service
  /\ stage \in [name : {"none", "research", "trader"}, repair : 0..Repairs,
                turn : 0..(ResearchTurns + TraderTurns), used : Nat, hooks : Nat]
  /\ usage \in [last : Nat, research : Nat, researched : BOOLEAN]
  /\ batch \in [left : 0..MaxProposals, processed : 0..MaxProposals,
                executed : 0..MaxProposals, hard : BOOLEAN]
  /\ cycle \in [status : {"none", "running", "succeeded", "failed", "interrupted"},
                tokens : Nat, cost : Nat, linked : 0..MaxProposals]
  /\ spent \in [research : Nat, trader : Nat] /\ lost \in [research : Nat, trader : Nat]

(* The closed row of a cycle accounts for every response once, at the      *)
(* price of its stage, whatever was repaired, raised or cut off; except    *)
(* for the tokens of an attempt that ended in an HTTP 400.                 *)
UsageIsAccounted ==
  Closed => /\ cycle.tokens = Total(spent) - Total(lost)
            /\ cycle.cost = Price(spent) - Price(lost)

(* Over both stages and all their repairs a cycle overspends its token     *)
(* budget by less than one response.                                       *)
OverspendBounded ==
  \A m \in ResponseTokens : (\A n \in ResponseTokens : n <= m) => Total(spent) < MaxTokens + m

(* No proposal reaches the pipeline in a cycle whose responses exceed its  *)
(* token or its spend budget.                                              *)
PipelineIsWithinBudget ==
  at = "processing" \/ batch.processed > 0 =>
    Total(spent) <= MaxTokens /\ Price(spent) <= MaxSpend

(* An open circuit is closed before its time only by a success, or by a    *)
(* failure whose count was read before the count that opened it.           *)
StaleRead(s) ==
  \/ at = "marking" /\ call.on = s /\ call.read < health[s].failures
  \/ \E o \in Outsider : /\ reading[o] # NoRead /\ reading[o].step # "raised"
                         /\ reading[o].on = s /\ reading[o].read < health[s].failures

OpenStaysOpen ==
  [][\A s \in Service : IsOpen(s) /\ health'[s].circuit = "closed" =>
       health'[s].state = "healthy" \/ StaleRead(s)]_vars

(* Whatever fails or hangs, a started cycle is closed.                     *)
EveryCycleCloses == cycle.status = "running" ~> Closed

(* Once the providers answer for good, the circuits stop refusing calls    *)
(* for good, although each refusal, of this client and of others, is       *)
(* itself counted as a failure: as long as the clients pause again and     *)
(* again. One that is refused within every reset time keeps it open.       *)
CircuitsRecover ==
  <>[]up /\ []<>Pause => \A s \in Service : <>[](~IsOpen(s))

-----------------------------------------------------------------------------
(* A statement of the documentation that the code does not keep            *)

(* build-plan.md: "each completed decision has trace, latency, and cost    *)
(* metadata": every execution of a closed cycle is among the decisions     *)
(* that finish_cycle links to it.                                          *)
ExecutionsAreLinked == Closed => batch.executed <= cycle.linked
=============================================================================
