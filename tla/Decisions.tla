------------------------------ MODULE Decisions ------------------------------
(***************************************************************************)
(* From a recommendation to an executed paper order, for one account and   *)
(* one symbol: the decision pipeline (backend/decisions/services.py), the  *)
(* tables it writes (backend/decisions/repository.py) and the approval     *)
(* endpoint (backend/api.py).                                              *)
(*                                                                         *)
(* A step is one SQLite transaction. Between two of them anything else may *)
(* happen: the trader cycles of two overlapping runs (Worker) and the      *)
(* thread-pool requests of the approval endpoint (Approver) share the      *)
(* tables, and the process of either may die.                              *)
(***************************************************************************)
EXTENDS RiskRules, FiniteSets, FiniteSetsExt

CONSTANTS
  ProposalId,
  Worker,        (* trader cycles at work for the account                  *)
  Approver,      (* request threads of the approval endpoint               *)
  Recommendable, (* what agents may recommend, with the quote of the moment *)
  InitialCash,
  MaxDays, MaxFaults,   (* bounds: midnights and deaths of a behaviour     *)
  NoProposal, NoDecision, NoSnapshot

ASSUME InputsAreValid ==
  /\ Recommendable \subseteq Proposal /\ InitialCash \in Nat
  /\ NoProposal \notin Proposal /\ NoDecision \notin Decision /\ NoSnapshot \notin Portfolio
  /\ MaxDays \in Nat /\ MaxFaults \in Nat

VARIABLES
  proposal,   (* trade_proposals, with the proposal's market observation   *)
  decision,   (* risk_decisions                                            *)
  approved,   (* decisions with a human_approved_at                        *)
  executed,   (* proposals with a paper order and an execution result      *)
  today,      (* those executed on the current UTC day                     *)
  account,    (* the accounts row: cash and shares                         *)
  peak,       (* highest value of portfolio_value_time_series, 0: empty    *)
  quote,      (* price of the account's latest recorded observation        *)
  snapshot,   (* what an evaluation has read, by proposal                  *)
  worker,     (* the pipeline of a trader cycle                            *)
  approver,   (* the decision an approval request has just released        *)
  outdated,   (* unexecuted proposals evaluated before the last execution  *)
  days, faults

tables  == <<proposal, decision, approved, executed, today, account, peak, quote>>
clients == <<snapshot, worker, approver>>
vars    == <<tables, clients, outdated, days, faults>>

Step    == {"idle", "proposed", "account_read", "turnover_read", "decided"}
At(w, p, step) == worker[w] = [step |-> step, on |-> p]
Goto(w, p, step) == worker' = [worker EXCEPT ![w] = [step |-> step, on |-> p]]
Idle    == [step |-> "idle", on |-> NoProposal]
Leave(w) == worker' = [worker EXCEPT ![w] = Idle]

Persisted == {p \in ProposalId : proposal[p] # NoProposal}
Decided   == {p \in ProposalId : decision[p] # NoDecision}

(* What an executed order was worth, and its effect on the account.        *)
Size(p)   == decision[p].quantity
Total(p)  == Notional(proposal[p], Size(p))
IsBuy(p)  == proposal[p].side = "buy"

(* daily_turnover                                                          *)
Turnover == MapThenSumSet(Total, today)

-----------------------------------------------------------------------------
Init ==
  /\ proposal = [p \in ProposalId |-> NoProposal]
  /\ decision = [p \in ProposalId |-> NoDecision]
  /\ approved = {} /\ executed = {} /\ today = {}
  /\ account  = [cash |-> InitialCash, held |-> 0]
  /\ peak = 0 /\ quote = 0
  /\ snapshot = [p \in ProposalId |-> NoSnapshot]
  /\ worker   = [w \in Worker |-> Idle]
  /\ approver = [a \in Approver |-> NoProposal]
  /\ outdated = {} /\ days = 0 /\ faults = 0

-----------------------------------------------------------------------------
(* The pipeline of a trader cycle: safely_process_recommendation           *)

(* ProposalService.create: proposal and observation in one transaction. A  *)
(* proposal refused before this (evidence, research policy, no quote)      *)
(* leaves no trace in the tables.                                          *)
Propose(w, p) ==
  /\ worker[w] = Idle /\ p \notin Persisted
  /\ \E r \in Recommendable :
       proposal' = [proposal EXCEPT ![p] = r] /\ quote' = r.price
  /\ Goto(w, p, "proposed")
  /\ UNCHANGED <<decision, approved, executed, today, account, peak,
                 snapshot, approver, outdated, days, faults>>

(* Defect: the evaluation takes the account as it was opened.              *)
OpeningAccount == [cash |-> InitialCash, held |-> 0]

(* The account an evaluation looks at.                                     *)
AccountToEvaluate == account

(* RiskService._snapshot, first read: the account and its value series.    *)
ReadAccount(w, p) ==
  /\ At(w, p, "proposed")
  /\ snapshot' = [snapshot EXCEPT ![p] =
       [cash |-> AccountToEvaluate.cash, held |-> AccountToEvaluate.held,
        others |-> 0, sector |-> 0, turnover |-> 0, peak |-> peak]]
  /\ outdated' = outdated \ {p}
  /\ Goto(w, p, "account_read")
  /\ UNCHANGED <<tables, approver, days, faults>>

ReadTurnover(w, p) ==
  /\ At(w, p, "account_read")
  /\ snapshot' = [snapshot EXCEPT ![p].turnover = Turnover]
  /\ Goto(w, p, "turnover_read")
  /\ UNCHANGED <<tables, approver, outdated, days, faults>>

(* A quote for another holding fails, or the process dies: the proposal    *)
(* stays without a decision, the order of an approved one is never sent.   *)
Abandon(w) ==
  /\ worker[w] # Idle
  /\ faults < MaxFaults /\ faults' = faults + 1
  /\ Leave(w)
  /\ UNCHANGED <<tables, snapshot, approver, outdated, days>>

(* The engine's decision, saved.                                           *)
SaveDecision(w, p) ==
  /\ At(w, p, "turnover_read")
  /\ \E sized \in 0..proposal[p].quantity :
       /\ IsLargestCompliant(proposal[p], snapshot[p], sized)
       /\ decision' = [decision EXCEPT ![p] = Evaluate(proposal[p], snapshot[p], sized)]
  /\ Goto(w, p, "decided")
  /\ UNCHANGED <<proposal, approved, executed, today, account, peak, quote,
                 snapshot, approver, outdated, days, faults>>

-----------------------------------------------------------------------------
(* Execution: DecisionRepository.execute_atomic                            *)

(* Defect: the account written is computed from the one evaluated.         *)
AccountEvaluated(p) == [cash |-> snapshot[p].cash, held |-> snapshot[p].held]

(* The account the order is applied to, read inside the transaction.       *)
AccountToCharge(p) == account

(* Defect: shares are not counted again before a sale.                     *)
AffordableCashOnly(p) == IsBuy(p) => Total(p) <= AccountToCharge(p).cash

(* The checks against the account at execution.                            *)
Affordable(p) ==
  IF IsBuy(p) THEN Total(p) <= AccountToCharge(p).cash
              ELSE decision[p].quantity <= AccountToCharge(p).held

Charged(p) ==
  LET a == AccountToCharge(p) IN
  IF IsBuy(p)
  THEN [cash |-> a.cash - Total(p), held |-> a.held + decision[p].quantity]
  ELSE [cash |-> a.cash + Total(p), held |-> a.held - decision[p].quantity]

(* An executed order is returned as a duplicate; an order without its      *)
(* persisted approval, or that the account cannot bear, is refused; else   *)
(* account, observation, order and result are written together.            *)
Submit(p) ==
  IF p \notin executed /\ decision[p].outcome = "approved" /\ Affordable(p)
  THEN /\ account'  = Charged(p)
       /\ executed' = executed \cup {p} /\ today' = today \cup {p}
       /\ quote'    = proposal[p].price
       /\ outdated' = (outdated \cup Persisted) \ executed'
  ELSE UNCHANGED <<account, executed, today, quote, outdated>>

(* ExecutionService.execute at the end of the pipeline, with the decision  *)
(* as the engine returned it: a person's approval in between is not seen.  *)
ExecuteDecided(w, p) ==
  /\ At(w, p, "decided")
  /\ IF decision[p].outcome = "approved" /\ p \notin approved THEN Submit(p)
     ELSE UNCHANGED <<account, executed, today, quote, outdated>>
  /\ Leave(w)
  /\ UNCHANGED <<proposal, decision, approved, peak, snapshot, approver, days, faults>>

-----------------------------------------------------------------------------
(* The approval endpoint                                                   *)

(* Defect: any decision can be approved by hand.                           *)
ApprovableAny(p) == p \in Decided

(* approve_human: only a decision that awaits a person.                    *)
Approvable(p) == p \in Decided /\ decision[p].outcome = "pending_human"

ApproveHuman(a, p) ==
  /\ approver[a] = NoProposal /\ HumanApproval
  /\ Approvable(p)
  /\ decision' = [decision EXCEPT ![p].outcome = "approved"]
  /\ approved' = approved \cup {p}
  /\ approver' = [approver EXCEPT ![a] = p]
  /\ UNCHANGED <<proposal, executed, today, account, peak, quote,
                 snapshot, worker, outdated, days, faults>>

ExecuteApproved(a) ==
  /\ approver[a] # NoProposal
  /\ Submit(approver[a])
  /\ approver' = [approver EXCEPT ![a] = NoProposal]
  /\ UNCHANGED <<proposal, decision, approved, peak, snapshot, worker, days, faults>>

(* The API process dies between the two transactions of the endpoint.      *)
LoseApproval(a) ==
  /\ approver[a] # NoProposal
  /\ faults < MaxFaults /\ faults' = faults + 1
  /\ approver' = [approver EXCEPT ![a] = NoProposal]
  /\ UNCHANGED <<tables, snapshot, worker, outdated, days>>

-----------------------------------------------------------------------------
(* record_portfolio_snapshot, after one of the runs: the account at its    *)
(* last quote; the first one also records the initial balance.             *)
RecordValue ==
  LET value == account.cash + quote * Dollar * account.held
      base  == IF peak = 0 THEN InitialCash ELSE peak
  IN /\ \E w \in Worker : worker[w] = Idle
     /\ peak' = IF value > base THEN value ELSE base
     /\ UNCHANGED <<proposal, decision, approved, executed, today, account, quote,
                    clients, outdated, days, faults>>

Midnight ==
  /\ days < MaxDays /\ days' = days + 1
  /\ today' = {}
  /\ UNCHANGED <<proposal, decision, approved, executed, account, peak, quote,
                 clients, outdated, faults>>

Next ==
  \/ \E w \in Worker, p \in ProposalId :
       \/ Propose(w, p) \/ ReadAccount(w, p) \/ ReadTurnover(w, p)
       \/ SaveDecision(w, p) \/ ExecuteDecided(w, p)
  \/ \E w \in Worker : Abandon(w)
  \/ \E a \in Approver : ExecuteApproved(a) \/ LoseApproval(a)
  \/ \E a \in Approver, p \in ProposalId : ApproveHuman(a, p)
  \/ RecordValue \/ Midnight

Spec == Init /\ [][Next]_vars

-----------------------------------------------------------------------------
(* Properties                                                              *)

TypeOK ==
  /\ proposal \in [ProposalId -> Proposal \cup {NoProposal}]
  /\ decision \in [ProposalId -> Decision \cup {NoDecision}]
  /\ today \subseteq executed /\ executed \subseteq Decided /\ Decided \subseteq Persisted
  /\ approved \subseteq Decided /\ outdated \subseteq Persisted
  /\ account \in [cash : Nat, held : Nat]
  /\ peak \in Nat /\ quote \in Nat
  /\ snapshot \in [ProposalId -> Portfolio \cup {NoSnapshot}]
  /\ worker \in [Worker -> [step : Step, on : ProposalId \cup {NoProposal}]]
  /\ approver \in [Approver -> ProposalId \cup {NoProposal}]
  /\ days \in 0..MaxDays /\ faults \in 0..MaxFaults

(* The ledger a reader of the audit trail sees.                            *)
StageOf(p) ==
  IF p \notin Persisted THEN "absent"
  ELSE IF p \notin Decided THEN "proposed"
  ELSE IF p \in executed THEN "executed" ELSE decision[p].outcome

Ledger == INSTANCE PaperLedger WITH
  stage <- [p \in ProposalId |-> StageOf(p)],
  terms <- proposal,
  size  <- [p \in ProposalId |-> IF p \in Decided THEN decision[p].quantity ELSE 0],
  cash  <- account.cash, held <- account.held

(* Whatever workers and approval requests interleave or die, each proposal *)
(* goes through the promised stages and only executions move money.        *)
ImplementsLedger == Ledger!Spec

(* Cash and shares are the opening balance plus every executed order,      *)
(* once: no update of the account is lost between overlapping clients.     *)
BooksBalance ==
  LET bought == {p \in executed : IsBuy(p)}
      sold   == executed \ bought
  IN /\ account.cash = InitialCash - MapThenSumSet(Total, bought) + MapThenSumSet(Total, sold)
     /\ account.held = MapThenSumSet(Size, bought) - MapThenSumSet(Size, sold)

(* No order of the notional that asks for a person is executed without one. *)
LargeOrdersHaveAPerson ==
  \A p \in executed : HumanApproval /\ Total(p) >= HumanNotional => p \in approved

(* A decision stays good until the next execution: as long as no order was *)
(* executed since its evaluation, a decided and unexecuted order keeps all *)
(* limits against the account and the turnover as they are now, also after *)
(* the steps between its evaluation and its execution, and after midnight. *)
DecisionsStayGood ==
  \A p \in Decided \ (executed \cup outdated) :
    decision[p].outcome # "rejected" =>
      Compliant(proposal[p],
                [cash |-> account.cash, held |-> account.held, others |-> 0, sector |-> 0,
                 turnover |-> Turnover, peak |-> peak],
                decision[p].quantity)

(* README: the endpoint "records explicit approval and submits that        *)
(* approved paper order idempotently": once no request is in the middle of *)
(* it, an order a person approved has been submitted. An order the account *)
(* cannot bear would be refused on submission.                             *)
ApprovalsAreSubmitted ==
  \A p \in approved :
    \/ p \in executed
    \/ \E a \in Approver : approver[a] = p
    \/ ~Affordable(p)
=============================================================================
