----------------------------- MODULE PaperLedger -----------------------------
(***************************************************************************)
(* What the audit trail of one paper account promises: a proposal is       *)
(* decided once; a rejected one stays rejected; an approved one, by the    *)
(* policy or by a person, is executed at most once, at the decided size    *)
(* and the proposed price; nothing else moves cash or shares ("All account *)
(* mutations preserve cash/holdings invariants and have an auditable       *)
(* proposal-to-execution chain", build-plan.md). Decisions implements it.  *)
(***************************************************************************)
EXTENDS RiskRules

CONSTANTS ProposalId, InitialCash, NoProposal

Stage == {"absent", "proposed", "rejected", "pending_human", "approved", "executed"}

VARIABLES
  stage,   (* how far each proposal has come                               *)
  terms,   (* the proposal as it was persisted                             *)
  size,    (* the decided quantity                                         *)
  cash, held

ledger == <<stage, terms, size, cash, held>>

Init ==
  /\ stage = [p \in ProposalId |-> "absent"]
  /\ terms = [p \in ProposalId |-> NoProposal]
  /\ size = [p \in ProposalId |-> 0]
  /\ cash = InitialCash /\ held = 0

Propose(p) ==
  /\ stage[p] = "absent"
  /\ stage' = [stage EXCEPT ![p] = "proposed"]
  /\ terms'[p] \in Proposal /\ terms' = [terms EXCEPT ![p] = terms'[p]]
  /\ UNCHANGED <<size, cash, held>>

Reject(p) ==
  /\ stage[p] = "proposed"
  /\ stage' = [stage EXCEPT ![p] = "rejected"]
  /\ UNCHANGED <<terms, size, cash, held>>

(* A decision never enlarges what was proposed.                            *)
Accept(p, outcome) ==
  /\ stage[p] = "proposed" /\ outcome \in {"approved", "pending_human"}
  /\ stage' = [stage EXCEPT ![p] = outcome]
  /\ \E q \in 1..terms[p].quantity : size' = [size EXCEPT ![p] = q]
  /\ UNCHANGED <<terms, cash, held>>

Release(p) ==
  /\ stage[p] = "pending_human"
  /\ stage' = [stage EXCEPT ![p] = "approved"]
  /\ UNCHANGED <<terms, size, cash, held>>

Execute(p) ==
  /\ stage[p] = "approved"
  /\ stage' = [stage EXCEPT ![p] = "executed"]
  /\ \/ /\ terms[p].side = "buy" /\ Notional(terms[p], size[p]) <= cash
        /\ cash' = cash - Notional(terms[p], size[p])
        /\ held' = held + size[p]
     \/ /\ terms[p].side = "sell" /\ size[p] <= held
        /\ cash' = cash + Notional(terms[p], size[p])
        /\ held' = held - size[p]
  /\ UNCHANGED <<terms, size>>

Next ==
  \E p \in ProposalId :
    \/ Propose(p) \/ Reject(p) \/ Release(p) \/ Execute(p)
    \/ \E outcome \in Stage : Accept(p, outcome)

Spec == Init /\ [][Next]_ledger
=============================================================================
