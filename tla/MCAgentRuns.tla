----------------------------- MODULE MCAgentRuns -----------------------------
(* Instances of AgentRuns for TLC.                                          *)
EXTENDS AgentRuns, TLC

(* Runs, traders, client keys and snapshots are interchangeable: no action  *)
(* or invariant names one. Used by the runs that check no liveness.         *)
Symmetry == Permutations(RunId) \cup Permutations(Trader)
              \cup Permutations(ManualKey) \cup Permutations(Snapshot)
=============================================================================
