------------------------- MODULE MCAgentOperations -------------------------
(* Instances of AgentOperations for TLC. *)
EXTENDS AgentOperations, TLC

\* Not for a run with a liveness property.
Symmetry == Permutations(Slots) \cup Permutations(Ids)
            \cup Permutations(Tabs) \cup Permutations(Txs)
=============================================================================
