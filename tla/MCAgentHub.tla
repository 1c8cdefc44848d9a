----------------------------- MODULE MCAgentHub -----------------------------
(* TLC instances of AgentHub. *)
EXTENDS AgentHub, TLC

\* Agents and files are interchangeable; used by the runs of safety properties.
Symmetry == Permutations(Agents) \cup Permutations(Files)
=============================================================================
