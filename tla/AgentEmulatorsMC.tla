--------------------------- MODULE AgentEmulatorsMC ---------------------------
(* Small instances of AgentEmulators. *)
EXTENDS AgentEmulators, TLC

Symmetry == Permutations(Avds) \cup Permutations(Jobs)
=============================================================================
