--------------------------- MODULE MCPilotSession ---------------------------
(* Symmetry for the runs of PilotSession without liveness. *)
EXTENDS PilotSession, TLC

Symmetric == Permutations(Session) \cup Permutations(Operator)
=============================================================================
