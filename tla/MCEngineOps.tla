---------------------------- MODULE MCEngineOps ----------------------------
(* EngineOps on a few jobs. *)
EXTENDS EngineOps, TLC

Symmetry == Permutations(ConsoleReqs) \cup Permutations(CliCmds)
=============================================================================
