---------------------------- MODULE MCCredStore ----------------------------
(* Model checking of CredStore: commands and requests are interchangeable. *)
EXTENDS CredStore, TLC
Symmetry == Permutations(Cmds) \cup Permutations(Reqs)
=============================================================================
