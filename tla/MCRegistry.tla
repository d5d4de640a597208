---------------------------- MODULE MCRegistry ----------------------------
(* Model checking of Registry: handlers and tabs are interchangeable. *)
EXTENDS Registry, TLC
Symmetry == Permutations(Handlers) \cup Permutations(Tabs)
=============================================================================
