---------------------------- MODULE MCConsoleAuth ----------------------------
(* Model checking of ConsoleAuth: the logins are interchangeable. *)
EXTENDS ConsoleAuth, TLC
Symmetry == Permutations(Reqs)
=============================================================================
