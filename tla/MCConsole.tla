----------------------------- MODULE MCConsole -----------------------------
(* Console on a few processes and commands. *)
EXTENDS Console
=============================================================================
