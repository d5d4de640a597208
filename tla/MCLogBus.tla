------------------------------ MODULE MCLogBus ------------------------------
(* Model checking of LogBus: nothing but the constants in the .cfg files. *)
EXTENDS LogBus
=============================================================================
