---------------------------- MODULE MCBusFanout ----------------------------
(* Model checking of BusFanout: nothing but the constants in the .cfg files. *)
EXTENDS BusFanout
=============================================================================
