----------------------------- MODULE MCSseRelay -----------------------------
(* Model checking of SseRelay: nothing but the constants in the .cfg files. *)
EXTENDS SseRelay
=============================================================================
