---------------------------- MODULE MCCollector ----------------------------
(* Collector with a short horizon and few observations. *)
EXTENDS Collector
=============================================================================
