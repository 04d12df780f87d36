-------------------------- MODULE MC_SingleFlight --------------------------
(* SingleFlight for TLC: three callers.  In single_flight.cfg they share    *)
(* two keys in a table of one entry whose entries expire after one tick.   *)
EXTENDS SingleFlight
=============================================================================
