-------------------------- MODULE MCIntervalTimer --------------------------
(* Two thread identities: the one in use and the one that replaces it.     *)
EXTENDS IntervalTimer

CONSTANTS t1, t2
=============================================================================
