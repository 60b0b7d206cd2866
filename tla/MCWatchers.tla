------------------------------ MODULE MCWatchers ------------------------------
(* One source's watchers for TLC: bounds chosen in the .cfg files. *)
EXTENDS Watchers

CONSTANTS a, b, w1, w2, w3, w4, r1, r2
=============================================================================
