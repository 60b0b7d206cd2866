--------------------------- MODULE MCBridgeSession ---------------------------
(* One tenant's bridge for TLC: bounds chosen in the .cfg files. *)
EXTENDS BridgeSession

CONSTANTS d1, d2, ali
=============================================================================
