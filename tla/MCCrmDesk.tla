------------------------------ MODULE MCCrmDesk ------------------------------
(* One customer's record for TLC: bounds chosen in the .cfg files. *)
EXTENDS CrmDesk

CONSTANTS s1, s2, s3
=============================================================================
