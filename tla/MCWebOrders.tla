------------------------------ MODULE MCWebOrders ------------------------------
(* One shop's web orders for TLC: bounds chosen in the .cfg files. *)
EXTENDS WebOrders

CONSTANTS ali, sana, k1, k2, w1, w2, r1, t1, t2

\* The numbers the project hands out: the text of 12 contains the text of 1.
HandedOut == <<1, 12>>
Drawn == {901}
Blank == 0
TextContains == [n \in {1, 12, 901} |-> IF n = 12 THEN {1, 12} ELSE {n}]

\* Keys as Supabase issues them now, and JWTs, which all begin alike.
Differ == [k \in {k1, k2} |-> k]
Alike == [k \in {k1, k2} |-> "eyJhbGciOiJI"]
=============================================================================
