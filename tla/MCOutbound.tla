----------------------------- MODULE MCOutbound -----------------------------
(* Small shops for TLC: the constants of Outbound, chosen in the .cfg files. *)
EXTENDS Outbound, TLC

CONSTANTS h1, h2, ali, boss, n1, n2, n3, bad, o1, o2, nobody

\* ali has two ways to write his number, the shop's owner one.
Book == (n1 :> ali) @@ (n2 :> ali) @@ (n3 :> boss) @@ (bad :> nobody)

R(op, ref, to) == [op |-> op, ref |-> ref, to |-> to]

\* One order through its changes of status, alerts and broadcasts that share
\* their customers in opposite orders, and what comes in meanwhile.
Everything == {R(op, o1, <<n1>>) : op \in {"confirmed", "cancelled"}}
  \cup {R("notify", o2, <<bad, n3, n1>>), R("broadcast", o2, <<n1, n2, n3>>)}
  \cup {R("stop", o2, <<n1>>)}

OnlyBroadcast == {R("broadcast", o2, <<n1, n3>>), R("notify", o1, <<n3, n1>>)}
=============================================================================
