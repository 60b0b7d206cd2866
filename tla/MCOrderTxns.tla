---------------------------- MODULE MCOrderTxns ----------------------------
(* Small shops for TLC: the constants of OrderTxns, chosen in the .cfg files. *)
EXTENDS OrderProps, TLC

CONSTANTS p1, p2, p3, s1, s2, alice, bob

L(p, q) == [sku |-> p, qty |-> q]

\* Two products in either order: the lock orders that can deadlock.
PairCarts == {<<L(p1, 1), L(p2, 1)>>, <<L(p2, 1), L(p1, 1)>>}
OneUnitCarts == {<<L(p, 1)>> : p \in Products}

Everything == [s \in Sessions |-> Products]
\* Two products in either order for one session, one or two of a third for the
\* other: they share no product.
ApartCarts == PairCarts \cup {<<L(p3, 1)>>, <<L(p3, 2)>>}
\* The products each session's requests may touch.
Apart == (s1 :> {p1, p2}) @@ (s2 :> {p3})

\* The products of one session change places in carts, scopes and stock alike.
Alike == Permutations({p1, p2})
=============================================================================
