---------------------------- MODULE MCCatalogSync ----------------------------
(* Small shops for TLC: the constants of CatalogSync, chosen in the .cfg     *)
(* files.                                                                    *)
EXTENDS CatalogSync, TLC

CONSTANTS a, b, t1, t2, i1, i2, s1, s2, w1, d1

\* The store's platform lists both products; one of them also has a page, and is
\* in the database's table.
AllIds == {s1, s2, w1, d1}
ItemOf == (s1 :> i1) @@ (s2 :> i2) @@ (w1 :> i1) @@ (d1 :> i1)
ReaderOf == (s1 :> "store") @@ (s2 :> "store") @@ (w1 :> "pages") @@ (d1 :> "table")

OneId == {w1}
OneItemOf == w1 :> i1
OneReaderOf == w1 :> "pages"
=============================================================================
