---------------------------- MODULE MCHashTable ----------------------------
(* Hash values for four keys, of which k1 and k5 always share a bucket and *)
(* k1 and k4 share one of two but not one of five.                          *)
EXTENDS HashTable, TLC

CONSTANTS k1, k2, k4, k5
SmallKeys == {k1, k2, k4, k5}
SmallHashOf == (k1 :> 0) @@ (k2 :> 1) @@ (k4 :> 3) @@ (k5 :> 15)
=============================================================================
