------------------------------ MODULE MCDelta ------------------------------
(* Instance of Delta for TLC: two buckets share a stack.                   *)
EXTENDS Delta, TLC

CONSTANTS b1, b2, b3, k1, k2

TheBuckets == {b1, b2, b3}
TheKeys == {k1, k2}
TheKeyOf == (b1 :> k1) @@ (b2 :> k1) @@ (b3 :> k2)
TheDelays == {1, 2}
=============================================================================
