----------------------------- MODULE MCLRUCache -----------------------------
(* Entries of 1, 3 and 7 bytes in a cache of 5 bytes: one value does not   *)
(* fit at all; making room for a large one may take three evictions.       *)
EXTENDS LRUCache

CONSTANTS k1, k2, k3, k4, small, large, huge

Sizes == [v \in Values |-> CASE v = small -> 1 [] v = large -> 3 [] OTHER -> 7]
=============================================================================
