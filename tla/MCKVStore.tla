----------------------------- MODULE MCKVStore -----------------------------
(* Instances of KVStore for TLC.                                           *)
EXTENDS KVStore

CONSTANTS k1, k2, small, large

CacheSizes == [v \in Values |-> IF v = small THEN 1 ELSE 2]
EntrySizes == [c \in Contents |-> IF c = large THEN 2 ELSE 1]
=============================================================================
