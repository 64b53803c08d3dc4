--------------------------- MODULE MCStoreServer ---------------------------
(* Instances of StoreServer for TLC.                                       *)
EXTENDS StoreServer

CONSTANTS a, b, x, c1, c2

OneKey == {<<a>>}
TwoKeys == {<<a>>, <<b>>}
=============================================================================
