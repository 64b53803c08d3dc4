---------------------------- MODULE MCLSMEngine ----------------------------
(* An instance of LSMEngine for TLC.                                       *)
EXTENDS LSMEngine

CONSTANTS k1, k2, small, large

EntrySizes == [c \in Contents |-> IF c = large THEN 2 ELSE 1]
=============================================================================
