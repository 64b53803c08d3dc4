------------------------------ MODULE Entries ------------------------------
(* What the parts of the C++ key-value store have in common.               *)
CONSTANTS
  Keys, Values,
  Missing,     \* nothing is known of the key
  Tomb         \* a deletion mark (is_deleted)

Contents == Values \cup {Tomb}

ASSUME EntriesAssumption == Missing \notin Contents /\ Tomb \notin Values
=============================================================================
