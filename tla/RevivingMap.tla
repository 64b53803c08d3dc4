----------------------------- MODULE RevivingMap -----------------------------
(***************************************************************************)
(* What the LSM engine promises a reader.  It is a map that crashes and    *)
(* background work leave alone, with two exceptions: a key that was        *)
(* removed may come to read as absent or as a value once written to it,    *)
(* and so may any key from the moment the store is damaged: when a table   *)
(* could not be created or opened, or when an eleventh table is there.     *)
(***************************************************************************)
EXTENDS Naturals

CONSTANTS Keys, Values, Missing, Tomb

VARIABLES
  writes,    \* how many calls of put and remove there were
  value,     \* what get answers, or would after a restart
  past,      \* the values written to each key so far
  damaged    \* a table could not be created or opened, or there is an eleventh

mapVars == <<writes, value, past, damaged>>

Init ==
  /\ writes = 0
  /\ value = [k \in Keys |-> Missing]
  /\ past = [k \in Keys |-> {}]
  /\ damaged = FALSE

Write(k, v) ==
  /\ writes' = writes + 1
  /\ value' = [value EXCEPT ![k] = v]
  /\ past' = [past EXCEPT ![k] = @ \cup {v}]
  /\ UNCHANGED damaged

Remove(k) ==
  /\ writes' = writes + 1
  /\ value' = [value EXCEPT ![k] = Tomb]
  /\ UNCHANGED <<past, damaged>>

Stray(k) == value'[k] \in past[k] \cup {Missing, Tomb}

Revive ==
  /\ value' \in [Keys -> Values \cup {Missing, Tomb}]
  /\ \A k \in Keys : value'[k] = value[k] \/ (value[k] = Tomb /\ Stray(k))
  /\ UNCHANGED <<writes, past, damaged>>

Damage ==
  /\ damaged' = TRUE
  /\ value' \in [Keys -> Values \cup {Missing, Tomb}]
  /\ \A k \in Keys : Stray(k)
  /\ UNCHANGED <<writes, past>>

Next ==
  \/ \E k \in Keys, v \in Values : Write(k, v)
  \/ \E k \in Keys : Remove(k)
  \/ Revive
  \/ Damage

Spec == Init /\ [][Next]_mapVars
=============================================================================
