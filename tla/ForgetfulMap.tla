---------------------------- MODULE ForgetfulMap ----------------------------
(***************************************************************************)
(* What the C++ key-value store promises a reader.  It is a map that may   *)
(* forget: Get returns what was last written to the key or nothing, never  *)
(* an older value or another key's.  A deletion may uncover a value that   *)
(* was visible when a flush was interrupted; and only a restart can bring  *)
(* an older value back, one that was once written to that key.             *)
(***************************************************************************)
EXTENDS Naturals

CONSTANTS Keys, Values, Missing

VARIABLES
  writes,    \* how many writes and deletions there were
  up,        \* the store is open
  visible,   \* what Get would return, or Missing
  leftover,  \* what an interrupted flush has left under each key, or Missing
  past       \* the values written to each key so far

mapVars == <<writes, up, visible, leftover, past>>

Nothing == [k \in Keys |-> Missing]

Init ==
  /\ writes = 0
  /\ up = TRUE
  /\ visible = Nothing
  /\ leftover = Nothing
  /\ past = [k \in Keys |-> {}]

Write(k, v) ==
  /\ up
  /\ writes' = writes + 1
  /\ visible' = [visible EXCEPT ![k] = v]
  /\ past' = [past EXCEPT ![k] = @ \cup {v}]
  /\ UNCHANGED <<up, leftover>>

Delete(k) ==
  /\ up
  /\ writes' = writes + 1
  /\ visible' = [visible EXCEPT ![k] = leftover[k]]
  /\ UNCHANGED <<up, leftover, past>>

\* Whatever else the store lets go of; what is left over was visible once.
Forget(keys) ==
  /\ up
  /\ visible' = [k \in Keys |-> IF k \in keys THEN Missing ELSE visible[k]]
  /\ leftover' \in [Keys -> Values \cup {Missing}]
  /\ \A k \in Keys : leftover'[k] \in {Missing, leftover[k], visible[k]}
  /\ UNCHANGED <<writes, up, past>>

Stop ==
  /\ up
  /\ up' = FALSE
  /\ visible' = Nothing
  /\ leftover' = Nothing
  /\ UNCHANGED <<writes, past>>

Restart ==
  /\ ~up
  /\ up' = TRUE
  /\ visible' \in [Keys -> Values \cup {Missing}]
  /\ \A k \in Keys : visible'[k] \in past[k] \cup {Missing}
  /\ UNCHANGED <<writes, leftover, past>>

Next ==
  \/ \E k \in Keys, v \in Values : Write(k, v)
  \/ \E k \in Keys : Delete(k)
  \/ \E keys \in SUBSET Keys : Forget(keys)
  \/ Stop
  \/ Restart

Spec == Init /\ [][Next]_mapVars
=============================================================================
