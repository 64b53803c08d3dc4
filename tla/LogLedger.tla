----------------------------- MODULE LogLedger -----------------------------
(***************************************************************************)
(* What the pipeline promises a producer about each log message, with no   *)
(* queue, connection, file or process in it: a message the broker accepts  *)
(* is pending until it is settled, and is settled for good.  A message     *)
(* that cannot be parsed is rejected; any other is kept (every file it     *)
(* should leave behind is there, and stays there) or abandoned (a put      *)
(* returned False, was logged, and the message acknowledged all the same). *)
(* No message is ever lost: there is no step to such a status.             *)
(***************************************************************************)
CONSTANTS Msgs, Malformed

VARIABLE status

Outcomes(m) == IF m \in Malformed THEN {"rejected"} ELSE {"kept", "abandoned"}

Init == status = [m \in Msgs |-> "new"]

Accept(m) ==
  /\ status[m] = "new"
  /\ status' = [status EXCEPT ![m] = "pending"]

Settle(m) ==
  /\ status[m] = "pending"
  /\ \E s \in Outcomes(m) : status' = [status EXCEPT ![m] = s]

Next == \E m \in Msgs : Accept(m) \/ Settle(m)

Spec == Init /\ [][Next]_status

\* Every message that the broker accepts is settled some day.
EverySettles ==
  \A m \in Msgs : status[m] = "pending" ~> status[m] \in Outcomes(m)

\* The same when no put can fail.
EveryKept ==
  \A m \in Msgs \ Malformed : status[m] = "pending" ~> status[m] = "kept"
=============================================================================
