--------------------------- MODULE MCLogPipeline ---------------------------
(* Instances of LogPipeline for TLC.                                       *)
EXTENDS LogPipeline

CONSTANTS m1, m2, m3, p1, p2, logs, anomalies

\* Every message carries its timestamp, and no two carry the same.
OwnKeys == [m \in Msgs |-> CASE m = m1 -> {1} [] m = m2 -> {2} [] OTHER -> {3}]
\* m1 carries none: its name comes from the clock, and differs every time.
ClockKeys == [m \in Msgs |-> CASE m = m1 -> {1, 4} [] m = m2 -> {2} [] OTHER -> {3}]

Prefixes == [r \in Readers |-> IF r = logs THEN "log" ELSE "anomaly"]

\* Of one anomaly and three logs, the list of logs has room for three files.
TightLimits == [r \in Readers |-> IF r = logs THEN 3 ELSE 1]
=============================================================================
