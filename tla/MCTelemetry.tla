---------------------------- MODULE MCTelemetry ----------------------------
EXTENDS Telemetry

TwoTables == {"decisions", "samples"}
KeepTwo   == [k \in TwoTables |-> IF k = "decisions" THEN 2 ELSE 1]
=============================================================================
