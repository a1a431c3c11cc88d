--------------------------- MODULE MCMonitorFloor ---------------------------
(* Values for the constants of MonitorFloor.                               *)
EXTENDS MonitorFloor, TLC

CONSTANTS r1, r2, s1, p1, p2

TwoReports == {r1, r2}
TwoAlerts == [r \in TwoReports |-> IF r = r1 THEN <<"red">> ELSE <<"red", "sos">>]
ProcsAlike == Permutations({p1, p2})
=============================================================================
