SPECIFICATION Spec
CONSTANTS
  r1 = r1
  r2 = r2
  s1 = s1
  p1 = p1
  p2 = p2
  Procs = {p1, p2}
  Reports <- TwoReports
  AlertsOf <- TwoAlerts
  Soses = {s1}
  NoReport = NoReport
  MaxFlips = 2
SYMMETRY ProcsAlike
INVARIANTS PageMatchesFloor OneAlertAMinute AnsweredIsBroadcast
CHECK_DEADLOCK FALSE
