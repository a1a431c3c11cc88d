SPECIFICATION Spec
CONSTANTS
  w1 = w1 w2 = w2 w3 = w3 m1 = m1 m2 = m2
  Windows = {w1, w2, w3}
  Meetings = {m1, m2}
  MeetingOf <- TwoMeetings
  Calls = {c1, c2, c3}
  Viewers = {v1}
  Joins = {j1, j2}
  RecentLimit = 1
SYMMETRY Symmetric
CHECK_DEADLOCK FALSE
INVARIANTS NoGaps OneRowPerWindow OneIdPerWindow AckedRoom
