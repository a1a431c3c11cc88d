SPECIFICATION Spec
CONSTANTS
  Procs = {p1, p2}
  Messages = {m1, m2}
  Enders = {e1}
  MaxSeq = 1
  BatchSize = 2
  MaxMessages = 3
SYMMETRY Alike
INVARIANTS NothingMissed WrittenOnce PurgedForGood
PROPERTIES FeedIncreases
