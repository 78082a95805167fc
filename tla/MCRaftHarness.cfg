\* Two servers, each started at most twice, and two Calls.
SPECIFICATION Spec
CONSTANTS
  N = 2
  Unreliable = TRUE
  MaxStarts = 2
  MaxPicks = 2
  Victims = {1}
  Calls = {c1, c2}
  Nil = Nil
SYMMETRY Symmetry
INVARIANTS AckedDurable InSync OldInstanceSilenced Wired
PROPERTY NothingLost
CHECK_DEADLOCK FALSE
