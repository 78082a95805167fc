\* A group of two servers, each started at most twice, a controller, a clerk, one Call.
SPECIFICATION Spec
CONSTANTS
  Gids = {1}
  N = 2
  NCtrlers = 1
  Names <- GroupAndCtrler
  MaxStarts = 2
  Clerks = {ck}
  Mck = mck
  Calls = {c1}
  Nil = Nil
INVARIANT CannotSend
CHECK_DEADLOCK FALSE
