\* One Call whose handler returns and one whose handler never does.
SPECIFICATION FairSpec
CONSTANTS
  Calls = {c1, c2}
  EndNames = {e1}
  ServerNames = {s1}
  Instances = {i1}
  Hanging = {c2}
  Nil = Nil
PROPERTIES CallReturns HungCallFreed NoGoroutineLeak
CHECK_DEADLOCK FALSE
