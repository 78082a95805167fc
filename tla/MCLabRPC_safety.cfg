\* Two concurrent Calls over one end, a server that is deleted and replaced.
SPECIFICATION Spec
CONSTANTS
  Calls = {c1, c2}
  EndNames = {e1}
  ServerNames = {s1}
  Instances = {i1, i2}
  Hanging = {}
  Nil = Nil
SYMMETRY Symmetry
INVARIANTS TypeOK NoStaleAck Accounting
PROPERTY ImplementsRpcService
CHECK_DEADLOCK FALSE
