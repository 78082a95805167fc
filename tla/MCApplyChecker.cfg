\* Two servers with two instances each, two indices, two commands; for the
\* leader checks three servers, two terms and two rounds of checkOneLeader.
SPECIFICATION EitherSpec
CONSTANTS
  N = 2
  MaxIndex = 2
  Commands = {c1, c2}
  MaxGen = 2
  Snapshot = FALSE
  SnapShotInterval = 10
  Requests <- BothServers
  None = None
  Peers = 3
  MaxTerm = 1
  MaxIters = 2
SYMMETRY CommandSymmetry
INVARIANTS TypeOK Detected Contiguous CountSound LeaderChecksSound
\* log.Fatalf and t.Fatalf end the test
CHECK_DEADLOCK FALSE
