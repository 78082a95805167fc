\* Three workers with any number of calls; up to three files of up to two words.
SPECIFICATION EitherSpec
CONSTANTS
  Workers = {w1, w2, w3}
  Words = {1, 2}
  MaxFiles = 3
  MaxWords = 2
SYMMETRY Symmetric
INVARIANTS ParallelSeen CountedRanTogether OutputRight
CHECK_DEADLOCK FALSE
