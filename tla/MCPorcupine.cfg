\* checkParallel with three partitions, any of them linearizable, in every mode;
\* bitsets of five members in words of two bits; the histories are in the module.
SPECIFICATION AnySpec
CONSTANTS
  MaxOps = 3
  Invocations <- AllKinds
  Parts = {p1, p2, p3}
  W = 2
  Size = 5
  MaxCached = 5
  MaxPartials = 2
  ShownKinds <- PutAndGets
  EventIds = {0, 4, 7}
INVARIANTS SoundVerdict NoRaceOnLongest CorrectVerdict ListIntact PartialsRight
INVARIANTS BitsetExact HistorySound LargestShown
PROPERTY CheckEnds
CHECK_DEADLOCK FALSE
