\* The empty history, which KvModel.Partition splits into no partition.
SPECIFICATION FairSpec
CONSTANT Parts = {}
PROPERTY LinearizableGivesOk
CHECK_DEADLOCK FALSE
