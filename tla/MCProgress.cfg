\* One clerk and three controllers, the last of which keeps answering; one clerk on two keys,
\* with groups of two servers; two goroutines that encode and decode twice each.
SPECIFICATION AnySpec
CONSTANTS
  Clerks = {a}
  NServers = 3
  GroupSize = 2
  NShards = 2
  Goroutines = {g1, g2}
  MaxOps = 2
  Kids <- SomeTypes
  Lower <- LowerFields
  Parts <- SomeValues
  Basic <- BasicValues
  Unexported = {"data"}
  Encoded = {"Node", "Reply"}
  TypeOf <- TargetTypes
INVARIANT ReportsRight
PROPERTIES KeepsTrying ChecksEnd
CHECK_DEADLOCK FALSE
