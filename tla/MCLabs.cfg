\* kvraft: three servers, restarted at most once, one request, three procedures after
\* make_config.  shardctrler: three servers, server 0 restarted once, two requests.
\* shardkv: a group of two servers, each started at most twice, a controller, one request.
\* The clerks: two of them, two servers to try, two updates; a shard that is assigned and then moves.
SPECIFICATION AnySpec
CONSTANTS
  N = 3
  MaxStarts = 2
  MaxPicks = 3
  Victims = {0}
  Nil = Nil
  Calls1 = {c1}
  Calls2 = {d1, d2}
  Users = {ck}
  Mck = mck
  Gids = {1}
  NGroup = 2
  NCtrlers = 1
  Clerks = {a, b}
  NServers = 2
  CtrlerUpdates <- JoinAndMove
  Keys = {0}
  NShards = 2
  Configs <- Moves
  GroupSize = 2
  KvUpdates <- SameKey
SYMMETRY Symmetry
INVARIANTS AckedDurable LinksAsAsked LeaderInMinority OldInstanceSilenced
INVARIANTS ReturnedExecuted ReadsFresh
PROPERTIES NothingLost FrozenWhileDown
CHECK_DEADLOCK FALSE
