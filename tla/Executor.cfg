CONSTANTS
  Process = {p}
  Service = {s}
  Remote = {r}
  Executor = executor
  ClusterServer = cluster_server
  Ungrouped = {u}
  Cid = {c1, c2}
  NoCid = NoCid
  SharedCid = {c1}
  MaxOutput = 2
  MaxEmit = 3
SPECIFICATION Spec
CHECK_DEADLOCK FALSE
INVARIANT TypeOK
INVARIANT ProcessTimersFire
INVARIANT CancelHolds
INVARIANT CallsDoNotNest
PROPERTY OutputInOrder
