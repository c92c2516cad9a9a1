CONSTANTS
  Process = {p, q}
  Service = {s}
  Remote = {r}
  Executor = executor
  ClusterServer = cluster_server
  Ungrouped = {}
  Cid = {c}
  NoCid = NoCid
  SharedCid = {c}
  MaxOutput = 2
  MaxEmit = 1
SYMMETRY Symmetry
SPECIFICATION Spec
CHECK_DEADLOCK FALSE
INVARIANT TimeoutsAreOwn
