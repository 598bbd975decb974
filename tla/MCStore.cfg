SPECIFICATION Spec
CONSTANTS
  None = None
  caller1 = caller1
  caller2 = caller2
  item = item
  something = something
  stream1 = stream1
  stream2 = stream2
  mutations = mutations
  Goroutines = {caller1, caller2}
  Ids = {item}
  Values = {something}
  Streams = {stream1, stream2, mutations}
  Kind <- TwoAndOne
  Filter <- Everything
  Waiters = {1}
  MaxCalls = 5
  MaxResets = 1
SYMMETRY Alike
INVARIANTS
  TypeOK
  NotifiedOnce
  VersionsOrderChanges
  TellsWaiters
CHECK_DEADLOCK FALSE
