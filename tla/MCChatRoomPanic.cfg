CONSTANTS
  c1 = c1  c2 = c2  None = None
  Clients <- MCClients
  NShards = 2
  ShardOf <- MCShardOf
  QueueCap = 1
  HistoryCap = 1
  WindowLimit = 1
  MaxViolations = 2
  MaxMessages = 2
SPECIFICATION Spec
INVARIANT RegisteredHasHandler
