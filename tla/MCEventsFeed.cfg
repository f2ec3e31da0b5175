SPECIFICATION Spec
CONSTANTS
  a = a
  b = b
  r1 = r1
  r2 = r2
  s1 = s1
  Listeners <- MCListeners
  Receivers <- MCReceivers
  ShardOrder <- MCShardOrder
  Subscribers <- MCSubscribers
  VisitOrder <- MCVisitOrder
  NoChanges = NoChanges
  Active = r1
  QueueCap = 1
  EveryTicks = 2
  MaxChanges = 3
INVARIANT NoGhost
PROPERTY ViewConverges
PROPERTY PeriodicUpdates
