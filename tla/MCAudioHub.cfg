CONSTANTS
  c1 = c1  hf = hf  vhf = vhf  flac = flac  None = None
  Clients <- MCClients
  Receivers <- MCReceivers
  Shards <- MCShards
  ShardOf <- MCShardOf
  Active = hf
  Running <- MCRunning
  Buildable <- MCRunning
  Shows <- MCRunning
  QueueCap = 2
  OutCap = 2
SPECIFICATION Spec
INVARIANTS OneReceiverPerClient OthersSeeTheWindow OneThreadPerClient CleanAfterSettings NoLockCycle
