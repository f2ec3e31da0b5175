CONSTANTS
  c1 = c1  c2 = c2  hf = hf  vhf = vhf  None = None
  Clients <- MCClients
  Receivers <- MCReceivers
  Shards <- MCShards
  ShardOf <- MCShardOf
  Levels <- MCLevels
  Active = hf
  Running <- MCRunning
  QueueCap = 1
  OutCap = 1
SPECIFICATION Spec
SYMMETRY MCSymmetry
INVARIANTS RegistryMatchesHandler LevelMatchesData FrameMatchesSettings SettingsCurrent
PROPERTY QueuedOnlyWhileRegistered
CHECK_DEADLOCK FALSE
