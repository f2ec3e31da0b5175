SPECIFICATION Spec
CONSTANTS
  Ids = {rx0, rx1}
  None = None
  Absent = Absent
INVARIANT CompletedSetupLoads
INVARIANT TornHasCopy
PROPERTY HotReload
