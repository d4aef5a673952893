SPECIFICATION SwitchSpec
CONSTANTS
  NProviders = 2
  NFeatures = 1
  Satellite = {1}
  RemoteProviders = {}
  Sessions = {s1}
  Selected <- AllSelected
  Restarts = FALSE
  MaxStarts = 2
INVARIANTS
  OffStopsUpdates
