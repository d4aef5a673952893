SPECIFICATION DaemonsSpec
CONSTANTS
  NProviders = 2
  NFeatures = 1
  Satellite = {1, 2}
  RemoteProviders = {2}
  Sessions = {s1, s2}
  Selected <- AllSelected
  Restarts = FALSE
  MaxStarts = 2
  NRemotes = 1
  ProviderOf <- LastRemote
  Crashes = TRUE
  MaxTasks = 3
INVARIANTS
  SatelliteOffReachesAll
  ActiveMeansDelivering
  StartsAreServed
  StartsReachDaemons
  EngineInv
CHECK_DEADLOCK FALSE
