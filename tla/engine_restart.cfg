SPECIFICATION FairSwitchSpec
CONSTANTS
  NProviders = 2
  NFeatures = 2
  Satellite = {1}
  RemoteProviders = {2}
  Sessions = {s1}
  Selected <- AllSelected
  Restarts = TRUE
  MaxStarts = 2
INVARIANTS
  ServedRequestHolds
  SatelliteOffRefuses
  StatesAgree
PROPERTIES
  RequestsTakeEffect
  ImplementsPowerSwitch
