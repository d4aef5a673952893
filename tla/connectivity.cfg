SPECIFICATION ConnectivitySpec
CONSTANTS
  Modems = {m1}
  Technologies = {"gsm", "umts"}
  CellIds = {c1, c2}
  Wifi = {w1}
  Cellular = {d1}
  Aps = {a1}
  DeviceOf <- OneRadio
  NoDevice = NoDevice
  MaxSignals = 2
  MaxTasks = 2
  MaxFaults = 1
INVARIANTS
  CellCacheIsSound
  ValidUmtsIsComplete
  WifisAreInAir
  ConnectionIsCurrent
  ConnectivityInv
PROPERTIES
  StaleCellsExpire
  DevicesGetCached
CHECK_DEADLOCK FALSE
