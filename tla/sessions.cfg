SPECIFICATION FairSpec
CONSTANTS
  Clients = {a, b}
  NoClient = none
  Features = {"position"}
  MaxSessions = 2
  MaxLate = 1
  Restarts = TRUE
INVARIANTS
  StatusAgrees
  OrphansAreIdle
PROPERTIES
  OnlyOwnerSwitches
  DeadClientsAreReleased
  CallsReturn
CHECK_DEADLOCK FALSE
