SPECIFICATION FairSpec
CONSTANTS
  NRemotes = 2
  Features = {position}
  Crashes = TRUE
  MaxTasks = 3
INVARIANTS
  InStep
  UnwantedIsOff
PROPERTIES
  StartsArrive
  LoadingEnds
CHECK_DEADLOCK FALSE
