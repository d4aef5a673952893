CONSTANTS
  p1 = p1
  p2 = p2
  Providers = {p1, p2}
  Nobody = Nobody
  Accuracies = {1, 2}
  NoAccuracy = NoAccuracy
  NoUpdate = NoUpdate
  Limit = 0
  Cutoff = 1
  MaxDelay = 1
  MaxTime = 2
  MaxUpdates = 3
  r1 = r1
  Reporters = {r1}
  Starts = {20, 27}
  Delays = {0, 1, 3, 45}
  Offsets = {0, 4, 30}
  Second = 10
  Fraction = 16
  Range = 64
  Since1900 = 5
  MaxCalls = 5
  Capabilities = {"single_shot", "on_demand_time"}
  Prns = {0, 2, 3}
  Width = 2
  Trials = 2
  MaxCallbacks = 4
  Absent = Absent
  Unreadable = Unreadable
  MaxSets = 4
  MaxFaults = 2
  w1 = w1
  w2 = w2
  Workers = {w1, w2}
  NoTask = NoTask
  MaxTasks = 4
  Offered = {"position", "heading"}
  Handles = {"a", "b", "c"}
  Heap = {1, 2, 3}
  MaxSteps = 6
  Features = {"position", "heading"}
  Optionals = {"vertical"}
  Unspecified = Unspecified
  Lengths = {1, 2}
  Candidates = {"a", "b", "c"}
  Weakest = 0
  Strongest = 31
INIT MCInit
NEXT MCNext
INVARIANTS
  PeripheryInv
  UpdatesAreSound HarvestingIsSafe GpsIsSafe DriversAreSafe SettingsAreSafe PoolIsSafe
  ObjectsAreFreedOnce ContentsAreSound
SYMMETRY Symmetry
CHECK_DEADLOCK FALSE
