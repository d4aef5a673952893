CONSTANTS
  Starts = {20, 27}
  Delays = {0, 1, 3, 45}
  Offsets = {0, 4, 30}
  Second = 10
  Fraction = 16
  Range = 64
  Since1900 = 5
INIT Init
NEXT Next
INVARIANT UncertaintyCoversError
CHECK_DEADLOCK FALSE
