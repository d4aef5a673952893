SPECIFICATION Spec
CONSTANTS
  Observers = {o1, o2}
  Engine = engine
  NFeatures = 2
SYMMETRY ObserverSymmetry
INVARIANTS
  NeverOvercounted
  CountExact
  RunningIffCounted
  NoLeak
PROPERTIES
  ImplementsSwitch
