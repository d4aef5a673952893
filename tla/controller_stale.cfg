SPECIFICATION Spec
CONSTANTS
  Observers = {o1, o2}
  Engine = engine
  NFeatures = 1
INVARIANT EnabledAcceptsStarts
