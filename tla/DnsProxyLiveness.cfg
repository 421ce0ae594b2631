SPECIFICATION Spec
CONSTANTS
  Handler = {h1, h2}
  FakeSlots = 1
  RealSlots = 1
  T = 2
PROPERTIES QueriesEnd SaturationEnds
