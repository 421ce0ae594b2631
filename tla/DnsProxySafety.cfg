SPECIFICATION Spec
CONSTANTS
  Handler = {h1, h2, h3}
  FakeSlots = 1
  RealSlots = 2
  T = 1
SYMMETRY HandlerSymmetry
INVARIANTS TypeOK SlotAccounting WithinCapacity
PROPERTIES RefusedByOwnPoolOnly PoolsSpec
