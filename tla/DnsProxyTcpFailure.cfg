SPECIFICATION Spec
CONSTANTS
  Handler = {h1}
  FakeSlots = 1
  RealSlots = 1
  T = 2
PROPERTY FailureIsAnswered
