SPECIFICATION Spec
CONSTANTS
  Pool = {"p", "q"}
  Member = {"a", "b"}
  Outbounds <- MCOutbounds
  Interval = 3
  RetryCap = 2
INVARIANTS TypeOK FailureIsRetriedSoon
PROPERTIES PriorityKept NothingAfterReturn Converges CancelledRunReturns
