SPECIFICATION Spec
CONSTANTS
  Timestamp = Timestamp
  Duration = Duration
  None = None
  Requests <- MCRequests
INVARIANT CallsResolve
CHECK_DEADLOCK FALSE
