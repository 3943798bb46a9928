SPECIFICATION Spec
CONSTANTS
  Timestamp = Timestamp
  Duration = Duration
  None = None
  Requests <- MCRequests
INVARIANTS TypeOK FilesAreWhole DanglingCallsAreInner WrittenOnce PooledIsMarked
  ValueCyclesAreAskedFor StringsHaveSlab
PROPERTIES EveryFileSettles
CHECK_DEADLOCK FALSE
