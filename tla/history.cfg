CONSTANTS
  a = a
  splits = splits
  Names = {a, splits}
  SplitDir = splits
  RootName = root
  Times = {now}
  Threads = {t1, t2}
  Paths <- DeepPaths
  Calls = {"Create", "Delete", "Move"}
  Kinds <- Either
  Durable <- NotYetWritten
  Faults = {"crash", "throw"}
  MaxFile = 3
  MaxChange = 2
SYMMETRY ThreadSymmetry
SPECIFICATION HistorySpec
INVARIANTS
  DeletedStaysDeleted
  OnlyKnownAssertions
PROPERTIES
  ReturnedReplayIsNoOp
  ImplementsShare
