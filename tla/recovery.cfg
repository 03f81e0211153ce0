CONSTANTS
  a = a
  splits = splits
  Names = {a, splits}
  SplitDir = splits
  RootName = root
  Times = {now}
  Threads = {t1, t2}
  Paths <- FlatPaths
  Calls = {"Create", "Delete", "SetTimestamp", "Move"}
  Kinds <- Either
  Durable <- AlwaysWritten
  Faults = {"crash"}
  MaxFile = 3
  MaxChange = 3
SYMMETRY ThreadSymmetry
SPECIFICATION Spec
INVARIANTS
  RowsAreBacked
  ChangesAreRecorded
