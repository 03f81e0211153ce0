CONSTANTS
  a = a
  splits = splits
  Names = {a, splits}
  SplitDir = splits
  RootName = root
  Times = {now}
  Threads = {t1}
  Paths <- FlatPaths
  Calls = {"Create", "Delete", "SetPermissions", "Move"}
  Kinds <- OnlyDirectories
  Durable <- NotYetWritten
  Faults = {"crash"}
  MaxFile = 3
  MaxChange = 2
SPECIFICATION Spec
INVARIANTS
  ChangesAreRecorded
