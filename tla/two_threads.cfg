CONSTANTS
  a = a
  splits = splits
  Names = {a, splits}
  SplitDir = splits
  RootName = root
  Times = {now}
  Threads = {t1, t2}
  Paths <- FlatPaths
  Calls = {"Create", "Delete", "SetPermissions", "Move"}
  Kinds <- OnlyDirectories
  Durable <- NotYetWritten
  Faults = {"crash", "throw"}
  MaxFile = 3
  MaxChange = 3
  Half = 2
  Wide = 8
SYMMETRY ThreadSymmetry
SPECIFICATION Spec
INVARIANTS
  TypeOK
  IndexesAreFresh
  ChangeOfOneFile
  HistoryIsWellFounded
  RootIsThere
  OKMeansDone
  IdentityIsRead
PROPERTIES
  RowsMoveForward
