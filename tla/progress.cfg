CONSTANTS
  a = a
  splits = splits
  Names = {a, splits}
  SplitDir = splits
  RootName = root
  Times = {now}
  Threads = {t1, t2}
  Paths <- FlatPaths
  Calls = {"Create", "SetPermissions", "Delete", "Move"}
  Kinds <- Either
  Durable <- Either
  Faults = {"crash", "throw"}
  MaxFile = 2
  MaxChange = 2
SPECIFICATION FairSpec
PROPERTIES
  Settles
  ImplementsTransactor
  IncompleteIsKept
