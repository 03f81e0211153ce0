CONSTANTS
  ValidNames = {"home", "work"}
  InvalidNames = {"a/b"}
  IDs = {1, 2}
  Callers = {"main", "test"}
  Faults = {"crash", "throw", "unwritten"}
SPECIFICATION Spec
INVARIANTS
  TypeOK
  OpenIsWhole
  IdentityIsKept
