CONSTANTS
  Updates = {create, change}
  Files = {f, g}
  MaxIndex = 4
SPECIFICATION Spec
INVARIANTS
  TypeOK
  UpdatesAreStored
  OnlyDeletionsAreAtRisk
PROPERTIES
  ImplementsIndexSource
