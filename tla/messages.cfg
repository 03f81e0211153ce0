CONSTANTS
  Limit = 12
  IntSizes = {1, 4}
  StringSizes = {0, 1, 5, 7, 9, 11}
  MaxElements = 2
  MaxFields = 3
  Types = {"known", "newer"}
  Known = {"known"}
SPECIFICATION Spec
INVARIANTS
  DeliveredWhole
  WholeIsDelivered
  OverrunIsLong
