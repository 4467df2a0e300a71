\* Three calls in flight of a page and another browser, five operations.
SPECIFICATION Spec
CONSTANTS
  Calls = {c1, c2, c3}
  MaxOps = 5
SYMMETRY Symmetric
INVARIANTS LogoutEndsSessions RefreshesAreAccounted StatusTellsStore
CHECK_DEADLOCK FALSE
