SPECIFICATION Spec
CONSTANTS
  Keys = {1, 2, 3, 4, 5, 6, 7, 8}
  Sizes = {2, 3}
  Cap = 4
  MaxChild = 5
  MaxNodes = 22
  MaxUpdates = 3
  Loads <- Seeds
CONSTRAINT UntilFault
INVARIANTS Found
