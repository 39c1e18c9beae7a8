SPECIFICATION Spec
CONSTANTS
  Names = {"s", "t", "u"}
  MaxId = 2
  Apps <- Pages
INVARIANTS PageIsComplete SentInOrder
