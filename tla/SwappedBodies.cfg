SPECIFICATION Spec
CONSTANTS
  Names = {"s", "t"}
  MaxId = 2
  Apps <- TwoBoundaries
INVARIANT PageIsComplete
