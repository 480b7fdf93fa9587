CONSTANTS
  Vars = {"x", "y", "m"}
  NoVar = "none"
  Graphs <- NotEqualGraphs
  Levels <- MCLevels
  Ints <- MCInts
SPECIFICATION Spec
INVARIANT Sound
CHECK_DEADLOCK FALSE
