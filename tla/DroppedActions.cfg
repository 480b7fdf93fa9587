CONSTANTS
  Vars = {"x", "y", "m"}
  NoVar = "none"
  Graphs <- DroppedGraphs
  Levels <- MCLevels
  Ints <- MCInts
SPECIFICATION Spec
INVARIANT ActionsOfAllPaths
CHECK_DEADLOCK FALSE
