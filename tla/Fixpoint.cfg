CONSTANTS
  Vars = {"x", "y", "m"}
  NoVar = "none"
  Graphs <- MCGraphs
  Levels <- MCLevels
  Ints <- MCInts
SPECIFICATION FairSpec
INVARIANTS TypeOK NoError PostFixpoint Sound Warned
PROPERTIES FactsGrow Termination
CHECK_DEADLOCK FALSE
