CONSTANTS
  Programs <- Schedules
  Options <- NoCutoffs
SPECIFICATION Spec
INVARIANTS TypeOK NoError Optimal Complete NoDuplicateEvents EnabledEvents CurrentBranchOnly HistoryEnables StateOfConfiguration ImmediateConflicts Warnings FoundInTime
PROPERTIES ImplementsExploration
