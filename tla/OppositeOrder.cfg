CONSTANTS
  Programs <- OppositeOrder
  Options <- NoCutoffs
SPECIFICATION Spec
INVARIANTS HistoryEnables
