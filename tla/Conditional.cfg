CONSTANTS
  Programs <- Conditional
  Options <- NoCutoffs
SPECIFICATION Spec
INVARIANTS HistoriesAreConfigurations
