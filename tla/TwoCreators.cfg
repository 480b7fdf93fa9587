CONSTANTS
  Programs <- TwoCreators
  Options <- NoCutoffs
SPECIFICATION Spec
INVARIANTS EnabledEvents
