CONSTANTS
  Programs <- WriteThenJoin
  Options <- NoCutoffs
SPECIFICATION Spec
INVARIANTS Complete
