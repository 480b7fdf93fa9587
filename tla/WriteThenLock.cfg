CONSTANTS
  Programs <- WriteThenLock
  Options <- NoCutoffs
SPECIFICATION Spec
INVARIANTS LockHistoryShape
