CONSTANTS
  Programs <- Loops
  Options <- WithCutoffs
SPECIFICATION Spec
INVARIANTS CoversBlocks Warnings
PROPERTIES Termination ImplementsExploration
