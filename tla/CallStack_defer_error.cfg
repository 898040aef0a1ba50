SPECIFICATION Spec
CONSTANTS
  MaxFrames = 3
  MaxDepth = 3
  MaxDefers = 2
  Errors = TRUE
INVARIANTS
  DeferAlwaysRuns
