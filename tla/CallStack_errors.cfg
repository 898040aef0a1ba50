SPECIFICATION Spec
CONSTANTS
  MaxFrames = 4
  MaxDepth = 4
  MaxDefers = 3
  Errors = TRUE
INVARIANTS
  LostByErrorsOnly
  LastInFirstOut
  ScopeIsInnermost
  LeafSeesItsOld
