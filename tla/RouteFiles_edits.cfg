SPECIFICATION FairSpec
CONSTANTS
  users = users
  Order <- OneFile
  Methods = {get, post}
  MaxEdits = 3
  None = None
  NotFound = NotFound
INVARIANTS
  RunsRouteOnDisk
  AllOrNothing
PROPERTIES
  CatchesUp
