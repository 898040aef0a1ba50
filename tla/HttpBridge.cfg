SPECIFICATION FairSpec
CONSTANTS
  Requests = {r1, r2, r3}
  Buffer = 2
  NoRequest = NoRequest
  MayPanic = TRUE
INVARIANTS
  TypeOK
  SlotsAccounted
  FirstInFirstOut
  NobodyForgotten
  OrderlyExit
PROPERTIES
  ImplementsFairService
  ShutdownCompletes
  AdmittedIsExecuted
