SPECIFICATION FairSpec
CONSTANTS
  Paths = {a, b}
  lib = lib
  Imports <- OneImport
  Clients = {c1, c2}
  MaxEdits = 3
  MainFaults = {"parse", "eval"}
  ImportFaults = TRUE
  EditsDuringReload = TRUE
  None = None
  NotFound = NotFound
INVARIANTS
  OneWholeVersion
  TablesAgree
  RunsWhatIsOnDisk
PROPERTIES
  CatchesUp
