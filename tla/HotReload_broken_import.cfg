SPECIFICATION Spec
CONSTANTS
  Paths = {a, b}
  lib = lib
  Imports <- OneImport
  Clients = {c1}
  MaxEdits = 2
  MainFaults = {}
  ImportFaults = TRUE
  EditsDuringReload = FALSE
  None = None
  NotFound = NotFound
INVARIANTS
  FixedImportIsLoaded
