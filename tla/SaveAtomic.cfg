SPECIFICATION Spec
CONSTANTS
  None = None
  Torn = Torn
  Names = {"quick", "slot"}
  Versions = {1, 2}
  Bundles <- MCBackups
  Olds <- MCOlds
  MayFail = {"copy", "sync", "aside", "install", "restore", "remove", "rename"}
  MaxUnsynced = 3
INVARIANTS
  TypeOK
  CommittedName
  ReportedIsDurable
PROPERTIES
  Transactional
