SPECIFICATION FairSpec
CONSTANTS
  Values = {1, 2, 3}
  Default = 1
  Lines = {"a", "b", "c"}
  Pictures = {"cg", "bgm"}
  Hurried = FALSE
  MaxDamage = 3
  MaxCopies = 2
INVARIANTS
  TypeOK
  ExitKeeps
  OriginalKept
PROPERTIES
  EventuallyWritten
