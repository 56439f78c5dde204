SPECIFICATION FairSpec
CONSTANTS
  None = None
  Contents = {1, 2, 3}
  MayFail = {"draft", "save"}
  Racing = FALSE
  HiddenEdits = FALSE
  MaxEdits = 4
INVARIANTS
  DraftFollows
PROPERTIES
  ClosedIsStill
  Completes
