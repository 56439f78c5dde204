SPECIFICATION FairSpec
CONSTANTS
  None = None
  Quick = "quick"
  Cards = {"card"}
  Imported = Imported
  Capacity = 1
  MayFail = {"unlink", "write", "remove", "picture", "install"}
  Overlap = FALSE
  MaxOps = 3
INVARIANTS
  TypeOK
  PictureMatches
  CardMatches
  ContinueMatches
  OneDirectory
PROPERTIES
  NoResurrection
  CommandEnds
