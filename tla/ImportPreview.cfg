SPECIFICATION Spec
CONSTANTS
  None = None
  Quick = "quick"
  Cards = {"card"}
  Imported = Imported
  Capacity = 1
  MayFail = {"unlink", "write", "remove", "picture", "install"}
  Overlap = TRUE
  MaxOps = 3
INVARIANTS
  PictureMatches
