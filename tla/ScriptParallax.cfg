SPECIFICATION Spec
CONSTANTS
  None = None
  Unset = Unset
  Bad = Bad
  NoScene <- Empty
  Program <- ParallaxProgram
  EntryScene <- WaitEntry
  SceneNames <- MCScenes
  Vars <- MCVars
  Values <- MCValues
  SessionVars <- MCSession
  Slots = {"parallax", "wait"}
  VideoSlots = {}
  Transient = {"parallax"}
  HoldSlots = {}
  SceneSlots = {}
  KeptByEnd = {"parallax"}
  InSnapshot = {}
  KeptByRollback = {"parallax"}
  BacklogCapacity = 1
  MaxForward = 4
  SaveSlots = {0}
  Commands <- ParallaxCommands
INVARIANTS
  SaveAvailable
