SPECIFICATION FairSpec
CONSTANTS
  None = None
  Unset = Unset
  Bad = Bad
  NoScene <- Empty
  Program <- WaitProgram
  EntryScene <- WaitEntry
  SceneNames <- MCScenes
  Vars <- MCVars
  Values <- MCValues
  SessionVars <- MCSession
  Slots = {"wait", "video", "curtain"}
  VideoSlots = {"video"}
  Transient = {"video"}
  HoldSlots = {"curtain"}
  SceneSlots = {}
  KeptByEnd = {}
  InSnapshot = {}
  KeptByRollback = {}
  BacklogCapacity = 1
  MaxForward = 4
  SaveSlots = {0}
  Commands <- WaitCommands
PROPERTIES
  ReachesPlayer
  ResumeEnds
  ReturnCompletes
  VideoHandsOver
