SPECIFICATION Spec
CONSTANTS
  None = None
  Unset = Unset
  Bad = Bad
  NoScene <- Empty
  Program <- EndProgram
  EntryScene <- WaitEntry
  SceneNames <- MCScenes
  Vars <- MCVars
  Values <- MCValues
  SessionVars <- MCSession
  Slots = {"wait"}
  VideoSlots = {}
  Transient = {}
  HoldSlots = {}
  SceneSlots = {}
  KeptByEnd = {}
  InSnapshot = {}
  KeptByRollback = {}
  BacklogCapacity = 1
  MaxForward = 4
  SaveSlots = {0}
  Commands <- EndCommands
PROPERTIES
  QuickSaveWhilePlaying
