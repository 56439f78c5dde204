SPECIFICATION Spec
CONSTANTS
  None = None
  Unset = Unset
  Bad = Bad
  NoScene <- Empty
  Program <- FlowProgram
  EntryScene <- FlowEntry
  SceneNames <- MCScenes
  Vars <- MCVars
  Values <- MCValues
  SessionVars <- MCSession
  Slots <- FlowSlots
  VideoSlots = {}
  Transient = {}
  HoldSlots = {}
  SceneSlots = {}
  KeptByEnd <- FlowKept
  InSnapshot = {"place"}
  KeptByRollback = {}
  BacklogCapacity = 2
  MaxForward = 6
  SaveSlots = {0}
  Commands <- FlowCommands
INVARIANTS
  TypeOK
  YieldOwned
  RollbackShowsLine
  BacklogTop
PROPERTIES
  NoStepPastYield
  ReadMeansShown
  NewGameFresh
