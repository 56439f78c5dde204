SPECIFICATION Spec
CONSTANTS
  None = None
  Unset = Unset
  Bad = Bad
  NoScene <- Empty
  Program <- StageProgram
  EntryScene <- FlowEntry
  SceneNames <- MCScenes
  Vars <- MCVars
  Values <- MCValues
  SessionVars <- MCSession
  Slots <- StageSlots
  VideoSlots = {"video"}
  Transient <- StageTransient
  HoldSlots = {}
  SceneSlots = {}
  KeptByEnd = {"background"}
  InSnapshot = {"mask"}
  KeptByRollback = {}
  BacklogCapacity = 2
  MaxForward = 6
  SaveSlots = {0, 1}
  Commands <- StageCommands
INVARIANTS
  AttachedProgram
  PositionsValid
  CheckpointReplays
  SavesResume
  SaveAvailable
PROPERTIES
  SaveLossless
