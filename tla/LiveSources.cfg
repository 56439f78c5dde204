SPECIFICATION RunSpec
CONSTANTS
  None = None
  Nil = Nil
  Files = {f, g}
  Contents = {old, new, broken}
  Invalid = {broken}
  SpawnFails = TRUE
  MaxChanges = 4
  Documents = {a, b}
  Scripts = {short, long, bad}
  Refused = {bad}
  Long = {long}
  Budget = 3
  MaxEdits = 2
  MaxClicks = 2
INVARIANTS
  PlaysProject
  Synced
  ShownIsCurrent
PROPERTIES
  SavedIsPlayed
  Delivered
CHECK_DEADLOCK FALSE
