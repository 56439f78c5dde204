----------------------------- MODULE DelayedWriters -----------------------------
(***************************************************************************)
(* What the game keeps beside the save slots: shared variables (profile),  *)
(* the lines that were read, the gallery and the settings.  The first two  *)
(* are written some time after a change, the gallery at once and again     *)
(* after a failure, the settings by their screen; an exit writes what is   *)
(* still waiting.  A writer finds out whether there is something to write  *)
(* by comparing the State with what it wrote last.  No writer reads what   *)
(* another one writes, so the module follows one store, any of the four.   *)
(***************************************************************************)
EXTENDS Naturals, Sequences, FiniteSets

CONSTANTS
  Values,           \* values of the shared variables and of the settings
  Default,          \* what a game without the file starts with
  Lines,            \* lines that can be read
  Pictures,         \* pictures that can be unlocked
  Hurried,          \* the script may run before an import is written back
  MaxDamage,        \* bound: times a file is found unreadable
  MaxCopies         \* recovery names write_preserving tries

Stores == {"profile", "history", "gallery", "settings"}
Preserving == {"gallery", "settings"}
Clean == 3
ASSUME Typed == Default \in Values /\ IsFiniteSet(Lines) /\ MaxDamage \in Nat /\ MaxCopies \in Nat

VARIABLES
  store,            \* the one that is followed
  memory,           \* the State's field, or the settings
  file,             \* what the file holds; a missing file holds the default
  broken,           \* 0, or the number of the damage of an unreadable file
  copies,           \* <name>.recovery-1, -2, ...: the damage each one keeps
  damage,           \* how often the file was damaged
  saved,            \* what the writer compares with
  clock,            \* half seconds since the change was seen, or Clean
  changed,          \* GameState was touched since the writers last looked
  process           \* "on", "flushed" at the end of an exit, "off"
onDisk == <<file, broken, copies, damage>>
writer == <<saved, clock>>
vars == <<store, memory, onDisk, writer, changed, process>>

Content ==
  CASE store = "history" -> SUBSET Lines
    [] store = "gallery" -> SUBSET Pictures
    [] OTHER -> Values
Fresh == IF store \in {"history", "gallery"} THEN {} ELSE Default
(* The delays in half seconds.                                             *)
Delay == IF store = "profile" THEN 1 ELSE 2
Delayed == store # "settings"

Load == IF broken = 0 THEN file ELSE Fresh
(* The read history is compared by its size.                               *)
Measure(content) == IF store = "history" THEN Cardinality(content) ELSE content
Same == saved = Measure(memory)

TypeOK ==
  /\ store \in Stores
  /\ memory \in Content /\ file \in Content
  /\ damage \in 0..MaxDamage /\ broken \in 0..damage
  /\ copies \in Seq(1..damage) /\ Len(copies) <= MaxCopies
  /\ saved \in {Measure(c) : c \in Content}
  /\ clock \in 0..Clean /\ (clock # Clean => clock < Delay)
  /\ changed \in BOOLEAN
  /\ process \in {"on", "flushed", "off"}

-------------------------------------------------------------------------------
(* One write of memory's content.  Before an unreadable file is replaced it *)
(* is linked under a free recovery name; without one it is not replaced.    *)

Endangered == store \in Preserving /\ broken # 0
Refused == Endangered /\ Len(copies) = MaxCopies
(* Mutant: any recovery name is used, also beyond the last one.            *)
LinkAnyway == copies' = IF Endangered THEN Append(copies, broken) ELSE copies
Link ==
  /\ ~Refused
  /\ copies' = IF Endangered THEN Append(copies, broken) ELSE copies
(* Mutant: the unreadable file is overwritten.                             *)
LandsOver(content) == file' = content /\ broken' = 0 /\ UNCHANGED <<copies, damage>>
Lands(content) == Link /\ file' = content /\ broken' = 0 /\ UNCHANGED damage
(* A failure leaves the file, with or without the link.                    *)
Fails == (Link \/ UNCHANGED copies) /\ UNCHANGED <<file, broken, damage>>

Waits(c) == clock' = c /\ UNCHANGED <<onDisk, saved>>
(* persist_now                                                             *)
PersistNow ==
  \/ Lands(memory) /\ saved' = Measure(memory) /\ clock' = Clean
  \/ Fails /\ clock' = 0 /\ UNCHANGED saved

(* Mutant: a change starts the delay anew.                                 *)
ElapsedAnew(t) == (IF clock = Clean \/ changed THEN 0 ELSE clock) + t
Elapsed(t) == (IF clock = Clean THEN 0 ELSE clock) + t
Looks == clock # Clean \/ changed
PersistDelayed(t) ==
  /\ store \in {"profile", "history"}
  /\ \/ ~Looks /\ UNCHANGED <<onDisk, writer>>
     \/ Looks /\ Same /\ Waits(Clean)
     \/ Looks /\ ~Same /\ Elapsed(t) < Delay /\ Waits(Elapsed(t))
     \/ Looks /\ ~Same /\ Elapsed(t) >= Delay /\ PersistNow
Retries(t) == clock # Clean /\ clock + t < Delay
PersistGallery(t) ==
  /\ store = "gallery"
  /\ \/ Retries(t) /\ Waits(clock + t)
     \/ ~Looks /\ UNCHANGED <<onDisk, writer>>
     \/ Looks /\ ~Retries(t) /\ Same /\ Waits(Clean)
     \/ Looks /\ ~Retries(t) /\ ~Same /\ PersistNow

(* The writer in a frame t half seconds after the frame before.            *)
Frame(t) ==
  /\ process = "on" /\ changed' = FALSE
  /\ PersistDelayed(t) \/ PersistGallery(t)
  /\ UNCHANGED <<store, memory, process>>

(* flush_on_exit in the last frame.                                        *)
(* Mutant: only a writer that waits is flushed.                            *)
FlushWaiting == IF clock = Clean THEN UNCHANGED <<onDisk, writer>> ELSE PersistNow
Flush == IF Same THEN UNCHANGED <<onDisk, writer>> ELSE PersistNow
Exit ==
  /\ process = "on" /\ process' = "flushed"
  /\ IF Delayed THEN Flush ELSE UNCHANGED <<onDisk, writer>>
  /\ UNCHANGED <<store, memory, changed>>

-------------------------------------------------------------------------------
(* What changes the State: the script, the reader, the player's screens.   *)

Becomes(content) ==
  /\ process = "on" /\ memory' = content /\ changed' = TRUE
  /\ UNCHANGED <<store, onDisk, writer, process>>
(* The script runs on when the player has left the import's screen, after  *)
(* the writer has written the import back.                                 *)
Runs == Hurried \/ saved = Measure(Load)
SetGlobal(v) == store = "profile" /\ Runs /\ Becomes(v)
MarkRead(l) == store = "history" /\ Runs /\ Becomes(memory \cup {l})
Unlock(p) == store = "gallery" /\ Runs /\ Becomes(memory \cup {p})
(* Any other change of the State wakes the writers as well.                *)
Touch == Becomes(memory)

(* The settings screen writes at once and only reports a failure.          *)
SetSetting(v) ==
  /\ process = "on" /\ store = "settings" /\ memory' = v
  /\ Lands(v) \/ Fails
  /\ UNCHANGED <<store, writer, changed, process>>

(* The import replaces the directory and then the State; what the writer   *)
(* holds stays.                                                            *)
Import(content) ==
  /\ process = "on"
  /\ file' = content /\ memory' = content /\ changed' = TRUE
  /\ broken' = 0 /\ damage' = 0 /\ copies' = <<>>
  /\ UNCHANGED <<store, writer, process>>

-------------------------------------------------------------------------------
(* The process, and what may happen to its files while it is away: damage, *)
(* or another version of the game.                                         *)

Start ==
  /\ memory' = Load /\ saved' = Measure(Load) /\ clock' = Clean /\ changed' = TRUE
  /\ UNCHANGED <<store, onDisk>>
Launch == process = "off" /\ process' = "on" /\ Start
Dies == process # "off" /\ process' = "off" /\ Start
Damage ==
  /\ process = "off" /\ broken = 0 /\ damage < MaxDamage
  /\ broken' = damage + 1 /\ damage' = damage + 1
  /\ UNCHANGED <<store, memory, file, copies, writer, changed, process>>

Init ==
  /\ store \in Stores
  /\ memory = Fresh /\ file = Fresh /\ broken = 0 /\ copies = <<>> /\ damage = 0
  /\ saved = Measure(Fresh) /\ clock = Clean /\ changed = TRUE /\ process = "off"
Next ==
  \/ \E t \in 0..2 : Frame(t)
  \/ Exit \/ Launch \/ Dies \/ Damage \/ Touch
  \/ \E v \in Values : SetGlobal(v) \/ SetSetting(v)
  \/ \E l \in Lines : MarkRead(l)
  \/ \E p \in Pictures : Unlock(p)
  \/ \E content \in Content : Import(content)

(* PersistenceWake ends the rest of a window when the delay of a writer is *)
(* over, so time passes for it; a disk that is asked again and again takes *)
(* a write.  Nothing promises a slow frame, nor an end of the changes.     *)
Due(t) == ~Same /\ Looks /\ IF store = "gallery" THEN ~Retries(t) ELSE Elapsed(t) >= Delay
Asks == \E t \in 0..2 : Frame(t) /\ Due(t)
Answers == \E t \in 0..2 : Frame(t) /\ Due(t) /\ Lands(memory)
Fairness ==
  /\ WF_vars(\E t \in 1..2 : Frame(t))
  /\ []<><<Asks>>_vars => []<><<Answers>>_vars
Spec == Init /\ [][Next]_vars
FairSpec == Spec /\ Fairness

-------------------------------------------------------------------------------
(* After an exit the file holds what the game knew, unless the last write  *)
(* failed; the delay of a writer loses nothing.                            *)
ExitKeeps ==
  process = "flushed" /\ Delayed => Load = memory \/ clock = 0

(* A change is written although more changes follow before its delay is    *)
(* over and although writes fail for a while.                              *)
EventuallyWritten ==
  Delayed /\ process = "on" /\ Load # memory ~>
    Load = memory \/ process # "on" \/ Refused

(* A settings or gallery file that could not be read is never destroyed:   *)
(* it is in its place or under a recovery name, whatever fails or crashes. *)
OriginalKept ==
  store \in Preserving =>
    \A n \in 1..damage : broken = n \/ \E i \in DOMAIN copies : copies[i] = n
===============================================================================
