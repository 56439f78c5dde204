-------------------------- MODULE DelayedWritersProofs --------------------------
(***************************************************************************)
(* A file that could not be read is never destroyed, for any number of     *)
(* damages and recovery names, and an exit leaves what the game knew.      *)
(***************************************************************************)
EXTENDS DelayedWriters, FiniteSetTheorems, TLAPS

FilesOK ==
  /\ file \in Content
  /\ damage \in 0..MaxDamage /\ broken \in 0..damage
  /\ copies \in Seq(1..damage) /\ Len(copies) <= MaxCopies
WriterOK ==
  /\ saved \in {Measure(c) : c \in Content}
  /\ clock \in 0..Clean /\ (clock # Clean => clock < Delay)
StateOK ==
  /\ store \in Stores /\ memory \in Content
  /\ changed \in BOOLEAN /\ process \in {"on", "flushed", "off"}
IInv == FilesOK /\ WriterOK /\ StateOK /\ OriginalKept

(* The parts are the type invariant.                                       *)
LEMMA Parts == TypeOK <=> FilesOK /\ WriterOK /\ StateOK
BY DEF TypeOK, FilesOK, WriterOK, StateOK

(* What a store is read as is always a content of the store.               *)
LEMMA LoadTyped == ASSUME file \in Content PROVE Load \in Content /\ Fresh \in Content
<1>1. Fresh \in Content
  BY Typed DEF Fresh, Content
<1> QED BY <1>1 DEF Load

(* A write that lands keeps the file it replaces: under a recovery name    *)
(* when it was unreadable.                                                 *)
LEMMA LandsKeeps ==
  ASSUME FilesOK, OriginalKept, store' = store, NEW content \in Content, Lands(content)
  PROVE  FilesOK' /\ OriginalKept'
<1> USE Typed
<1>1. file' \in Content' /\ damage' \in 0..MaxDamage /\ broken' \in 0..damage'
  BY DEF FilesOK, Lands, Content
<1>2. CASE ~Endangered
  <2>1. copies' = copies /\ damage' = damage /\ broken' = 0
    BY <1>2 DEF Lands, Link
  <2>2. OriginalKept'
    BY <1>2, <2>1 DEF OriginalKept, Endangered, FilesOK
  <2> QED BY <1>1, <2>1, <2>2 DEF FilesOK
<1>3. CASE Endangered
  <2>1. /\ copies' = Append(copies, broken) /\ damage' = damage /\ broken' = 0
        /\ Len(copies) # MaxCopies
    BY <1>3 DEF Lands, Link, Refused
  <2>2. broken \in 1..damage
    BY <1>3 DEF Endangered, FilesOK
  <2>3. copies' \in Seq(1..damage) /\ Len(copies') = Len(copies) + 1
    BY <2>1, <2>2 DEF FilesOK
  <2>4. Len(copies') <= MaxCopies
    BY <2>1, <2>3 DEF FilesOK
  <2>5. /\ copies'[Len(copies) + 1] = broken /\ DOMAIN copies' = 1..(Len(copies) + 1)
        /\ \A i \in DOMAIN copies : i \in DOMAIN copies' /\ copies'[i] = copies[i]
    BY <2>1, <2>2 DEF FilesOK
  <2>6. OriginalKept'
    <3> SUFFICES ASSUME store \in Preserving, NEW n \in 1..damage
                 PROVE  \E i \in DOMAIN copies' : copies'[i] = n
      BY <2>1 DEF OriginalKept
    <3>1. CASE broken = n
      <4>1. Len(copies) + 1 \in DOMAIN copies'
        BY <2>5 DEF FilesOK
      <4> QED BY <3>1, <4>1, <2>5
    <3>2. CASE broken # n
      BY <3>2, <2>5 DEF OriginalKept
    <3> QED BY <3>1, <3>2
  <2> QED BY <1>1, <2>1, <2>3, <2>4, <2>6 DEF FilesOK
<1> QED BY <1>2, <1>3

(* A write that fails leaves the file, and at most one more link to it.    *)
LEMMA FailsKeeps ==
  ASSUME FilesOK, OriginalKept, store' = store, Fails
  PROVE  FilesOK' /\ OriginalKept'
<1> USE Typed
<1>1. file' = file /\ broken' = broken /\ damage' = damage /\ Content' = Content
  BY DEF Fails, Content
<1>2. CASE copies' = copies
  BY <1>1, <1>2 DEF FilesOK, OriginalKept
<1>3. CASE Link /\ Endangered
  <2>1. copies' = Append(copies, broken) /\ Len(copies) # MaxCopies
    BY <1>3 DEF Link, Refused
  <2>2. broken \in 1..damage
    BY <1>3 DEF Endangered, FilesOK
  <2>3. copies' \in Seq(1..damage) /\ Len(copies') = Len(copies) + 1
    BY <2>1, <2>2 DEF FilesOK
  <2>4. \A i \in DOMAIN copies : i \in DOMAIN copies' /\ copies'[i] = copies[i]
    BY <2>1, <2>2 DEF FilesOK
  <2>5. FilesOK'
    BY <1>1, <2>1, <2>3 DEF FilesOK
  <2> QED BY <1>1, <2>4, <2>5 DEF OriginalKept
<1> QED BY <1>2, <1>3 DEF Fails, Link

(* Nothing that leaves the disk alone matters to it.                       *)
LEMMA DiskAlone ==
  ASSUME FilesOK, OriginalKept, UNCHANGED <<store, onDisk>>
  PROVE  FilesOK' /\ OriginalKept'
BY DEF FilesOK, OriginalKept, onDisk, Content

(* A writer that writes, or waits, keeps the files and its own state typed. *)
LEMMA PersistNowKeeps ==
  ASSUME IInv, store' = store, PersistNow
  PROVE  FilesOK' /\ OriginalKept' /\ WriterOK'
<1>1. memory \in Content /\ Content' = Content /\ Delay' = Delay /\ Delay > 0
  BY DEF IInv, StateOK, Content, Delay
<1>2. CASE Lands(memory) /\ saved' = Measure(memory) /\ clock' = Clean
  <2>1. FilesOK' /\ OriginalKept'
    BY <1>1, <1>2, LandsKeeps DEF IInv
  <2>2. \A c : Measure(c)' = Measure(c)
    BY DEF Measure
  <2>3. saved' \in {Measure(c)' : c \in Content'}
    BY <1>1, <1>2, <2>2
  <2>4. WriterOK'
    BY <1>1, <1>2, <2>3 DEF WriterOK, Clean, Measure
  <2> QED BY <2>1, <2>4
<1>3. CASE Fails /\ clock' = 0 /\ UNCHANGED saved
  <2>1. FilesOK' /\ OriginalKept'
    BY <1>3, FailsKeeps DEF IInv
  <2>2. WriterOK'
    BY <1>1, <1>3 DEF IInv, WriterOK, Clean, Measure
  <2> QED BY <2>1, <2>2
<1> QED BY <1>2, <1>3 DEF PersistNow
LEMMA WaitsKeeps ==
  ASSUME IInv, store' = store, NEW c \in Nat, c = Clean \/ c < Delay, Waits(c)
  PROVE  FilesOK' /\ OriginalKept' /\ WriterOK'
<1>1. Content' = Content /\ Delay' = Delay /\ Delay \in {1, 2}
  BY DEF Content, Delay
<1>2. FilesOK' /\ OriginalKept'
  BY DiskAlone DEF IInv, Waits, onDisk
<1>3. WriterOK'
  BY <1>1 DEF IInv, WriterOK, Waits, Clean, Measure
<1> QED BY <1>2, <1>3
LEMMA WriterAlone ==
  ASSUME IInv, UNCHANGED <<store, onDisk, writer>>
  PROVE  FilesOK' /\ OriginalKept' /\ WriterOK'
<1>1. FilesOK' /\ OriginalKept'
  BY DiskAlone DEF IInv
<1>2. WriterOK'
  BY DEF IInv, WriterOK, writer, Content, Delay, Measure
<1> QED BY <1>1, <1>2

-------------------------------------------------------------------------------
LEMMA InitIInv == Init => IInv
<1> SUFFICES ASSUME Init PROVE IInv
  OBVIOUS
<1> USE Typed
<1>1. file \in Content /\ memory \in Content
  BY DEF Init, Stores, Content, Fresh
<1>2. FilesOK
  BY <1>1 DEF Init, FilesOK
<1>3. WriterOK
  BY <1>1 DEF Init, WriterOK, Clean
<1>4. StateOK /\ OriginalKept
  BY <1>1 DEF Init, StateOK, OriginalKept
<1> QED BY <1>2, <1>3, <1>4 DEF IInv

(* One lemma per group of actions.                                         *)
LEMMA FrameKeeps == ASSUME IInv, NEW t \in 0..2, Frame(t) PROVE IInv'
<1>1. StateOK' /\ store' = store
  BY DEF Frame, IInv, StateOK, Content
<1>4. Clean \in Nat /\ Elapsed(t) \in Nat /\ clock \in Nat
  BY DEF IInv, WriterOK, Elapsed, Clean
<1>2. CASE PersistDelayed(t)
  <2>1. CASE UNCHANGED <<onDisk, writer>>
    BY <1>1, <1>4, <2>1, WriterAlone DEF IInv
  <2>2. CASE Waits(Clean)
    BY <1>1, <1>4, <2>2, WaitsKeeps DEF IInv
  <2>3. CASE Elapsed(t) < Delay /\ Waits(Elapsed(t))
    BY <1>1, <1>4, <2>3, WaitsKeeps DEF IInv
  <2>4. CASE PersistNow
    BY <1>1, <1>4, <2>4, PersistNowKeeps DEF IInv
  <2> QED BY <1>2, <2>1, <2>2, <2>3, <2>4 DEF PersistDelayed
<1>3. CASE PersistGallery(t)
  <2>1. CASE Retries(t) /\ Waits(clock + t)
    <3>1. clock + t \in Nat /\ clock + t < Delay
      BY <1>1, <1>4, <2>1 DEF Retries
    <3> QED BY <1>1, <1>4, <2>1, <3>1, WaitsKeeps DEF IInv
  <2>2. CASE UNCHANGED <<onDisk, writer>>
    BY <1>1, <1>4, <2>2, WriterAlone DEF IInv
  <2>3. CASE Waits(Clean)
    BY <1>1, <1>4, <2>3, WaitsKeeps DEF IInv
  <2>4. CASE PersistNow
    BY <1>1, <1>4, <2>4, PersistNowKeeps DEF IInv
  <2> QED BY <1>3, <2>1, <2>2, <2>3, <2>4 DEF PersistGallery
<1> QED BY <1>2, <1>3 DEF Frame

LEMMA ExitInv == ASSUME IInv, Exit PROVE IInv'
<1>1. StateOK' /\ store' = store
  BY DEF Exit, IInv, StateOK, Content
<1>2. CASE UNCHANGED <<onDisk, writer>>
  BY <1>1, <1>2, WriterAlone DEF IInv
<1>3. CASE PersistNow
  BY <1>1, <1>3, PersistNowKeeps DEF IInv
<1> QED BY <1>2, <1>3 DEF Exit, Flush

LEMMA BecomesKeeps == ASSUME IInv, NEW c \in Content, Becomes(c) PROVE IInv'
<1>1. UNCHANGED <<store, onDisk, writer>>
  BY DEF Becomes
<1>2. StateOK'
  BY DEF Becomes, IInv, StateOK, Content
<1> QED BY <1>1, <1>2, WriterAlone DEF IInv

LEMMA ScriptKeeps ==
  ASSUME IInv,
         \/ Touch
         \/ \E v \in Values : SetGlobal(v)
         \/ \E l \in Lines : MarkRead(l)
         \/ \E p \in Pictures : Unlock(p)
  PROVE  IInv'
<1> SUFFICES \E c \in Content : Becomes(c)
  BY BecomesKeeps
<1>1. memory \in Content
  BY DEF IInv, StateOK
<1>2. CASE Touch
  BY <1>1, <1>2 DEF Touch
<1>3. ASSUME NEW v \in Values, SetGlobal(v) PROVE v \in Content /\ Becomes(v)
  BY <1>3 DEF SetGlobal, Content
<1>4. ASSUME NEW l \in Lines, MarkRead(l)
      PROVE  memory \cup {l} \in Content /\ Becomes(memory \cup {l})
  BY <1>1, <1>4 DEF MarkRead, Content
<1>5. ASSUME NEW p \in Pictures, Unlock(p)
      PROVE  memory \cup {p} \in Content /\ Becomes(memory \cup {p})
  BY <1>1, <1>5 DEF Unlock, Content
<1> QED BY <1>2, <1>3, <1>4, <1>5

LEMMA SettingsKeep == ASSUME IInv, NEW v \in Values, SetSetting(v) PROVE IInv'
<1>1. v \in Content
  BY DEF SetSetting, Content
<1>2. FilesOK' /\ OriginalKept'
  <2>1. CASE Lands(v)
    BY <1>1, <2>1, LandsKeeps DEF SetSetting, IInv
  <2>2. CASE Fails
    BY <2>2, FailsKeeps DEF SetSetting, IInv
  <2> QED BY <2>1, <2>2 DEF SetSetting
<1>3. WriterOK'
  BY DEF SetSetting, IInv, WriterOK, writer, Content, Delay, Measure
<1>4. StateOK'
  BY <1>1 DEF SetSetting, IInv, StateOK, Content
<1> QED BY <1>2, <1>3, <1>4 DEF IInv

LEMMA ImportKeeps == ASSUME IInv, NEW c \in Content, Import(c) PROVE IInv'
<1> USE Typed
<1>1. FilesOK'
  BY DEF Import, FilesOK, Content
<1>2. WriterOK'
  BY DEF Import, IInv, WriterOK, writer, Content, Delay, Measure
<1>3. StateOK' /\ OriginalKept'
  BY DEF Import, IInv, StateOK, OriginalKept, Content
<1> QED BY <1>1, <1>2, <1>3 DEF IInv

LEMMA ProcessKeeps == ASSUME IInv, Launch \/ Dies \/ Damage PROVE IInv'
<1>1. CASE Launch \/ Dies
  <2>1. store' = store /\ UNCHANGED onDisk /\ Start
    BY <1>1 DEF Launch, Dies, Start
  <2>2. FilesOK' /\ OriginalKept'
    BY <2>1, DiskAlone DEF IInv
  <2>3. Load \in Content
    BY LoadTyped DEF IInv, FilesOK
  <2>4. Content' = Content /\ clock' = Clean /\ saved' = Measure(Load) /\ memory' = Load
    BY <2>1 DEF Start, Content
  <2>5. WriterOK'
    BY <2>1, <2>3, <2>4 DEF WriterOK, Clean, Measure
  <2>6. StateOK'
    BY <1>1, <2>1, <2>3, <2>4 DEF StateOK, Launch, Dies, Start, IInv
  <2> QED BY <2>2, <2>5, <2>6 DEF IInv
<1>2. CASE Damage
  <2> USE Typed
  <2>1. FilesOK'
    BY <1>2 DEF Damage, IInv, FilesOK, Content
  <2>2. OriginalKept'
    BY <1>2 DEF Damage, IInv, FilesOK, OriginalKept
  <2>3. WriterOK'
    BY <1>2 DEF Damage, IInv, WriterOK, writer, Content, Delay, Measure
  <2>4. StateOK'
    BY <1>2 DEF Damage, IInv, StateOK, Content
  <2> QED BY <2>1, <2>2, <2>3, <2>4 DEF IInv
<1> QED BY <1>1, <1>2

LEMMA NextIInv == IInv /\ [Next]_vars => IInv'
<1> SUFFICES ASSUME IInv, [Next]_vars PROVE IInv'
  OBVIOUS
<1>1. CASE \E t \in 0..2 : Frame(t)
  BY <1>1, FrameKeeps
<1>2. CASE Exit
  BY <1>2, ExitInv
<1>3. CASE Launch \/ Dies \/ Damage
  BY <1>3, ProcessKeeps
<1>4. CASE \E v \in Values : SetSetting(v)
  BY <1>4, SettingsKeep
<1>5. CASE \E c \in Content : Import(c)
  BY <1>5, ImportKeeps
<1>6. CASE \/ Touch
           \/ \E v \in Values : SetGlobal(v)
           \/ \E l \in Lines : MarkRead(l)
           \/ \E p \in Pictures : Unlock(p)
  BY <1>6, ScriptKeeps
<1>7. CASE UNCHANGED vars
  <2>1. UNCHANGED <<store, onDisk, writer>> /\ UNCHANGED <<memory, changed, process>>
    BY <1>7 DEF vars
  <2>2. StateOK'
    BY <2>1 DEF IInv, StateOK, Content
  <2> QED BY <2>1, <2>2, WriterAlone DEF IInv
<1> QED BY <1>1, <1>2, <1>3, <1>4, <1>5, <1>6, <1>7 DEF Next

(* A settings or gallery file that could not be read stays in its place or *)
(* under a recovery name, for every number of damages, recovery names,     *)
(* failures and crashes (write_preserving, preserve_original).             *)
THEOREM OriginalIsKept == Spec => [](TypeOK /\ OriginalKept)
<1>1. Init => IInv
  BY InitIInv
<1>2. IInv /\ [Next]_vars => IInv'
  BY NextIInv
<1>3. IInv => TypeOK /\ OriginalKept
  BY Parts DEF IInv
<1> QED BY <1>1, <1>2, <1>3, PTL DEF Spec

(* What a writer holds and what lies on the disk keeps its types.          *)
THEOREM WritersTyped == Spec => []TypeOK
BY OriginalIsKept, PTL

-------------------------------------------------------------------------------
(* What an exit leaves.  The writer compares the State with what it wrote  *)
(* last, not with the file: what it compares with is the file's, or the    *)
(* State came from the file in an import.  The read history is compared by *)
(* its size, which is enough while a process only adds to it, as here,     *)
(* where no hot reload empties it.                                         *)

Knows ==
  process # "off" /\ Delayed =>
    /\ saved = Measure(Load) \/ memory = Load
    /\ store = "history" => Load \subseteq memory
KeepInv == Knows /\ ExitKeeps

(* The comparison tells whether the file is what the State holds.          *)
LEMMA SameMeansWritten ==
  ASSUME IInv, Knows, process # "off", Delayed, Same
  PROVE  Load = memory
<1>1. CASE store = "history"
  <2>1. Load \in SUBSET Lines /\ memory \in SUBSET Lines /\ IsFiniteSet(Lines)
    BY <1>1, LoadTyped, Typed DEF IInv, FilesOK, StateOK, Content
  <2>2. Load \subseteq memory
    BY <1>1 DEF Knows
  <2>3. IsFiniteSet(memory)
    BY <2>1, FS_Subset
  <2>4. memory = Load \/ Cardinality(Load) = Cardinality(memory)
    BY <1>1 DEF Knows, Same, Measure
  <2>. QED  BY <2>2, <2>3, <2>4, FS_Subset
<1>2. CASE store # "history"
  BY <1>2 DEF Knows, Same, Measure
<1>. QED  BY <1>1, <1>2

(* A write leaves the State's content in the file or says that it failed.  *)
LEMMA PersistNowWrites ==
  ASSUME IInv, Knows, process # "off", PersistNow, UNCHANGED <<store, memory>>
  PROVE  Knows' /\ (Load' = memory' \/ clock' = 0)
<1>1. CASE Lands(memory) /\ saved' = Measure(memory) /\ clock' = Clean
  <2>1. Load' = memory /\ saved' = Measure(memory)
    BY <1>1 DEF Lands, Load
  <2>. QED  BY <2>1 DEF Knows, Measure
<1>2. CASE Fails /\ clock' = 0 /\ UNCHANGED saved
  <2>1. Load' = Load
    BY <1>2 DEF Fails, Load, Fresh
  <2>. QED  BY <1>2, <2>1 DEF Knows, Measure, Delayed
<1>. QED  BY <1>1, <1>2 DEF PersistNow

(* A step that leaves files and State alone.                               *)
LEMMA KnowsStays ==
  ASSUME Knows, process # "off", UNCHANGED <<store, memory, onDisk, saved>>
  PROVE  Knows'
<1>1. Load' = Load /\ Measure(Load)' = Measure(Load)
  BY DEF Load, Fresh, onDisk, Measure
<1>. QED  BY <1>1 DEF Knows, Delayed

LEMMA FrameKnows == ASSUME IInv, KeepInv, NEW t \in 0..2, Frame(t) PROVE KeepInv'
<1>1. process = "on" /\ process' = "on" /\ UNCHANGED <<store, memory>>
  BY DEF Frame
<1>2. PersistNow \/ UNCHANGED <<onDisk, saved>>
  BY DEF Frame, PersistDelayed, PersistGallery, Waits, writer
<1>3. Knows'
  BY <1>1, <1>2, PersistNowWrites, KnowsStays DEF KeepInv
<1>. QED  BY <1>1, <1>3 DEF KeepInv, ExitKeeps

LEMMA ExitKnows == ASSUME IInv, KeepInv, Exit PROVE KeepInv'
<1>1. process = "on" /\ process' = "flushed" /\ UNCHANGED <<store, memory>>
  BY DEF Exit
<1>2. CASE ~Delayed
  BY <1>1, <1>2 DEF KeepInv, Knows, ExitKeeps, Delayed
<1>3. CASE Delayed /\ Same
  <2>1. UNCHANGED <<onDisk, writer>>
    BY <1>3 DEF Exit, Flush
  <2>2. Load = memory
    BY <1>1, <1>3, SameMeansWritten DEF KeepInv
  <2>3. Load' = Load
    BY <1>1, <2>1 DEF Load, Fresh, onDisk
  <2>4. Knows'
    BY <1>1, <2>1, KnowsStays DEF KeepInv, writer
  <2>. QED  BY <1>1, <2>2, <2>3, <2>4 DEF KeepInv, ExitKeeps
<1>4. CASE Delayed /\ ~Same
  <2>1. PersistNow
    BY <1>4 DEF Exit, Flush
  <2>. QED  BY <1>1, <2>1, PersistNowWrites DEF KeepInv, ExitKeeps
<1>. QED  BY <1>2, <1>3, <1>4

(* The script changes the State only when the writer's value is the file's; *)
(* a line or picture is added, never taken away.                            *)
LEMMA ScriptKnows ==
  ASSUME ~Hurried, IInv, KeepInv,
         \/ Touch
         \/ \E v \in Values : SetGlobal(v)
         \/ \E l \in Lines : MarkRead(l)
         \/ \E p \in Pictures : Unlock(p)
  PROVE  KeepInv'
<1>1. PICK c : Becomes(c)
  BY DEF Touch, SetGlobal, MarkRead, Unlock
<1>2. /\ process = "on" /\ process' = "on" /\ UNCHANGED <<store, onDisk, saved>>
  BY <1>1 DEF Becomes, writer
<1>3. Load' = Load /\ Measure(Load)' = Measure(Load)
  BY <1>2 DEF Load, Fresh, onDisk, Measure
<1>4. CASE Touch
  BY <1>2, <1>3, <1>4 DEF Touch, Becomes, KeepInv, Knows, ExitKeeps, Delayed
<1>5. CASE ~Touch
  <2>1. saved = Measure(Load) /\ (store = "history" => memory \subseteq memory')
    BY <1>5 DEF SetGlobal, MarkRead, Unlock, Runs, Becomes
  <2>. QED  BY <1>2, <1>3, <2>1 DEF KeepInv, Knows, ExitKeeps, Delayed
<1>. QED  BY <1>4, <1>5

(* Settings are written by their screen; an import is read as it is        *)
(* written; a new process starts with what it reads.                       *)
LEMMA OthersKnow ==
  ASSUME IInv, KeepInv,
         \/ \E v \in Values : SetSetting(v)
         \/ \E c \in Content : Import(c)
         \/ Launch \/ Dies \/ Damage
  PROVE  KeepInv'
<1>1. CASE \E v \in Values : SetSetting(v)
  BY <1>1 DEF SetSetting, KeepInv, Knows, ExitKeeps, Delayed
<1>2. CASE \E c \in Content : Import(c)
  <2>1. Load' = memory' /\ process' = "on"
    BY <1>2 DEF Import, Load
  <2>. QED  BY <2>1 DEF KeepInv, Knows, ExitKeeps
<1>3. CASE Launch \/ Dies
  <2>1. memory' = Load /\ UNCHANGED <<store, onDisk>> /\ process' # "flushed"
    BY <1>3 DEF Launch, Dies, Start
  <2>2. Load' = Load
    BY <2>1 DEF Load, Fresh, onDisk
  <2>. QED  BY <2>1, <2>2 DEF KeepInv, Knows, ExitKeeps
<1>4. CASE Damage
  BY <1>4 DEF Damage, KeepInv, Knows, ExitKeeps
<1>. QED  BY <1>1, <1>2, <1>3, <1>4

(* After an exit the file holds what the game knew, unless the last write   *)
(* failed, for any values, lines, pictures, delays, failures, imports and   *)
(* crashes (flush_on_exit), if the script does not run between an import    *)
(* and its writing back.                                                    *)
THEOREM ExitsKeep == ASSUME ~Hurried PROVE Spec => []ExitKeeps
<1>1. Init => KeepInv
  BY DEF Init, KeepInv, Knows, ExitKeeps
<1>2. IInv /\ KeepInv /\ [Next]_vars => KeepInv'
  <2>. SUFFICES ASSUME IInv, KeepInv, [Next]_vars PROVE KeepInv'
    OBVIOUS
  <2>1. CASE UNCHANGED vars
    <3>1. /\ UNCHANGED <<store, memory, onDisk, writer, process>> /\ Load' = Load
          /\ Measure(Load)' = Measure(Load)
      BY <2>1 DEF vars, Load, Fresh, onDisk, Measure
    <3>. QED  BY <3>1 DEF KeepInv, Knows, ExitKeeps, Delayed, writer
  <2>2. CASE \E t \in 0..2 : Frame(t)
    BY <2>2, FrameKnows
  <2>3. CASE \/ Touch
             \/ \E v \in Values : SetGlobal(v)
             \/ \E l \in Lines : MarkRead(l)
             \/ \E p \in Pictures : Unlock(p)
    BY <2>3, ScriptKnows
  <2>. QED  BY <2>1, <2>2, <2>3, ExitKnows, OthersKnow DEF Next
<1>3. KeepInv => ExitKeeps
  BY DEF KeepInv
<1>. QED  BY <1>1, <1>2, <1>3, InitIInv, NextIInv, PTL DEF Spec
===============================================================================
