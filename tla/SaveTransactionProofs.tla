------------------------- MODULE SaveTransactionProofs -------------------------
(***************************************************************************)
(* Type correctness of SaveTransaction and the safety of its committed     *)
(* name, for all file names, versions, backups and legacy directories.     *)
(***************************************************************************)
EXTENDS SaveTransaction, FiniteSetTheorems, TLAPS

-------------------------------------------------------------------------------
(* Directories and views. *)

(* Synchronising the files of a directory gives a directory.               *)
LEMMA SyncedDirectory ==
  ASSUME NEW dir \in Directory
  PROVE  Synced(dir) \in Directory
BY DEF Synced, Directory, File

(* A power loss leaves views of the same shape.                            *)
LEMMA AfterViews ==
  ASSUME NEW view \in View, NEW left \in After(view)
  PROVE  left \in View
<1>1. \A dir \in Directory \cup {None} :
        Whole(dir) \in Directory \cup {None} /\ TornIn(dir) \in Directory \cup {None}
  BY SyncedDirectory DEF Whole, TornIn, Directory, File
<1>2. DOMAIN view = {"target", "incoming", "previous"}
  BY DEF View
<1>3. /\ view["target"] \in Directory \cup {None}
      /\ view["incoming"] \in Directory \cup {None}
      /\ view["previous"] \in Directory \cup {None}
  BY DEF View
<1>4. CASE left = [k \in DOMAIN view |-> Whole(view[k])]
  BY <1>1, <1>2, <1>3, <1>4 DEF View
<1>5. CASE left = [k \in DOMAIN view |-> TornIn(view[k])]
  BY <1>1, <1>2, <1>3, <1>5 DEF View
<1>. QED  BY <1>4, <1>5 DEF After

(* What remains of a directory while it is removed is a directory.         *)
LEMMA PartViews ==
  ASSUME NEW view \in View, NEW k \in {"target", "incoming", "previous"},
         view[k] # None
  PROVE  Parts(view, k) \subseteq View
<1>1. view[k] \in Directory
  BY DEF View
<1>2. \A left \in SUBSET Names :
        [n \in Names |-> IF n \in left THEN view[k][n] ELSE None] \in Directory
  BY <1>1 DEF Directory
<1>. QED  BY <1>2 DEF Parts, View

(* Renaming or removing an entry of the root gives a view, and changes     *)
(* nothing but the entry.                                                  *)
LEMMA Updates ==
  ASSUME NEW view \in View, NEW dir \in Directory \cup {None}
  PROVE  /\ [view EXCEPT !.target = dir] \in View
         /\ [view EXCEPT !.target = dir].target = dir
         /\ [view EXCEPT !.target = dir].incoming = view.incoming
         /\ [view EXCEPT !.target = dir].previous = view.previous
         /\ [view EXCEPT !.incoming = dir] \in View
         /\ [view EXCEPT !.incoming = dir].target = view.target
         /\ [view EXCEPT !.incoming = dir].incoming = dir
         /\ [view EXCEPT !.incoming = dir].previous = view.previous
         /\ [view EXCEPT !.previous = dir] \in View
         /\ [view EXCEPT !.previous = dir].target = view.target
         /\ [view EXCEPT !.previous = dir].incoming = view.incoming
         /\ [view EXCEPT !.previous = dir].previous = dir
BY DEF View

(* Moving a directory from one name to another.                            *)
LEMMA Moves ==
  ASSUME NEW view \in View
  PROVE  /\ LET v == [view EXCEPT !.target = view.previous, !.previous = None]
            IN v \in View /\ v.target = view.previous /\ v.previous = None
               /\ v.incoming = view.incoming
         /\ LET v == [view EXCEPT !.target = view.incoming, !.incoming = None]
            IN v \in View /\ v.target = view.incoming /\ v.incoming = None
               /\ v.previous = view.previous
         /\ LET v == [view EXCEPT !.target = None, !.previous = view.target]
            IN v \in View /\ v.target = None /\ v.previous = view.target
               /\ v.incoming = view.incoming
BY DEF View

(* A directory that loses or gains one file is a directory.                *)
LEMMA FileUpdates ==
  ASSUME NEW dir \in Directory, NEW n \in Names, NEW file \in File \cup {None}
  PROVE  [dir EXCEPT ![n] = file] \in Directory
BY DEF Directory

-------------------------------------------------------------------------------
(* Type correctness. *)

LEMMA FreeTyped ==
  /\ Nothing \in Sets /\ Nothing \in Directory /\ Nothing # None
  /\ Free \in Jobs /\ Free.kind = "none"
<1>1. Nothing \in Sets /\ Nothing \in Directory
  BY DEF Nothing, Sets, Directory
<1>2. Nothing # None
  BY <1>1, Absent
<1>3. Free \in Jobs /\ Free.kind = "none"
  BY <1>1 DEF Free, Jobs, Kinds
<1>. QED  BY <1>1, <1>2, <1>3

(* The initial state is typed.                                             *)
LEMMA TypeInit == Init => TypeOK
<1>. SUFFICES ASSUME Init PROVE TypeOK
  OBVIOUS
<1>1. fs \in View /\ durable \subseteq View
  BY DEF Init, View
<1>2. job \in Jobs /\ job.kind = "none"
  BY FreeTyped DEF Init
<1>3. pc = "off" /\ report = "none"
  BY DEF Init
<1>4. legacy \in Sets
  BY Backups DEF Init
<1>. QED
  BY <1>1, <1>2, <1>3, <1>4 DEF TypeOK, Types, JobAtStep, WorksOnDirectory, Answers,
     Steps, RecoverSteps, ImportSteps, CopySteps, SlotSteps

(* Ending a job, with whatever answer, leaves no job.                      *)
LEMMA Ends ==
  ASSUME Abort \/ Done("ok") \/ Done("none")
  PROVE  /\ pc' \in {"off", "ready"} /\ report' \in Answers
         /\ job' \in Jobs /\ job'.kind = "none"
<1>1. job' = Free
  BY DEF Abort, Done
<1>2. pc' \in {"off", "ready"} /\ report' \in Answers
  BY DEF Abort, Done, Answers
<1>. QED  BY <1>1, <1>2, FreeTyped

(* A step that ends the job is typed when its views are.                   *)
LEMMA EndsTyped ==
  ASSUME Abort \/ Done("ok") \/ Done("none"), fs' \in View, durable' \subseteq View,
         legacy' \in Sets
  PROVE  TypeOK'
BY Ends DEF TypeOK, Types, JobAtStep, WorksOnDirectory, Steps, RecoverSteps,
   ImportSteps, CopySteps, SlotSteps

(* A step that goes on is typed when its views are, its successor belongs  *)
(* to the job, and the directories the successor works on are there.       *)
LEMMA GoesTyped ==
  ASSUME TypeOK, NEW step \in Steps, Goto(step), fs' \in View, durable' \subseteq View,
         legacy' \in Sets,
         step \in RecoverSteps => job.kind \in {"launch", "import"},
         step \in ImportSteps => job.kind \in {"migrate", "import"},
         step \in SlotSteps => job.kind = "slot",
         step \in CopySteps => fs'.incoming # None,
         step = "aside" \/ step \in SlotSteps => fs'.target # None
  PROVE  TypeOK'
BY DEF Goto, TypeOK, Types, JobAtStep, WorksOnDirectory, Steps, RecoverSteps,
   ImportSteps, CopySteps, SlotSteps

(* Views after the two kinds of file operations that need no new directory. *)
LEMMA ViewsTyped ==
  ASSUME TypeOK, NEW view \in View, Untouched \/ Sync(view) \/ Do(view)
  PROVE  fs' \in View /\ durable' \subseteq View /\ legacy' \in Sets
BY DEF TypeOK, Types, Untouched, Sync, Do, Kept

(* What the steps of an import and of a recovery may do with the views.    *)
LEMMA FailsTyped ==
  ASSUME TypeOK, NEW operation, Fails(operation)
  PROVE  TypeOK'
<1>1. fs' \in View /\ durable' \subseteq View /\ legacy' \in Sets
  BY DEF Fails, Untouched, TypeOK, Types
<1>. QED  BY <1>1, EndsTyped DEF Fails

(* The recovery keeps the types.                                           *)
LEMMA TypeRecovery ==
  ASSUME TypeOK, Launch \/ Recover \/ RestoreSync \/ Sweep \/ SweepSync \/ Swept
  PROVE  TypeOK'
<1>. USE DEF RecoverSteps, ImportSteps, CopySteps, SlotSteps, Steps
<1>0. fs \in View /\ durable \subseteq View /\ job \in Jobs /\ legacy \in Sets
  BY DEF TypeOK, Types
<1>1. CASE Launch
  <2>1. job' \in Jobs /\ job'.kind = "launch" /\ report' \in Answers
    BY <1>0, <1>1 DEF Launch, Jobs, Kinds, Answers
  <2>. QED
    BY <1>0, <1>1, <2>1 DEF Launch, Untouched, TypeOK, Types, JobAtStep, WorksOnDirectory
<1>2. CASE Recover
  <2>0. job.kind \in {"launch", "import"}
    BY <1>2 DEF Recover, TypeOK, JobAtStep
  <2>1. CASE Untouched /\ Goto("sweep")
    BY <1>0, <2>0, <2>1, ViewsTyped, GoesTyped
  <2>2. CASE Do([fs EXCEPT !.target = fs.previous, !.previous = None]) /\ Goto("restoresync")
    BY <1>0, <2>0, <2>2, Moves, ViewsTyped, GoesTyped
  <2>. QED  BY <1>2, <2>1, <2>2, FailsTyped DEF Recover
<1>3. CASE RestoreSync \/ SweepSync
  <2>0. job.kind \in {"launch", "import"}
    BY <1>3 DEF RestoreSync, SweepSync, TypeOK, JobAtStep
  <2>1. CASE Sync(fs) /\ Goto("sweep")
    BY <1>0, <2>0, <2>1, ViewsTyped, GoesTyped
  <2>. QED  BY <1>3, <2>1, FailsTyped DEF RestoreSync, SweepSync
<1>4. CASE Sweep
  <2>0. job.kind \in {"launch", "import"}
    BY <1>4 DEF Sweep, TypeOK, JobAtStep
  <2>1. PICK k \in {"incoming", "previous"} :
          /\ fs[k] # None
          /\ (Remove(k) /\ Goto("sweepsync")) \/ (RemoveFails(k) /\ Abort)
    BY <1>4 DEF Sweep
  <2>2. Parts(fs, k) \subseteq View /\ [fs EXCEPT ![k] = None] \in View
    BY <1>0, <2>1, PartViews, Updates
  <2>3. fs' \in View /\ durable' \subseteq View /\ legacy' \in Sets
    BY <1>0, <2>1, <2>2 DEF Remove, RemoveFails, Kept
  <2>. QED  BY <2>0, <2>1, <2>3, GoesTyped, EndsTyped
<1>5. CASE Swept
  <2>1. CASE job.kind = "import" \/ Migrates
    <3> DEFINE next == IF Migrates THEN [job EXCEPT !.kind = "migrate"] ELSE job
    <3>1. next \in Jobs /\ next.kind \in {"migrate", "import"}
      BY <1>0, <2>1 DEF Jobs, Kinds
    <3>2. /\ [fs EXCEPT !.incoming = Nothing] \in View
          /\ [fs EXCEPT !.incoming = Nothing].incoming # None
      BY <1>0, Updates, FreeTyped
    <3>3. /\ fs' \in View /\ durable' \subseteq View /\ fs'.incoming # None
          /\ pc' = "copy" /\ report' = report /\ job' = next /\ legacy' = legacy
      BY <1>0, <1>5, <2>1, <3>2 DEF Swept, Do, Kept
    <3>. HIDE DEF next
    <3>. QED  BY <3>1, <3>3 DEF TypeOK, Types, JobAtStep, WorksOnDirectory
  <2>2. CASE ~(job.kind = "import" \/ Migrates)
    BY <1>0, <1>5, <2>2, ViewsTyped, EndsTyped DEF Swept
  <2>. QED  BY <2>1, <2>2
<1>. QED  BY <1>1, <1>2, <1>3, <1>4, <1>5

(* The import keeps the types.                                             *)
LEMMA TypeImport ==
  ASSUME TypeOK,
         \/ CopyFile \/ CopySync \/ Copied \/ IncomingSync \/ Aside \/ AsideSync
         \/ Install \/ Undo \/ UndoSync \/ Commit \/ Cleanup \/ CleanupSync
  PROVE  TypeOK'
<1>. USE DEF RecoverSteps, ImportSteps, CopySteps, SlotSteps, Steps
<1>1. fs \in View /\ durable \subseteq View /\ job \in Jobs /\ legacy \in Sets
  BY DEF TypeOK, Types
<1>2. job.kind \in {"migrate", "import"}
  BY DEF TypeOK, JobAtStep, CopyFile, CopySync, Copied, IncomingSync, Aside,
     AsideSync, Install, Undo, UndoSync, Commit, Cleanup, CleanupSync
<1>3. pc \in CopySteps => fs.incoming \in Directory
  BY <1>1 DEF TypeOK, WorksOnDirectory, View
<1>4. CASE CopyFile
  <2>1. ASSUME NEW n \in Missing, pc = "copy",
               Do([fs EXCEPT !.incoming[n] = Written(job.set[n])]), Goto("copysync")
        PROVE  TypeOK'
    <3> DEFINE dir == [fs.incoming EXCEPT ![n] = Written(job.set[n])]
    <3>1. n \in Names /\ job.set[n] \in Versions
      BY <1>1 DEF Missing, Jobs, Sets
    <3>2. Written(job.set[n]) \in File
      BY <3>1 DEF Written, File
    <3>3. dir \in Directory
      BY <1>3, <2>1, <3>1, <3>2, FileUpdates
    <3>4. /\ [fs EXCEPT !.incoming = dir] \in View
          /\ [fs EXCEPT !.incoming = dir].incoming # None
      BY <1>1, <3>3, Updates, Absent
    <3>5. fs' = [fs EXCEPT !.incoming = dir] /\ durable' = durable \cup {fs'} /\ legacy' = legacy
      BY <2>1 DEF Do, Kept
    <3>. HIDE DEF dir
    <3>. QED  BY <1>1, <1>2, <2>1, <3>4, <3>5, GoesTyped
  <2>. QED  BY <1>4, <2>1, FailsTyped DEF CopyFile
<1>5. CASE CopySync
  <2>1. Synced(fs.incoming) \in Directory
    BY <1>3, <1>5, SyncedDirectory DEF CopySync
  <2>2. /\ [fs EXCEPT !.incoming = Synced(fs.incoming)] \in View
        /\ [fs EXCEPT !.incoming = Synced(fs.incoming)].incoming # None
    BY <1>1, <2>1, Updates, Absent
  <2>3. CASE Sync([fs EXCEPT !.incoming = Synced(fs.incoming)]) /\ Goto("copy")
    BY <1>1, <1>2, <2>2, <2>3, GoesTyped DEF Sync, Kept
  <2>. QED  BY <1>5, <2>3, FailsTyped DEF CopySync
<1>6. CASE Copied
  <2>1. /\ fs' = fs /\ durable' = durable /\ legacy' = legacy
        /\ Goto("incomingsync") /\ fs.incoming # None
    BY <1>6 DEF Copied, Untouched, TypeOK, WorksOnDirectory
  <2>. QED  BY <1>1, <1>2, <2>1, GoesTyped
<1>7. CASE IncomingSync
  <2>1. CASE Sync(fs) /\ Goto(IF fs.target = None THEN "install" ELSE "aside")
    <3>1. fs' = fs /\ durable' = {fs} /\ fs.incoming # None /\ legacy' = legacy
      BY <1>7, <2>1 DEF IncomingSync, Sync, Kept, TypeOK, WorksOnDirectory
    <3>2. CASE fs.target = None
      BY <1>1, <1>2, <2>1, <3>1, <3>2, GoesTyped
    <3>3. CASE fs.target # None
      BY <1>1, <1>2, <2>1, <3>1, <3>3, GoesTyped
    <3>. QED  BY <3>2, <3>3
  <2>. QED  BY <1>7, <2>1, FailsTyped DEF IncomingSync
<1>8. CASE Aside
  <2>1. CASE Do([fs EXCEPT !.target = None, !.previous = fs.target]) /\ Goto("asidesync")
    <3>1. /\ fs' \in View /\ durable' \subseteq View /\ fs'.incoming = fs.incoming
          /\ legacy' = legacy
      BY <1>1, <2>1, Moves DEF Do, Kept
    <3>2. fs.incoming # None
      BY <1>8 DEF Aside, TypeOK, WorksOnDirectory
    <3>. QED  BY <1>1, <1>2, <2>1, <3>1, <3>2, GoesTyped
  <2>. QED  BY <1>8, <2>1, FailsTyped DEF Aside
<1>9. CASE AsideSync
  <2>1. CASE Sync(fs) /\ Goto("install")
    <3>1. fs' = fs /\ durable' = {fs} /\ fs.incoming # None /\ legacy' = legacy
      BY <1>9, <2>1 DEF AsideSync, Sync, Kept, TypeOK, WorksOnDirectory
    <3>. QED  BY <1>1, <1>2, <2>1, <3>1, GoesTyped
  <2>. QED  BY <1>9, <2>1, FailsTyped DEF AsideSync
<1>10. CASE Install
  <2>1. CASE Do([fs EXCEPT !.target = fs.incoming, !.incoming = None]) /\ Goto("commit")
    BY <1>1, <1>2, <2>1, Moves, ViewsTyped, GoesTyped
  <2>2. CASE Untouched /\ Goto("undo")
    BY <1>1, <1>2, <2>2, ViewsTyped, GoesTyped
  <2>. QED  BY <1>10, <2>1, <2>2, FailsTyped DEF Install
<1>11. CASE Undo
  <2>1. CASE Do([fs EXCEPT !.target = fs.previous, !.previous = None])
    BY <1>1, <1>2, <1>11, <2>1, Moves, ViewsTyped, GoesTyped DEF Undo
  <2>2. CASE Untouched /\ Goto("undosync")
    BY <1>1, <1>2, <2>2, ViewsTyped, GoesTyped
  <2>. QED  BY <1>11, <2>1, <2>2 DEF Undo
<1>12. CASE UndoSync \/ CleanupSync
  BY <1>1, <1>12, ViewsTyped, EndsTyped DEF UndoSync, CleanupSync
<1>13. CASE Commit
  <2>1. CASE Sync(fs) /\ Goto("cleanup")
    BY <1>1, <1>2, <2>1, ViewsTyped, GoesTyped
  <2>. QED  BY <1>13, <2>1, FailsTyped DEF Commit
<1>14. CASE Cleanup
  <2>1. CASE fs.previous = None
    BY <1>1, <1>2, <1>14, <2>1, ViewsTyped, GoesTyped DEF Cleanup
  <2>2. CASE fs.previous # None
    <3>1. Parts(fs, "previous") \subseteq View /\ [fs EXCEPT !.previous = None] \in View
      BY <1>1, <2>2, PartViews, Updates
    <3>2. CASE Remove("previous") /\ Goto("cleanupsync")
      <4>1. fs' \in View /\ durable' \subseteq View /\ legacy' \in Sets
        BY <1>1, <3>1, <3>2 DEF Remove, Kept
      <4>. QED  BY <1>2, <3>2, <4>1, GoesTyped
    <3>3. CASE RemoveFails("previous") /\ Done("ok")
      <4>1. fs' \in View /\ durable' \subseteq View /\ legacy' \in Sets
        BY <1>1, <3>1, <3>3 DEF RemoveFails, Kept
      <4>. QED  BY <3>3, <4>1, EndsTyped
    <3>. QED  BY <1>14, <2>2, <3>2, <3>3 DEF Cleanup
  <2>. QED  BY <2>1, <2>2
<1>. QED
  BY <1>4, <1>5, <1>6, <1>7, <1>8, <1>9, <1>10, <1>11, <1>12, <1>13, <1>14

(* Slot writes and deletions keep the types.                               *)
LEMMA TypeSlots ==
  ASSUME TypeOK,
         \/ SlotSync \/ SlotRename \/ SlotDirSync
         \/ \E n \in Names : DeleteSlot(n) \/ \E v \in Versions : WriteSlot(n, v)
  PROVE  TypeOK'
<1>. USE DEF RecoverSteps, ImportSteps, CopySteps, SlotSteps, Steps
<1>1. fs \in View /\ durable \subseteq View /\ job \in Jobs /\ legacy \in Sets
  BY DEF TypeOK, Types
<1>2. pc \in SlotSteps => fs.target \in Directory /\ job.kind = "slot"
  BY <1>1 DEF TypeOK, WorksOnDirectory, JobAtStep, View
<1>3. CASE SlotSync
  <2>1. CASE /\ Sync(fs) /\ pc' = "slotrename"
             /\ job' = [job EXCEPT !.synced = TRUE] /\ UNCHANGED report
    <3>1. job' \in Jobs /\ job'.kind = "slot"
      BY <1>1, <1>2, <1>3, <2>1 DEF Jobs, SlotSync
    <3>2. fs' = fs /\ durable' = {fs} /\ fs.target # None /\ legacy' = legacy
      BY <1>3, <2>1 DEF Sync, Kept, SlotSync, TypeOK, WorksOnDirectory
    <3>. QED  BY <1>1, <2>1, <3>1, <3>2 DEF TypeOK, Types, JobAtStep, WorksOnDirectory
  <2>. QED  BY <1>3, <2>1, FailsTyped DEF SlotSync
<1>4. CASE SlotRename
  <2> DEFINE dir == [n \in Names |->
                       IF job.set[n] = None THEN fs.target[n]
                       ELSE [ver |-> job.set[n], synced |-> job.synced]]
  <2>1. CASE Do([fs EXCEPT !.target = dir]) /\ Goto("slotdirsync")
    <3>1. \A n \in Names : job.set[n] # None => job.set[n] \in Versions
      BY <1>1 DEF Jobs, Sets
    <3>2. dir \in Directory
      BY <1>1, <1>2, <1>4, <3>1 DEF Directory, File, Jobs, SlotRename
    <3>3. /\ [fs EXCEPT !.target = dir] \in View
          /\ [fs EXCEPT !.target = dir].target # None
      BY <1>1, <3>2, Updates, Absent
    <3>4. fs' = [fs EXCEPT !.target = dir] /\ durable' = durable \cup {fs'} /\ legacy' = legacy
      BY <2>1 DEF Do, Kept
    <3>5. job.kind = "slot"
      BY <1>2, <1>4 DEF SlotRename
    <3>. HIDE DEF dir
    <3>. QED  BY <1>1, <2>1, <3>3, <3>4, <3>5, GoesTyped
  <2>. QED  BY <1>4, <2>1, FailsTyped DEF SlotRename
<1>5. CASE SlotDirSync
  <2>1. CASE Sync(fs) /\ Done("ok")
    BY <1>1, <2>1, ViewsTyped, EndsTyped
  <2>. QED  BY <1>5, <2>1, FailsTyped DEF SlotDirSync
<1>6. ASSUME NEW n \in Names, DeleteSlot(n) PROVE TypeOK'
  <2> DEFINE dir == [fs.target EXCEPT ![n] = None]
  <2>1. fs.target \in Directory
    BY <1>1, <1>6 DEF DeleteSlot, View
  <2>2. dir \in Directory
    BY <2>1, FileUpdates
  <2>3. [fs EXCEPT !.target = dir] \in View
    BY <1>1, <2>2, Updates
  <2>4. /\ fs' = [fs EXCEPT !.target = dir] /\ durable' = durable \cup {fs'}
        /\ report' = "none" /\ pc = "ready" /\ pc' = pc /\ job' = job /\ legacy' = legacy
    BY <1>6 DEF DeleteSlot, Do, Kept
  <2>. HIDE DEF dir
  <2>. QED  BY <1>1, <2>3, <2>4 DEF TypeOK, Types, JobAtStep, WorksOnDirectory, Answers
<1>7. ASSUME NEW n \in Names, NEW v \in Versions, WriteSlot(n, v) PROVE TypeOK'
  <2> DEFINE view == IF fs.target = None THEN [fs EXCEPT !.target = Nothing] ELSE fs
  <2>0. /\ [fs EXCEPT !.target = Nothing] \in View
        /\ [fs EXCEPT !.target = Nothing].target # None
    BY <1>1, Updates, FreeTyped
  <2>1. view \in View /\ view.target # None
    BY <1>1, <2>0
  <2>2. [Nothing EXCEPT ![n] = v] \in Sets
    BY DEF Nothing, Sets
  <2>3. job' \in Jobs /\ job'.kind = "slot"
    BY <1>7, <2>2 DEF WriteSlot, Jobs, Kinds
  <2>4. /\ fs' = view /\ durable' = durable \cup {view}
        /\ pc' = "slotsync" /\ report' = "none" /\ legacy' = legacy
    BY <1>7 DEF WriteSlot, Do, Kept
  <2>. HIDE DEF view
  <2>. QED  BY <1>1, <2>1, <2>3, <2>4 DEF TypeOK, Types, JobAtStep, WorksOnDirectory, Answers
<1>. QED  BY <1>3, <1>4, <1>5, <1>6, <1>7

(* So do the beginning of an import, the end of the process and a power    *)
(* loss, and with them every step.                                         *)
LEMMA TypeStep == TypeOK /\ [Next]_vars => TypeOK'
<1>. SUFFICES ASSUME TypeOK, [Next]_vars PROVE TypeOK'
  OBVIOUS
<1>. USE DEF RecoverSteps, ImportSteps, CopySteps, SlotSteps, Steps
<1>1. fs \in View /\ durable \subseteq View /\ job \in Jobs /\ legacy \in Sets
  BY DEF TypeOK, Types
<1>2. ASSUME NEW set \in Bundles, Import(set) PROVE TypeOK'
  <2>1. job' \in Jobs /\ job'.kind = "import"
    BY <1>2, Backups DEF Import, Jobs, Kinds
  <2>. QED
    BY <1>1, <1>2, <2>1 DEF Import, Untouched, TypeOK, Types, JobAtStep,
       WorksOnDirectory, Answers
<1>3. CASE ProcessDies
  BY <1>1, <1>3, FreeTyped DEF ProcessDies, Untouched, TypeOK, Types, JobAtStep,
     WorksOnDirectory, Answers
<1>4. CASE PowerLoss
  <2>1. fs' \in View /\ durable' \subseteq View
    BY <1>1, <1>4, AfterViews DEF PowerLoss
  <2>. QED
    BY <1>4, <2>1, FreeTyped DEF PowerLoss, Kept, TypeOK, Types, JobAtStep,
       WorksOnDirectory, Answers
<1>5. CASE UNCHANGED vars
  BY <1>5 DEF vars, TypeOK, Types, JobAtStep, WorksOnDirectory
<1>. QED
  BY <1>2, <1>3, <1>4, <1>5, TypeRecovery, TypeImport, TypeSlots DEF Next

(* The save directory and the job stay typed, every step belongs to the    *)
(* job in progress, and a file operation finds the directory it works on.  *)
THEOREM TypeCorrect == Spec => []TypeOK
BY TypeInit, TypeStep, PTL DEF Spec

-------------------------------------------------------------------------------
(* The committed name.                                                     *)

(* Between the two renames of an import, after a failed install and while  *)
(* a launch has not yet recovered, the old set may be in saves.previous    *)
(* only; at every other step of a running process it is not.               *)
Swapping == pc \in {"off", "asidesync", "install", "undo"}
Recovering == pc = "recover" /\ job.kind = "launch"
Committed(view) == view.target # None \/ view.previous = None
CommitInv == TypeOK /\ (Swapping \/ Recovering \/ Committed(fs))

LEMMA CommitInit == Init => CommitInv
BY TypeInit DEF Init, CommitInv, Swapping

(* The invariant gives the property: neither exception holds while the     *)
(* game runs.                                                              *)
LEMMA CommitImplies == CommitInv => CommittedName
BY DEF CommitInv, CommittedName, Swapping, Recovering, Committed, TypeOK, Types,
   JobAtStep, Steps, RecoverSteps, ImportSteps, CopySteps, SlotSteps

(* Removing one directory, in part or whole, leaves the others alone.      *)
LEMMA RemovesOne ==
  ASSUME NEW k \in {"incoming", "previous"}, fs \in View, Remove(k) \/ RemoveFails(k)
  PROVE  /\ fs'.target = fs.target
         /\ k = "incoming" => fs'.previous = fs.previous
BY DEF Remove, RemoveFails, Parts, View

(* Each step of the recovery keeps the invariant.                          *)
LEMMA CommitRecovery ==
  ASSUME CommitInv,
         Launch \/ Recover \/ RestoreSync \/ Sweep \/ SweepSync \/ Swept
  PROVE  (Swapping \/ Recovering \/ Committed(fs))'
<1>. USE DEF Swapping, Recovering, Committed
<1>1. fs \in View /\ TypeOK
  BY DEF CommitInv, TypeOK, Types
<1>2. CASE Launch
  BY <1>2 DEF Launch
<1>3. CASE Recover
  <2>1. CASE Do([fs EXCEPT !.target = fs.previous, !.previous = None]) /\ Goto("restoresync")
    BY <1>1, <2>1, Moves DEF Do
  <2>2. CASE Fails("restore")
    <3>1. CASE job.kind = "launch"
      BY <2>2, <3>1 DEF Fails, Abort
    <3>2. CASE job.kind # "launch"
      BY <1>3, <2>2, <3>2 DEF CommitInv, Recover, Fails, Untouched
    <3>. QED  BY <3>1, <3>2
  <2>3. CASE (fs.target # None \/ fs.previous = None) /\ Untouched
    BY <2>3 DEF Untouched
  <2>. QED  BY <1>3, <2>1, <2>2, <2>3 DEF Recover
<1>4. CASE RestoreSync \/ SweepSync
  <2>1. Committed(fs)
    BY <1>4 DEF CommitInv, RestoreSync, SweepSync
  <2>2. fs' = fs
    BY <1>4 DEF RestoreSync, SweepSync, Sync, Fails, Untouched
  <2>. QED  BY <2>1, <2>2
<1>5. CASE Sweep
  <2>1. PICK k \in {"incoming", "previous"} : fs[k] # None /\ (Remove(k) \/ RemoveFails(k))
    BY <1>5 DEF Sweep
  <2>2. Committed(fs)
    BY <1>5 DEF CommitInv, Sweep
  <2>. QED  BY <1>1, <2>1, <2>2, RemovesOne
<1>6. CASE Swept
  <2>1. fs.previous = None
    BY <1>6 DEF Swept
  <2>2. [fs EXCEPT !.incoming = Nothing].previous = fs.previous
    BY <1>1 DEF View
  <2>3. fs'.previous = None
    BY <1>6, <2>1, <2>2 DEF Swept, Do, Untouched
  <2>. QED  BY <2>3
<1>. QED  BY <1>2, <1>3, <1>4, <1>5, <1>6

(* Each step of an import keeps it, if the synchronisation between the two *)
(* renames and the undo of a failed install do what they are asked for.    *)
LEMMA CommitImport ==
  ASSUME "asidesync" \notin MayFail, "undo" \notin MayFail, CommitInv,
         \/ CopyFile \/ CopySync \/ Copied \/ IncomingSync \/ Aside \/ AsideSync
         \/ Install \/ Undo \/ UndoSync \/ Commit \/ Cleanup \/ CleanupSync
  PROVE  (Swapping \/ Recovering \/ Committed(fs))'
<1>. USE DEF Swapping, Recovering, Committed
<1>1. fs \in View /\ TypeOK
  BY DEF CommitInv, TypeOK, Types
<1>2. CASE CopyFile \/ CopySync
  <2>1. Committed(fs)
    BY <1>2 DEF CommitInv, CopyFile, CopySync
  <2>2. ASSUME NEW dir PROVE /\ [fs EXCEPT !.incoming = dir].target = fs.target
                            /\ [fs EXCEPT !.incoming = dir].previous = fs.previous
    BY <1>1 DEF View
  <2>3. fs'.target = fs.target /\ fs'.previous = fs.previous
    BY <1>2, <2>2 DEF CopyFile, CopySync, Do, Sync, Fails, Untouched
  <2>. QED  BY <2>1, <2>3
<1>3. CASE Copied \/ IncomingSync \/ UndoSync \/ Commit \/ CleanupSync
  <2>1. Committed(fs)
    BY <1>3 DEF CommitInv, Copied, IncomingSync, UndoSync, Commit, CleanupSync
  <2>2. fs' = fs
    BY <1>3 DEF Copied, IncomingSync, UndoSync, Commit, CleanupSync, Sync, Fails, Untouched
  <2>. QED  BY <2>1, <2>2
<1>4. CASE Aside
  <2>1. Committed(fs)
    BY <1>4 DEF CommitInv, Aside
  <2>. QED  BY <1>4, <2>1 DEF Aside, Goto, Fails, Untouched
<1>5. CASE AsideSync
  BY <1>5 DEF AsideSync, Goto, Fails
<1>6. CASE Install
  <2>1. CASE Do([fs EXCEPT !.target = fs.incoming, !.incoming = None])
    <3>1. fs.incoming # None
      BY <1>1, <1>6 DEF Install, TypeOK, WorksOnDirectory, CopySteps
    <3>. QED  BY <1>1, <2>1, <3>1, Moves DEF Do
  <2>. QED  BY <1>6, <2>1 DEF Install, Goto, Fails, Untouched
<1>7. CASE Undo
  BY <1>1, <1>7, Moves DEF Undo, Do
<1>8. CASE Cleanup
  <2>1. Committed(fs)
    BY <1>8 DEF CommitInv, Cleanup
  <2>2. CASE fs.previous = None
    BY <1>8, <2>1, <2>2 DEF Cleanup, Untouched
  <2>3. CASE fs.previous # None
    BY <1>1, <1>8, <2>1, <2>3, RemovesOne DEF Cleanup
  <2>. QED  BY <2>2, <2>3
<1>. QED  BY <1>2, <1>3, <1>4, <1>5, <1>6, <1>7, <1>8

(* And so does every step.                                                 *)
LEMMA CommitStep ==
  ASSUME "asidesync" \notin MayFail, "undo" \notin MayFail, CommitInv, [Next]_vars
  PROVE  CommitInv'
<1>1. TypeOK /\ TypeOK' /\ fs \in View
  BY TypeStep DEF CommitInv, TypeOK, Types
<1>. SUFFICES (Swapping \/ Recovering \/ Committed(fs))'
  BY <1>1 DEF CommitInv
<1>. USE DEF Swapping, Recovering, Committed
<1>2. CASE SlotSync \/ SlotDirSync
  <2>1. Committed(fs)
    BY <1>2 DEF CommitInv, SlotSync, SlotDirSync
  <2>2. fs' = fs
    BY <1>2 DEF SlotSync, SlotDirSync, Sync, Fails, Untouched
  <2>. QED  BY <2>1, <2>2
<1>3. CASE SlotRename
  <2>1. CASE Goto("slotdirsync")
    BY <1>1, <2>1 DEF Goto, TypeOK, WorksOnDirectory, SlotSteps
  <2>2. CASE Fails("rename")
    BY <1>3, <2>2 DEF CommitInv, SlotRename, Fails, Untouched
  <2>. QED  BY <1>3, <2>1, <2>2 DEF SlotRename
<1>4. ASSUME NEW n \in Names, DeleteSlot(n) PROVE Committed(fs)'
  <2>1. fs.target \in Directory
    BY <1>1, <1>4 DEF DeleteSlot, View
  <2>2. [fs.target EXCEPT ![n] = None] \in Directory
    BY <2>1, FileUpdates
  <2>3. fs'.target = [fs.target EXCEPT ![n] = None]
    BY <1>1, <1>4 DEF DeleteSlot, Do, View
  <2>. QED  BY <2>2, <2>3, Absent
<1>5. ASSUME NEW n \in Names, NEW v \in Versions, WriteSlot(n, v) PROVE Committed(fs)'
  BY <1>1, <1>5 DEF WriteSlot, TypeOK, WorksOnDirectory, SlotSteps
<1>6. ASSUME NEW set \in Bundles, Import(set) PROVE Committed(fs)'
  BY <1>6 DEF Import, Untouched, CommitInv
<1>7. CASE ProcessDies \/ PowerLoss
  BY <1>7 DEF ProcessDies, PowerLoss
<1>8. CASE UNCHANGED vars
  BY <1>8 DEF vars, CommitInv
<1>. QED
  BY <1>2, <1>3, <1>4, <1>5, <1>6, <1>7, <1>8, CommitRecovery, CommitImport DEF Next

(* While the game runs, a leftover saves.previous is never the only copy   *)
(* of what the player saved, whatever else fails and wherever the process  *)
(* or the machine stops.                                                   *)
THEOREM CommittedNameHolds ==
  ASSUME "asidesync" \notin MayFail, "undo" \notin MayFail
  PROVE  Spec => []CommittedName
<1>1. CommitInv /\ [Next]_vars => CommitInv'
  BY CommitStep
<1>. QED  BY <1>1, CommitInit, CommitImplies, PTL DEF Spec

-------------------------------------------------------------------------------
(* The save set as a whole: views and what the player reads in them.       *)

(* Every file of a directory has reached the disk.                         *)
Settled(dir) == dir = None \/ \A n \in Names : dir[n] = None \/ dir[n].synced
Solid(view) == Settled(view.target) /\ Settled(view.previous)
Reading(view, old) ==
  IF view.target # None THEN Read(view.target)
  ELSE IF view.previous # None THEN Read(view.previous)
  ELSE old

LEMMA VisibleIsReading ==
  /\ \A view : Visible(view) = Reading(view, legacy)
  /\ Visible(fs)' = Reading(fs', legacy')
BY DEF Visible, Reading

(* What a power loss leaves of a directory has settled, and reads as the   *)
(* directory did when that had settled.                                    *)
LEMMA AfterDirectory ==
  ASSUME NEW dir \in Directory \cup {None}, NEW left \in {Whole(dir), TornIn(dir)}
  PROVE  /\ Settled(left) /\ (left = None <=> dir = None)
         /\ Settled(dir) /\ dir # None => Read(left) = Read(dir)
<1>1. CASE dir = None
  BY <1>1 DEF Whole, TornIn, Settled
<1>2. CASE dir # None
  <2>1. dir \in Directory /\ left \in Directory
    <3>1. dir \in Directory
      BY <1>2
    <3>2. CASE left = Whole(dir)
      BY <1>2, <3>1, <3>2, SyncedDirectory DEF Whole
    <3>3. CASE left = TornIn(dir)
      <4>1. \A n \in Names : dir[n] \in File \cup {None}
        BY <3>1 DEF Directory
      <4>2. [ver |-> Torn, synced |-> TRUE] \in File
        BY DEF File
      <4>. QED  BY <1>2, <3>3, <4>1, <4>2 DEF TornIn, Directory
    <3>. QED  BY <3>1, <3>2, <3>3
  <2>2. left # None
    BY <2>1, Absent
  <2>3. ASSUME NEW n \in Names
        PROVE  /\ left[n] = None \/ left[n].synced
               /\ (dir[n] = None \/ dir[n].synced) =>
                    (left[n] = None <=> dir[n] = None)
                    /\ (dir[n] # None => left[n].ver = dir[n].ver)
    <3>1. dir[n] \in File \cup {None}
      BY <2>1 DEF Directory
    <3>2. None \notin File
      BY Absent
    <3>3. CASE left = Synced(dir)
      BY <3>1, <3>2, <3>3 DEF Synced, File
    <3>4. CASE left = TornIn(dir)
      BY <1>2, <3>1, <3>2, <3>4 DEF TornIn, File
    <3>. QED  BY <1>2, <3>3, <3>4 DEF Whole
  <2>. QED  BY <1>2, <2>2, <2>3 DEF Settled, Read
<1>. QED  BY <1>1, <1>2


(* The sets a power loss may leave are what the views of a journal read    *)
(* as, when their directories have settled.                                *)
LEMMA AfterReads ==
  ASSUME NEW view \in View, NEW left \in After(view), NEW old
  PROVE  /\ left \in View /\ Solid(left)
         /\ Solid(view) => Reading(left, old) = Reading(view, old)
<1>1. DOMAIN view = {"target", "incoming", "previous"}
  BY DEF View
<1>2. \A k \in {"target", "previous"} :
        view[k] \in Directory \cup {None} /\ left[k] \in {Whole(view[k]), TornIn(view[k])}
  BY <1>1 DEF After, View
<1>3. \A k \in {"target", "previous"} :
        /\ Settled(left[k]) /\ (left[k] = None <=> view[k] = None)
        /\ Settled(view[k]) /\ view[k] # None => Read(left[k]) = Read(view[k])
  BY <1>2, AfterDirectory
<1>. QED  BY <1>3, AfterViews DEF Solid, Reading
LEMMA AfterExists ==
  ASSUME NEW view
  PROVE  After(view) # {}
BY DEF After

(* A directory that is partly removed stays settled.                       *)
LEMMA PartsSettled ==
  ASSUME NEW view \in View, NEW k \in {"incoming", "previous"}, view[k] # None,
         Solid(view), k = "previous" => view.target # None,
         NEW old, NEW part \in Parts(view, k) \cup {[view EXCEPT ![k] = None]}
  PROVE  Solid(part) /\ Reading(part, old) = Reading(view, old)
<1>1. view[k] \in Directory
  BY DEF View
<1>2. CASE part = [view EXCEPT ![k] = None]
  BY <1>2 DEF View, Solid, Settled, Reading
<1>3. ASSUME NEW rest \in SUBSET Names,
             part = [view EXCEPT ![k] = [n \in Names |-> IF n \in rest THEN view[k][n] ELSE None]]
      PROVE  Solid(part) /\ Reading(part, old) = Reading(view, old)
  <2> DEFINE dir == [n \in Names |-> IF n \in rest THEN view[k][n] ELSE None]
  <2>1. Settled(view[k]) => Settled(dir)
    BY <1>1, Absent DEF Settled, Directory
  <2>2. dir # None
    BY <1>1, Absent DEF Directory
  <2>3. part = [view EXCEPT ![k] = dir]
    BY <1>3
  <2>. HIDE DEF dir
  <2>4. CASE k = "incoming"
    <3>1. part.target = view.target /\ part.previous = view.previous
      BY <2>3, <2>4 DEF View
    <3>. QED  BY <3>1 DEF Solid, Reading
  <2>5. CASE k = "previous"
    <3>1. part.target = view.target /\ part.previous = dir
      BY <2>3, <2>5 DEF View
    <3>. QED  BY <2>1, <2>5, <3>1 DEF Solid, Reading
  <2>. QED  BY <2>4, <2>5
<1>. QED  BY <1>2, <1>3 DEF Parts

-------------------------------------------------------------------------------
(* The invariant behind the whole save set.                                *)

(* A view that a power loss may leave shows directories that have settled. *)
JournalSettled == fs \in durable /\ \A v \in durable : Solid(v)
(* The incoming directory holds the new set, file by file.                 *)
IncomingHolds ==
  /\ pc \in CopySteps \ {"copysync"} => Settled(fs.incoming)
  /\ pc \in CopySteps =>
       \A n \in Names : fs.incoming[n] # None => fs.incoming[n].ver = job.set[n]
  /\ pc \in CopySteps \ {"copy", "copysync"} =>
       \A n \in Names : fs.incoming[n] = None => job.set[n] = None
(* What the job in progress is to make visible.                            *)
JobHolds ==
  /\ job.kind \in {"launch", "migrate"} => job.set = legacy
  /\ job.kind = "import" => job.set \in Bundles
  /\ job.kind = "slot" =>
       \E n \in Names, v \in Versions : job.set = [Nothing EXCEPT ![n] = v]
  /\ pc = "slotrename" => job.synced
(* Which directories are there at the steps of the swap; a running game    *)
(* has a set of its own or never had an old one.                           *)
SwapHolds ==
  /\ pc \in {"asidesync", "install", "undo"} => fs.target = None
  /\ pc = "undo" => fs.previous # None
  /\ pc \in {"commit", "cleanup", "cleanupsync"} => fs.target # None
  /\ job.kind = "migrate" /\ pc \in CopySteps => fs.target = None /\ fs.previous = None
  /\ pc # "off" /\ job.kind \in {"none", "import", "slot"} =>
       fs.target # None \/ fs.previous # None \/ legacy = Nothing
(* After the commit, and after a success, every view shows the same set.   *)
OneVisible ==
  /\ pc \in {"cleanup", "cleanupsync"} \/ report = "ok" =>
       \A v \in durable : Reading(v, legacy) = Reading(fs, legacy)
  /\ report = "ok" => pc = "ready"
SwapInv ==
  /\ CommitInv /\ JournalSettled /\ IncomingHolds /\ JobHolds /\ SwapHolds /\ OneVisible

(* A step after which the player sees what was seen before, and so in      *)
(* every view it adds to the journal.                                      *)
Quiet ==
  /\ legacy' = legacy /\ fs' \in durable'
  /\ \A v \in durable' :
       v \in durable \/ (Solid(v) /\ Reading(v, legacy) = Reading(fs, legacy))
  /\ Reading(fs', legacy) = Reading(fs, legacy)
(* A step that makes one new set visible.                                  *)
Replaces(new) ==
  /\ legacy' = legacy /\ durable' = durable \cup {fs'}
  /\ Solid(fs') /\ Reading(fs', legacy) = new

LEMMA SwapInit == Init => SwapInv
<1>. SUFFICES ASSUME Init PROVE SwapInv
  OBVIOUS
<1>1. CommitInv
  BY CommitInit
<1>2. /\ fs = [target |-> None, incoming |-> None, previous |-> None]
      /\ durable = {fs} /\ pc = "off" /\ report = "none" /\ job.kind = "none"
  BY FreeTyped DEF Init
<1>. QED
  BY <1>1, <1>2 DEF SwapInv, JournalSettled, Solid, Settled, IncomingHolds, JobHolds,
     SwapHolds, OneVisible, CopySteps

(* File operations that leave both visible names alone are quiet.          *)
LEMMA QuietSame ==
  ASSUME JournalSettled, NEW view, view.target = fs.target, view.previous = fs.previous,
         Do(view) \/ Sync(view)
  PROVE  Quiet
BY DEF JournalSettled, Do, Sync, Kept, Quiet, Solid, Reading
LEMMA QuietUntouched ==
  ASSUME JournalSettled, Untouched \/ UNCHANGED vars
  PROVE  Quiet
BY DEF JournalSettled, Untouched, vars, Quiet
LEMMA QuietFails ==
  ASSUME JournalSettled, NEW operation, Fails(operation)
  PROVE  Quiet
BY QuietUntouched DEF Fails
(* So is the removal of a directory that nobody reads.                     *)
LEMMA QuietRemoval ==
  ASSUME JournalSettled, fs \in View, NEW k \in {"incoming", "previous"}, fs[k] # None,
         k = "previous" => fs.target # None, Remove(k) \/ RemoveFails(k)
  PROVE  Quiet
<1>1. \A part \in Parts(fs, k) \cup {[fs EXCEPT ![k] = None]} :
        Solid(part) /\ Reading(part, legacy) = Reading(fs, legacy)
  BY PartsSettled DEF JournalSettled
<1>. QED  BY <1>1 DEF Remove, RemoveFails, Kept, Quiet
(* And the renames that move the visible set to the name the recovery      *)
(* looks for, or back.                                                     *)
LEMMA QuietMoves ==
  ASSUME JournalSettled, fs \in View,
         \/ /\ fs.target = None /\ fs.previous # None
            /\ Do([fs EXCEPT !.target = fs.previous, !.previous = None])
         \/ /\ fs.target # None
            /\ Do([fs EXCEPT !.target = None, !.previous = fs.target])
  PROVE  Quiet
<1>0. Solid(fs) /\ Settled(None)
  BY DEF JournalSettled, Settled
<1>1. Solid(fs') /\ Reading(fs', legacy) = Reading(fs, legacy)
  <2>1. CASE /\ fs.target = None /\ fs.previous # None
             /\ Do([fs EXCEPT !.target = fs.previous, !.previous = None])
    <3>1. fs'.target = fs.previous /\ fs'.previous = None
      BY <2>1, Moves DEF Do
    <3>. QED  BY <1>0, <2>1, <3>1 DEF Solid, Reading
  <2>2. CASE /\ fs.target # None
             /\ Do([fs EXCEPT !.target = None, !.previous = fs.target])
    <3>1. fs'.target = None /\ fs'.previous = fs.target
      BY <2>2, Moves DEF Do
    <3>. QED  BY <1>0, <2>2, <3>1 DEF Solid, Reading
  <2>. QED  BY <2>1, <2>2
<1>. QED  BY <1>1 DEF JournalSettled, Do, Kept, Quiet


-------------------------------------------------------------------------------
(* What each step shows. *)

(* The recovery never changes what the player sees.                        *)
LEMMA RecoveryShows ==
  ASSUME SwapInv, Launch \/ Recover \/ RestoreSync \/ Sweep \/ SweepSync \/ Swept
  PROVE  Quiet
<1>0. JournalSettled /\ fs \in View
  BY DEF SwapInv, CommitInv, TypeOK, Types
<1>1. CASE Launch
  BY <1>0, <1>1, QuietUntouched DEF Launch
<1>2. CASE Recover
  BY <1>0, <1>2, QuietUntouched, QuietMoves, QuietFails DEF Recover
<1>3. CASE RestoreSync \/ SweepSync
  <2>1. CASE Sync(fs)
    BY <1>0, <2>1, QuietSame
  <2>. QED  BY <1>0, <1>3, <2>1, QuietFails DEF RestoreSync, SweepSync
<1>4. CASE Sweep
  <2>1. PICK k \in {"incoming", "previous"} :
          fs[k] # None /\ (Remove(k) \/ RemoveFails(k))
    BY <1>4 DEF Sweep
  <2>2. k = "previous" => fs.target # None
    BY <1>4, <2>1 DEF SwapInv, CommitInv, Swapping, Recovering, Committed, Sweep
  <2>. QED  BY <1>0, <2>1, <2>2, QuietRemoval
<1>5. CASE Swept
  <2>1. /\ [fs EXCEPT !.incoming = Nothing].target = fs.target
        /\ [fs EXCEPT !.incoming = Nothing].previous = fs.previous
    BY <1>0 DEF View
  <2>. QED  BY <1>0, <1>5, <2>1, QuietUntouched, QuietSame DEF Swept
<1>. QED  BY <1>1, <1>2, <1>3, <1>4, <1>5

(* Nor does an import, but for the second rename.                          *)
LEMMA ImportShows ==
  ASSUME "undo" \notin MayFail, SwapInv,
         \/ CopyFile \/ CopySync \/ Copied \/ IncomingSync \/ Aside \/ AsideSync
         \/ Undo \/ UndoSync \/ Commit \/ Cleanup \/ CleanupSync
  PROVE  Quiet
<1>0. JournalSettled /\ fs \in View /\ TypeOK
  BY DEF SwapInv, CommitInv, TypeOK, Types
<1>1. ASSUME NEW dir
      PROVE  /\ [fs EXCEPT !.incoming = dir].target = fs.target
             /\ [fs EXCEPT !.incoming = dir].previous = fs.previous
  BY <1>0 DEF View
<1>2. CASE CopyFile
  <2>1. ASSUME NEW n \in Missing, Do([fs EXCEPT !.incoming[n] = Written(job.set[n])])
        PROVE  Quiet
    <3> DEFINE dir == [fs.incoming EXCEPT ![n] = Written(job.set[n])]
    <3>1. Do([fs EXCEPT !.incoming = dir])
      BY <2>1
    <3>. HIDE DEF dir
    <3>. QED  BY <1>0, <1>1, <3>1, QuietSame
  <2>. QED  BY <1>0, <1>2, <2>1, QuietFails DEF CopyFile
<1>3. CASE CopySync
  <2>1. CASE Sync([fs EXCEPT !.incoming = Synced(fs.incoming)])
    BY <1>0, <1>1, <2>1, QuietSame
  <2>. QED  BY <1>0, <1>3, <2>1, QuietFails DEF CopySync
<1>4. CASE Copied
  BY <1>0, <1>4, QuietUntouched DEF Copied
<1>5. CASE IncomingSync \/ AsideSync \/ UndoSync \/ Commit \/ CleanupSync
  <2>1. CASE Sync(fs)
    BY <1>0, <2>1, QuietSame
  <2>. QED
    BY <1>0, <1>5, <2>1, QuietFails, QuietUntouched
       DEF IncomingSync, AsideSync, UndoSync, Commit, CleanupSync
<1>6. CASE Aside
  <2>1. fs.target # None
    BY <1>0, <1>6 DEF Aside, TypeOK, WorksOnDirectory
  <2>. QED  BY <1>0, <1>6, <2>1, QuietMoves, QuietFails DEF Aside
<1>7. CASE Undo
  <2>1. fs.target = None /\ fs.previous # None
    BY <1>7 DEF SwapInv, SwapHolds, Undo
  <2>. QED  BY <1>0, <1>7, <2>1, QuietMoves DEF Undo
<1>8. CASE Cleanup
  <2>1. fs.target # None
    BY <1>8 DEF SwapInv, SwapHolds, Cleanup
  <2>. QED  BY <1>0, <1>8, <2>1, QuietUntouched, QuietRemoval DEF Cleanup
<1>. QED  BY <1>2, <1>3, <1>4, <1>5, <1>6, <1>7, <1>8

(* The second rename shows the new set: of an import the backup's, of a    *)
(* migration the set the player already saw.                               *)
LEMMA InstallShows ==
  ASSUME SwapInv, Install
  PROVE  Quiet \/ (job.kind = "import" /\ job.set \in Bundles /\ Replaces(job.set))
<1>0. JournalSettled /\ fs \in View /\ TypeOK /\ job \in Jobs
  BY DEF SwapInv, CommitInv, TypeOK, Types
<1>1. CASE Do([fs EXCEPT !.target = fs.incoming, !.incoming = None])
  <2>1. /\ fs.incoming # None /\ fs.incoming \in Directory
        /\ job.kind \in {"migrate", "import"}
    BY <1>0 DEF Install, TypeOK, WorksOnDirectory, JobAtStep, CopySteps, ImportSteps, View
  <2>2. /\ fs'.target = fs.incoming /\ fs'.previous = fs.previous
        /\ legacy' = legacy /\ durable' = durable \cup {fs'}
    BY <1>0, <1>1, Moves DEF Do, Kept
  <2>3. Settled(fs.incoming) /\ Settled(fs.previous)
    BY <1>0 DEF SwapInv, IncomingHolds, Install, CopySteps, JournalSettled, Solid
  <2>4. Read(fs.incoming) = job.set
    <3>1. ASSUME NEW n \in Names
          PROVE  job.set[n] = IF fs.incoming[n] = None THEN None ELSE fs.incoming[n].ver
      BY DEF SwapInv, IncomingHolds, Install, CopySteps
    <3>2. job.set = [n \in Names |-> job.set[n]]
      BY <1>0 DEF Jobs, Sets
    <3>. QED  BY <3>1, <3>2 DEF Read
  <2>5. Solid(fs') /\ Reading(fs', legacy) = job.set
    BY <2>1, <2>2, <2>3, <2>4 DEF Solid, Reading
  <2>6. CASE job.kind = "import"
    BY <2>2, <2>5, <2>6 DEF SwapInv, JobHolds, Replaces
  <2>7. CASE job.kind = "migrate"
    <3>1. fs.target = None /\ fs.previous = None /\ job.set = legacy
      BY <2>7 DEF SwapInv, SwapHolds, JobHolds, Install, CopySteps
    <3>2. Reading(fs, legacy) = job.set
      BY <3>1 DEF Reading
    <3>. QED  BY <2>2, <2>5, <3>2 DEF Quiet
  <2>. QED  BY <2>1, <2>6, <2>7
<1>. QED  BY <1>0, <1>1, QuietUntouched, QuietFails DEF Install

(* A slot write shows the set with the slot replaced, at its rename.       *)
LEMMA SlotShows ==
  ASSUME SwapInv, SlotSync \/ SlotRename \/ SlotDirSync
  PROVE  \/ Quiet
         \/ \E n \in Names, v \in Versions :
              Replaces([Reading(fs, legacy) EXCEPT ![n] = v])
<1>0. JournalSettled /\ fs \in View /\ TypeOK /\ job \in Jobs
  BY DEF SwapInv, CommitInv, TypeOK, Types
<1>1. CASE SlotSync \/ SlotDirSync
  <2>1. CASE Sync(fs)
    BY <1>0, <2>1, QuietSame
  <2>. QED  BY <1>0, <1>1, <2>1, QuietFails DEF SlotSync, SlotDirSync
<1>2. CASE SlotRename
  <2> DEFINE dir == [n \in Names |->
                       IF job.set[n] = None THEN fs.target[n]
                       ELSE [ver |-> job.set[n], synced |-> job.synced]]
  <2>1. CASE Do([fs EXCEPT !.target = dir])
    <3>1. fs.target \in Directory /\ fs.target # None /\ job.kind = "slot" /\ job.synced
      BY <1>0, <1>2 DEF SlotRename, TypeOK, WorksOnDirectory, JobAtStep, SlotSteps, View,
         SwapInv, JobHolds
    <3>2. PICK n \in Names, v \in Versions : job.set = [Nothing EXCEPT ![n] = v]
      BY <3>1 DEF SwapInv, JobHolds
    <3>3. /\ job.set[n] = v /\ v # None
          /\ \A m \in Names : m # n => job.set[m] = None
      BY <3>2, Values DEF Nothing
    <3>4. \A m \in Names : job.set[m] = None \/ job.set[m] \in Versions
      BY <1>0 DEF Jobs, Sets
    <3>5. dir \in Directory
      BY <3>1, <3>4, <1>0 DEF Directory, File, Jobs
    <3>6. Settled(fs.target) /\ Settled(fs.previous)
      BY <1>0 DEF JournalSettled, Solid
    <3>7. Settled(dir)
      BY <3>1, <3>6 DEF Settled
    <3>8. Read(dir) = [Read(fs.target) EXCEPT ![n] = v]
      <4>1. \A m \in Names : job.set[m] # None =>
              [ver |-> job.set[m], synced |-> job.synced] \in File
        BY <1>0, <3>4 DEF File, Jobs
      <4>2. ASSUME NEW m \in Names
            PROVE  (IF dir[m] = None THEN None ELSE dir[m].ver)
                     = IF m = n THEN v
                       ELSE IF fs.target[m] = None THEN None ELSE fs.target[m].ver
        BY <3>3, <4>1, Absent
      <4>. QED  BY <4>2 DEF Read
    <3>9. dir # None
      BY <3>5, Absent
    <3>. HIDE DEF dir
    <3>10. /\ fs'.target = dir /\ fs'.previous = fs.previous
           /\ legacy' = legacy /\ durable' = durable \cup {fs'}
      BY <1>0, <2>1, <3>5, Updates DEF Do, Kept
    <3>11. Reading(fs', legacy) = [Reading(fs, legacy) EXCEPT ![n] = v]
      BY <3>1, <3>8, <3>9, <3>10 DEF Reading
    <3>12. Solid(fs')
      BY <3>6, <3>7, <3>10 DEF Solid
    <3>. QED  BY <3>10, <3>11, <3>12 DEF Replaces
  <2>. QED  BY <1>0, <1>2, <2>1, QuietFails DEF SlotRename
<1>. QED  BY <1>1, <1>2

(* Creating the save directory shows no set before the first rename.       *)
LEMMA WriteShows ==
  ASSUME SwapInv, NEW n \in Names, NEW v \in Versions, WriteSlot(n, v)
  PROVE  Quiet
<1>0. JournalSettled /\ fs \in View /\ TypeOK
  BY DEF SwapInv, CommitInv, TypeOK, Types
<1>1. CASE fs.target # None
  BY <1>0, <1>1, QuietSame DEF WriteSlot
<1>2. CASE fs.target = None
  <2>1. job.kind = "none" /\ pc = "ready"
    BY <1>0 DEF WriteSlot, TypeOK, JobAtStep
  <2>2. fs.previous = None /\ legacy = Nothing
    BY <1>2, <2>1 DEF SwapInv, CommitInv, Swapping, Recovering, Committed, SwapHolds
  <2>3. /\ fs'.target = Nothing /\ fs'.previous = None
        /\ legacy' = legacy /\ durable' = durable \cup {fs'}
    BY <1>0, <1>2, <2>2, Updates, FreeTyped DEF WriteSlot, Do, Kept
  <2>4. Read(Nothing) = Nothing /\ Settled(Nothing)
    BY DEF Read, Nothing, Settled
  <2>5. Reading(fs', legacy) = Nothing /\ Reading(fs, legacy) = Nothing
    BY <1>2, <2>2, <2>3, <2>4, FreeTyped DEF Reading
  <2>6. Solid(fs')
    BY <2>3, <2>4 DEF Solid, Settled
  <2>. QED  BY <2>3, <2>5, <2>6 DEF Quiet
<1>. QED  BY <1>1, <1>2

(* A deletion shows the set without the slot.                              *)
LEMMA DeleteShows ==
  ASSUME SwapInv, NEW n \in Names, DeleteSlot(n)
  PROVE  Replaces([Reading(fs, legacy) EXCEPT ![n] = None])
<1>0. JournalSettled /\ fs \in View
  BY DEF SwapInv, CommitInv, TypeOK, Types
<1> DEFINE dir == [fs.target EXCEPT ![n] = None]
<1>1. fs.target \in Directory /\ fs.target # None
  BY <1>0 DEF DeleteSlot, View
<1>2. dir \in Directory
  BY <1>1, FileUpdates
<1>3. Settled(fs.target) /\ Settled(fs.previous)
  BY <1>0 DEF JournalSettled, Solid
<1>4. Settled(dir) /\ Read(dir) = [Read(fs.target) EXCEPT ![n] = None]
  BY <1>1, <1>3 DEF Settled, Read, Directory
<1>5. /\ fs' = [fs EXCEPT !.target = dir]
      /\ legacy' = legacy /\ durable' = durable \cup {fs'}
  BY DEF DeleteSlot, Do, Kept
<1>. HIDE DEF dir
<1>6. fs'.target = dir /\ fs'.previous = fs.previous /\ dir # None
  BY <1>0, <1>2, <1>5, Updates, Absent
<1>7. Reading(fs', legacy) = [Reading(fs, legacy) EXCEPT ![n] = None]
  BY <1>1, <1>4, <1>6 DEF Reading
<1>. QED  BY <1>3, <1>4, <1>5, <1>6, <1>7 DEF Replaces, Solid

(* A power loss leaves a view that a file of the journal stands for, and   *)
(* nothing else is durable then.                                           *)
LEMMA LossShows ==
  ASSUME SwapInv, PowerLoss
  PROVE  /\ legacy' = legacy /\ durable' = {fs'} /\ Solid(fs')
         /\ \E v \in durable : Reading(fs', legacy) = Reading(v, legacy)
<1>1. PICK v \in durable : fs' \in After(v)
  BY DEF PowerLoss
<1>2. v \in View /\ Solid(v)
  BY DEF SwapInv, CommitInv, TypeOK, Types, JournalSettled
<1>. QED  BY <1>1, <1>2, AfterReads DEF PowerLoss, Kept


-------------------------------------------------------------------------------
(* The invariant is inductive. *)

(* A quiet step and a replacement keep the journal settled.                *)
LEMMA JournalKept ==
  ASSUME JournalSettled, NEW new,
         Quiet \/ Replaces(new) \/ (durable' = {fs'} /\ Solid(fs'))
  PROVE  JournalSettled'
<1>1. \A v \in durable' : Solid(v)
  BY DEF JournalSettled, Quiet, Replaces
<1>2. fs' \in durable'
  BY DEF Quiet, Replaces
<1>3. ASSUME NEW v \in durable' PROVE Solid(v)'
  BY <1>1, <1>3 DEF Solid, Settled
<1>. QED  BY <1>1, <1>2, <1>3 DEF JournalSettled, Solid, Settled

(* The shown set of every view after a quiet step that empties the journal,*)
(* or adds to one in which all views show the same.                        *)
LEMMA OneKept ==
  ASSUME Quiet,
         \/ durable' = {fs'}
         \/ \A v \in durable : Reading(v, legacy) = Reading(fs, legacy)
  PROVE  (\A v \in durable : Reading(v, legacy) = Reading(fs, legacy))'
BY DEF Quiet, Reading, Read

(* A step that ends its job needs to show only that a set is there.        *)
LEMMA EndsHold ==
  ASSUME pc' \in {"off", "ready"}, job'.kind = "none",
         pc' = "ready" => (fs.target # None \/ fs.previous # None \/ legacy = Nothing)',
         report' = "ok" =>
           /\ pc' = "ready"
           /\ (\A v \in durable : Reading(v, legacy) = Reading(fs, legacy))'
  PROVE  (IncomingHolds /\ JobHolds /\ SwapHolds /\ OneVisible)'
BY DEF IncomingHolds, JobHolds, SwapHolds, OneVisible, CopySteps

(* A step that goes on keeps what its job is for; the rest depends on the  *)
(* step it goes to.                                                        *)
LEMMA GoesOn ==
  ASSUME SwapInv, NEW step \in Steps \ {"slotrename"}, Goto(step), legacy' = legacy,
         pc \in Steps,
         step \in CopySteps => IncomingHolds',
         step \in {"asidesync", "install", "undo"} => fs'.target = None,
         step = "undo" => fs'.previous # None,
         step \in {"commit", "cleanup", "cleanupsync"} => fs'.target # None,
         job.kind = "migrate" /\ step \in CopySteps =>
           fs'.target = None /\ fs'.previous = None,
         job.kind \in {"import", "slot"} =>
           fs'.target # None \/ fs'.previous # None \/ legacy = Nothing,
         step \in {"cleanup", "cleanupsync"} =>
           (\A v \in durable : Reading(v, legacy) = Reading(fs, legacy))'
  PROVE  (IncomingHolds /\ JobHolds /\ SwapHolds /\ OneVisible)'
<1>1. pc' = step /\ job' = job /\ report' = report
  BY DEF Goto
<1>2. IncomingHolds'
  BY <1>1 DEF IncomingHolds
<1>3. JobHolds'
  BY <1>1 DEF SwapInv, JobHolds
<1>4. job.kind # "none"
  BY DEF SwapInv, CommitInv, TypeOK, JobAtStep, Steps, RecoverSteps, ImportSteps,
     SlotSteps, CopySteps
<1>5. SwapHolds'
  BY <1>1, <1>4 DEF SwapHolds
<1>6. report # "ok"
  BY DEF SwapInv, OneVisible, Steps, RecoverSteps, ImportSteps, SlotSteps, CopySteps
<1>7. OneVisible'
  BY <1>1, <1>6 DEF OneVisible
<1>. QED  BY <1>2, <1>3, <1>5, <1>7


(* A failed operation: the views are as before.                            *)
LEMMA FailsHold ==
  ASSUME SwapInv, NEW operation, Fails(operation),
         job.kind \in {"launch", "migrate"} \/ fs.target # None \/ fs.previous # None
           \/ legacy = Nothing
  PROVE  (IncomingHolds /\ JobHolds /\ SwapHolds /\ OneVisible)'
<1>1. /\ pc' \in {"off", "ready"} /\ job'.kind = "none" /\ report' = "failed"
      /\ job.kind \in {"launch", "migrate"} => pc' = "off"
  BY FreeTyped DEF Fails, Abort
<1>2. fs' = fs /\ legacy' = legacy
  BY DEF Fails, Untouched
<1>. QED  BY <1>1, <1>2, EndsHold

(* At every step of a job there is a set, or the game is starting.         *)
LEMMA SetThere ==
  ASSUME SwapInv, pc # "off"
  PROVE  job.kind \in {"launch", "migrate"} \/ fs.target # None \/ fs.previous # None
           \/ legacy = Nothing
BY DEF SwapInv, CommitInv, TypeOK, Types, Jobs, Kinds, SwapHolds

(* Removing a leftover leaves a set to read, if there was one.             *)
LEMMA RemovalLeaves ==
  ASSUME SwapInv, fs \in View, NEW k \in {"incoming", "previous"},
         fs[k] # None, Remove(k) \/ RemoveFails(k), k = "previous" => fs.target # None
  PROVE  /\ fs'.target = fs.target /\ legacy' = legacy
         /\ fs.target # None \/ fs.previous # None \/ legacy = Nothing =>
              fs'.target # None \/ fs'.previous # None \/ legacy = Nothing
<1>1. fs'.target = fs.target /\ (k = "incoming" => fs'.previous = fs.previous)
  BY RemovesOne
<1>2. legacy' = legacy
  BY DEF Remove, RemoveFails, Kept
<1>. QED  BY <1>1, <1>2

(* The recovery keeps the invariant.                                       *)
LEMMA SwapRecovery ==
  ASSUME SwapInv, Launch \/ Recover \/ RestoreSync \/ Sweep \/ SweepSync \/ Swept
  PROVE  (IncomingHolds /\ JobHolds /\ SwapHolds /\ OneVisible)'
<1>. USE DEF RecoverSteps, ImportSteps, CopySteps, SlotSteps, Steps
<1>0. fs \in View /\ TypeOK /\ job \in Jobs /\ legacy \in Sets
  BY DEF SwapInv, CommitInv, TypeOK, Types
<1>1. CASE Launch
  <2>1. /\ pc' = "recover" /\ job'.kind = "launch" /\ job'.set = legacy
        /\ report' = "none" /\ legacy' = legacy
    BY <1>1 DEF Launch, Untouched
  <2>. QED  BY <2>1 DEF IncomingHolds, JobHolds, SwapHolds, OneVisible
<1>2. CASE Recover
  <2>1. CASE Untouched /\ Goto("sweep")
    BY <1>2, <2>1, SetThere, GoesOn DEF Recover, Untouched
  <2>2. CASE Do([fs EXCEPT !.target = fs.previous, !.previous = None])
               /\ Goto("restoresync") /\ fs.previous # None
    BY <1>0, <1>2, <2>2, Moves, GoesOn DEF Recover, Do, Kept
  <2>. QED  BY <1>2, <2>1, <2>2, SetThere, FailsHold DEF Recover
<1>3. CASE RestoreSync \/ SweepSync
  <2>1. CASE Sync(fs) /\ Goto("sweep")
    BY <1>3, <2>1, SetThere, GoesOn DEF RestoreSync, SweepSync, Sync, Kept
  <2>. QED  BY <1>3, <2>1, SetThere, FailsHold DEF RestoreSync, SweepSync
<1>4. CASE Sweep
  <2>1. PICK k \in {"incoming", "previous"} :
          /\ fs[k] # None
          /\ (Remove(k) /\ Goto("sweepsync")) \/ (RemoveFails(k) /\ Abort)
    BY <1>4 DEF Sweep
  <2>2. k = "previous" => fs.target # None
    BY <1>4, <2>1 DEF SwapInv, CommitInv, Swapping, Recovering, Committed, Sweep
  <2>3. /\ legacy' = legacy
        /\ fs.target # None \/ fs.previous # None \/ legacy = Nothing =>
             fs'.target # None \/ fs'.previous # None \/ legacy = Nothing
    BY <1>0, <2>1, <2>2, RemovalLeaves
  <2>4. CASE Goto("sweepsync")
    BY <1>4, <2>3, <2>4, SetThere, GoesOn DEF Sweep
  <2>5. CASE Abort
    <3>1. /\ pc' \in {"off", "ready"} /\ job'.kind = "none" /\ report' = "failed"
          /\ job.kind \in {"launch", "migrate"} => pc' = "off"
      BY <2>5, FreeTyped DEF Abort
    <3>. QED  BY <1>4, <2>3, <3>1, SetThere, EndsHold DEF Sweep
  <2>. QED  BY <2>1, <2>4, <2>5
<1>5. CASE Swept
  <2>0. /\ pc = "sweep" /\ fs.previous = None /\ job.kind \in {"launch", "import"}
        /\ report # "ok"
    BY <1>0, <1>5 DEF Swept, TypeOK, JobAtStep, SwapInv, OneVisible
  <2>1. CASE job.kind = "import" \/ Migrates
    <3>1. /\ fs' = [fs EXCEPT !.incoming = Nothing] /\ legacy' = legacy
          /\ pc' = "copy" /\ report' = report
          /\ job' = IF Migrates THEN [job EXCEPT !.kind = "migrate"] ELSE job
      BY <1>5, <2>1 DEF Swept, Do, Kept
    <3>2. fs'.incoming = Nothing /\ fs'.target = fs.target /\ fs'.previous = None
      BY <1>0, <2>0, <3>1, Updates, FreeTyped
    <3>3. \A n \in Names : Nothing[n] = None
      BY DEF Nothing
    <3>4. IncomingHolds'
      BY <3>1, <3>2, <3>3 DEF IncomingHolds, Settled
    <3>5. /\ job'.set = job.set /\ job'.kind \in {"migrate", "import"}
          /\ job'.kind = "migrate" <=> Migrates
          /\ job'.kind = "import" => job.kind = "import"
      BY <1>0, <2>0, <2>1, <3>1 DEF Jobs, Migrates
    <3>6. JobHolds'
      BY <2>0, <3>1, <3>5 DEF SwapInv, JobHolds, Migrates
    <3>7. SwapHolds'
      BY <2>0, <3>1, <3>2, <3>5 DEF SwapInv, SwapHolds, Migrates
    <3>8. OneVisible'
      BY <2>0, <3>1 DEF OneVisible
    <3>. QED  BY <3>4, <3>6, <3>7, <3>8
  <2>2. CASE ~(job.kind = "import" \/ Migrates)
    <3>1. /\ fs' = fs /\ legacy' = legacy /\ pc' = "ready" /\ report' = "none"
          /\ job'.kind = "none"
      BY <1>5, <2>2, FreeTyped DEF Swept, Untouched, Done
    <3>2. fs.target # None \/ legacy = Nothing
      BY <2>0, <2>2 DEF Migrates
    <3>. QED  BY <3>1, <3>2, EndsHold
  <2>. QED  BY <2>1, <2>2
<1>. QED  BY <1>1, <1>2, <1>3, <1>4, <1>5


(* So does the copying of an import: file by file into incoming.           *)
LEMMA SwapCopying ==
  ASSUME SwapInv, CopyFile \/ CopySync \/ Copied \/ IncomingSync
  PROVE  (IncomingHolds /\ JobHolds /\ SwapHolds /\ OneVisible)'
<1>. USE DEF RecoverSteps, ImportSteps, CopySteps, SlotSteps, Steps
<1>0. /\ fs \in View /\ job \in Jobs /\ job.kind \in {"migrate", "import"}
      /\ fs.incoming \in Directory
  BY DEF SwapInv, CommitInv, TypeOK, Types, JobAtStep, WorksOnDirectory, View,
     CopyFile, CopySync, Copied, IncomingSync
<1>1. /\ job.kind = "migrate" => fs.target = None /\ fs.previous = None
      /\ job.kind = "import" => fs.target # None \/ fs.previous # None \/ legacy = Nothing
  BY DEF SwapInv, SwapHolds, CopyFile, CopySync, Copied, IncomingSync
<1>2. \A n \in Names : fs.incoming[n] # None => fs.incoming[n].ver = job.set[n]
  BY DEF SwapInv, IncomingHolds, CopyFile, CopySync, Copied, IncomingSync
<1>3. ASSUME NEW operation, Fails(operation)
      PROVE  (IncomingHolds /\ JobHolds /\ SwapHolds /\ OneVisible)'
  BY <1>1, <1>3, <1>0, FailsHold
<1>4. CASE CopyFile
  <2>1. ASSUME NEW n \in Missing, pc = "copy",
               Do([fs EXCEPT !.incoming[n] = Written(job.set[n])]), Goto("copysync")
        PROVE  (IncomingHolds /\ JobHolds /\ SwapHolds /\ OneVisible)'
    <3> DEFINE dir == [fs.incoming EXCEPT ![n] = Written(job.set[n])]
    <3>1. n \in Names /\ Written(job.set[n]) \in File /\ Written(job.set[n]).ver = job.set[n]
      BY <1>0 DEF Missing, Jobs, Sets, Written, File
    <3>2. dir \in Directory
      BY <1>0, <3>1, FileUpdates
    <3>3. \A m \in Names : dir[m] # None => dir[m].ver = job.set[m]
      BY <1>0, <1>2, <3>1 DEF Directory
    <3>4. fs' = [fs EXCEPT !.incoming = dir] /\ legacy' = legacy
      BY <2>1 DEF Do, Kept
    <3>. HIDE DEF dir
    <3>5. fs'.incoming = dir /\ fs'.target = fs.target /\ fs'.previous = fs.previous
      BY <1>0, <3>2, <3>4, Updates
    <3>6. IncomingHolds'
      BY <2>1, <3>3, <3>5 DEF IncomingHolds, Goto
    <3>. QED  BY <1>0, <1>1, <2>1, <3>4, <3>5, <3>6, GoesOn
  <2>. QED  BY <1>3, <1>4, <2>1 DEF CopyFile
<1>5. CASE CopySync
  <2>1. CASE Sync([fs EXCEPT !.incoming = Synced(fs.incoming)]) /\ Goto("copy")
    <3>1. Synced(fs.incoming) \in Directory
      BY <1>0, SyncedDirectory
    <3>2. \A m \in Names :
            /\ Synced(fs.incoming)[m] = None \/ Synced(fs.incoming)[m].synced
            /\ Synced(fs.incoming)[m] # None => Synced(fs.incoming)[m].ver = job.set[m]
      BY <1>0, <1>2, Absent DEF Synced, Directory, File
    <3>3. fs' = [fs EXCEPT !.incoming = Synced(fs.incoming)] /\ legacy' = legacy
      BY <2>1 DEF Sync, Kept
    <3>4. /\ fs'.incoming = Synced(fs.incoming)
          /\ fs'.target = fs.target /\ fs'.previous = fs.previous
      BY <1>0, <3>1, <3>3, Updates
    <3>5. IncomingHolds'
      BY <2>1, <3>2, <3>4 DEF IncomingHolds, Settled, Goto
    <3>. QED  BY <1>0, <1>1, <1>5, <2>1, <3>3, <3>4, <3>5, GoesOn DEF CopySync
  <2>. QED  BY <1>3, <1>5, <2>1 DEF CopySync
<1>6. CASE Copied
  <2>1. fs' = fs /\ legacy' = legacy /\ pc' = "incomingsync" /\ job' = job
    BY <1>6 DEF Copied, Untouched, Goto
  <2>2. \A n \in Names : fs.incoming[n] = None => job.set[n] = None
    BY <1>6 DEF Copied, Missing
  <2>3. IncomingHolds'
    BY <1>2, <1>6, <2>1, <2>2 DEF SwapInv, IncomingHolds, Copied, Settled
  <2>. QED  BY <1>0, <1>1, <1>6, <2>1, <2>3, GoesOn DEF Copied
<1>7. CASE IncomingSync
  <2>1. CASE Sync(fs) /\ Goto(IF fs.target = None THEN "install" ELSE "aside")
    <3>1. fs' = fs /\ legacy' = legacy /\ job' = job
          /\ pc' = IF fs.target = None THEN "install" ELSE "aside"
      BY <2>1 DEF Sync, Kept, Goto
    <3>2. IncomingHolds'
      BY <1>2, <1>7, <3>1 DEF SwapInv, IncomingHolds, IncomingSync, Settled
    <3>. QED  BY <1>0, <1>1, <1>7, <2>1, <3>1, <3>2, GoesOn DEF IncomingSync
  <2>. QED  BY <1>3, <1>7, <2>1 DEF IncomingSync
<1>. QED  BY <1>4, <1>5, <1>6, <1>7

(* And the swap with its undo and its cleanup.                             *)
LEMMA SwapSwapping ==
  ASSUME "asidesync" \notin MayFail, "undo" \notin MayFail, SwapInv,
         \/ Aside \/ AsideSync \/ Install \/ Undo \/ UndoSync
         \/ Commit \/ Cleanup \/ CleanupSync
  PROVE  (IncomingHolds /\ JobHolds /\ SwapHolds /\ OneVisible)'
<1>. USE DEF RecoverSteps, ImportSteps, CopySteps, SlotSteps, Steps
<1>0. /\ fs \in View /\ job \in Jobs /\ job.kind \in {"migrate", "import"}
      /\ pc \in CopySteps => fs.incoming \in Directory /\ fs.incoming # None
  BY DEF SwapInv, CommitInv, TypeOK, Types, JobAtStep, WorksOnDirectory, View,
     Aside, AsideSync, Install, Undo, UndoSync, Commit, Cleanup, CleanupSync
<1>1. /\ job.kind = "migrate" /\ pc \in CopySteps => fs.target = None /\ fs.previous = None
      /\ job.kind = "import" => fs.target # None \/ fs.previous # None \/ legacy = Nothing
  BY DEF SwapInv, SwapHolds, Aside, AsideSync, Install, Undo, UndoSync, Commit,
     Cleanup, CleanupSync
<1>2. ASSUME NEW operation, Fails(operation)
      PROVE  (IncomingHolds /\ JobHolds /\ SwapHolds /\ OneVisible)'
  BY <1>1, <1>2, <1>0, FailsHold
<1>3. CASE Aside
  <2>1. CASE Do([fs EXCEPT !.target = None, !.previous = fs.target]) /\ Goto("asidesync")
    <3>1. fs.target # None
      BY <1>3 DEF Aside, SwapInv, CommitInv, TypeOK, WorksOnDirectory
    <3>2. /\ fs'.target = None /\ fs'.previous = fs.target /\ fs'.incoming = fs.incoming
          /\ legacy' = legacy /\ pc' = "asidesync" /\ job' = job
      BY <1>0, <2>1, Moves DEF Do, Kept, Goto
    <3>3. IncomingHolds'
      BY <1>3, <3>2 DEF SwapInv, IncomingHolds, Aside, Settled
    <3>. QED  BY <1>0, <1>1, <1>3, <2>1, <3>1, <3>2, <3>3, GoesOn DEF Aside
  <2>. QED  BY <1>2, <1>3, <2>1 DEF Aside
<1>4. CASE AsideSync
  <2>1. CASE Sync(fs) /\ Goto("install")
    <3>1. /\ fs' = fs /\ legacy' = legacy /\ pc' = "install" /\ job' = job
          /\ fs.target = None
      BY <1>4, <2>1 DEF Sync, Kept, Goto, AsideSync, SwapInv, SwapHolds
    <3>2. IncomingHolds'
      BY <1>4, <3>1 DEF SwapInv, IncomingHolds, AsideSync, Settled
    <3>. QED  BY <1>0, <1>1, <1>4, <2>1, <3>1, <3>2, GoesOn DEF AsideSync
  <2>. QED  BY <1>2, <1>4, <2>1 DEF AsideSync
<1>5. CASE Install
  <2>1. CASE Do([fs EXCEPT !.target = fs.incoming, !.incoming = None]) /\ Goto("commit")
    <3>1. fs'.target # None /\ legacy' = legacy
      BY <1>0, <1>5, <2>1, Moves DEF Install, Do, Kept
    <3>. QED  BY <1>0, <1>5, <2>1, <3>1, GoesOn DEF Install
  <2>2. CASE fs.previous # None /\ Untouched /\ Goto("undo")
    <3>1. fs' = fs /\ legacy' = legacy /\ fs.target = None
      BY <1>5, <2>2 DEF Untouched, Install, SwapInv, SwapHolds
    <3>. QED  BY <1>0, <1>1, <1>5, <2>2, <3>1, GoesOn DEF Install
  <2>. QED  BY <1>2, <1>5, <2>1, <2>2 DEF Install
<1>6. CASE Undo
  <2>1. /\ Do([fs EXCEPT !.target = fs.previous, !.previous = None])
        /\ Goto("undosync") /\ pc = "undo" /\ fs.previous # None
    BY <1>6 DEF Undo, SwapInv, SwapHolds
  <2>2. fs'.target # None /\ legacy' = legacy
    BY <1>0, <2>1, Moves DEF Do, Kept
  <2>. QED  BY <2>1, <2>2, GoesOn
<1>7. CASE UndoSync
  <2>1. /\ fs' = fs /\ legacy' = legacy /\ report' = "failed"
        /\ pc' \in {"off", "ready"} /\ job'.kind = "none"
        /\ job.kind = "migrate" => pc' = "off"
    BY <1>7, FreeTyped DEF UndoSync, Sync, Untouched, Kept, Abort
  <2>. QED  BY <1>0, <1>1, <2>1, EndsHold
<1>8. CASE Commit
  <2>1. CASE Sync(fs) /\ Goto("cleanup")
    <3>1. fs' = fs /\ legacy' = legacy /\ durable' = {fs'} /\ fs.target # None
      BY <1>8, <2>1 DEF Sync, Kept, Commit, SwapInv, SwapHolds
    <3>. QED  BY <1>8, <2>1, <3>1, GoesOn DEF Commit
  <2>. QED  BY <1>2, <1>8, <2>1 DEF Commit
<1>9. CASE Cleanup
  <2>0. pc = "cleanup" /\ fs.target # None
    BY <1>9 DEF Cleanup, SwapInv, SwapHolds
  <2>1. Quiet
    BY ImportShows, <1>9
  <2>2. (\A v \in durable : Reading(v, legacy) = Reading(fs, legacy))'
    BY <2>0, <2>1, OneKept DEF SwapInv, OneVisible
  <2>3. fs'.target = fs.target /\ legacy' = legacy
    BY <1>0, <1>9, RemovesOne DEF Cleanup, Untouched, Remove, RemoveFails, Kept
  <2>4. CASE Goto("cleanupsync")
    BY <2>0, <2>2, <2>3, <2>4, GoesOn
  <2>5. CASE Done("ok")
    <3>1. pc' = "ready" /\ job'.kind = "none"
      BY <2>5, FreeTyped DEF Done
    <3>. QED  BY <2>0, <2>2, <2>3, <3>1, EndsHold
  <2>. QED  BY <1>9, <2>4, <2>5 DEF Cleanup
<1>10. CASE CleanupSync
  <2>0. pc = "cleanupsync" /\ fs.target # None
    BY <1>10 DEF CleanupSync, SwapInv, SwapHolds
  <2>1. Quiet
    BY ImportShows, <1>10
  <2>2. (\A v \in durable : Reading(v, legacy) = Reading(fs, legacy))'
    BY <2>0, <2>1, OneKept DEF SwapInv, OneVisible
  <2>3. fs' = fs /\ legacy' = legacy /\ pc' = "ready" /\ job'.kind = "none"
    BY <1>10, FreeTyped DEF CleanupSync, Sync, Untouched, Kept, Done
  <2>. QED  BY <2>0, <2>2, <2>3, EndsHold
<1>. QED  BY <1>3, <1>4, <1>5, <1>6, <1>7, <1>8, <1>9, <1>10

(* And slot writes and deletions.                                          *)
LEMMA SwapSlots ==
  ASSUME SwapInv,
         \/ SlotSync \/ SlotRename \/ SlotDirSync
         \/ \E n \in Names : DeleteSlot(n) \/ \E v \in Versions : WriteSlot(n, v)
  PROVE  (IncomingHolds /\ JobHolds /\ SwapHolds /\ OneVisible)'
<1>. USE DEF RecoverSteps, ImportSteps, CopySteps, SlotSteps, Steps
<1>0. fs \in View /\ job \in Jobs /\ TypeOK
  BY DEF SwapInv, CommitInv, TypeOK, Types
<1>1. pc \in SlotSteps => job.kind = "slot" /\ fs.target # None /\ report # "ok"
  BY <1>0 DEF TypeOK, JobAtStep, WorksOnDirectory, SwapInv, OneVisible
<1>2. CASE SlotSync
  <2>1. CASE /\ Sync(fs) /\ pc' = "slotrename"
             /\ job' = [job EXCEPT !.synced = TRUE] /\ UNCHANGED report
    <3>1. fs' = fs /\ legacy' = legacy /\ pc' = "slotrename" /\ report' = report
      BY <2>1 DEF Sync, Kept
    <3>2. job'.kind = "slot" /\ job'.set = job.set /\ job'.synced
      BY <1>0, <1>1, <1>2, <2>1 DEF Jobs, SlotSync
    <3>. QED
      BY <1>1, <1>2, <3>1, <3>2
         DEF IncomingHolds, JobHolds, SwapHolds, OneVisible, SwapInv, SlotSync
  <2>. QED  BY <1>1, <1>2, <2>1, FailsHold DEF SlotSync
<1>3. CASE SlotRename
  <2>1. CASE Goto("slotdirsync")
    <3>1. TypeOK'
      BY <1>0, <1>3, TypeSlots
    <3>2. fs'.target # None
      BY <2>1, <3>1 DEF TypeOK, WorksOnDirectory, Goto
    <3>3. legacy' = legacy
      BY <1>3 DEF SlotRename, Do, Kept, Fails, Untouched
    <3>. QED  BY <1>1, <1>3, <2>1, <3>2, <3>3, GoesOn DEF SlotRename
  <2>. QED  BY <1>1, <1>3, <2>1, FailsHold DEF SlotRename
<1>4. CASE SlotDirSync
  <2>1. CASE Sync(fs) /\ Done("ok")
    <3>1. /\ fs' = fs /\ legacy' = legacy /\ durable' = {fs'} /\ pc' = "ready"
          /\ job'.kind = "none"
      BY <2>1, FreeTyped DEF Sync, Kept, Done
    <3>. QED  BY <1>1, <1>4, <3>1, EndsHold DEF SlotDirSync
  <2>. QED  BY <1>1, <1>4, <2>1, FailsHold DEF SlotDirSync
<1>5. ASSUME NEW n \in Names, DeleteSlot(n)
      PROVE  (IncomingHolds /\ JobHolds /\ SwapHolds /\ OneVisible)'
  <2>1. fs.target \in Directory
    BY <1>0, <1>5 DEF DeleteSlot, View
  <2>2. [fs.target EXCEPT ![n] = None] \in Directory
    BY <2>1, FileUpdates
  <2>3. fs'.target # None
    BY <1>0, <1>5, <2>2, Updates, Absent DEF DeleteSlot, Do
  <2>4. pc' = "ready" /\ job' = job /\ job.kind = "none" /\ report' = "none"
    BY <1>0, <1>5 DEF DeleteSlot, TypeOK, JobAtStep
  <2>. QED  BY <2>3, <2>4, EndsHold
<1>6. ASSUME NEW n \in Names, NEW v \in Versions, WriteSlot(n, v)
      PROVE  (IncomingHolds /\ JobHolds /\ SwapHolds /\ OneVisible)'
  <2>1. TypeOK'
    BY <1>0, <1>6, TypeSlots
  <2>2. /\ pc' = "slotsync" /\ report' = "none" /\ job'.kind = "slot"
        /\ job'.set = [Nothing EXCEPT ![n] = v] /\ legacy' = legacy
    BY <1>6 DEF WriteSlot, Do, Kept
  <2>3. fs'.target # None
    BY <2>1, <2>2 DEF TypeOK, WorksOnDirectory
  <2>. QED
    BY <2>2, <2>3 DEF IncomingHolds, JobHolds, SwapHolds, OneVisible
<1>. QED  BY <1>2, <1>3, <1>4, <1>5, <1>6

(* Every step shows what one of the promised steps would, and keeps the    *)
(* invariant.                                                              *)
LEMMA StepShows ==
  ASSUME "undo" \notin MayFail, SwapInv, [Next]_vars
  PROVE  \/ Quiet
         \/ \E set \in Bundles : Replaces(set)
         \/ \E n \in Names : \/ Replaces([Reading(fs, legacy) EXCEPT ![n] = None])
                             \/ \E v \in Versions :
                                  Replaces([Reading(fs, legacy) EXCEPT ![n] = v])
         \/ PowerLoss
<1>0. JournalSettled
  BY DEF SwapInv
<1>1. ASSUME NEW set \in Bundles, Import(set) PROVE Quiet
  BY <1>0, <1>1, QuietUntouched DEF Import
<1>2. CASE ProcessDies \/ UNCHANGED vars
  BY <1>0, <1>2, QuietUntouched DEF ProcessDies
<1>. QED
  BY <1>1, <1>2, RecoveryShows, ImportShows, InstallShows, SlotShows, WriteShows,
     DeleteShows DEF Next

LEMMA SwapStep ==
  ASSUME "asidesync" \notin MayFail, "undo" \notin MayFail, SwapInv, [Next]_vars
  PROVE  SwapInv'
<1>1. CommitInv'
  BY CommitStep DEF SwapInv
<1>2. JournalSettled'
  <2>1. CASE PowerLoss
    BY <2>1, LossShows, JournalKept DEF SwapInv
  <2>. QED  BY <2>1, StepShows, JournalKept DEF SwapInv
<1>3. (IncomingHolds /\ JobHolds /\ SwapHolds /\ OneVisible)'
  <2>1. ASSUME NEW set \in Bundles, Import(set)
        PROVE  (IncomingHolds /\ JobHolds /\ SwapHolds /\ OneVisible)'
    <3>1. /\ pc = "ready" /\ pc' = "recover" /\ report' = "none" /\ job'.kind = "import"
          /\ job'.set = set /\ fs' = fs /\ legacy' = legacy
      BY <2>1 DEF Import, Untouched
    <3>2. job.kind = "none"
      BY <3>1 DEF SwapInv, CommitInv, TypeOK, JobAtStep
    <3>3. IncomingHolds' /\ JobHolds' /\ OneVisible'
      BY <3>1 DEF IncomingHolds, JobHolds, OneVisible, CopySteps
    <3>4. SwapHolds'
      BY <3>1, <3>2 DEF SwapInv, SwapHolds
    <3>. QED  BY <3>3, <3>4
  <2>2. CASE ProcessDies \/ PowerLoss
    BY <2>2, FreeTyped, EndsHold DEF ProcessDies, PowerLoss
  <2>3. CASE UNCHANGED vars
    BY <2>3 DEF vars, SwapInv, IncomingHolds, JobHolds, SwapHolds, OneVisible, Settled,
       Reading, Read
  <2>. QED
    BY <2>1, <2>2, <2>3, SwapRecovery, SwapCopying, SwapSwapping, SwapSlots DEF Next
<1>. QED  BY <1>1, <1>2, <1>3 DEF SwapInv

(* Whatever a step leaves pending, a save or an import that reported       *)
(* success is in every view a power loss may leave.                        *)
THEOREM ReportedIsDurableHolds ==
  ASSUME "asidesync" \notin MayFail, "undo" \notin MayFail
  PROVE  Spec => []ReportedIsDurable
<1>1. SwapInv /\ [Next]_vars => SwapInv'
  BY SwapStep
<1>2. SwapInv => ReportedIsDurable
  <2>. SUFFICES ASSUME SwapInv, report = "ok", NEW v \in durable, NEW left \in After(v)
                PROVE  Visible(left) = Visible(fs)
    BY DEF ReportedIsDurable
  <2>1. v \in View /\ Solid(v) /\ Reading(v, legacy) = Reading(fs, legacy)
    BY DEF SwapInv, CommitInv, TypeOK, Types, JournalSettled, OneVisible
  <2>. QED  BY <2>1, AfterReads, VisibleIsReading
<1>. QED  BY <1>1, <1>2, SwapInit, PTL DEF Spec


-------------------------------------------------------------------------------
(* The refinement. *)

(* What a power loss may leave of a settled journal reads as its views.    *)
LEMMA StoredReads ==
  ASSUME NEW D \in SUBSET View, \A v \in D : Solid(v), NEW old
  PROVE  {Reading(view, old) : view \in UNION {After(d) : d \in D}}
           = {Reading(v, old) : v \in D}
<1>1. ASSUME NEW d \in D, NEW left \in After(d)
      PROVE  Reading(left, old) = Reading(d, old)
  BY <1>1, AfterReads
<1>2. \A d \in D : After(d) # {}
  BY AfterExists
<1>. QED  BY <1>1, <1>2

Shown == Visible(fs)
Left == {Visible(view) : view \in UNION {After(d) : d \in durable}}

(* Current and next value of the mapped variables.                         *)
LEMMA ShownNow ==
  ASSUME SwapInv
  PROVE  /\ Shown = Reading(fs, legacy)
         /\ Left = {Reading(v, legacy) : v \in durable}
<1>1. durable \in SUBSET View /\ \A v \in durable : Solid(v)
  BY DEF SwapInv, CommitInv, TypeOK, Types, JournalSettled
<1>2. Left = {Reading(view, legacy) : view \in UNION {After(d) : d \in durable}}
  BY VisibleIsReading DEF Left
<1>. QED  BY <1>1, <1>2, StoredReads, VisibleIsReading DEF Shown
LEMMA ShownNext ==
  ASSUME SwapInv'
  PROVE  /\ Shown' = Reading(fs', legacy')
         /\ Left' = {Reading(v, legacy') : v \in durable'}
<1>1. durable' \in SUBSET View
  BY DEF SwapInv, CommitInv, TypeOK, Types
<1>2. \A v \in durable' : Solid(v)
  BY DEF SwapInv, JournalSettled, Solid, Settled
<1>3. Left' = {Reading(view, legacy') : view \in UNION {After(d) : d \in durable'}}
  BY DEF Left, Visible, Reading, After, Whole, TornIn, Synced, Read
<1>4. Left' = {Reading(v, legacy') : v \in durable'}
  BY <1>1, <1>2, <1>3, StoredReads
<1>. QED  BY <1>4, VisibleIsReading DEF Shown

(* Initial states map to initial states.                                   *)
LEMMA PromiseInit == Init => Promise!Init
<1>. SUFFICES ASSUME Init PROVE Promise!Init
  OBVIOUS
<1>1. SwapInv /\ durable = {fs} /\ fs.target = None /\ fs.previous = None /\ legacy \in Olds
  BY SwapInit DEF Init
<1>2. Shown \in Olds /\ Left = {Shown}
  BY <1>1, ShownNow DEF Reading
<1>. QED  BY <1>2 DEF Promise!Init, Shown, Left

(* Every step maps to a step of the save set or to none.                   *)
LEMMA PromiseStep ==
  ASSUME "asidesync" \notin MayFail, "undo" \notin MayFail, SwapInv, [Next]_vars
  PROVE  [Promise!Next]_(Promise!vars)
<1>0. SwapInv'
  BY SwapStep
<1>1. /\ Shown = Reading(fs, legacy) /\ Left = {Reading(v, legacy) : v \in durable}
      /\ Shown' = Reading(fs', legacy') /\ Left' = {Reading(v, legacy') : v \in durable'}
      /\ fs \in durable /\ fs' \in durable'
  BY <1>0, ShownNow, ShownNext DEF SwapInv, JournalSettled
<1>2. CASE Quiet
  <2>1. Shown' = Shown /\ Shown \in Left' /\ Left' \subseteq Left
    BY <1>1, <1>2 DEF Quiet
  <2>2. Promise!Settle
    BY <2>1 DEF Promise!Settle, Shown, Left
  <2>. QED  BY <2>2 DEF Promise!Next
<1>3. ASSUME NEW new, Replaces(new)
      PROVE  Shown' = new /\ new \in Left' /\ Left' \subseteq Left \cup {new}
  BY <1>1, <1>3 DEF Replaces
<1>4. ASSUME NEW set \in Bundles, Replaces(set) PROVE Promise!Next
  <2>1. Promise!Import(set)
    BY <1>3, <1>4 DEF Promise!Import, Promise!Replace, Shown, Left
  <2>. QED  BY <2>1 DEF Promise!Next
<1>5. ASSUME NEW n \in Names, Replaces([Reading(fs, legacy) EXCEPT ![n] = None])
      PROVE  Promise!Next
  <2>1. Promise!DeleteSlot(n)
    BY <1>1, <1>3, <1>5 DEF Promise!DeleteSlot, Promise!Replace, Shown, Left
  <2>. QED  BY <2>1 DEF Promise!Next
<1>6. ASSUME NEW n \in Names, NEW v \in Versions,
             Replaces([Reading(fs, legacy) EXCEPT ![n] = v])
      PROVE  Promise!Next
  <2>1. Promise!WriteSlot(n, v)
    BY <1>1, <1>3, <1>6 DEF Promise!WriteSlot, Promise!Replace, Shown, Left
  <2>. QED  BY <2>1 DEF Promise!Next
<1>7. CASE PowerLoss
  <2>1. Shown' \in Left /\ Left' = {Shown'}
    BY <1>1, <1>7, LossShows
  <2>2. Promise!PowerLoss
    BY <2>1 DEF Promise!PowerLoss, Shown, Left
  <2>. QED  BY <2>2 DEF Promise!Next
<1>. QED  BY <1>2, <1>4, <1>5, <1>6, <1>7, StepShows

(* Slot writes, deletions, imports, recovery and migration together        *)
(* implement the save set that is only ever replaced as a whole, also      *)
(* across a power loss between any two file operations, if the             *)
(* synchronisation between the two renames of an import and the undo of a  *)
(* failed install do what they are asked for.                              *)
THEOREM TransactionalHolds ==
  ASSUME "asidesync" \notin MayFail, "undo" \notin MayFail
  PROVE  Spec => Transactional
<1>1. SwapInv /\ [Next]_vars => SwapInv' /\ [Promise!Next]_(Promise!vars)
  BY SwapStep, PromiseStep
<1>. QED  BY <1>1, SwapInit, PromiseInit, PTL DEF Spec, Transactional, Promise!Spec

===============================================================================
