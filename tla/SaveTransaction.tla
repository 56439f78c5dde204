---------------------------- MODULE SaveTransaction ----------------------------
(***************************************************************************)
(* The save directory on disk: atomic slot writes, the import of a backup  *)
(* by two renames, the recovery of an interrupted import and the one-time  *)
(* migration of a legacy directory, one action per file operation.         *)
(*                                                                         *)
(* The file system keeps a journal: `fs` is what a process sees, `durable` *)
(* are the views a power loss may leave, one for each operation since the  *)
(* last synchronisation, in order.  Bytes that were written but not        *)
(* synchronised may be torn by a power loss.  An operation in MayFail may  *)
(* report an error.                                                        *)
(***************************************************************************)
EXTENDS Naturals, FiniteSets

CONSTANTS
  None,             \* no such file or directory
  Names,            \* file names in saves/
  Versions, Torn,   \* what a file holds; what a torn write leaves
  Bundles,          \* save sets of the backups the player imports
  Olds,             \* saves/ that may lie beside an old packaged game
  MayFail,          \* operations that may report an error
  MaxUnsynced       \* bound: views in the journal when a change begins

Sets == [Names -> Versions \cup {None}]
Nothing == [n \in Names |-> None]
Operations == {"copy", "sync", "aside", "asidesync", "install", "undo",
               "restore", "remove", "rename"}
ASSUME Values == Torn \notin Versions /\ None \notin Versions \cup {Torn}
ASSUME Backups == Bundles \subseteq Sets /\ Olds \subseteq Sets
ASSUME Failures == MayFail \subseteq Operations
ASSUME Bound == MaxUnsynced \in Nat

VARIABLES
  fs,               \* saves, saves.importing and saves.previous as seen
  durable,          \* the views a power loss may leave
  pc,               \* the next file operation, or "ready", or "off"
  job,              \* what the operations in progress are for
  report,           \* what the last change told its caller
  legacy            \* the save set of an old version, never written
vars == <<fs, durable, pc, job, report, legacy>>

File == [ver : Versions \cup {Torn}, synced : BOOLEAN]
Directory == [Names -> File \cup {None}]
ASSUME Absent == None \notin Directory \cup File
View == [target : Directory \cup {None}, incoming : Directory \cup {None},
         previous : Directory \cup {None}]
Kinds == {"none", "launch", "migrate", "import", "slot"}
RecoverSteps == {"recover", "restoresync", "sweep", "sweepsync"}
CopySteps == {"copy", "copysync", "incomingsync", "aside", "asidesync", "install"}
ImportSteps == CopySteps \cup {"undo", "undosync", "commit", "cleanup", "cleanupsync"}
SlotSteps == {"slotsync", "slotrename", "slotdirsync"}
Steps == RecoverSteps \cup ImportSteps \cup SlotSteps
Answers == {"none", "ok", "failed"}
Jobs == [kind : Kinds, set : Sets, synced : BOOLEAN]
Free == [kind |-> "none", set |-> Nothing, synced |-> FALSE]

Types ==
  /\ fs \in View /\ durable \subseteq View
  /\ pc \in Steps \cup {"off", "ready"}
  /\ job \in Jobs
  /\ report \in Answers /\ legacy \in Sets
JobAtStep ==
  /\ pc \in {"off", "ready"} => job.kind = "none"
  /\ pc \in RecoverSteps => job.kind \in {"launch", "import"}
  /\ pc \in ImportSteps => job.kind \in {"migrate", "import"}
  /\ pc \in SlotSteps => job.kind = "slot"
(* A file operation finds the directories it works on.                     *)
WorksOnDirectory ==
  /\ pc \in CopySteps => fs.incoming # None
  /\ pc = "aside" \/ pc \in SlotSteps => fs.target # None
TypeOK == Types /\ JobAtStep /\ WorksOnDirectory

-------------------------------------------------------------------------------
(* The file system. *)

(* An operation that the journal will hold in order.                       *)
Kept == UNCHANGED legacy
Do(view) == fs' = view /\ durable' = durable \cup {view} /\ Kept
(* fsync of a file or a directory flushes the journal up to here.          *)
Sync(view) == fs' = view /\ durable' = {view} /\ Kept
Untouched == UNCHANGED <<fs, durable, legacy>>

Written(v) == [ver |-> v, synced |-> FALSE]
Synced(dir) ==
  [n \in Names |-> IF dir[n] = None THEN None
                   ELSE [dir[n] EXCEPT !.synced = TRUE]]
TornIn(dir) ==
  IF dir = None THEN None
  ELSE [n \in Names |->
          IF dir[n] = None \/ dir[n].synced THEN dir[n]
          ELSE [ver |-> Torn, synced |-> TRUE]]
Whole(dir) == IF dir = None THEN None ELSE Synced(dir)
(* A power loss keeps the bytes of unsynchronised files or tears them.     *)
After(view) ==
  {[k \in DOMAIN view |-> Whole(view[k])], [k \in DOMAIN view |-> TornIn(view[k])]}

(* remove_dir_all removes the files one after the other, then the directory. *)
Parts(view, k) ==
  {[view EXCEPT ![k] = [n \in Names |-> IF n \in left THEN view[k][n] ELSE None]] :
     left \in SUBSET Names}
Remove(k) ==
  /\ fs' = [fs EXCEPT ![k] = None]
  /\ durable' = durable \cup Parts(fs, k) \cup {fs'} /\ Kept
RemoveFails(k) ==
  /\ "remove" \in MayFail
  /\ fs' \in Parts(fs, k) /\ durable' = durable \cup Parts(fs, k) /\ Kept

BelowBound == Cardinality(durable) <= MaxUnsynced

Goto(step) == pc' = step /\ UNCHANGED <<job, report>>
Done(answer) ==
  /\ pc' = "ready" /\ report' = answer
  /\ job' = Free
(* An error ends a launch; at run time the player gets a notice.           *)
Abort ==
  /\ pc' = IF job.kind \in {"launch", "migrate"} THEN "off" ELSE "ready"
  /\ report' = "failed"
  /\ job' = Free
Fails(operation) == operation \in MayFail /\ Untouched /\ Abort

-------------------------------------------------------------------------------
(* recover: settle what an interrupted import left behind.                 *)

Launch ==
  /\ pc = "off" /\ pc' = "recover" /\ report' = "none"
  /\ job' = [kind |-> "launch", set |-> legacy, synced |-> FALSE]
  /\ Untouched

(* Mutant: a complete looking incoming directory is promoted.              *)
RecoverPromotes ==
  /\ pc = "recover"
  /\ IF fs.target # None \/ fs.incoming = None THEN Untouched /\ Goto("sweep")
     ELSE /\ Do([fs EXCEPT !.target = fs.incoming, !.incoming = None])
          /\ Goto("restoresync")
(* `saves` is the committed name; without it the previous set comes back.  *)
Recover ==
  /\ pc = "recover"
  /\ IF fs.target # None \/ fs.previous = None THEN Untouched /\ Goto("sweep")
     ELSE \/ /\ Do([fs EXCEPT !.target = fs.previous, !.previous = None])
             /\ Goto("restoresync")
          \/ Fails("restore")
RestoreSync ==
  /\ pc = "restoresync"
  /\ \/ Sync(fs) /\ Goto("sweep")
     \/ Fails("sync")

(* Incoming first, then previous; each removal is synchronised.            *)
Sweep ==
  /\ pc = "sweep"
  /\ \E k \in {"incoming", "previous"} :
       /\ fs[k] # None /\ (k = "previous" => fs.incoming = None)
       /\ \/ Remove(k) /\ Goto("sweepsync")
          \/ RemoveFails(k) /\ Abort
SweepSync ==
  /\ pc = "sweepsync"
  /\ \/ Sync(fs) /\ Goto("sweep")
     \/ Fails("sync")

(* A launch without saves/ imports the legacy directory once; the import's *)
(* own recover finds nothing to do.                                        *)
Migrates == job.kind = "launch" /\ fs.target = None /\ legacy # Nothing
Swept ==
  /\ pc = "sweep" /\ fs.incoming = None /\ fs.previous = None
  /\ IF job.kind = "import" \/ Migrates
       THEN /\ Do([fs EXCEPT !.incoming = Nothing])
            /\ pc' = "copy" /\ UNCHANGED report
            /\ job' = IF Migrates THEN [job EXCEPT !.kind = "migrate"] ELSE job
       ELSE Untouched /\ Done("none")

-------------------------------------------------------------------------------
(* import_bytes: write the new set aside, swap the directories, clean up.  *)

Import(set) ==
  /\ pc = "ready" /\ BelowBound /\ pc' = "recover" /\ report' = "none"
  /\ job' = [kind |-> "import", set |-> set, synced |-> FALSE]
  /\ Untouched

Missing == {n \in Names : job.set[n] # None /\ fs.incoming[n] = None}
CopyFile ==
  /\ pc = "copy" /\ Missing # {}
  /\ \/ \E n \in Missing :
          /\ Do([fs EXCEPT !.incoming[n] = Written(job.set[n])])
          /\ Goto("copysync")
     \/ Fails("copy")
CopySync ==
  /\ pc = "copysync"
  /\ \/ Sync([fs EXCEPT !.incoming = Synced(fs.incoming)]) /\ Goto("copy")
     \/ Fails("copy")
Copied == pc = "copy" /\ Missing = {} /\ Untouched /\ Goto("incomingsync")
IncomingSync ==
  /\ pc = "incomingsync"
  /\ \/ Sync(fs) /\ Goto(IF fs.target = None THEN "install" ELSE "aside")
     \/ Fails("sync")

Aside ==
  /\ pc = "aside"
  /\ \/ /\ Do([fs EXCEPT !.target = None, !.previous = fs.target])
        /\ Goto("asidesync")
     \/ Fails("aside")
AsideSync ==
  /\ pc = "asidesync"
  /\ \/ Sync(fs) /\ Goto("install")
     \/ Fails("asidesync")

(* Mutant: a failed install leaves the old set aside.                      *)
InstallNoUndo ==
  /\ pc = "install"
  /\ \/ /\ Do([fs EXCEPT !.target = fs.incoming, !.incoming = None])
        /\ Goto("commit")
     \/ Fails("install")
Install ==
  /\ pc = "install"
  /\ \/ /\ Do([fs EXCEPT !.target = fs.incoming, !.incoming = None])
        /\ Goto("commit")
     \/ fs.previous = None /\ Fails("install")
     \/ fs.previous # None /\ "install" \in MayFail /\ Untouched /\ Goto("undo")

(* Both results of the undo are ignored.                                   *)
Undo ==
  /\ pc = "undo"
  /\ \/ /\ Do([fs EXCEPT !.target = fs.previous, !.previous = None])
        /\ Goto("undosync")
     \/ "undo" \in MayFail /\ Untouched /\ Goto("undosync")
UndoSync ==
  /\ pc = "undosync" /\ Abort
  /\ Sync(fs) \/ ("sync" \in MayFail /\ Untouched)

Commit ==
  /\ pc = "commit"
  /\ \/ Sync(fs) /\ Goto("cleanup")
     \/ Fails("sync")

(* What goes wrong in the cleanup is logged and left to the next recover.  *)
Cleanup ==
  /\ pc = "cleanup"
  /\ \/ fs.previous = None /\ Untouched /\ Goto("cleanupsync")
     \/ fs.previous # None /\ Remove("previous") /\ Goto("cleanupsync")
     \/ fs.previous # None /\ RemoveFails("previous") /\ Done("ok")
CleanupSync ==
  /\ pc = "cleanupsync" /\ Done("ok")
  /\ Sync(fs) \/ ("sync" \in MayFail /\ Untouched)

-------------------------------------------------------------------------------
(* write_atomically of one file and delete_game.  The temporary file is    *)
(* part of the job: under its own name it is no member of a save set.      *)

(* Mutant: the directory is not created.                                   *)
WriteSlotNoDir(n, v) ==
  /\ pc = "ready" /\ BelowBound /\ Untouched
  /\ pc' = "slotsync" /\ report' = "none"
  /\ job' = [kind |-> "slot", set |-> [Nothing EXCEPT ![n] = v], synced |-> FALSE]
WriteSlot(n, v) ==
  /\ pc = "ready" /\ BelowBound
  /\ Do(IF fs.target = None THEN [fs EXCEPT !.target = Nothing] ELSE fs)
  /\ pc' = "slotsync" /\ report' = "none"
  /\ job' = [kind |-> "slot", set |-> [Nothing EXCEPT ![n] = v], synced |-> FALSE]
SlotSync ==
  /\ pc = "slotsync"
  /\ \/ /\ Sync(fs) /\ pc' = "slotrename"
        /\ job' = [job EXCEPT !.synced = TRUE] /\ UNCHANGED report
     \/ Fails("sync")
SlotRename ==
  /\ pc = "slotrename"
  /\ \/ /\ Do([fs EXCEPT !.target = [n \in Names |->
               IF job.set[n] = None THEN fs.target[n]
               ELSE [ver |-> job.set[n], synced |-> job.synced]]])
        /\ Goto("slotdirsync")
     \/ Fails("rename")
(* Mutant: the directory is not synchronised.                              *)
SlotDirSyncSkipped == pc = "slotdirsync" /\ Untouched /\ Done("ok")
SlotDirSync ==
  /\ pc = "slotdirsync"
  /\ \/ Sync(fs) /\ Done("ok")
     \/ Fails("sync")

DeleteSlot(n) ==
  /\ pc = "ready" /\ BelowBound /\ fs.target # None /\ fs.target[n] # None
  /\ Do([fs EXCEPT !.target[n] = None])
  /\ report' = "none" /\ UNCHANGED <<pc, job>>

-------------------------------------------------------------------------------
(* The process may end and the machine lose power before any operation.    *)

ProcessDies ==
  /\ pc # "off" /\ pc' = "off" /\ report' = "none"
  /\ job' = Free
  /\ Untouched
PowerLoss ==
  /\ fs' \in UNION {After(view) : view \in durable} /\ durable' = {fs'} /\ Kept
  /\ pc' = "off" /\ report' = "none"
  /\ job' = Free

Init ==
  /\ fs = [target |-> None, incoming |-> None, previous |-> None]
  /\ durable = {fs}
  /\ pc = "off" /\ report = "none"
  /\ job = Free /\ legacy \in Olds

Next ==
  \/ Launch \/ Recover \/ RestoreSync \/ Sweep \/ SweepSync \/ Swept
  \/ CopyFile \/ CopySync \/ Copied \/ IncomingSync
  \/ Aside \/ AsideSync \/ Install \/ Undo \/ UndoSync \/ Commit
  \/ Cleanup \/ CleanupSync
  \/ SlotSync \/ SlotRename \/ SlotDirSync
  \/ \E set \in Bundles : Import(set)
  \/ \E n \in Names : DeleteSlot(n) \/ \E v \in Versions : WriteSlot(n, v)
  \/ ProcessDies \/ PowerLoss

Spec == Init /\ [][Next]_vars

-------------------------------------------------------------------------------
(* What the player finds.                                                  *)

Read(dir) == [n \in Names |-> IF dir[n] = None THEN None ELSE dir[n].ver]
Visible(view) ==
  IF view.target # None THEN Read(view.target)
  ELSE IF view.previous # None THEN Read(view.previous)
  ELSE legacy

(* Slot writes, imports, recovery and migration together behave as one     *)
(* save set that is only ever replaced as a whole, also across a power     *)
(* loss between any two file operations and across the failures allowed.   *)
Promise == INSTANCE SaveSet WITH
  current <- Visible(fs),
  stored <- {Visible(view) : view \in UNION {After(d) : d \in durable}}
Transactional == Promise!Spec

(* While the game runs `saves` is the only committed name: a leftover      *)
(* `saves.previous` is never the only copy of what the player saved.       *)
CommittedName ==
  job.kind \in {"none", "slot"} /\ pc # "off" =>
    fs.target # None \/ fs.previous = None

(* A save or an import that reported success survives a power loss.        *)
ReportedIsDurable ==
  report = "ok" => \A left \in UNION {After(d) : d \in durable} :
                     Visible(left) = Visible(fs)
===============================================================================
