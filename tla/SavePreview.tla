------------------------------ MODULE SavePreview ------------------------------
(***************************************************************************)
(* The thumbnail of a save slot: taken by the renderer some frames after   *)
(* the save, encoded by a worker thread, written beside the slot.  The     *)
(* main thread overwrites, deletes, clears and imports slots meanwhile;    *)
(* a generation per slot tells the worker whether its picture still counts.*)
(* One action per file operation, because the two threads interleave there *)
(* and the process may end there.                                          *)
(***************************************************************************)
EXTENDS Naturals, Sequences, FiniteSets

CONSTANTS
  None,
  Quick,            \* the quick save slot, shown by the title screen
  Cards,            \* the slots of the save screen
  Imported,         \* a save that comes with the imported backup
  Capacity,         \* jobs that may wait behind the one being encoded
  MayFail,          \* file operations that may report an error
  Overlap,          \* an import may start while a thumbnail is on its way
  MaxOps            \* bound: saves, deletions, clearings and imports

Slots == Cards \cup {Quick}
Saves == 1..MaxOps \cup {Imported}
Operations == {"unlink", "write", "dirsync", "remove", "picture", "install"}
ASSUME Names == Quick \notin Cards /\ None \notin Saves /\ Imported \notin Nat
ASSUME Bounds == Capacity \in Nat /\ MaxOps \in Nat
ASSUME Faults == MayFail \subseteq Operations /\ Overlap \in BOOLEAN

VARIABLES
  target,           \* the directory saves/
  previous,         \* the directory saves.previous/
  gens,             \* the generation of every slot
  captures,         \* screenshots on their way from the renderer
  queue,            \* jobs waiting for the worker
  worker,           \* the job in the worker and its next operation
  main,             \* the next operation of the main thread
  quick,            \* the title's picture and the task that loads it
  cards,            \* the pictures and the tasks of the save screen
  title,            \* the title screen takes input
  ops
vars == <<target, previous, gens, captures, queue, worker, main, quick, cards, title, ops>>
disk == <<target, previous>>
pictures == <<captures, queue, worker>>
view == <<quick, cards, title>>

Generation == [epoch : Nat, slot : Nat]
Job == [slot : Slots, gen : Generation, save : Saves]
Directory == [saved : [Slots -> Saves \cup {None}], picture : [Slots -> Saves \cup {None}],
              temp : SUBSET Slots]
EmptyDir == [saved |-> [s \in Slots |-> None], picture |-> [s \in Slots |-> None], temp |-> {}]
Bundle == [saved |-> [s \in Slots |-> Imported], picture |-> [s \in Slots |-> Imported],
           temp |-> {}]
ASSUME Absent == None \notin Directory

SaveKinds == {"exact", "checkpoint", "title", "exit"}
Kinds == SaveKinds \cup {"delete", "clear", "import", "none"}
SaveSteps == {"unlink", "write"}
ImportSteps == {"aside", "install", "undo", "cleanup", "finish"}
MainSteps == {"off", "idle", "lock", "state", "picture", "clearing", "drain"}
               \cup SaveSteps \cup ImportSteps
Locked == {"mkdir", "temp", "rename"}
(* overtaken and late are history: the running load began before the last   *)
(* command that changed what Continue restores; the image came from such a  *)
(* load.                                                                   *)
Continue == [image : Saves \cup {None}, task : {"none", "reading", "read"},
             loaded : Saves \cup {None}, resolved : BOOLEAN,
             overtaken : BOOLEAN, late : BOOLEAN]
NoJob == [slot |-> Quick, gen |-> [epoch |-> 0, slot |-> 0], save |-> Imported]
Card == [modified : Saves \cup {None}, save : Saves]
Task == [modified : Saves, save : Saves \cup {None}, read : BOOLEAN]

TypeOK ==
  /\ target \in Directory \cup {None} /\ previous \in Directory \cup {None}
  /\ gens \in [epoch : Nat, slot : [Slots -> Nat]]
  /\ captures \subseteq Job
  /\ queue \in Seq(Job) /\ Len(queue) <= Capacity
  /\ worker \in [at : {"idle", "encode"} \cup Locked, job : Job]
  /\ main \in [at : MainSteps, kind : Kinds, slot : Slots]
  /\ quick \in Continue
  /\ cards \in [ready : [Cards -> Card \cup {None}], pending : [Cards -> Task \cup {None}]]
  /\ title \in BOOLEAN /\ ops \in 0..MaxOps

-------------------------------------------------------------------------------
(* SavePreviewCoordinator.  The worker holds its lock from the check of the *)
(* generation until the file is renamed.                                    *)

Current(s) == [epoch |-> gens.epoch, slot |-> gens.slot[s]]
LockFree == worker.at \notin Locked
InvalidateSlot(s) == gens' = [gens EXCEPT !.slot[s] = @ + 1]
InvalidateAll == gens' = [epoch |-> gens.epoch + 1, slot |-> [s \in Slots |-> 0]]

NoCard == [ready |-> [c \in Cards |-> None], pending |-> [c \in Cards |-> None]]
(* Mutant: a read in progress survives the invalidation of its card.       *)
ForgetReady(s) ==
  [cards EXCEPT !.ready = [c \in Cards |-> IF c = s THEN None ELSE cards.ready[c]]]
Forget(s) ==
  [ready |-> [c \in Cards |-> IF c = s THEN None ELSE cards.ready[c]],
   pending |-> [c \in Cards |-> IF c = s THEN None ELSE cards.pending[c]]]

At(step) == main' = [main EXCEPT !.at = step]
Idle == main' = [at |-> "idle", kind |-> "none", slot |-> Quick]
Fails(operation) == operation \in MayFail

(* A player's command; the invalidation waits for the lock.                *)
Begin(kind, s) ==
  /\ main.at = "idle" /\ ops < MaxOps /\ ops' = ops + 1
  /\ main' = [at |-> "lock", kind |-> kind, slot |-> s]
  /\ UNCHANGED <<disk, gens, pictures, view>>
Save(kind, s) ==
  /\ kind \in SaveKinds
  /\ kind \in {"title", "exit"} => s = Quick
  /\ ~title
  /\ Begin(kind, s)
Delete(s) ==
  /\ ~title /\ s \in Cards /\ target # None /\ target.saved[s] # None
  /\ Begin("delete", s)
Clear == ~title /\ Begin("clear", Quick)

-------------------------------------------------------------------------------
(* save_game_replacing_preview: invalidate, remove the picture, then write  *)
(* the state; the main thread updates what it shows when that succeeds.     *)

PrepareSlot ==
  /\ main.at = "lock" /\ main.kind \in SaveKinds /\ LockFree
  /\ InvalidateSlot(main.slot) /\ At("unlink")
  /\ UNCHANGED <<disk, pictures, view, ops>>

Failed == IF main.kind = "exit" THEN At("drain") ELSE Idle
BackAtTitle == title' = (title \/ main.kind = "title")
Unlink ==
  /\ main.at = "unlink"
  /\ \/ /\ target' = IF target = None THEN None ELSE [target EXCEPT !.picture[main.slot] = None]
        /\ At("write") /\ UNCHANGED title
     \/ Fails("unlink") /\ UNCHANGED target /\ Failed /\ BackAtTitle
  /\ UNCHANGED <<previous, gens, pictures, quick, cards, ops>>

Holder == IF target = None THEN EmptyDir ELSE target
(* The title shows no picture any more; a load that runs is not stopped.   *)
NoImage ==
  [quick EXCEPT !.image = None, !.late = FALSE, !.overtaken = (quick.task # "none")]
(* Mutant: the title keeps the picture of the quick save it replaces.      *)
ShowKeepsImage ==
  /\ quick' = IF main.slot = Quick /\ main.kind = "exact" THEN NoImage ELSE quick
  /\ cards' = IF main.slot = Quick THEN cards ELSE Forget(main.slot)
  /\ captures' = IF main.kind # "exact" THEN captures
                 ELSE captures \cup {[slot |-> main.slot, gen |-> Current(main.slot), save |-> ops]}
Show ==
  /\ quick' = IF main.slot = Quick /\ main.kind # "exit" THEN NoImage ELSE quick
  /\ cards' = IF main.slot = Quick THEN cards ELSE Forget(main.slot)
  /\ captures' = IF main.kind # "exact" THEN captures
                 ELSE captures \cup {[slot |-> main.slot, gen |-> Current(main.slot), save |-> ops]}
WriteState ==
  /\ main.at = "write"
  /\ \/ /\ target' = [Holder EXCEPT !.saved[main.slot] = ops]
        /\ IF main.kind = "exit" THEN At("drain") ELSE Idle
        /\ Show
     \/ /\ Fails("write") /\ Failed
        /\ target' = Holder /\ UNCHANGED <<quick, cards, captures>>
     \/ /\ Fails("dirsync") /\ Failed
        /\ target' = [Holder EXCEPT !.saved[main.slot] = ops]
        /\ UNCHANGED <<quick, cards, captures>>
  /\ BackAtTitle
  /\ UNCHANGED <<previous, gens, queue, worker, ops>>

-------------------------------------------------------------------------------
(* delete_game and clear_games.                                            *)

(* Mutant: the generation is left alone.                                   *)
BeginDeleteOnly ==
  /\ main.at = "lock" /\ main.kind = "delete" /\ LockFree
  /\ cards' = Forget(main.slot) /\ At("state")
  /\ UNCHANGED <<disk, gens, pictures, quick, title, ops>>
BeginDelete ==
  /\ main.at = "lock" /\ main.kind = "delete" /\ LockFree
  /\ InvalidateSlot(main.slot) /\ cards' = Forget(main.slot) /\ At("state")
  /\ UNCHANGED <<disk, pictures, quick, title, ops>>
DeleteState ==
  /\ main.at = "state"
  /\ \/ target' = [target EXCEPT !.saved[main.slot] = None] /\ At("picture")
     \/ Fails("remove") /\ UNCHANGED target /\ Idle
  /\ UNCHANGED <<previous, gens, pictures, view, ops>>
DeletePicture ==
  /\ main.at = "picture" /\ Idle
  /\ \/ target' = [target EXCEPT !.picture[main.slot] = None]
     \/ Fails("remove") /\ UNCHANGED target
  /\ UNCHANGED <<previous, gens, pictures, view, ops>>

BeginClear ==
  /\ main.at = "lock" /\ main.kind = "clear" /\ LockFree
  /\ InvalidateAll /\ At("clearing")
  /\ UNCHANGED <<disk, pictures, view, ops>>
(* The directory without one of its files, whichever comes first.          *)
Removed ==
  {[target EXCEPT !.saved[s] = None] : s \in Slots} \cup
  {[target EXCEPT !.picture[s] = None] : s \in Slots}
Empty == target # None => Removed = {target}
ClearFile ==
  /\ main.at = "clearing" /\ ~Empty
  /\ \/ target' \in Removed \ {target} /\ UNCHANGED main
     \/ Fails("remove") /\ UNCHANGED target /\ Idle
  /\ UNCHANGED <<previous, gens, pictures, view, ops>>
Cleared ==
  /\ main.at = "clearing" /\ Empty /\ Idle
  /\ quick' = NoImage /\ cards' = NoCard
  /\ UNCHANGED <<disk, gens, pictures, title, ops>>

-------------------------------------------------------------------------------
(* backup::import on the main thread: it takes no part in the worker's      *)
(* lock; the generations change only after the new directory is in place.   *)

WorkerIdle == captures = {} /\ queue = <<>> /\ worker.at = "idle"
Recovered ==
  /\ target' = IF target = None THEN previous ELSE target
  /\ previous' = None
Import ==
  /\ main.at = "idle" /\ ~title /\ ops < MaxOps /\ ops' = ops + 1
  /\ Overlap \/ WorkerIdle
  /\ Recovered
  /\ main' = [at |-> "aside", kind |-> "import", slot |-> Quick]
  /\ UNCHANGED <<gens, pictures, view>>
Aside ==
  /\ main.at = "aside" /\ At("install")
  /\ IF target = None THEN UNCHANGED disk ELSE target' = None /\ previous' = target
  /\ UNCHANGED <<gens, pictures, view, ops>>
(* A directory is only replaced by a rename when it is empty.              *)
Free == target \in {None, EmptyDir}
Install ==
  /\ main.at = "install"
  /\ \/ Free /\ target' = Bundle /\ At("cleanup")
     \/ (~Free \/ Fails("install")) /\ UNCHANGED target /\ At("undo")
  /\ UNCHANGED <<previous, gens, pictures, view, ops>>
Undo ==
  /\ main.at = "undo" /\ Idle
  /\ IF previous # None /\ Free THEN target' = previous /\ previous' = None
     ELSE UNCHANGED disk
  /\ UNCHANGED <<gens, pictures, view, ops>>
(* Mutant: the replaced directory stays.                                   *)
CleanupLeaves ==
  /\ main.at = "cleanup" /\ At("finish")
  /\ UNCHANGED <<disk, gens, pictures, view, ops>>
Cleanup ==
  /\ main.at = "cleanup" /\ previous' = None /\ At("finish")
  /\ UNCHANGED <<target, gens, pictures, view, ops>>
Finish ==
  /\ main.at = "finish" /\ LockFree
  /\ InvalidateAll /\ Idle
  /\ quick' = NoImage /\ cards' = NoCard
  /\ UNCHANGED <<disk, pictures, title, ops>>

-------------------------------------------------------------------------------
(* store_save_preview on the main thread, then the worker.                 *)

(* Mutant: every picture waits, however many there are.                    *)
EnqueueAll(c) == Append(queue, c)
(* try_send: a full queue drops the picture.                               *)
Enqueue(c) == IF Len(queue) < Capacity THEN Append(queue, c) ELSE queue
Captured(c) ==
  /\ main.at = "idle" /\ captures' = captures \ {c}
  /\ IF c.gen # Current(c.slot) THEN UNCHANGED <<queue, quick, cards>>
     ELSE /\ quick' = IF c.slot = Quick THEN [quick EXCEPT !.image = c.save, !.late = FALSE]
                      ELSE quick
          /\ cards' = IF c.slot = Quick THEN cards
                      ELSE [Forget(c.slot) EXCEPT
                              !.ready[c.slot] = [modified |-> None, save |-> c.save]]
          /\ queue' = Enqueue(c)
  /\ UNCHANGED <<disk, gens, worker, main, title, ops>>

WorkerAt(step) == worker' = [worker EXCEPT !.at = step]
WorkerFails == Fails("picture") /\ WorkerAt("idle") /\ UNCHANGED disk
Take ==
  /\ worker.at = "idle" /\ queue # <<>>
  /\ worker' = [at |-> "encode", job |-> Head(queue)] /\ queue' = Tail(queue)
  /\ UNCHANGED <<disk, gens, captures, main, view, ops>>
(* Mutant: the generation is not checked again after the encoding.         *)
CommitAlways ==
  /\ worker.at = "encode" /\ WorkerAt("mkdir")
  /\ UNCHANGED <<disk, gens, captures, queue, main, view, ops>>
(* commit_if_current: the check, the lock, and under it write_atomically.  *)
CommitIfCurrent ==
  /\ worker.at = "encode"
  /\ WorkerAt(IF worker.job.gen = Current(worker.job.slot) THEN "mkdir" ELSE "idle")
  /\ UNCHANGED <<disk, gens, captures, queue, main, view, ops>>
MakeDirectory ==
  /\ worker.at = "mkdir"
  /\ \/ target' = Holder /\ UNCHANGED previous /\ WorkerAt("temp")
     \/ WorkerFails
  /\ UNCHANGED <<gens, captures, queue, main, view, ops>>
WriteTemporary ==
  /\ worker.at = "temp"
  /\ \/ /\ target # None /\ UNCHANGED previous /\ WorkerAt("rename")
        /\ target' = [target EXCEPT !.temp = @ \cup {worker.job.slot}]
     \/ target = None /\ UNCHANGED disk /\ WorkerAt("idle")
     \/ WorkerFails
  /\ UNCHANGED <<gens, captures, queue, main, view, ops>>
TemporaryLost == target = None \/ ~(worker.job.slot \in target.temp)
Written ==
  /\ worker.at = "rename"
  /\ \/ /\ UNCHANGED previous /\ WorkerAt("idle")
        /\ target' =
             IF TemporaryLost THEN target
             ELSE [target EXCEPT !.temp = @ \ {worker.job.slot},
                                 !.picture[worker.job.slot] = worker.job.save]
     \/ WorkerFails
  /\ UNCHANGED <<gens, captures, queue, main, view, ops>>

-------------------------------------------------------------------------------
(* The save screen: request_preview for a card, the task that reads and     *)
(* decodes, poll_preview_tasks; turning the page drops what it showed.      *)

OnDisk(s) == IF target = None THEN None ELSE target.picture[s]
Shown(c) == cards.ready[c]
RequestCard(c) ==
  /\ main.at = "idle" /\ ~title
  /\ OnDisk(c) # None /\ cards.pending[c] = None
  /\ Shown(c) # None => Shown(c).modified \notin {None, OnDisk(c)}
  /\ cards' = [cards EXCEPT !.pending[c] =
                 [modified |-> OnDisk(c), save |-> None, read |-> FALSE]]
  /\ UNCHANGED <<disk, gens, pictures, main, quick, title, ops>>
ReadCard(c) ==
  /\ cards.pending[c] # None /\ ~cards.pending[c].read
  /\ cards' = [cards EXCEPT !.pending[c].read = TRUE, !.pending[c].save = OnDisk(c)]
  /\ UNCHANGED <<disk, gens, pictures, main, quick, title, ops>>
PollCard(c) ==
  /\ main.at = "idle" /\ cards.pending[c] # None /\ cards.pending[c].read
  /\ LET task == cards.pending[c]
         loaded == [modified |-> task.modified, save |-> task.save]
     IN cards' = [ready |-> [cards.ready EXCEPT ![c] = IF task.save = None THEN @ ELSE loaded],
                  pending |-> [cards.pending EXCEPT ![c] = None]]
  /\ UNCHANGED <<disk, gens, pictures, main, quick, title, ops>>
TurnPage ==
  /\ main.at = "idle" /\ ~title /\ cards # NoCard /\ cards' = NoCard
  /\ UNCHANGED <<disk, gens, pictures, main, quick, title, ops>>

(* The title screen: hydrate_quick_save_preview runs only while the title   *)
(* takes input, so a result may wait until the player is back.              *)

HoverContinue ==
  /\ main.at = "idle" /\ title
  /\ target # None /\ target.saved[Quick] # None
  /\ quick.image = None /\ quick.task = "none" /\ ~quick.resolved
  /\ quick' = [quick EXCEPT !.task = "reading", !.overtaken = FALSE]
  /\ UNCHANGED <<disk, gens, pictures, main, cards, title, ops>>
ReadQuick ==
  /\ quick.task = "reading"
  /\ quick' = [quick EXCEPT !.task = "read", !.loaded = OnDisk(Quick)]
  /\ UNCHANGED <<disk, gens, pictures, main, cards, title, ops>>
PollQuick ==
  /\ main.at = "idle" /\ title /\ quick.task = "read"
  /\ quick' = [image |-> quick.loaded, task |-> "none", loaded |-> None, resolved |-> TRUE,
               overtaken |-> FALSE, late |-> quick.overtaken]
  /\ UNCHANGED <<disk, gens, pictures, main, cards, title, ops>>
LeaveTitle ==
  /\ main.at = "idle" /\ title /\ title' = FALSE
  /\ UNCHANGED <<disk, gens, pictures, main, quick, cards, ops>>
ShowTitle ==
  /\ main.at = "idle" /\ ~title /\ title' = TRUE
  /\ UNCHANGED <<disk, gens, pictures, main, quick, cards, ops>>

-------------------------------------------------------------------------------
(* Dropping the writer joins the worker, so every job it took is finished;  *)
(* a crash loses the captures, the queue and everything shown.              *)

NoQuick == [image |-> None, task |-> "none", loaded |-> None, resolved |-> FALSE,
            overtaken |-> FALSE, late |-> FALSE]
Off ==
  /\ main' = [at |-> "off", kind |-> "none", slot |-> Quick]
  /\ captures' = {} /\ queue' = <<>> /\ worker' = [at |-> "idle", job |-> NoJob]
  /\ gens' = [epoch |-> 0, slot |-> [s \in Slots |-> 0]]
  /\ quick' = NoQuick /\ cards' = NoCard /\ title' = TRUE
  /\ UNCHANGED ops
ExitAtTitle ==
  /\ main.at = "idle" /\ title /\ At("drain")
  /\ UNCHANGED <<disk, gens, pictures, view, ops>>
(* Mutant: the exit also waits for the renderer.                           *)
JoinedAll ==
  /\ main.at = "drain" /\ queue = <<>> /\ worker.at = "idle" /\ captures = {}
  /\ Off /\ UNCHANGED disk
Joined == main.at = "drain" /\ queue = <<>> /\ worker.at = "idle" /\ Off /\ UNCHANGED disk
Dies == main.at # "off" /\ Off /\ UNCHANGED disk
Launch ==
  /\ main.at = "off" /\ Recovered /\ Idle
  /\ UNCHANGED <<gens, pictures, view, ops>>

Init ==
  /\ target = None /\ previous = None
  /\ gens = [epoch |-> 0, slot |-> [s \in Slots |-> 0]]
  /\ captures = {} /\ queue = <<>> /\ worker = [at |-> "idle", job |-> NoJob]
  /\ main = [at |-> "off", kind |-> "none", slot |-> Quick]
  /\ quick = NoQuick /\ cards = NoCard /\ title = TRUE /\ ops = 0

Running ==
  \/ PrepareSlot \/ Unlink \/ WriteState
  \/ BeginDelete \/ DeleteState \/ DeletePicture
  \/ BeginClear \/ ClearFile \/ Cleared
  \/ Aside \/ Install \/ Undo \/ Cleanup \/ Finish
  \/ Joined
Working == Take \/ CommitIfCurrent \/ MakeDirectory \/ WriteTemporary \/ Written
Loading == ReadQuick \/ PollQuick \/ \E c \in Cards : ReadCard(c) \/ PollCard(c)
Player ==
  \/ \E s \in Slots, kind \in SaveKinds : Save(kind, s)
  \/ \E s \in Slots : Delete(s)
  \/ Clear \/ Import
  \/ \E c \in Cards : RequestCard(c)
  \/ TurnPage \/ HoverContinue \/ LeaveTitle \/ ShowTitle \/ ExitAtTitle \/ Launch
Next ==
  \/ Running \/ Working \/ Loading \/ Player
  \/ \E c \in captures : Captured(c)
  \/ Dies

(* A handler runs to its end; the worker takes the next job while it has    *)
(* one; the renderer answers a screenshot and a task ends.                  *)
Fairness ==
  /\ WF_vars(Running) /\ WF_vars(Working)
  /\ \A c \in Cards : WF_vars(ReadCard(c))
  /\ WF_vars(\E c \in captures : Captured(c))
Spec == Init /\ [][Next]_vars
FairSpec == Spec /\ Fairness

-------------------------------------------------------------------------------
(* Neither the two threads nor a crash between two file operations pairs a *)
(* saved state with the picture of another one.                            *)
Paired(dir) ==
  \A s \in Slots : dir.saved[s] # None /\ dir.picture[s] # None =>
                     dir.picture[s] = dir.saved[s]
PictureMatches == target # None => Paired(target)

(* A deleted, cleared or replaced slot stays without a picture: only an    *)
(* import, its undo or a recovery brings pictures without a save.          *)
NoResurrection ==
  [][ main.at \notin {"install", "undo", "off"} /\ target' # None =>
        \A s \in Slots : target'.saved[s] = None /\ OnDisk(s) = None =>
                           target'.picture[s] = None ]_vars

(* What a card of the save screen shows belongs to the save it loads.      *)
CardMatches ==
  main.at = "idle" /\ target # None =>
    \A c \in Cards : Shown(c) # None /\ target.saved[c] # None =>
                       Shown(c).save = target.saved[c]

(* The picture beside Continue belongs to the save Continue restores, with  *)
(* one exception: a load that began before that save was written and is    *)
(* polled after it, which nothing stops (poll in bar.rs).  A load that no   *)
(* command overtook, a screenshot, a clearing, an import and another quick *)
(* save all leave the right picture or none.                               *)
ContinueMatches ==
  main.at = "idle" /\ title /\ ~quick.late /\ target # None =>
    (quick.image # None /\ target.saved[Quick] # None =>
       quick.image = target.saved[Quick])

(* Between two commands saves/ is the only directory with the player's     *)
(* saves: a leftover saves.previous would be deleted by the next recovery. *)
OneDirectory == main.at = "idle" => previous = None

(* The main thread waits for the worker when it invalidates and when it    *)
(* exits; neither waits for ever.                                          *)
CommandEnds == main.at \notin {"idle", "off"} ~> main.at \in {"idle", "off"}

===============================================================================
