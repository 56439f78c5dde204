--------------------------- MODULE SavePreviewProofs ---------------------------
(***************************************************************************)
(* Thumbnails and saves on the disk, for any slots, queue, failures and    *)
(* crashes: a picture belongs to the save beside it, on the disk and on    *)
(* the screens, a slot without a save gets none, and there is one save     *)
(* directory.  The argument follows the generations: a job whose           *)
(* generation is that of its slot is a job for the save that lies in the   *)
(* slot now.                                                               *)
(***************************************************************************)
EXTENDS SavePreview, TLAPS

DiskOK == target \in Directory \cup {None} /\ previous \in Directory \cup {None}
JobsOK ==
  /\ captures \subseteq Job
  /\ queue \in Seq(Job) /\ Len(queue) <= Capacity
  /\ worker \in [at : {"idle", "encode"} \cup Locked, job : Job]
GensOK == gens \in [epoch : Nat, slot : [Slots -> Nat]]
MainOK == main \in [at : MainSteps, kind : Kinds, slot : Slots] /\ ops \in 0..MaxOps
(* A command counts; a slot is deleted from a directory.                   *)
StepOK ==
  /\ main.at \in {"lock", "unlink", "write"} => ops > 0
  /\ main.at \in {"state", "picture"} \/ (main.at = "lock" /\ main.kind = "delete") =>
       target # None
Typed == DiskOK /\ JobsOK /\ GensOK /\ MainOK /\ StepOK

(* The jobs that are still to be done.                                     *)
Pending ==
  captures \cup {queue[i] : i \in 1..Len(queue)}
    \cup {j \in {worker.job} : worker.at # "idle"}
IsCurrent(j) == j.gen = Current(j.slot)

(* No job is younger than its slot.                                        *)
Aged ==
  \A j \in Pending :
    /\ j.gen.epoch <= gens.epoch
    /\ j.gen.epoch = gens.epoch => j.gen.slot <= gens.slot[j.slot]
(* Steps of the main thread between the invalidation of a slot and its end. *)
Touches(s) ==
  \/ main.at \in {"unlink", "write", "state", "picture"} /\ main.slot = s
  \/ main.at = "clearing"
Valid ==
  \A j \in Pending :
    IsCurrent(j) => ~Touches(j.slot) /\ target # None /\ target.saved[j.slot] = j.save
LockedCurrent == worker.at \in Locked => IsCurrent(worker.job)
Unlinked == main.at = "write" /\ target # None => target.picture[main.slot] = None
AllPaired == PictureMatches /\ (previous # None => Paired(previous))
Importing ==
  /\ main.at \in ImportSteps \cup {"off"} => Pending = {}
  /\ main.at \in {"install", "undo"} => target = None
Together == main.at \notin {"install", "undo", "cleanup", "off"} => previous = None
Belongs == Aged /\ Valid /\ LockedCurrent /\ Unlinked /\ AllPaired /\ Importing /\ Together

-------------------------------------------------------------------------------
(* What the operators make is typed.                                       *)

LEMMA Directories ==
  /\ EmptyDir \in Directory /\ Bundle \in Directory /\ None \notin Directory
  /\ \A d \in Directory, s \in Slots, v \in Saves \cup {None} :
       /\ [d EXCEPT !.saved[s] = v] \in Directory
       /\ [d EXCEPT !.picture[s] = v] \in Directory
  /\ \A d \in Directory, s \in Slots :
       /\ [d EXCEPT !.temp = @ \cup {s}] \in Directory
       /\ \A v \in Saves : [d EXCEPT !.temp = @ \ {s}, !.picture[s] = v] \in Directory
<1>1. EmptyDir \in Directory
  BY DEF EmptyDir, Directory
<1>2. Bundle \in Directory
  BY DEF Bundle, Directory, Saves
<1>3. ASSUME NEW d \in Directory, NEW s \in Slots, NEW v \in Saves \cup {None}
      PROVE  [d EXCEPT !.saved[s] = v] \in Directory /\ [d EXCEPT !.picture[s] = v] \in Directory
  BY DEF Directory
<1>4. ASSUME NEW d \in Directory, NEW s \in Slots
      PROVE  /\ [d EXCEPT !.temp = @ \cup {s}] \in Directory
             /\ \A v \in Saves : [d EXCEPT !.temp = @ \ {s}, !.picture[s] = v] \in Directory
  BY DEF Directory
<1> QED BY <1>1, <1>2, <1>3, <1>4, Absent

LEMMA GensTyped ==
  ASSUME GensOK
  PROVE  /\ \A s \in Slots : Current(s) \in Generation
         /\ \A s \in Slots : InvalidateSlot(s) => GensOK'
         /\ InvalidateAll => GensOK'
<1>1. ASSUME NEW s \in Slots PROVE Current(s) \in Generation
  BY DEF GensOK, Current, Generation
<1>2. ASSUME NEW s \in Slots, InvalidateSlot(s) PROVE GensOK'
  BY <1>2 DEF GensOK, InvalidateSlot
<1>3. ASSUME InvalidateAll PROVE GensOK'
  BY <1>3 DEF GensOK, InvalidateAll
<1> QED BY <1>1, <1>2, <1>3

LEMMA MainTyped ==
  ASSUME MainOK, UNCHANGED ops
  PROVE  /\ \A step \in MainSteps :
              At(step) => /\ MainOK' /\ main'.at = step
                          /\ main'.kind = main.kind /\ main'.slot = main.slot
         /\ Idle => MainOK' /\ main'.at = "idle" /\ main'.kind = "none"
         /\ main' = main => MainOK'
<1>1. ASSUME NEW step \in MainSteps, At(step)
      PROVE  MainOK' /\ main'.at = step /\ main'.kind = main.kind /\ main'.slot = main.slot
  BY <1>1 DEF MainOK, At
<1>2. ASSUME Idle PROVE MainOK' /\ main'.at = "idle" /\ main'.kind = "none"
  BY <1>2 DEF MainOK, Idle, MainSteps, Kinds, Slots
<1>3. main' = main => MainOK'
  BY DEF MainOK
<1> QED BY <1>1, <1>2, <1>3

LEMMA Steps ==
  {"off", "idle", "lock", "state", "picture", "clearing", "drain", "unlink", "write",
   "aside", "install", "undo", "cleanup", "finish"} = MainSteps
BY DEF MainSteps, SaveSteps, ImportSteps

LEMMA JobsSame == JobsOK /\ UNCHANGED pictures => JobsOK' /\ Pending' = Pending
BY DEF JobsOK, pictures, Pending

LEMMA InitTyped == Init => Typed
<1> SUFFICES ASSUME Init PROVE Typed
  OBVIOUS
<1>1. DiskOK /\ StepOK
  BY DEF Init, DiskOK, StepOK
<1>2. JobsOK
  <2>1. NoJob \in Job
    BY DEF NoJob, Job, Slots, Saves, Generation
  <2> QED BY <2>1, Bounds DEF Init, JobsOK
<1>3. GensOK
  BY DEF Init, GensOK
<1>4. MainOK
  <2>1. "off" \in MainSteps /\ "none" \in Kinds /\ Quick \in Slots
    BY DEF MainSteps, Kinds, Slots
  <2>2. 0 \in 0..MaxOps
    BY Bounds
  <2> QED BY <2>1, <2>2 DEF Init, MainOK
<1> QED BY <1>1, <1>2, <1>3, <1>4 DEF Typed

-------------------------------------------------------------------------------
(* The steps that touch neither disk nor jobs nor generations.             *)
LEMMA BeginTyped ==
  ASSUME Typed, NEW kind \in Kinds, NEW s \in Slots, Begin(kind, s),
         kind = "delete" => target # None
  PROVE  Typed'
<1>1. JobsOK' /\ DiskOK' /\ GensOK'
  BY DEF Typed, Begin, JobsOK, DiskOK, GensOK, disk, pictures
<1>2. main' = [at |-> "lock", kind |-> kind, slot |-> s] /\ "lock" \in MainSteps
  BY Steps DEF Begin
<1>3. ops' \in 0..MaxOps /\ ops' > 0
  BY Bounds DEF Typed, MainOK, Begin
<1>4. MainOK'
  BY <1>2, <1>3 DEF MainOK
<1>5. StepOK'
  BY <1>2, <1>3 DEF StepOK, Begin, disk
<1> QED BY <1>1, <1>4, <1>5 DEF Typed
LEMMA RestTyped ==
  ASSUME Typed, UNCHANGED <<disk, gens, pictures, main, ops>>
  PROVE  Typed'
BY DEF Typed, JobsOK, DiskOK, GensOK, MainOK, StepOK, disk, pictures

(* The steps of the main thread.                                           *)
LEMMA SlotTyped ==
  ASSUME Typed, PrepareSlot \/ Unlink \/ WriteState PROVE Typed'
<1> USE DEF Typed
<1>1. main.slot \in Slots
  BY DEF MainOK
<1>2. CASE PrepareSlot
  <2>1. MainOK' /\ main'.at = "unlink"
    BY <1>2, MainTyped, Steps DEF PrepareSlot
  <2>2. StepOK'
    BY <1>2, <2>1 DEF PrepareSlot, StepOK
  <2> QED BY <1>1, <1>2, <2>1, <2>2, GensTyped DEF PrepareSlot, DiskOK, JobsOK, disk, pictures
<1>3. CASE Unlink
  <2>1. MainOK' /\ main'.at \in {"write", "idle", "drain"}
    BY <1>3, MainTyped, Steps DEF Unlink, Failed
  <2>2. DiskOK'
    <3>1. target # None => [target EXCEPT !.picture[main.slot] = None] \in Directory
      BY <1>1, Directories DEF DiskOK
    <3> QED BY <1>3, <3>1 DEF Unlink, DiskOK
  <2>3. StepOK'
    BY <1>3, <2>1 DEF Unlink, StepOK
  <2> QED BY <1>3, <2>1, <2>2, <2>3 DEF Unlink, GensOK, JobsOK, pictures
<1>4. CASE WriteState
  <2>1. MainOK' /\ main'.at \in {"idle", "drain"}
    BY <1>4, MainTyped, Steps DEF WriteState, Failed
  <2>2. ops \in Saves
    BY <1>4 DEF WriteState, StepOK, MainOK, Saves
  <2>3. DiskOK'
    <3>1. Holder \in Directory
      BY Directories DEF Holder, DiskOK
    <3>2. [Holder EXCEPT !.saved[main.slot] = ops] \in Directory
      BY <1>1, <2>2, <3>1, Directories
    <3> QED BY <1>4, <3>1, <3>2 DEF WriteState, DiskOK
  <2>4. captures' \subseteq Job
    <3>1. [slot |-> main.slot, gen |-> Current(main.slot), save |-> ops] \in Job
      BY <1>1, <2>2, GensTyped DEF Job
    <3> QED BY <1>4, <3>1 DEF WriteState, Show, JobsOK
  <2>5. StepOK'
    BY <2>1 DEF StepOK
  <2> QED BY <1>4, <2>1, <2>3, <2>4, <2>5 DEF WriteState, JobsOK, GensOK
<1> QED BY <1>2, <1>3, <1>4

LEMMA DeleteTyped ==
  ASSUME Typed, BeginDelete \/ DeleteState \/ DeletePicture PROVE Typed'
<1> USE DEF Typed
<1>1. main.slot \in Slots /\ MainOK' /\ main'.at \in {"state", "picture", "idle"}
      /\ (main'.at = "picture" => main.at = "state")
  BY MainTyped, Steps DEF MainOK, BeginDelete, DeleteState, DeletePicture
<1>2. target \in Directory
  BY DEF BeginDelete, DeleteState, DeletePicture, StepOK, DiskOK
<1>3. target' \in Directory /\ previous' = previous
  <2>1. /\ [target EXCEPT !.saved[main.slot] = None] \in Directory
        /\ [target EXCEPT !.picture[main.slot] = None] \in Directory
    BY <1>1, <1>2, Directories
  <2> QED BY <1>2, <2>1 DEF BeginDelete, DeleteState, DeletePicture, disk
<1>4. StepOK'
  BY <1>1, <1>3, Absent DEF StepOK
<1>5. GensOK' /\ JobsOK'
  BY <1>1, GensTyped DEF BeginDelete, DeleteState, DeletePicture, GensOK, JobsOK, pictures
<1> QED BY <1>1, <1>3, <1>4, <1>5 DEF DiskOK

LEMMA ClearTyped == ASSUME Typed, BeginClear \/ ClearFile \/ Cleared PROVE Typed'
<1> USE DEF Typed
<1>1. MainOK' /\ main'.at \in {"clearing", "idle"}
  BY MainTyped, Steps DEF BeginClear, ClearFile, Cleared
<1>2. DiskOK'
  <2>1. ASSUME target # None PROVE Removed \subseteq Directory
    <3>1. \A s \in Slots : /\ [target EXCEPT !.saved[s] = None] \in Directory
                           /\ [target EXCEPT !.picture[s] = None] \in Directory
      BY <2>1, Directories DEF DiskOK
    <3> QED BY <3>1 DEF Removed
  <2>2. ClearFile => target # None
    BY DEF ClearFile, Empty
  <2> QED BY <2>1, <2>2 DEF BeginClear, ClearFile, Cleared, DiskOK, disk
<1>3. StepOK'
  BY <1>1 DEF StepOK
<1>4. GensOK' /\ JobsOK'
  BY GensTyped DEF BeginClear, ClearFile, Cleared, GensOK, JobsOK, pictures
<1> QED BY <1>1, <1>2, <1>3, <1>4

LEMMA ImportTyped ==
  ASSUME Typed, Import \/ Aside \/ Install \/ Undo \/ Cleanup \/ Finish \/ Launch
  PROVE  Typed'
<1> USE DEF Typed
<1>1. DiskOK'
  BY Directories DEF Import, Aside, Install, Undo, Cleanup, Finish, Launch, Recovered, DiskOK, disk
<1>2. GensOK' /\ JobsOK'
  BY GensTyped DEF Import, Aside, Install, Undo, Cleanup, Finish, Launch, GensOK, JobsOK, pictures
<1>3. CASE Import
  <2>1. main' = [at |-> "aside", kind |-> "import", slot |-> Quick] /\ "aside" \in MainSteps
    BY <1>3, Steps DEF Import
  <2>2. ops' \in 0..MaxOps
    BY <1>3, Bounds DEF Import, MainOK
  <2>3. MainOK'
    BY <2>1, <2>2 DEF MainOK, Kinds, Slots
  <2>4. StepOK'
    BY <2>1 DEF StepOK
  <2> QED BY <1>1, <1>2, <2>3, <2>4
<1>4. CASE Aside \/ Install \/ Undo \/ Cleanup \/ Finish \/ Launch
  <2>1. MainOK' /\ main'.at \in {"install", "cleanup", "undo", "idle", "finish"}
    BY <1>4, MainTyped, Steps DEF Aside, Install, Undo, Cleanup, Finish, Launch
  <2>2. StepOK'
    BY <2>1 DEF StepOK
  <2> QED BY <1>1, <1>2, <2>1, <2>2
<1> QED BY <1>3, <1>4

LEMMA OffTyped == ASSUME Typed, Off, UNCHANGED disk PROVE Typed'
<1>1. NoJob \in Job /\ Quick \in Slots
  BY DEF NoJob, Job, Slots, Saves, Generation
<1>2. JobsOK'
  BY <1>1, Bounds DEF Off, JobsOK
<1>3. MainOK'
  <2>1. "off" \in MainSteps /\ "none" \in Kinds
    BY Steps DEF Kinds
  <2> QED BY <1>1, <2>1 DEF Typed, Off, MainOK
<1>4. GensOK' /\ DiskOK' /\ StepOK'
  BY DEF Typed, Off, GensOK, DiskOK, StepOK, disk
<1> QED BY <1>2, <1>3, <1>4 DEF Typed

(* Renderer, queue and worker.                                             *)
LEMMA CapturedTyped == ASSUME Typed, NEW c \in captures, Captured(c) PROVE Typed'
<1> USE DEF Typed
<1>1. c \in Job
  BY DEF JobsOK
<1>2. queue' = queue \/ (Len(queue) < Capacity /\ queue' = Append(queue, c))
  BY DEF Captured, Enqueue
<1>3. queue' \in Seq(Job) /\ Len(queue') <= Capacity
  BY <1>1, <1>2, Bounds DEF JobsOK
<1>4. JobsOK'
  BY <1>3 DEF Captured, JobsOK
<1> QED BY <1>4 DEF Captured, DiskOK, GensOK, MainOK, StepOK, disk

LEMMA WorkerTyped == ASSUME Typed, Working PROVE Typed'
<1> USE DEF Typed
<1>1. MainOK' /\ GensOK'
  BY DEF Working, Take, CommitIfCurrent, MakeDirectory, WriteTemporary, Written, MainOK, GensOK
<1>2. CASE Take
  <2>1. Head(queue) \in Job /\ Tail(queue) \in Seq(Job) /\ Len(Tail(queue)) <= Capacity
    BY <1>2, Bounds DEF Take, JobsOK
  <2>2. JobsOK'
    BY <1>2, <2>1 DEF Take, JobsOK
  <2>3. DiskOK' /\ StepOK'
    BY <1>2 DEF Take, DiskOK, StepOK, disk
  <2> QED BY <1>1, <2>2, <2>3
<1>3. CASE CommitIfCurrent \/ MakeDirectory \/ WriteTemporary \/ Written
  <2>1. JobsOK'
    BY <1>3 DEF CommitIfCurrent, MakeDirectory, WriteTemporary, Written, WorkerFails, WorkerAt,
       JobsOK, Locked
  <2>2. worker.job \in Job
    BY DEF JobsOK
  <2>3. worker.job.slot \in Slots /\ worker.job.save \in Saves
    BY <2>2 DEF Job
  <2>4. DiskOK' /\ (target # None => target' # None)
    <3>1. Holder \in Directory /\ (target # None => Holder = target)
      BY Directories DEF Holder, DiskOK
    <3>2. CASE CommitIfCurrent \/ MakeDirectory
      BY <3>1, <3>2, Absent DEF CommitIfCurrent, MakeDirectory, WorkerFails, DiskOK, disk
    <3>3. CASE WriteTemporary
      <4>1. target # None => [target EXCEPT !.temp = @ \cup {worker.job.slot}] \in Directory
        BY <2>3, Directories DEF DiskOK
      <4> QED BY <3>3, <4>1, Absent DEF WriteTemporary, WorkerFails, DiskOK, disk
    <3>4. CASE Written
      <4>1. ~TemporaryLost =>
              [target EXCEPT !.temp = @ \ {worker.job.slot},
                             !.picture[worker.job.slot] = worker.job.save] \in Directory
        BY <2>3, Directories DEF DiskOK, TemporaryLost
      <4> QED BY <3>4, <4>1, Absent DEF Written, WorkerFails, DiskOK, disk
    <3> QED BY <1>3, <3>2, <3>3, <3>4
  <2>5. StepOK'
    BY <1>3, <2>4 DEF StepOK, CommitIfCurrent, MakeDirectory, WriteTemporary, Written
  <2> QED BY <1>1, <2>1, <2>4, <2>5
<1> QED BY <1>2, <1>3 DEF Working

(* The steps that are left only show something or move the player.         *)
LEMMA ViewTyped ==
  ASSUME Typed, \/ Loading \/ TurnPage \/ HoverContinue \/ LeaveTitle \/ ShowTitle
                \/ \E c \in Cards : RequestCard(c)
  PROVE  UNCHANGED <<disk, gens, pictures, main, ops>> /\ Typed'
<1>1. UNCHANGED <<disk, gens, pictures, main, ops>>
  BY DEF Loading, ReadQuick, PollQuick, ReadCard, PollCard, TurnPage, HoverContinue,
     LeaveTitle, ShowTitle, RequestCard
<1> QED BY <1>1, RestTyped

LEMMA NextTyped == Typed /\ [Next]_vars => Typed'
<1> SUFFICES ASSUME Typed, [Next]_vars PROVE Typed'
  OBVIOUS
<1>1. CASE UNCHANGED vars
  BY <1>1, RestTyped DEF vars, disk, pictures
<1>2. CASE Running \/ Dies
  BY <1>2, SlotTyped, DeleteTyped, ClearTyped, ImportTyped, OffTyped DEF Running, Joined, Dies
<1>3. CASE Working \/ Loading \/ \E c \in captures : Captured(c)
  BY <1>3, WorkerTyped, ViewTyped, CapturedTyped
<1>4. CASE \/ \E s \in Slots, kind \in SaveKinds : Save(kind, s)
           \/ \E s \in Slots : Delete(s)
           \/ Clear
  <2>1. SaveKinds \subseteq Kinds \ {"delete"} /\ {"delete", "clear"} \subseteq Kinds /\ Quick \in Slots
    BY DEF SaveKinds, Kinds, Slots
  <2>2. ASSUME NEW s \in Slots, NEW kind \in SaveKinds, Save(kind, s) PROVE Typed'
    BY <2>1, <2>2, BeginTyped DEF Save
  <2>3. ASSUME NEW s \in Slots, Delete(s) PROVE Typed'
    BY <2>1, <2>3, BeginTyped DEF Delete
  <2>4. CASE Clear
    BY <2>1, <2>4, BeginTyped DEF Clear
  <2> QED BY <1>4, <2>2, <2>3, <2>4
<1>5. CASE ExitAtTitle
  <2>1. MainOK' /\ main'.at = "drain"
    BY <1>5, MainTyped, Steps DEF ExitAtTitle, Typed
  <2>2. StepOK'
    BY <2>1 DEF StepOK
  <2> QED BY <1>5, <2>1, <2>2
          DEF ExitAtTitle, Typed, DiskOK, JobsOK, GensOK, disk, pictures
<1>6. CASE Player
  BY <1>4, <1>5, <1>6, ViewTyped, ImportTyped DEF Player
<1> QED BY <1>1, <1>2, <1>3, <1>6 DEF Next

-------------------------------------------------------------------------------
(* A picture belongs to the save beside it.                                *)

LEMMA PendingTyped == Typed => Pending \subseteq Job
BY DEF Typed, JobsOK, Pending

LEMMA Pairs ==
  /\ Paired(EmptyDir) /\ Paired(Bundle)
  /\ \A d \in Directory, s \in Slots : Paired(d) =>
       /\ Paired([d EXCEPT !.saved[s] = None]) /\ Paired([d EXCEPT !.picture[s] = None])
       /\ Paired([d EXCEPT !.temp = @ \cup {s}])
<1>1. Paired(EmptyDir) /\ Paired(Bundle)
  BY DEF Paired, EmptyDir, Bundle
<1>2. ASSUME NEW d \in Directory, NEW s \in Slots, Paired(d)
      PROVE  /\ Paired([d EXCEPT !.saved[s] = None]) /\ Paired([d EXCEPT !.picture[s] = None])
             /\ Paired([d EXCEPT !.temp = @ \cup {s}])
  BY <1>2 DEF Paired, Directory
<1> QED BY <1>1, <1>2

(* An invalidated slot has no current job, and no job gets current again.  *)
LEMMA SlotInvalidated ==
  ASSUME Typed, Aged, NEW s \in Slots, InvalidateSlot(s), Pending' = Pending
  PROVE  Aged' /\ \A j \in Pending : IsCurrent(j)' => IsCurrent(j) /\ j.slot # s
<1>1. gens'.epoch = gens.epoch /\ gens'.slot = [gens.slot EXCEPT ![s] = @ + 1]
  BY DEF Typed, GensOK, InvalidateSlot
<1>2. ASSUME NEW j \in Pending
      PROVE  /\ j.gen \in Generation /\ j.slot \in Slots
             /\ gens.epoch \in Nat /\ gens.slot[j.slot] \in Nat
             /\ gens'.slot[j.slot] = IF j.slot = s THEN gens.slot[s] + 1 ELSE gens.slot[j.slot]
  BY <1>1, PendingTyped DEF Typed, GensOK, Job
<1>3. Aged'
  BY <1>1, <1>2 DEF Aged, Generation
<1>4. ASSUME NEW j \in Pending, IsCurrent(j)' PROVE IsCurrent(j) /\ j.slot # s
  <2>1. j.gen = [epoch |-> gens'.epoch, slot |-> gens'.slot[j.slot]]
    BY <1>4 DEF IsCurrent, Current
  <2>2. j.gen.epoch = gens.epoch /\ j.gen.slot = gens'.slot[j.slot]
    BY <1>1, <2>1
  <2>3. j.slot # s
    BY <1>2, <2>2 DEF Aged, Generation
  <2> QED BY <1>1, <1>2, <2>1, <2>3 DEF IsCurrent, Current
<1> QED BY <1>3, <1>4
LEMMA AllInvalidated ==
  ASSUME Typed, Aged, InvalidateAll, Pending' = Pending
  PROVE  Aged' /\ \A j \in Pending : ~IsCurrent(j)'
<1>1. gens'.epoch = gens.epoch + 1 /\ gens.epoch \in Nat
  BY DEF Typed, GensOK, InvalidateAll
<1>2. ASSUME NEW j \in Pending PROVE j.gen \in Generation /\ j.gen.epoch <= gens.epoch
  BY PendingTyped DEF Aged, Job
<1>3. Aged'
  BY <1>1, <1>2 DEF Aged, Generation
<1>4. ASSUME NEW j \in Pending, IsCurrent(j)' PROVE FALSE
  <2>1. j.gen.epoch = gens'.epoch
    BY <1>4 DEF IsCurrent, Current
  <2> QED BY <1>1, <1>2, <2>1 DEF Generation
<1> QED BY <1>3, <1>4
LEMMA SameGens ==
  ASSUME gens' = gens
  PROVE  /\ \A j : IsCurrent(j)' = IsCurrent(j)
         /\ Aged /\ Pending' \subseteq Pending => Aged'
         /\ LockedCurrent /\ worker' = worker => LockedCurrent'
BY DEF IsCurrent, Current, Aged, LockedCurrent

(* Steps that leave disk, generations and main thread alone.               *)
LEMMA FewerJobs ==
  ASSUME Belongs, UNCHANGED <<disk, gens, main>>, Pending' \subseteq Pending, LockedCurrent'
  PROVE  Belongs'
<1>1. Aged' /\ Valid'
  BY SameGens DEF Belongs, Valid, Touches, disk
<1>2. Unlinked' /\ AllPaired' /\ Importing' /\ Together'
  BY DEF Belongs, Unlinked, AllPaired, PictureMatches, Paired, Importing, Together, disk
<1> QED BY <1>1, <1>2 DEF Belongs
(* Steps of the main thread that only go on, to a step of less meaning.    *)
LEMMA GoesOn ==
  ASSUME Belongs, UNCHANGED <<disk, gens, pictures>>,
         main.at \notin {"install", "undo", "cleanup", "off"},
         main'.at \in {"idle", "lock", "drain"}
  PROVE  Belongs'
<1>1. Pending' = Pending /\ worker' = worker
  BY DEF pictures, Pending
<1>2. Aged' /\ Valid' /\ LockedCurrent'
  BY <1>1, SameGens DEF Belongs, Valid, Touches, disk
<1>3. Unlinked' /\ AllPaired' /\ Importing' /\ Together'
  BY DEF Belongs, Unlinked, AllPaired, PictureMatches, Paired, Importing, Together, disk, ImportSteps
<1> QED BY <1>2, <1>3 DEF Belongs

-------------------------------------------------------------------------------
LEMMA PrepareBelongs ==
  ASSUME Typed, Belongs, Typed', PrepareSlot \/ BeginDelete PROVE Belongs'
<1>1. /\ main.slot \in Slots /\ main'.slot = main.slot /\ main'.at \in {"unlink", "state"}
      /\ main.at = "lock"
  BY DEF Typed, MainOK, PrepareSlot, BeginDelete, At
<1>2. /\ InvalidateSlot(main.slot) /\ UNCHANGED disk /\ worker.at \notin Locked
      /\ Pending' = Pending /\ worker' = worker
  BY DEF PrepareSlot, BeginDelete, pictures, Pending, LockFree
<1>3. Aged' /\ \A j \in Pending : IsCurrent(j)' => IsCurrent(j) /\ j.slot # main.slot
  BY <1>1, <1>2, SlotInvalidated DEF Belongs
<1>4. Valid'
  BY <1>1, <1>2, <1>3 DEF Belongs, Valid, Touches, disk
<1>5. LockedCurrent' /\ Unlinked'
  BY <1>1, <1>2 DEF LockedCurrent, Unlinked
<1>6. AllPaired' /\ Importing' /\ Together'
  BY <1>1, <1>2 DEF Belongs, AllPaired, PictureMatches, Paired, Importing, Together, disk, ImportSteps
<1> QED BY <1>3, <1>4, <1>5, <1>6 DEF Belongs

LEMMA UnlinkBelongs == ASSUME Typed, Belongs, Unlink PROVE Belongs'
<1>1. /\ main.slot \in Slots /\ main.at = "unlink" /\ UNCHANGED <<previous, gens, pictures>>
      /\ Pending' = Pending /\ worker' = worker
  BY DEF Typed, MainOK, Unlink, pictures, Pending
<1>2. main'.at \in {"write", "idle", "drain"} /\ (main'.at = "write" => main'.slot = main.slot)
  BY DEF Unlink, Failed, At, Idle, Typed, MainOK
<1>3. /\ target = None <=> target' = None
      /\ target # None => /\ target'.saved = target.saved
                          /\ main'.at = "write" => target'.picture[main.slot] = None
                          /\ Paired(target')
  <2>1. CASE target = None \/ (target' = target /\ main'.at # "write")
    BY <2>1, <1>2 DEF Unlink, Belongs, AllPaired, PictureMatches, At, Typed, MainOK
  <2>2. CASE target # None /\ target' = [target EXCEPT !.picture[main.slot] = None]
    <3>1. target \in Directory
      BY <2>2 DEF Typed, DiskOK
    <3>2. target'.saved = target.saved /\ target'.picture[main.slot] = None
      BY <1>1, <2>2, <3>1 DEF Directory
    <3>3. Paired(target') /\ target' \in Directory
      BY <1>1, <2>2, <3>1, Pairs, Directories DEF Belongs, AllPaired, PictureMatches
    <3> QED BY <2>2, <3>2, <3>3, Absent
  <2>3. Failed => main'.at # "write"
    BY DEF Failed, At, Idle, Typed, MainOK
  <2> QED BY <2>1, <2>2, <2>3 DEF Unlink
<1>4. Aged' /\ Valid' /\ LockedCurrent'
  BY <1>1, <1>2, <1>3, SameGens DEF Belongs, Valid, Touches
<1>5. Unlinked'
  BY <1>2, <1>3 DEF Unlinked
<1>6. AllPaired' /\ Importing' /\ Together'
  BY <1>1, <1>2, <1>3 DEF Belongs, AllPaired, PictureMatches, Paired, Importing, Together, ImportSteps
<1> QED BY <1>4, <1>5, <1>6 DEF Belongs

LEMMA WriteBelongs == ASSUME Typed, Belongs, WriteState PROVE Belongs'
<1>1. /\ main.slot \in Slots /\ main.at = "write" /\ UNCHANGED <<previous, gens, queue, worker>>
      /\ main'.at \in {"idle", "drain"}
  BY DEF Typed, MainOK, WriteState, Failed, At, Idle
<1>2. Holder \in Directory /\ Holder.picture[main.slot] = None /\ Paired(Holder)
      /\ (target # None => Holder = target)
  <2>1. CASE target = None
    BY <1>1, <2>1, Directories, Pairs DEF Holder, EmptyDir
  <2>2. CASE target # None
    BY <1>1, <2>2 DEF Holder, Typed, DiskOK, Belongs, Unlinked, AllPaired, PictureMatches
  <2> QED BY <2>1, <2>2
<1> DEFINE written == [Holder EXCEPT !.saved[main.slot] = ops]
           new == [slot |-> main.slot, gen |-> Current(main.slot), save |-> ops]
<1>3. /\ written.saved = [Holder.saved EXCEPT ![main.slot] = ops]
      /\ written.picture = Holder.picture
      /\ DOMAIN Holder.saved = Slots
  BY <1>2 DEF Directory
<1>4. ops \in Saves /\ written \in Directory
  <2>1. ops \in Saves
    BY DEF WriteState, Typed, StepOK, MainOK, Saves
  <2> QED BY <1>1, <1>2, <2>1, Directories
<1>5. Paired(written)
  BY <1>1, <1>2, <1>3 DEF Paired
<1>6. \/ target' = written /\ Pending' \subseteq Pending \cup {new}
      \/ target' = Holder /\ Pending' \subseteq Pending
      \/ target' = written /\ Pending' \subseteq Pending
  BY <1>1 DEF WriteState, Show, Pending
<1>7. target' # None /\ Paired(target')
  BY <1>2, <1>4, <1>5, <1>6, Absent
<1>8. Aged'
  <2>1. \A j \in Pending' : j \in Pending \/ j = new
    BY <1>6
  <2>2. gens.epoch <= gens.epoch /\ gens.slot[main.slot] <= gens.slot[main.slot]
    BY <1>1 DEF Typed, GensOK
  <2> QED BY <1>1, <2>1, <2>2 DEF Belongs, Aged, Current
<1>9. Valid'
  <2> SUFFICES ASSUME NEW j \in Pending', IsCurrent(j)
               PROVE  ~Touches(j.slot)' /\ target'.saved[j.slot] = j.save
    BY <1>1, <1>7, SameGens DEF Valid
  <2>1. ~Touches(j.slot)'
    BY <1>1 DEF Touches
  <2>2. CASE j \in Pending
    <3>1. j.slot # main.slot /\ target # None /\ target.saved[j.slot] = j.save /\ j.slot \in Slots
      BY <1>1, <2>2, PendingTyped DEF Belongs, Valid, Touches, Job
    <3> QED BY <1>2, <1>3, <1>6, <2>1, <3>1
  <2>3. CASE j \notin Pending
    <3>1. j = new /\ target' = written
      BY <1>6, <2>3
    <3> QED BY <1>1, <1>3, <2>1, <3>1
  <2> QED BY <2>2, <2>3
<1>10. LockedCurrent' /\ Unlinked'
  BY <1>1, SameGens DEF Belongs, Unlinked
<1>11. AllPaired' /\ Importing' /\ Together'
  BY <1>1, <1>7 DEF Belongs, AllPaired, PictureMatches, Paired, Importing, Together, ImportSteps
<1> QED BY <1>8, <1>9, <1>10, <1>11 DEF Belongs

(* Files are only taken away, from a slot that has no current job.         *)
LEMMA RemovalBelongs ==
  ASSUME Typed, Belongs, DeleteState \/ DeletePicture \/ ClearFile \/ BeginClear \/ Cleared
  PROVE  Belongs'
<1>1. /\ main.at \in {"state", "picture", "clearing", "lock"} /\ UNCHANGED <<previous, pictures>>
      /\ Pending' = Pending /\ worker' = worker /\ main.slot \in Slots
  BY DEF Typed, MainOK, DeleteState, DeletePicture, ClearFile, BeginClear, Cleared, pictures, Pending, disk
<1>2. CASE Cleared
  BY <1>2, GoesOn DEF Cleared, Idle
<1>3. CASE BeginClear
  <2>1. InvalidateAll /\ UNCHANGED disk /\ worker.at \notin Locked /\ main'.at = "clearing"
    BY <1>3 DEF BeginClear, LockFree, At, Typed, MainOK
  <2>2. Aged' /\ \A j \in Pending : ~IsCurrent(j)'
    BY <1>1, <2>1, AllInvalidated DEF Belongs
  <2>3. Valid' /\ LockedCurrent' /\ Unlinked'
    BY <1>1, <2>1, <2>2 DEF Valid, LockedCurrent, Unlinked
  <2>4. AllPaired' /\ Importing' /\ Together'
    BY <1>1, <2>1 DEF Belongs, AllPaired, PictureMatches, Paired, Importing, Together, disk, ImportSteps
  <2> QED BY <2>2, <2>3, <2>4 DEF Belongs
<1>4. CASE DeleteState \/ DeletePicture \/ ClearFile
  <2>1. gens' = gens /\ main.at \in {"state", "picture", "clearing"} /\ target \in Directory
    BY <1>4, Directories
       DEF DeleteState, DeletePicture, ClearFile, Empty, Typed, DiskOK, StepOK
  <2>2. /\ main'.at \in {"state", "picture", "clearing", "idle"}
        /\ main'.at # "idle" => main.at \in {"state", "clearing"} /\ main'.slot = main.slot
                                /\ (main'.at = "clearing" <=> main.at = "clearing")
    BY <1>4 DEF DeleteState, DeletePicture, ClearFile, At, Idle, Typed, MainOK
  <2>3. /\ target' \in Directory /\ Paired(target')
        /\ \A s \in Slots : target'.saved[s] # target.saved[s] => Touches(s)
    <3>1. ASSUME NEW s \in Slots, Touches(s),
                 \/ target' = [target EXCEPT !.saved[s] = None]
                 \/ target' = [target EXCEPT !.picture[s] = None]
          PROVE  /\ target' \in Directory /\ Paired(target')
                 /\ \A r \in Slots : target'.saved[r] # target.saved[r] => Touches(r)
      <4>3. target # None /\ Paired(target)
        BY <2>1, Directories DEF Belongs, AllPaired, PictureMatches
      <4>1. target' \in Directory /\ Paired(target')
        <5>1. /\ [target EXCEPT !.saved[s] = None] \in Directory
              /\ [target EXCEPT !.picture[s] = None] \in Directory
          BY <2>1, Directories
        <5>2. /\ Paired([target EXCEPT !.saved[s] = None])
              /\ Paired([target EXCEPT !.picture[s] = None])
          BY <2>1, <4>3, Pairs
        <5> QED BY <3>1, <5>1, <5>2
      <4>2. \A r \in Slots : r # s => target'.saved[r] = target.saved[r]
        BY <2>1, <3>1 DEF Directory
      <4> QED BY <3>1, <4>1, <4>2
    <3>2. CASE target' = target
      BY <2>1, <3>2, Directories DEF Belongs, AllPaired, PictureMatches
    <3>3. CASE DeleteState \/ DeletePicture
      BY <1>1, <3>1, <3>2, <3>3 DEF DeleteState, DeletePicture, Touches
    <3>4. CASE ClearFile
      BY <3>1, <3>2, <3>4 DEF ClearFile, Removed, Touches
    <3> QED BY <1>4, <3>3, <3>4
  <2>4. Aged' /\ LockedCurrent' /\ Unlinked'
    BY <1>1, <2>1, <2>2, SameGens DEF Belongs, Unlinked
  <2>5. Valid'
    <3> SUFFICES ASSUME NEW j \in Pending, IsCurrent(j)
                 PROVE  ~Touches(j.slot)' /\ target' # None /\ target'.saved[j.slot] = j.save
      BY <1>1, <2>1, SameGens DEF Valid
    <3>1. ~Touches(j.slot) /\ target.saved[j.slot] = j.save /\ j.slot \in Slots
      BY PendingTyped DEF Belongs, Valid, Job
    <3>2. ~Touches(j.slot)'
      BY <2>1, <2>2, <3>1 DEF Touches
    <3> QED BY <2>3, <3>1, <3>2, Absent
  <2>6. AllPaired' /\ Importing' /\ Together'
    BY <1>1, <2>1, <2>2, <2>3 DEF Belongs, AllPaired, PictureMatches, Paired, Importing, Together, ImportSteps
  <2> QED BY <2>4, <2>5, <2>6 DEF Belongs
<1> QED BY <1>2, <1>3, <1>4

(* An import finds no job on its way, so nothing lands while saves/ is away. *)
LEMMA ImportBelongs ==
  ASSUME Typed, Belongs, ~Overlap,
         Import \/ Aside \/ Install \/ Undo \/ Cleanup \/ Finish \/ Launch
  PROVE  Belongs'
<1>1. Pending' = Pending /\ UNCHANGED <<captures, queue, worker>>
  BY DEF Import, Aside, Install, Undo, Cleanup, Finish, Launch, pictures, Pending
<1>2. Pending = {}
  <2>1. WorkerIdle => Pending = {}
    BY DEF WorkerIdle, Pending
  <2> QED BY <2>1 DEF Import, Aside, Install, Undo, Cleanup, Finish, Launch, Belongs,
             Importing, ImportSteps
<1>3. worker.at \notin Locked
  BY <1>2 DEF Pending, Locked
<1>4. Aged' /\ Valid' /\ LockedCurrent'
  BY <1>1, <1>2, <1>3 DEF Aged, Valid, LockedCurrent
<1>5. main'.at \in {"aside", "install", "cleanup", "undo", "idle", "finish"}
  BY DEF Import, Aside, Install, Undo, Cleanup, Finish, Launch, At, Idle, Typed, MainOK
<1>6. Unlinked'
  BY <1>5 DEF Unlinked
<1>7. AllPaired'
  BY Pairs DEF Import, Aside, Install, Undo, Cleanup, Finish, Launch, Recovered, Belongs,
     AllPaired, PictureMatches, Paired, disk
<1>8. Importing' /\ Together'
  <2>1. CASE Aside
    <3>1. main'.at = "install" /\ target' = None
      BY <2>1 DEF Aside, At, Typed, MainOK, disk
    <3> QED BY <1>1, <1>2, <3>1 DEF Importing, Together
  <2>2. CASE Install
    <3>1. target = None /\ main'.at \in {"cleanup", "undo"}
      BY <2>2 DEF Install, At, Typed, MainOK, Belongs, Importing
    <3>2. main'.at = "undo" => target' = None
      BY <2>2, <3>1 DEF Install, At, Typed, MainOK
    <3> QED BY <1>1, <1>2, <3>1, <3>2 DEF Importing, Together
  <2>3. CASE Undo
    <3>1. previous' = None /\ main'.at = "idle"
      BY <2>3 DEF Undo, Idle, Free, disk, Belongs, Importing
    <3> QED BY <3>1 DEF Importing, Together, ImportSteps
  <2>4. CASE Import \/ Cleanup \/ Finish \/ Launch
    <3>1. previous' = None /\ main'.at \in {"aside", "idle", "finish"}
      BY <2>4 DEF Import, Cleanup, Finish, Launch, Recovered, disk, Belongs, Together,
         At, Idle, Typed, MainOK
    <3> QED BY <1>1, <1>2, <3>1 DEF Importing, Together
  <2> QED BY <2>1, <2>2, <2>3, <2>4
<1> QED BY <1>4, <1>6, <1>7, <1>8 DEF Belongs

LEMMA OffBelongs == ASSUME Belongs, Off, UNCHANGED disk PROVE Belongs'
<1>1. Pending' = {} /\ main'.at = "off" /\ worker'.at = "idle"
  BY DEF Off, Pending
<1>2. Aged' /\ Valid' /\ LockedCurrent' /\ Unlinked'
  BY <1>1 DEF Aged, Valid, LockedCurrent, Unlinked, Locked
<1>3. AllPaired' /\ Importing' /\ Together'
  BY <1>1 DEF Belongs, AllPaired, PictureMatches, Paired, Importing, Together, disk
<1> QED BY <1>2, <1>3 DEF Belongs

LEMMA QueueBelongs ==
  ASSUME Typed, Belongs, Take \/ \E c \in captures : Captured(c)
  PROVE  Belongs'
<1>1. CASE Take
  <2>1. /\ Head(queue) = queue[1] /\ 1 \in 1..Len(queue)
        /\ \A i \in 1..Len(Tail(queue)) : i + 1 \in 1..Len(queue) /\ Tail(queue)[i] = queue[i + 1]
    BY <1>1 DEF Take, Typed, JobsOK
  <2>2. Pending' \subseteq Pending
    BY <1>1, <2>1 DEF Take, Pending
  <2>3. LockedCurrent'
    BY <1>1 DEF Take, LockedCurrent, Locked
  <2> QED BY <1>1, <2>2, <2>3, FewerJobs DEF Take
<1>2. ASSUME NEW c \in captures, Captured(c) PROVE Belongs'
  <2>1. UNCHANGED <<disk, gens, main, worker>> /\ captures' \subseteq captures
    BY <1>2 DEF Captured
  <2>2. queue' = queue \/ queue' = Append(queue, c)
    BY <1>2 DEF Captured, Enqueue
  <2>3. c \in Job /\ queue \in Seq(Job)
    BY DEF Typed, JobsOK
  <2>4. \A i \in 1..Len(queue') : queue'[i] = c \/ (i \in 1..Len(queue) /\ queue'[i] = queue[i])
    BY <2>2, <2>3
  <2>5. Pending' \subseteq Pending
    BY <2>1, <2>4 DEF Pending
  <2>6. LockedCurrent'
    BY <2>1, SameGens DEF Belongs
  <2> QED BY <2>1, <2>5, <2>6, FewerJobs
<1> QED BY <1>1, <1>2

(* What the worker writes belongs to the save that lies there.             *)
LEMMA WrittenPicture ==
  ASSUME Typed, Belongs, worker.at \in Locked
  PROVE  LET s == worker.job.slot IN
         /\ s \in Slots /\ worker.job.save \in Saves
         /\ target \in Directory /\ target # None
         /\ target.saved[s] = worker.job.save /\ ~Touches(s) /\ Paired(target)
<1>1. worker.job \in Pending /\ worker.job \in Job
  BY PendingTyped DEF Pending, Locked
<1>2. IsCurrent(worker.job)
  BY DEF Belongs, LockedCurrent
<1> QED BY <1>1, <1>2 DEF Belongs, Valid, AllPaired, PictureMatches, Typed, DiskOK, Job

LEMMA LandBelongs ==
  ASSUME Typed, Belongs, MakeDirectory \/ WriteTemporary \/ Written
  PROVE  Belongs'
<1> DEFINE s == worker.job.slot
<1>1. /\ worker.at \in Locked /\ UNCHANGED <<gens, captures, queue, main>>
      /\ previous' = previous
      /\ worker'.job = worker.job
  BY DEF MakeDirectory, WriteTemporary, Written, Locked, WorkerFails, WorkerAt, Typed, JobsOK, disk
<1>2. Pending' \subseteq Pending
  BY <1>1 DEF Pending, Locked
<1>3. /\ s \in Slots /\ worker.job.save \in Saves /\ target \in Directory /\ target # None
      /\ target.saved[s] = worker.job.save /\ ~Touches(s) /\ Paired(target)
  BY <1>1, WrittenPicture
<1>4. LockedCurrent'
  BY <1>1 DEF Belongs, LockedCurrent, IsCurrent, Current
<1>5. /\ target' # None /\ target'.saved = target.saved
      /\ \A r \in Slots : r # s => target'.picture[r] = target.picture[r]
      /\ target'.picture[s] \in {target.picture[s], worker.job.save}
  <2>1. CASE target' = target
    BY <1>3, <2>1
  <2>2. CASE target' = [target EXCEPT !.temp = @ \cup {s}]
    <3>1. target' \in Directory
      BY <1>3, <2>2, Directories
    <3> QED BY <1>3, <2>2, <3>1, Absent DEF Directory
  <2>3. CASE target' = [target EXCEPT !.temp = @ \ {s}, !.picture[s] = worker.job.save]
    <3>1. target' \in Directory
      BY <1>3, <2>3, Directories
    <3> QED BY <1>3, <2>3, <3>1, Absent DEF Directory
  <2> QED BY <1>3, <2>1, <2>2, <2>3
          DEF MakeDirectory, WriteTemporary, Written, Holder, WorkerFails, disk
<1>6. Paired(target')
  BY <1>3, <1>5 DEF Paired
<1>7. Aged' /\ Valid'
  BY <1>1, <1>2, <1>5, SameGens DEF Belongs, Valid, Touches
<1>8. Unlinked'
  <2>1. main.at = "write" => main.slot # s /\ main.slot \in Slots
    BY <1>3 DEF Touches, Typed, MainOK
  <2> QED BY <1>1, <1>3, <1>5, <2>1 DEF Belongs, Unlinked
<1>9. AllPaired' /\ Importing' /\ Together'
  <2>1. worker.job \in Pending
    BY <1>1 DEF Pending, Locked
  <2> QED BY <1>1, <1>6, <2>1
          DEF Belongs, AllPaired, PictureMatches, Paired, Importing, Together, ImportSteps
<1> QED BY <1>4, <1>7, <1>8, <1>9 DEF Belongs

LEMMA CommitBelongs == ASSUME Typed, Belongs, CommitIfCurrent PROVE Belongs'
<1>1. worker'.job = worker.job /\ worker'.at \in {"mkdir", "idle"}
      /\ (worker'.at = "mkdir" => IsCurrent(worker.job))
  BY DEF CommitIfCurrent, WorkerAt, Typed, JobsOK, IsCurrent
<1>2. Pending' \subseteq Pending
  BY <1>1 DEF CommitIfCurrent, Pending
<1>3. LockedCurrent'
  BY <1>1 DEF CommitIfCurrent, LockedCurrent, Locked, IsCurrent, Current
<1> QED BY <1>2, <1>3, FewerJobs DEF CommitIfCurrent

LEMMA RestBelongs ==
  ASSUME Belongs, UNCHANGED <<disk, gens, pictures, main>> PROVE Belongs'
<1>1. Pending' = Pending /\ worker' = worker
  BY DEF pictures, Pending
<1>2. LockedCurrent'
  BY <1>1, SameGens DEF Belongs
<1> QED BY <1>1, <1>2, FewerJobs

LEMMA NextBelongs == Typed /\ Belongs /\ ~Overlap /\ [Next]_vars => Belongs'
<1> SUFFICES ASSUME Typed, Belongs, ~Overlap, [Next]_vars PROVE Belongs'
  OBVIOUS
<1>1. CASE UNCHANGED vars
  BY <1>1, RestBelongs DEF vars, disk, pictures
<1>2. CASE Running \/ Dies
  BY <1>2, NextTyped, PrepareBelongs, UnlinkBelongs, WriteBelongs, RemovalBelongs, ImportBelongs,
     OffBelongs DEF Running, Joined, Dies
<1>3. CASE Working \/ \E c \in captures : Captured(c)
  BY <1>3, QueueBelongs, CommitBelongs, LandBelongs DEF Working
<1>4. CASE \/ \E s \in Slots, kind \in SaveKinds : Save(kind, s)
           \/ \E s \in Slots : Delete(s)
           \/ Clear \/ ExitAtTitle
  <2>1. /\ UNCHANGED <<disk, gens, pictures>> /\ main.at = "idle"
        /\ main'.at \in {"lock", "drain"}
    BY <1>4 DEF Save, Delete, Clear, Begin, ExitAtTitle, At, Typed, MainOK
  <2> QED BY <2>1, GoesOn
<1>5. CASE Loading \/ Player
  BY <1>4, <1>5, ViewTyped, RestBelongs, ImportBelongs DEF Player
<1> QED BY <1>1, <1>2, <1>3, <1>5 DEF Next

LEMMA InitBelongs == Init => Belongs
<1> SUFFICES ASSUME Init PROVE Belongs
  OBVIOUS
<1>1. Pending = {} /\ main.at = "off" /\ worker.at = "idle" /\ target = None /\ previous = None
  BY DEF Init, Pending
<1> QED BY <1>1 DEF Belongs, Aged, Valid, LockedCurrent, Locked, Unlinked, AllPaired,
        PictureMatches, Importing, Together

-------------------------------------------------------------------------------
(* Only a picture that lands makes a picture, and it lands beside its save. *)
Pictureless ==
  main.at \notin {"install", "undo", "off"} /\ target' # None =>
    \A s \in Slots : target'.saved[s] = None /\ OnDisk(s) = None => target'.picture[s] = None

LEMMA SameDirectory == Typed /\ target' \in {target, EmptyDir} => Pictureless
BY DEF Pictureless, OnDisk, EmptyDir
LEMMA EditedDirectory ==
  ASSUME NEW d \in Directory, NEW s \in Slots, NEW v,
         target # None => d = target, target = None => d = EmptyDir,
         \/ target' = [d EXCEPT !.saved[s] = v]
         \/ target' = [d EXCEPT !.picture[s] = None]
         \/ target' = [d EXCEPT !.temp = @ \cup {s}]
  PROVE  Pictureless
<1>1. \A r \in Slots : target'.picture[r] \in {d.picture[r], None}
  BY DEF Directory
<1>2. \A r \in Slots : OnDisk(r) = None => d.picture[r] = None
  BY DEF OnDisk, EmptyDir
<1> QED BY <1>1, <1>2 DEF Pictureless
LEMMA WrittenDirectory ==
  ASSUME Typed, Belongs, Written PROVE Pictureless
<1> DEFINE s == worker.job.slot
<1>1. /\ s \in Slots /\ worker.job.save \in Saves /\ target \in Directory
      /\ target.saved[s] = worker.job.save
  BY WrittenPicture DEF Written, Locked
<1>2. CASE target' = target
  BY <1>2, SameDirectory
<1>3. CASE target' = [target EXCEPT !.temp = @ \ {s}, !.picture[s] = worker.job.save]
  <2>1. target'.saved = target.saved /\ \A r \in Slots : r # s => target'.picture[r] = target.picture[r]
    BY <1>1, <1>3 DEF Directory
  <2>2. target'.saved[s] # None
    BY <1>1, <2>1, Names
  <2>3. target # None
    BY <1>1, Directories
  <2> QED BY <2>1, <2>2, <2>3 DEF Pictureless, OnDisk
<1> QED BY <1>2, <1>3 DEF Written, WorkerFails, disk

LEMMA NextPictureless == Typed /\ Belongs /\ [Next]_vars => Pictureless
<1> SUFFICES ASSUME Typed, Belongs, [Next]_vars PROVE Pictureless
  OBVIOUS
<1>1. CASE UNCHANGED vars
  BY <1>1, SameDirectory DEF vars
<1>2. main.slot \in Slots /\ Holder \in Directory
      /\ (target # None => target \in Directory /\ Holder = target)
      /\ (target = None => Holder = EmptyDir)
  BY Directories DEF Typed, MainOK, DiskOK, Holder
<1>3. CASE PrepareSlot \/ Unlink \/ WriteState
  <2>1. \/ target' \in {target, EmptyDir}
        \/ target # None /\ target' = [target EXCEPT !.picture[main.slot] = None]
        \/ target' = [Holder EXCEPT !.saved[main.slot] = ops]
    BY <1>3, <1>2 DEF PrepareSlot, Unlink, WriteState, disk
  <2> QED BY <1>2, <2>1, SameDirectory, EditedDirectory
<1>4. CASE BeginDelete \/ DeleteState \/ DeletePicture
  <2>1. target # None
    BY <1>4 DEF Typed, StepOK, BeginDelete, DeleteState, DeletePicture
  <2>2. \/ target' = target
        \/ target' = [target EXCEPT !.saved[main.slot] = None]
        \/ target' = [target EXCEPT !.picture[main.slot] = None]
    BY <1>4 DEF BeginDelete, DeleteState, DeletePicture, disk
  <2> QED BY <1>2, <2>1, <2>2, SameDirectory, EditedDirectory
<1>5. CASE BeginClear \/ ClearFile \/ Cleared
  <2>1. CASE target' = target
    BY <2>1, SameDirectory
  <2>2. CASE target # None /\ target' \in Removed
    <3>1. PICK s \in Slots : \/ target' = [target EXCEPT !.saved[s] = None]
                             \/ target' = [target EXCEPT !.picture[s] = None]
      BY <2>2 DEF Removed
    <3> QED BY <1>2, <2>2, <3>1, EditedDirectory
  <2> QED BY <1>5, <2>1, <2>2 DEF BeginClear, ClearFile, Cleared, Empty, disk
<1>6. CASE Import \/ Aside \/ Install \/ Undo \/ Cleanup \/ Finish \/ Launch
  <2>1. \/ main.at \in {"install", "undo", "off"}
        \/ target' \in {target, None}
    BY <1>6 DEF Import, Aside, Install, Undo, Cleanup, Finish, Launch, Recovered, disk,
       Belongs, Together
  <2> QED BY <2>1, SameDirectory DEF Pictureless
<1>7. CASE Working
  <2>1. CASE Take \/ CommitIfCurrent
    BY <2>1, SameDirectory DEF Take, CommitIfCurrent, disk
  <2>2. CASE MakeDirectory \/ WriteTemporary
    <3>1. worker.job.slot \in Slots
      BY DEF Typed, JobsOK, Job
    <3>2. \/ target' \in {target, EmptyDir}
          \/ target # None /\ target' = [target EXCEPT !.temp = @ \cup {worker.job.slot}]
      BY <1>2, <2>2 DEF MakeDirectory, WriteTemporary, WorkerFails, disk
    <3> QED BY <1>2, <3>1, <3>2, SameDirectory, EditedDirectory
  <2> QED BY <1>7, <2>1, <2>2, WrittenDirectory DEF Working
<1>8. CASE Loading \/ Dies \/ Joined \/ \E c \in captures : Captured(c)
  BY <1>8, SameDirectory, ViewTyped DEF Dies, Joined, Captured, disk
<1>9. CASE Player
  BY <1>6, <1>9, SameDirectory, ViewTyped
     DEF Player, Save, Delete, Clear, Begin, ExitAtTitle, disk
<1> QED BY <1>1, <1>3, <1>4, <1>5, <1>6, <1>7, <1>8, <1>9 DEF Next, Running

-------------------------------------------------------------------------------
(* What the title and the save screen show keeps its types.                *)
ViewOK ==
  /\ quick \in Continue
  /\ cards \in [ready : [Cards -> Card \cup {None}], pending : [Cards -> Task \cup {None}]]
  /\ title \in BOOLEAN

LEMMA ViewParts == TypeOK <=> DiskOK /\ JobsOK /\ GensOK /\ MainOK /\ ViewOK
BY DEF TypeOK, DiskOK, JobsOK, GensOK, MainOK, ViewOK

LEMMA Views ==
  ASSUME ViewOK
  PROVE  /\ NoQuick \in Continue /\ NoImage \in Continue
         /\ NoCard \in [ready : [Cards -> Card \cup {None}], pending : [Cards -> Task \cup {None}]]
         /\ \A s \in Slots :
              Forget(s) \in [ready : [Cards -> Card \cup {None}], pending : [Cards -> Task \cup {None}]]
         /\ \A v \in Saves \cup {None} :
              [quick EXCEPT !.image = v, !.late = FALSE] \in Continue
BY DEF ViewOK, Continue, NoQuick, NoImage, NoCard, Forget

LEMMA OnDiskTyped == Typed => \A s \in Slots : OnDisk(s) \in Saves \cup {None}
BY DEF Typed, DiskOK, Directory, OnDisk

LEMMA CardTyped ==
  ASSUME Typed, ViewOK, NEW c \in Cards, RequestCard(c) \/ ReadCard(c) \/ PollCard(c)
  PROVE  ViewOK'
<1>1. c \in Slots /\ OnDisk(c) \in Saves \cup {None}
  BY OnDiskTyped DEF Slots
<1>2. quick' = quick /\ title' = title
  BY DEF RequestCard, ReadCard, PollCard
<1>3. CASE RequestCard(c)
  <2>1. [modified |-> OnDisk(c), save |-> None, read |-> FALSE] \in Task
    BY <1>1, <1>3 DEF RequestCard, Task
  <2> QED BY <1>2, <1>3, <2>1 DEF RequestCard, ViewOK
<1>4. CASE ReadCard(c)
  <2>1. cards.pending[c] \in Task
    BY <1>4 DEF ReadCard, ViewOK
  <2>2. [cards.pending[c] EXCEPT !.read = TRUE, !.save = OnDisk(c)] \in Task
    BY <1>1, <2>1 DEF Task
  <2>3. cards' = [cards EXCEPT !.pending[c] =
                    [cards.pending[c] EXCEPT !.read = TRUE, !.save = OnDisk(c)]]
    BY <1>4, <2>1 DEF ReadCard, ViewOK
  <2> QED BY <1>2, <2>2, <2>3 DEF ViewOK
<1>5. CASE PollCard(c)
  <2>1. cards.pending[c] \in Task
    BY <1>5 DEF PollCard, ViewOK
  <2>2. cards.pending[c].save # None =>
          [modified |-> cards.pending[c].modified, save |-> cards.pending[c].save] \in Card
    BY <2>1 DEF Task, Card
  <2> QED BY <1>2, <1>5, <2>2 DEF PollCard, ViewOK
<1> QED BY <1>3, <1>4, <1>5

LEMMA NextView == Typed /\ ViewOK /\ [Next]_vars => ViewOK'
<1> SUFFICES ASSUME Typed, ViewOK, [Next]_vars PROVE ViewOK'
  OBVIOUS
<1>1. CASE UNCHANGED view
  BY <1>1 DEF view, ViewOK
<1>2. CASE Unlink \/ WriteState
  <2>1. main.slot \in Slots
    BY DEF Typed, MainOK
  <2>2. title' \in BOOLEAN
    BY <1>2 DEF Unlink, WriteState, BackAtTitle, ViewOK
  <2>3. /\ quick' = quick \/ quick' = NoImage
        /\ cards' = cards \/ cards' = Forget(main.slot)
    BY <1>2 DEF Unlink, WriteState, Show
  <2> QED BY <2>1, <2>2, <2>3, Views DEF ViewOK
<1>3. CASE BeginDelete
  <2>1. main.slot \in Slots
    BY DEF Typed, MainOK
  <2> QED BY <1>3, <2>1, Views DEF BeginDelete, ViewOK
<1>4. CASE Cleared \/ Finish
  BY <1>4, Views DEF Cleared, Finish, ViewOK
<1>5. CASE Joined \/ Dies
  BY <1>5, Views DEF Joined, Dies, Off, ViewOK
<1>6. ASSUME NEW c \in captures, Captured(c) PROVE ViewOK'
  <2>1. c \in Job /\ c.slot \in Slots /\ c.save \in Saves
    BY DEF Typed, JobsOK, Job
  <2>2. CASE c.gen # Current(c.slot)
    BY <1>6, <2>2 DEF Captured, ViewOK
  <2>3. CASE c.gen = Current(c.slot) /\ c.slot = Quick
    <3>1. /\ quick' = [quick EXCEPT !.image = c.save, !.late = FALSE]
          /\ cards' = cards /\ title' = title
      BY <1>6, <2>3 DEF Captured
    <3>2. [quick EXCEPT !.image = c.save, !.late = FALSE] \in Continue
      BY <2>1, Views
    <3> QED BY <3>1, <3>2 DEF ViewOK
  <2>4. CASE c.gen = Current(c.slot) /\ c.slot # Quick
    <3>1. c.slot \in Cards /\ [modified |-> None, save |-> c.save] \in Card
      BY <2>1, <2>4 DEF Slots, Card
    <3>2. Forget(c.slot) \in [ready : [Cards -> Card \cup {None}], pending : [Cards -> Task \cup {None}]]
      BY <2>1, Views
    <3>3. cards' = [Forget(c.slot) EXCEPT !.ready[c.slot] = [modified |-> None, save |-> c.save]]
          /\ UNCHANGED <<quick, title>>
      BY <1>6, <2>4 DEF Captured
    <3> QED BY <3>1, <3>2, <3>3 DEF ViewOK
  <2> QED BY <2>2, <2>3, <2>4
<1>7. CASE TurnPage \/ HoverContinue \/ LeaveTitle \/ ShowTitle \/ ReadQuick \/ PollQuick
  <2>1. OnDisk(Quick) \in Saves \cup {None}
    BY OnDiskTyped DEF Slots
  <2>2. CASE TurnPage \/ LeaveTitle \/ ShowTitle
    BY <2>2, Views DEF TurnPage, LeaveTitle, ShowTitle, ViewOK
  <2>3. CASE HoverContinue \/ ReadQuick
    BY <2>1, <2>3 DEF HoverContinue, ReadQuick, ViewOK, Continue
  <2>4. CASE PollQuick
    BY <2>4 DEF PollQuick, ViewOK, Continue
  <2> QED BY <1>7, <2>2, <2>3, <2>4
<1>8. CASE \E c \in Cards : RequestCard(c) \/ ReadCard(c) \/ PollCard(c)
  BY <1>8, CardTyped
<1>9. CASE \/ PrepareSlot \/ DeleteState \/ DeletePicture \/ BeginClear \/ ClearFile
           \/ Import \/ Aside \/ Install \/ Undo \/ Cleanup \/ Launch \/ ExitAtTitle \/ Working
           \/ \E s \in Slots, kind \in SaveKinds : Save(kind, s)
           \/ \E s \in Slots : Delete(s)
           \/ Clear \/ UNCHANGED vars
  <2>1. UNCHANGED view
    BY <1>9 DEF PrepareSlot, DeleteState, DeletePicture, BeginClear, ClearFile, Import, Aside,
       Install, Undo, Cleanup, Launch, ExitAtTitle, Working, Take, CommitIfCurrent, MakeDirectory,
       WriteTemporary, Written, Save, Delete, Clear, Begin, view, vars
  <2> QED BY <1>1, <2>1
<1> QED BY <1>2, <1>3, <1>4, <1>5, <1>6, <1>7, <1>8, <1>9 DEF Next, Running, Loading, Player

-------------------------------------------------------------------------------
LEMMA InitView == Init => ViewOK
BY DEF Init, ViewOK, Continue, NoQuick, NoCard

(* Slots, queue, generations and what is shown keep their types; saves are *)
(* only deleted from a directory that is there.                            *)
THEOREM PreviewTyped == Spec => []TypeOK
<1>1. Typed /\ ViewOK => TypeOK
  BY ViewParts DEF Typed
<1> QED BY InitTyped, InitView, NextTyped, NextView, <1>1, PTL DEF Spec

(* No order of saves, deletions, clearings, encodings, failures and crashes *)
(* pairs a save with another one's picture, when no import overlaps a      *)
(* thumbnail (commit_if_current, prepare_for_slot_write).                  *)
THEOREM PicturesMatch == ASSUME ~Overlap PROVE Spec => []PictureMatches
<1>1. Belongs => PictureMatches
  BY DEF Belongs, AllPaired
<1> QED BY InitTyped, InitBelongs, NextTyped, NextBelongs, <1>1, PTL DEF Spec

(* A slot without a save gets no picture from a late worker.               *)
THEOREM NothingResurrected == ASSUME ~Overlap PROVE Spec => NoResurrection
<1>1. Typed /\ Belongs /\ [Next]_vars =>
        [ main.at \notin {"install", "undo", "off"} /\ target' # None =>
            \A s \in Slots : target'.saved[s] = None /\ OnDisk(s) = None =>
                               target'.picture[s] = None ]_vars
  BY NextPictureless DEF Pictureless
<1> QED BY InitTyped, InitBelongs, NextTyped, NextBelongs, <1>1, PTL DEF Spec, NoResurrection

(* Between two commands there is no second directory that the next         *)
(* recovery would delete or bring back (backup::import, recover).          *)
THEOREM OneSaveDirectory == ASSUME ~Overlap PROVE Spec => []OneDirectory
<1>1. Belongs => OneDirectory
  BY DEF Belongs, Together, OneDirectory
<1> QED BY InitTyped, InitBelongs, NextTyped, NextBelongs, <1>1, PTL DEF Spec

-------------------------------------------------------------------------------
(* What the screens show belongs to the save beside it.  A command writes   *)
(* one slot and forgets its card; everything else only removes saves, until *)
(* an import replaces them all.                                            *)

(* The directory a command leaves or puts back, whichever name it has now. *)
Kept == IF target = None THEN previous ELSE target
Fits(d, s, v) == v # None /\ d # None => d.saved[s] \in {None, v}
CardFits(c) ==
  /\ Shown(c) # None => Fits(Kept, c, Shown(c).save)
  /\ cards.pending[c] # None => Fits(Kept, c, cards.pending[c].save)
(* The imported directory is in place, the screens still show the old one. *)
Replaced == {"cleanup", "finish"}
CardsFit == main.at \notin Replaced => \A c \in Cards : CardFits(c)
(* A picture is there once it is read.  What a load no command overtook has *)
(* read fits, and so does what is shown unless an overtaken load showed it; *)
(* an exit does not show what it saved.                                    *)
Reads ==
  /\ quick.task # "read" => quick.loaded = None
  /\ quick.task = "none" => ~quick.overtaken
TitleFits ==
  main.at \notin Replaced \cup {"drain"} =>
    /\ ~quick.late => Fits(Kept, Quick, quick.image)
    /\ ~quick.overtaken => Fits(Kept, Quick, quick.loaded)

(* A slot keeps its save or loses it.                                      *)
Lasts(s) ==
  Kept' # None => \/ Kept'.saved[s] = None
                  \/ Kept # None /\ Kept'.saved[s] = Kept.saved[s]
LEMMA FitsOn ==
  ASSUME NEW s, NEW v, Lasts(s), Fits(Kept, s, v)
  PROVE  Fits(Kept', s, v)
BY DEF Lasts, Fits

LEMMA EditLasts ==
  ASSUME NEW s \in Slots, NEW d \in Directory, NEW r \in Slots, NEW v \in Saves \cup {None},
         target # None => d = target, target = None => d = EmptyDir,
         \/ target' = d
         \/ target' = [d EXCEPT !.saved[r] = v] /\ (r = s => v = None)
         \/ target' = [d EXCEPT !.picture[r] = v]
         \/ target' = [d EXCEPT !.temp = @ \cup {r}]
         \/ v # None /\ target' = [d EXCEPT !.temp = @ \ {r}, !.picture[r] = v]
  PROVE  Lasts(s)
<1>1. target'.saved[s] \in {d.saved[s], None}
  BY DEF Directory
<1>2. target' # None
  <2>1. /\ [d EXCEPT !.saved[r] = v] \in Directory
        /\ [d EXCEPT !.picture[r] = v] \in Directory
        /\ [d EXCEPT !.temp = @ \cup {r}] \in Directory
        /\ v # None => [d EXCEPT !.temp = @ \ {r}, !.picture[r] = v] \in Directory
    BY Directories
  <2>. QED  BY <2>1, Directories
<1>3. target = None => d.saved[s] = None
  BY DEF EmptyDir
<1>. QED  BY <1>1, <1>2, <1>3 DEF Lasts, Kept

(* Every other step keeps the saves.                                       *)
LEMMA SameLasts == ASSUME NEW s, Kept' = Kept PROVE Lasts(s)
BY DEF Lasts

LEMMA NextLasts ==
  ASSUME Typed, Belongs, [Next]_vars, main'.at # "cleanup", NEW s \in Slots,
         ~(WriteState /\ main.slot = s)
  PROVE  Lasts(s)
<1>1. main.slot \in Slots /\ Holder \in Directory
      /\ (target # None => target \in Directory /\ Holder = target)
      /\ (target = None => Holder = EmptyDir)
  BY Directories DEF Typed, MainOK, DiskOK, Holder
<1>2. CASE UNCHANGED disk
  BY <1>2, SameLasts DEF disk, Kept
<1>3. CASE Unlink \/ DeleteState \/ DeletePicture
  <2>1. target # None => \/ target' = target
                         \/ target' = [target EXCEPT !.saved[main.slot] = None]
                         \/ target' = [target EXCEPT !.picture[main.slot] = None]
    BY <1>3 DEF Unlink, DeleteState, DeletePicture
  <2>2. CASE target # None
    BY <1>1, <2>1, <2>2, EditLasts
  <2>3. CASE target = None
    <3>1. UNCHANGED disk
      BY <1>3, <2>3 DEF Unlink, DeleteState, DeletePicture, Typed, StepOK, disk
    <3>. QED  BY <1>2, <3>1
  <2>. QED  BY <2>2, <2>3
<1>4. CASE WriteState
  <2>1. ops \in Saves
    BY <1>4 DEF WriteState, Typed, StepOK, MainOK, Saves
  <2>2. target' = [Holder EXCEPT !.saved[main.slot] = ops] \/ target' = Holder
    BY <1>4 DEF WriteState
  <2>. QED  BY <1>1, <1>4, <2>1, <2>2, EditLasts
<1>5. CASE ClearFile
  <2>1. target # None /\ (target' \in Removed \/ target' = target)
    BY <1>5 DEF ClearFile, Empty
  <2>2. PICK r \in Slots : \/ target' = [target EXCEPT !.saved[r] = None]
                           \/ target' = [target EXCEPT !.picture[r] = None]
                           \/ target' = target
    BY <1>1, <2>1 DEF Removed
  <2>. QED  BY <1>1, <2>1, <2>2, EditLasts
<1>6. CASE Import \/ Launch
  BY <1>6, SameLasts DEF Import, Launch, Recovered, Kept
<1>7. CASE Aside \/ Undo
  <2>1. Aside => previous = None
    BY DEF Aside, Belongs, Together
  <2>2. Undo => target = None
    BY DEF Undo, Belongs, Importing
  <2>3. Kept' = Kept
    BY <1>7, <2>1, <2>2 DEF Aside, Undo, Kept, disk
  <2>. QED  BY <2>3, SameLasts
<1>8. CASE Install
  BY <1>2, <1>8 DEF Install, At, disk, Typed, MainOK
<1>9. CASE Cleanup
  BY <1>9 DEF Cleanup, Lasts, Kept
<1>10. CASE MakeDirectory \/ WriteTemporary \/ Written
  <2>1. worker.job.slot \in Slots /\ worker.job.save \in Saves /\ None \notin Saves
    BY Names DEF Typed, JobsOK, Job
  <2>2. \/ UNCHANGED disk
        \/ target' = Holder
        \/ target # None /\ target' = [target EXCEPT !.temp = @ \cup {worker.job.slot}]
        \/ /\ target # None
           /\ target' = [target EXCEPT !.temp = @ \ {worker.job.slot},
                                       !.picture[worker.job.slot] = worker.job.save]
    BY <1>10 DEF MakeDirectory, WriteTemporary, Written, WorkerFails, TemporaryLost, disk
  <2>. QED  BY <1>1, <1>2, <2>1, <2>2, EditLasts
<1>11. CASE \/ PrepareSlot \/ BeginDelete \/ BeginClear \/ Cleared \/ Finish \/ Joined
            \/ Take \/ CommitIfCurrent \/ Loading \/ Dies
            \/ \E c \in captures : Captured(c)
  BY <1>2, <1>11, ViewTyped DEF PrepareSlot, BeginDelete, BeginClear, Cleared, Finish, Joined,
     Take, CommitIfCurrent, Dies, Captured, disk
<1>12. CASE Player
  BY <1>2, <1>6, <1>12, ViewTyped DEF Player, Save, Delete, Clear, Begin, ExitAtTitle, disk
<1>13. CASE UNCHANGED vars
  BY <1>2, <1>13 DEF vars, disk
<1>. QED
  BY <1>3, <1>4, <1>5, <1>6, <1>7, <1>8, <1>9, <1>10, <1>11, <1>12, <1>13
     DEF Next, Running, Working

(* A command on a slot begins, and ends, with a card that is forgotten.    *)
LEMMA CardKept ==
  ASSUME CardsFit, main.at \notin Replaced, NEW c \in Cards, Lasts(c),
         cards'.ready[c] \in {cards.ready[c], None},
         cards'.pending[c] \in {cards.pending[c], None}
  PROVE  CardFits(c)'
<1>1. CardFits(c)
  BY DEF CardsFit
<1>. QED  BY <1>1, FitsOn DEF CardFits, Shown

LEMMA Blanked ==
  /\ \A c \in Cards : NoCard.ready[c] = None /\ NoCard.pending[c] = None
  /\ \A s, c \in Cards :
       /\ Forget(s).ready[c] = IF c = s THEN None ELSE cards.ready[c]
       /\ Forget(s).pending[c] = IF c = s THEN None ELSE cards.pending[c]
BY DEF NoCard, Forget

LEMMA SavedFits ==
  ASSUME Belongs, NEW s \in Slots
  PROVE  target # None => Fits(target, s, OnDisk(s))
BY DEF Fits, OnDisk, Belongs, AllPaired, PictureMatches, Paired

LEMMA LoadedFits ==
  ASSUME Typed, ViewOK, Belongs, CardsFit, main'.at \notin Replaced, NEW c \in Cards,
         NEW d \in Cards, RequestCard(d) \/ ReadCard(d) \/ PollCard(d), Lasts(c)
  PROVE  CardFits(c)'
<1>1. main' = main /\ main.at \notin Replaced /\ UNCHANGED disk /\ Kept' = Kept
  BY DEF RequestCard, ReadCard, PollCard, Kept, disk
<1>2. CardFits(c) /\ c \in Slots
  BY <1>1 DEF CardsFit, Slots
<1>3. /\ cards \in [ready : [Cards -> Card \cup {None}], pending : [Cards -> Task \cup {None}]]
      /\ DOMAIN cards.ready = Cards /\ DOMAIN cards.pending = Cards
  BY DEF ViewOK
<1>4. CASE c # d
  <2>1. RequestCard(d) \/ ReadCard(d) =>
          cards'.ready[c] = cards.ready[c] /\ cards'.pending[c] = cards.pending[c]
    BY <1>3, <1>4 DEF RequestCard, ReadCard
  <2>2. PollCard(d) =>
          cards'.ready[c] = cards.ready[c] /\ cards'.pending[c] = cards.pending[c]
    BY <1>3, <1>4 DEF PollCard
  <2>. QED  BY <1>1, <2>1, <2>2, CardKept
<1>5. CASE c = d /\ RequestCard(d)
  <2>1. cards'.ready[c] = cards.ready[c] /\ cards'.pending[c].save = None
    BY <1>3, <1>5 DEF RequestCard
  <2>. QED  BY <1>1, <1>2, <2>1 DEF CardFits, Shown, Fits
<1>6. CASE c = d /\ ReadCard(d)
  <2>1. cards.pending[c] \in Task /\ cards.pending[c] # None
    BY <1>3, <1>6 DEF ReadCard
  <2>2. cards'.ready[c] = cards.ready[c] /\ cards'.pending[c].save = OnDisk(c)
    BY <1>3, <1>6, <2>1 DEF ReadCard, Task
  <2>3. Fits(Kept, c, OnDisk(c))
    BY <1>2, SavedFits DEF Kept, OnDisk, Fits
  <2>. QED  BY <1>1, <1>2, <2>2, <2>3 DEF CardFits, Shown
<1>7. CASE c = d /\ PollCard(d)
  <2>1. cards'.pending[c] = None
    BY <1>3, <1>7 DEF PollCard
  <2>2. \/ cards'.ready[c] = cards.ready[c]
        \/ cards.pending[c] # None /\ cards'.ready[c].save = cards.pending[c].save
    BY <1>3, <1>7 DEF PollCard
  <2>. QED  BY <1>1, <1>2, <2>1, <2>2 DEF CardFits, Shown
<1>. QED  BY <1>4, <1>5, <1>6, <1>7

LEMMA TakenFits ==
  ASSUME Typed, ViewOK, Belongs, NEW j \in captures, Captured(j), IsCurrent(j)
  PROVE  /\ Kept' = Kept /\ Fits(Kept, j.slot, j.save)
         /\ j.slot = Quick => /\ quick'.image = j.save /\ quick'.loaded = quick.loaded
                              /\ quick'.overtaken = quick.overtaken
         /\ \A c \in Cards :
              /\ c = j.slot => cards'.ready[c].save = j.save /\ cards'.pending[c] = None
              /\ c # j.slot => /\ cards'.ready[c] = cards.ready[c]
                               /\ cards'.pending[c] = cards.pending[c]
<1>1. j \in Pending /\ j \in Job
  BY PendingTyped DEF Pending
<1>2. target # None /\ target.saved[j.slot] = j.save
  BY <1>1 DEF Belongs, Valid
<1>3. Kept' = Kept /\ Fits(Kept, j.slot, j.save)
  BY <1>2 DEF Captured, Kept, Fits, disk
<1>4. j.slot = Quick => /\ quick'.image = j.save /\ quick'.loaded = quick.loaded
                        /\ quick'.overtaken = quick.overtaken
  BY DEF Captured, IsCurrent, ViewOK, Continue
<1>5. CASE j.slot = Quick
  BY <1>3, <1>4, <1>5, Names DEF Captured, IsCurrent
<1>6. CASE j.slot # Quick
  <2>1. j.slot \in Cards
    BY <1>1, <1>6 DEF Job, Slots
  <2>2. cards' = [Forget(j.slot) EXCEPT !.ready[j.slot] = [modified |-> None, save |-> j.save]]
    BY <1>6 DEF Captured, IsCurrent
  <2>3. ASSUME NEW c \in Cards
        PROVE  /\ c = j.slot => cards'.ready[c].save = j.save /\ cards'.pending[c] = None
               /\ c # j.slot => /\ cards'.ready[c] = cards.ready[c]
                                /\ cards'.pending[c] = cards.pending[c]
    BY <2>1, <2>2, <2>3 DEF Forget
  <2>. QED  BY <1>3, <1>6, <2>3
<1>. QED  BY <1>3, <1>4, <1>5, <1>6

LEMMA NextCardsFit ==
  Typed /\ ViewOK /\ Belongs /\ CardsFit /\ "dirsync" \notin MayFail /\ [Next]_vars => CardsFit'
<1>. SUFFICES ASSUME Typed, ViewOK, Belongs, CardsFit, "dirsync" \notin MayFail, [Next]_vars,
                     main'.at \notin Replaced, NEW c \in Cards
              PROVE  CardFits(c)'
  BY DEF CardsFit, Replaced
<1>1. c \in Slots /\ main'.at # "cleanup" /\ main.slot \in Slots
  BY DEF Slots, Replaced, Typed, MainOK
<1>2. ASSUME cards' = NoCard PROVE CardFits(c)'
  BY <1>2, Blanked DEF CardFits, Shown
<1>3. CASE Cleared \/ Finish \/ Joined \/ Dies \/ TurnPage
  BY <1>2, <1>3 DEF Cleared, Finish, Joined, Dies, Off, TurnPage
<1>4. CASE WriteState
  <2>1. main.at \notin Replaced
    BY <1>4 DEF WriteState, Replaced
  <2>2. CASE main.slot # c
    <3>1. Lasts(c)
      BY <1>1, <2>2, NextLasts
    <3>2. cards' = cards \/ (main.slot \in Cards /\ cards' = Forget(main.slot))
      BY <1>1, <1>4 DEF WriteState, Show, Slots
    <3>. QED  BY <2>1, <3>1, <3>2, CardKept, Blanked
  <2>3. CASE main.slot = c /\ Show
    <3>1. cards' = Forget(c)
      BY <2>3, Names DEF Show
    <3>. QED  BY <3>1, Blanked DEF CardFits, Shown
  <2>4. CASE main.slot = c /\ target' = Holder /\ cards' = cards
    <3>1. Lasts(c)
      <4>1. target # None => Kept' = Kept
        BY <2>4 DEF Holder, Kept
      <4>2. target = None => target' # None /\ target'.saved[c] = None
        BY <1>1, <2>4, Directories DEF Holder, EmptyDir
      <4>. QED  BY <4>1, <4>2, SameLasts DEF Lasts, Kept
    <3>. QED  BY <2>1, <2>4, <3>1, CardKept
  <2>. QED  BY <1>4, <2>2, <2>3, <2>4 DEF WriteState, Fails
<1>5. CASE \E d \in Cards : RequestCard(d) \/ ReadCard(d) \/ PollCard(d)
  <2>1. ~WriteState
    BY <1>5 DEF RequestCard, ReadCard, PollCard, WriteState, BackAtTitle, Failed, Idle, At,
       Typed, MainOK
  <2>. QED  BY <1>1, <1>5, <2>1, NextLasts, LoadedFits
<1>6. CASE \E j \in captures : Captured(j)
  <2>1. PICK j \in captures : Captured(j)
    BY <1>6
  <2>2. main.at \notin Replaced /\ Kept' = Kept /\ Lasts(c)
    <3>1. main.at \notin Replaced /\ Kept' = Kept
      BY <2>1 DEF Captured, Replaced, disk, Kept
    <3>. QED  BY <3>1, SameLasts
  <2>3. CASE ~IsCurrent(j)
    BY <2>1, <2>2, <2>3, CardKept DEF Captured, IsCurrent
  <2>4. CASE IsCurrent(j)
    <3>1. CASE c = j.slot
      <4>1. c = j.slot => cards'.ready[c].save = j.save /\ cards'.pending[c] = None
        BY <2>1, <2>4, TakenFits
      <4>2. Kept' = Kept /\ Fits(Kept, c, j.save)
        BY <2>1, <2>4, <3>1, TakenFits
      <4>. QED  BY <3>1, <4>1, <4>2 DEF CardFits, Shown
    <3>2. CASE c # j.slot
      <4>1. cards'.ready[c] = cards.ready[c] /\ cards'.pending[c] = cards.pending[c]
        BY <2>1, <2>4, <3>2, TakenFits
      <4>. QED  BY <2>2, <4>1, CardKept
    <3>. QED  BY <3>1, <3>2
  <2>. QED  BY <2>3, <2>4
<1>7. CASE /\ ~WriteState /\ main.at \notin Replaced
           /\ cards' = cards \/ (main.slot \in Cards /\ cards' = Forget(main.slot))
  <2>1. Lasts(c)
    BY <1>1, <1>7, NextLasts
  <2>. QED  BY <1>7, <2>1, CardKept, Blanked
<1>8. CASE \/ PrepareSlot \/ Unlink \/ BeginDelete \/ DeleteState \/ DeletePicture \/ BeginClear
           \/ ClearFile \/ Aside \/ Install \/ Undo
  <2>1. main.at \notin Replaced /\ main.at # "write"
    BY <1>8 DEF PrepareSlot, Unlink, BeginDelete, DeleteState, DeletePicture, BeginClear,
       ClearFile, Aside, Install, Undo, Replaced
  <2>2. cards' = cards \/ (main.slot \in Cards /\ cards' = Forget(main.slot))
    <3>1. ~BeginDelete => cards' = cards
      BY <1>8 DEF PrepareSlot, Unlink, DeleteState, DeletePicture, BeginClear, ClearFile,
         Aside, Install, Undo, view
    <3>2. BeginDelete => cards' = Forget(main.slot)
      BY DEF BeginDelete
    <3>3. main.slot = Quick => Forget(main.slot) = cards
      BY Names DEF Forget, ViewOK
    <3>. QED  BY <1>1, <3>1, <3>2, <3>3 DEF Slots
  <2>. QED  BY <1>7, <2>1, <2>2 DEF WriteState
<1>9. CASE Working \/ ReadQuick \/ PollQuick \/ UNCHANGED vars
  <2>1. main' = main /\ cards' = cards
    BY <1>9 DEF Working, Take, CommitIfCurrent, MakeDirectory, WriteTemporary, Written,
       ReadQuick, PollQuick, vars, view
  <2>2. ~WriteState
    BY <2>1 DEF WriteState, Failed, Idle, At, Typed, MainOK
  <2>. QED  BY <1>7, <2>1, <2>2
<1>10. CASE Player
  <2>1. main.at \in {"idle", "off"}
    BY <1>10 DEF Player, Save, Delete, Clear, Import, RequestCard, TurnPage, HoverContinue,
       LeaveTitle, ShowTitle, ExitAtTitle, Launch, Begin
  <2>2. cards' = cards \/ TurnPage \/ \E d \in Cards : RequestCard(d)
    BY <1>10 DEF Player, Save, Delete, Clear, Import, HoverContinue, LeaveTitle, ShowTitle,
       ExitAtTitle, Launch, Begin, view
  <2>. QED  BY <1>3, <1>5, <1>7, <2>1, <2>2 DEF Replaced, WriteState
<1>11. Cleanup => FALSE
  BY <1>1 DEF Cleanup, At, Replaced, Typed, MainOK
<1>. QED  BY <1>3, <1>4, <1>5, <1>6, <1>8, <1>9, <1>10, <1>11 DEF Next, Running, Loading

(* A command that shows no picture overtakes the load that runs.            *)
LEMMA Overtaking ==
  ASSUME ViewOK, Reads
  PROVE  /\ NoImage.image = None /\ NoImage.task = quick.task /\ NoImage.loaded = quick.loaded
         /\ NoImage.overtaken \/ NoImage.loaded = None
         /\ NoImage.task = "none" => ~NoImage.overtaken
BY DEF ViewOK, Continue, NoImage, Reads

LEMMA NextReads == Typed /\ ViewOK /\ Reads /\ [Next]_vars => Reads'
<1>. SUFFICES ASSUME Typed, ViewOK, Reads, [Next]_vars PROVE Reads'
  OBVIOUS
<1>1. CASE quick' \in {quick, NoImage}
  BY <1>1, Overtaking DEF Reads
<1>2. CASE Joined \/ Dies
  BY <1>2 DEF Joined, Dies, Off, NoQuick, Reads
<1>3. CASE ReadQuick \/ PollQuick \/ HoverContinue \/ \E c \in captures : Captured(c)
  <2>1. ReadQuick => quick'.task = "read"
    BY DEF ReadQuick, ViewOK, Continue
  <2>2. PollQuick => quick'.task = "none" /\ quick'.loaded = None /\ ~quick'.overtaken
    BY DEF PollQuick
  <2>3. HoverContinue => /\ quick'.task = "reading" /\ quick'.loaded = quick.loaded
                         /\ quick.task = "none"
    BY DEF HoverContinue, ViewOK, Continue
  <2>4. (\E c \in captures : Captured(c)) =>
          /\ quick'.task = quick.task /\ quick'.loaded = quick.loaded
          /\ quick'.overtaken = quick.overtaken
    BY DEF Captured, ViewOK, Continue
  <2>. QED  BY <1>3, <2>1, <2>2, <2>3, <2>4 DEF Reads
<1>4. CASE Unlink \/ WriteState \/ Cleared \/ Finish
  BY <1>1, <1>4 DEF Unlink, WriteState, Show, Cleared, Finish
<1>5. CASE \/ PrepareSlot \/ BeginDelete \/ DeleteState \/ DeletePicture \/ BeginClear \/ ClearFile
           \/ Aside \/ Install \/ Undo \/ Cleanup
  BY <1>1, <1>5 DEF PrepareSlot, BeginDelete, DeleteState, DeletePicture, BeginClear, ClearFile,
     Aside, Install, Undo, Cleanup, view
<1>6. CASE Working \/ UNCHANGED vars \/ \E c \in Cards : ReadCard(c) \/ PollCard(c)
  BY <1>1, <1>6 DEF Working, Take, CommitIfCurrent, MakeDirectory, WriteTemporary, Written,
     ReadCard, PollCard, view, vars
<1>7. CASE \/ \E s \in Slots, kind \in SaveKinds : Save(kind, s)
           \/ \E s \in Slots : Delete(s)
           \/ Clear \/ Import
  BY <1>1, <1>7 DEF Save, Delete, Clear, Begin, Import, view
<1>8. CASE \/ LeaveTitle \/ ShowTitle \/ TurnPage \/ ExitAtTitle \/ Launch
           \/ \E c \in Cards : RequestCard(c)
  BY <1>1, <1>8 DEF LeaveTitle, ShowTitle, TurnPage, RequestCard, ExitAtTitle, Launch, view
<1>. QED
  BY <1>2, <1>3, <1>4, <1>5, <1>6, <1>7, <1>8 DEF Next, Running, Loading, Player

LEMMA TitleKept ==
  ASSUME TitleFits, main.at \notin Replaced \cup {"drain"}, Lasts(Quick),
         quick'.late = quick.late /\ quick'.image = quick.image,
         (quick'.overtaken = quick.overtaken /\ quick'.loaded = quick.loaded)
           \/ quick'.loaded = None
  PROVE  /\ ~quick'.late => Fits(Kept', Quick, quick'.image)
         /\ ~quick'.overtaken => Fits(Kept', Quick, quick'.loaded)
<1>1. /\ ~quick.late => Fits(Kept, Quick, quick.image)
      /\ ~quick.overtaken => Fits(Kept, Quick, quick.loaded)
  BY DEF TitleFits
<1>. QED  BY <1>1, FitsOn DEF Fits

LEMMA NextTitleFits ==
  Typed /\ ViewOK /\ Belongs /\ Reads /\ TitleFits /\ "dirsync" \notin MayFail /\ [Next]_vars
    => TitleFits'
<1>. SUFFICES ASSUME Typed, ViewOK, Belongs, Reads, TitleFits, "dirsync" \notin MayFail,
                     [Next]_vars, main'.at \notin Replaced \cup {"drain"}
              PROVE  /\ ~quick'.late => Fits(Kept', Quick, quick'.image)
                     /\ ~quick'.overtaken => Fits(Kept', Quick, quick'.loaded)
  BY DEF TitleFits, Replaced
<1>1. Quick \in Slots /\ main'.at # "cleanup" /\ Quick \notin Cards
  BY Names DEF Slots, Replaced
<1>2. ASSUME quick' \in {NoImage, NoQuick}
      PROVE  /\ ~quick'.late => Fits(Kept', Quick, quick'.image)
             /\ ~quick'.overtaken => Fits(Kept', Quick, quick'.loaded)
  BY <1>2, Overtaking DEF Fits, NoQuick
<1>3. CASE Cleared \/ Finish
  BY <1>2, <1>3 DEF Cleared, Finish
<1>4. CASE Joined \/ Dies
  BY <1>2, <1>4 DEF Joined, Dies, Off
<1>5. CASE WriteState
  <2>1. main.at \notin Replaced \cup {"drain"}
    BY <1>5 DEF WriteState, Replaced
  <2>2. CASE main.slot # Quick
    <3>1. Lasts(Quick)
      BY <1>1, <2>2, NextLasts
    <3>2. quick' = quick
      BY <1>5, <2>2 DEF WriteState, Show
    <3>. QED  BY <2>1, <3>1, <3>2, TitleKept
  <2>3. CASE main.slot = Quick /\ Show
    <3>1. main.kind # "exit"
      <4>1. main.kind = "exit" => main'.at = "drain"
        BY <1>5 DEF WriteState, Failed, At, Typed, MainOK
      <4>. QED  BY <4>1
    <3>2. quick' = NoImage
      BY <2>3, <3>1 DEF Show
    <3>. QED  BY <1>2, <3>2
  <2>4. CASE main.slot = Quick /\ target' = Holder /\ quick' = quick
    <3>1. Lasts(Quick)
      <4>1. target # None => Kept' = Kept
        BY <2>4 DEF Holder, Kept
      <4>2. target = None => target' # None /\ target'.saved[Quick] = None
        BY <1>1, <2>4, Directories DEF Holder, EmptyDir
      <4>. QED  BY <4>1, <4>2, SameLasts DEF Lasts, Kept
    <3>. QED  BY <2>1, <2>4, <3>1, TitleKept
  <2>. QED  BY <1>5, <2>2, <2>3, <2>4 DEF WriteState, Fails
<1>6. CASE ReadQuick \/ PollQuick
  <2>1. main' = main /\ Kept' = Kept
    BY <1>6 DEF ReadQuick, PollQuick, Kept, disk
  <2>2. /\ ~quick.late => Fits(Kept, Quick, quick.image)
        /\ ~quick.overtaken => Fits(Kept, Quick, quick.loaded)
    BY <2>1 DEF TitleFits
  <2>3. Fits(Kept, Quick, OnDisk(Quick))
    BY <1>1, SavedFits DEF Kept, OnDisk, Fits
  <2>4. CASE ReadQuick
    <3>1. /\ quick'.late = quick.late /\ quick'.image = quick.image
          /\ quick'.loaded = OnDisk(Quick)
      BY <2>4 DEF ReadQuick, ViewOK, Continue
    <3>. QED  BY <2>1, <2>2, <2>3, <3>1
  <2>5. CASE PollQuick
    <3>1. quick'.late = quick.overtaken /\ quick'.image = quick.loaded /\ quick'.loaded = None
      BY <2>5 DEF PollQuick
    <3>. QED  BY <2>1, <2>2, <3>1 DEF Fits
  <2>. QED  BY <1>6, <2>4, <2>5
<1>7. CASE \E j \in captures : Captured(j)
  <2>1. PICK j \in captures : Captured(j)
    BY <1>7
  <2>2. main' = main /\ Kept' = Kept
    BY <2>1 DEF Captured, Kept, disk
  <2>3. /\ ~quick.late => Fits(Kept, Quick, quick.image)
        /\ ~quick.overtaken => Fits(Kept, Quick, quick.loaded)
    BY <2>2 DEF TitleFits
  <2>4. CASE IsCurrent(j) /\ j.slot = Quick
    BY <2>1, <2>2, <2>3, <2>4, TakenFits
  <2>5. CASE ~IsCurrent(j) \/ j.slot # Quick
    <3>1. quick' = quick
      BY <2>1, <2>5 DEF Captured, IsCurrent
    <3>. QED  BY <2>2, <2>3, <3>1
  <2>. QED  BY <2>4, <2>5
<1>8. CASE /\ ~WriteState /\ main.at \notin Replaced \cup {"drain"}
           /\ quick'.late = quick.late /\ quick'.image = quick.image
           /\ \/ quick'.overtaken = quick.overtaken /\ quick'.loaded = quick.loaded
              \/ quick'.loaded = None
  <2>1. Lasts(Quick)
    BY <1>1, <1>8, NextLasts
  <2>. QED  BY <1>8, <2>1, TitleKept
<1>9. CASE \/ PrepareSlot \/ Unlink \/ BeginDelete \/ DeleteState \/ DeletePicture \/ BeginClear
           \/ ClearFile \/ Aside \/ Install \/ Undo
  <2>1. main.at \notin Replaced \cup {"drain", "write"}
    BY <1>9 DEF PrepareSlot, Unlink, BeginDelete, DeleteState, DeletePicture, BeginClear,
       ClearFile, Aside, Install, Undo, Replaced
  <2>2. quick' = quick
    BY <1>9 DEF PrepareSlot, Unlink, BeginDelete, DeleteState, DeletePicture, BeginClear,
       ClearFile, Aside, Install, Undo, view
  <2>. QED  BY <1>8, <2>1, <2>2 DEF WriteState
<1>10. CASE Working \/ UNCHANGED vars \/ \E c \in Cards : ReadCard(c) \/ PollCard(c)
  <2>1. main' = main /\ quick' = quick
    BY <1>10 DEF Working, Take, CommitIfCurrent, MakeDirectory, WriteTemporary, Written, ReadCard,
       PollCard, vars, view
  <2>2. ~WriteState
    BY <2>1 DEF WriteState, Failed, Idle, At, Typed, MainOK
  <2>. QED  BY <1>8, <2>1, <2>2
<1>11. CASE Player
  <2>1. main.at \in {"idle", "off"}
    BY <1>11 DEF Player, Save, Delete, Clear, Import, RequestCard, TurnPage, HoverContinue,
       LeaveTitle, ShowTitle, ExitAtTitle, Launch, Begin
  <2>2. /\ quick'.late = quick.late /\ quick'.image = quick.image
        /\ (quick'.overtaken = quick.overtaken /\ quick'.loaded = quick.loaded)
             \/ quick'.loaded = None
    <3>1. ~HoverContinue => quick' = quick
      BY <1>11 DEF Player, Save, Delete, Clear, Import, RequestCard, TurnPage,
         LeaveTitle, ShowTitle, ExitAtTitle, Launch, Begin, view
    <3>2. HoverContinue => /\ quick'.late = quick.late /\ quick'.image = quick.image
                           /\ quick'.loaded = None
      BY DEF HoverContinue, ViewOK, Continue, Reads
    <3>. QED  BY <3>1, <3>2
  <2>. QED  BY <1>8, <2>1, <2>2 DEF Replaced, WriteState
<1>12. Cleanup => FALSE
  BY <1>1 DEF Cleanup, At, Replaced, Typed, MainOK
<1>. QED
  BY <1>3, <1>4, <1>5, <1>6, <1>7, <1>9, <1>10, <1>11, <1>12 DEF Next, Running, Loading

LEMMA InitFits == Init => CardsFit /\ Reads /\ TitleFits
<1>. SUFFICES ASSUME Init PROVE CardsFit /\ Reads /\ TitleFits
  OBVIOUS
<1>1. quick = NoQuick /\ cards = NoCard /\ main.at = "off"
  BY DEF Init
<1>2. CardsFit
  BY <1>1, Blanked DEF CardsFit, CardFits, Shown
<1>3. Reads /\ TitleFits
  BY <1>1 DEF Reads, TitleFits, NoQuick, Fits
<1>. QED  BY <1>2, <1>3

(* The picture on a card is that of the save the card loads, whatever is    *)
(* saved, deleted or imported while it was read, if the synchronisation of  *)
(* a save that was renamed into place does not fail (request_preview,       *)
(* poll_preview_tasks).                                                    *)
THEOREM CardsMatch ==
  ASSUME ~Overlap, "dirsync" \notin MayFail PROVE Spec => []CardMatches
<1>1. ViewOK /\ CardsFit => CardMatches
  <2>. SUFFICES ASSUME ViewOK, CardsFit, main.at = "idle", target # None,
                       NEW c \in Cards, Shown(c) # None, target.saved[c] # None
                PROVE  Shown(c).save = target.saved[c]
    BY DEF CardMatches
  <2>1. Shown(c).save # None
    BY Names DEF ViewOK, Card, Shown
  <2>. QED  BY <2>1 DEF CardsFit, CardFits, Fits, Kept, Replaced
<1>2. Init => Typed /\ ViewOK /\ Belongs /\ CardsFit
  BY InitTyped, InitView, InitBelongs, InitFits
<1>3. Typed /\ ViewOK /\ Belongs /\ CardsFit /\ [Next]_vars
        => (Typed /\ ViewOK /\ Belongs /\ CardsFit)'
  BY NextTyped, NextView, NextBelongs, NextCardsFit
<1>. QED  BY <1>1, <1>2, <1>3, PTL DEF Spec

(* The picture beside Continue is that of the save it restores, unless a    *)
(* load which that save, a clearing or an import overtook has delivered it  *)
(* (hydrate_quick_save_preview, store_save_preview).                       *)
THEOREM ContinuesMatch ==
  ASSUME ~Overlap, "dirsync" \notin MayFail PROVE Spec => []ContinueMatches
<1>. DEFINE Inv == Typed /\ ViewOK /\ Belongs /\ Reads /\ TitleFits
<1>1. Inv => ContinueMatches
  BY DEF TitleFits, Fits, Kept, ContinueMatches, Replaced
<1>2. Init => Inv
  BY InitTyped, InitView, InitBelongs, InitFits
<1>3. Inv /\ [Next]_vars => Inv'
  BY NextTyped, NextView, NextBelongs, NextReads, NextTitleFits
<1>. QED  BY <1>1, <1>2, <1>3, PTL DEF Spec
================================================================================
