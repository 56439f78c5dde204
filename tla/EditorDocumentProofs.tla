-------------------------- MODULE EditorDocumentProofs --------------------------
(***************************************************************************)
(* Once a document is closed nothing of it is under way, for any text, any *)
(* number of edits and any failures; so nothing touches its draft before   *)
(* it is opened again.                                                     *)
(***************************************************************************)
EXTENDS EditorDocument, TLAPS

(* A closed document has no job, no running writer and no unfinished       *)
(* handler of the window; its tab closes before it is released.            *)
Still == doc = None => jobs = {} /\ worker.at = "idle" /\ ui.at = "idle"
Owned ==
  /\ \A j \in jobs : j.own
  /\ ui.at = "release" => ~tab
IInv == TypeOK /\ Still /\ Owned

FilesOK == source \in Contents /\ draft \in Draft \cup {None} /\ failed \in BOOLEAN
DocOK ==
  /\ doc \in Document \cup {None} /\ tab \in BOOLEAN /\ timer \in BOOLEAN
  /\ doc = None => ~tab
  /\ timer => tab
JobsOK ==
  /\ jobs \subseteq Job
  /\ worker \in [at : {"idle", "write", "recheck"}, job : Job, fresh : BOOLEAN]
UiOK == ui \in [at : UiSteps, close : BOOLEAN, edited : BOOLEAN, job : Job]
EditsOK == edits \in 0..MaxEdits

LEMMA Parts == TypeOK <=> FilesOK /\ DocOK /\ JobsOK /\ UiOK /\ EditsOK
BY DEF TypeOK, FilesOK, DocOK, JobsOK, UiOK, EditsOK

(* The values the operations make.                                         *)
LEMMA MadeTyped ==
  /\ NoJob \in Job
  /\ \A d \in Document : Snapshot(d) \in Job /\ Snapshot(d).own
                         /\ Snapshot(d).draft \in Draft \cup {None}
  /\ \A text \in Contents, c \in BOOLEAN : Clean(text, c) \in Document
  /\ UiIdle \in [at : UiSteps, close : BOOLEAN, edited : BOOLEAN, job : Job]
<1>1. NoJob \in Job
  BY DEF NoJob, Job
<1>2. ASSUME NEW d \in Document
      PROVE  Snapshot(d) \in Job /\ Snapshot(d).own /\ Snapshot(d).draft \in Draft \cup {None}
  BY DEF Snapshot, Job, Draft, Document
<1>3. ASSUME NEW text \in Contents, NEW c \in BOOLEAN PROVE Clean(text, c) \in Document
  BY DEF Clean, Document
<1>4. UiIdle \in [at : UiSteps, close : BOOLEAN, edited : BOOLEAN, job : Job]
  BY <1>1 DEF UiIdle, UiSteps
<1> QED BY <1>1, <1>2, <1>3, <1>4

(* A new epoch and a last epoch leave no job that is not owned.            *)
LEMMA BumpKeeps ==
  ASSUME JobsOK, \A j \in jobs : j.own, Bump
  PROVE  JobsOK' /\ jobs' = {} /\ worker'.at = worker.at
BY DEF JobsOK, Bump, Current
LEMMA RetireKeeps ==
  ASSUME JobsOK, \A j \in jobs : j.own, Retire
  PROVE  JobsOK' /\ jobs' = {} /\ worker'.at = "idle"
BY DEF JobsOK, Retire, Current, LockFree

LEMMA InitIInv == Init => IInv
<1> SUFFICES ASSUME Init PROVE IInv
  OBVIOUS
<1>1. FilesOK
  BY DEF Init, FilesOK
<1>4. DocOK
  BY DEF Init, DocOK
<1>5. EditsOK
  BY Faults DEF Init, EditsOK
<1>2. JobsOK /\ UiOK
  BY MadeTyped DEF Init, JobsOK, UiOK
<1>3. Still /\ Owned
  BY DEF Init, Still, Owned, UiIdle
<1> QED BY <1>1, <1>2, <1>3, <1>4, <1>5, Parts DEF IInv

(* What an operation has to show.                                          *)
LEMMA Enough ==
  ASSUME FilesOK', DocOK', JobsOK', UiOK', EditsOK', Still', Owned'
  PROVE  IInv'
BY DEF IInv, TypeOK, FilesOK, DocOK, JobsOK, UiOK, EditsOK

-------------------------------------------------------------------------------
LEMMA OpenKeeps == ASSUME IInv, Open PROVE IInv'
<1>1. FilesOK /\ DocOK /\ JobsOK /\ UiOK /\ EditsOK
  BY Parts DEF IInv
<1>2. doc' \in Document
  <2>1. draft # None => draft.contents \in Contents /\ draft.base \in Contents
    BY <1>1 DEF FilesOK, Draft
  <2>2. CASE draft # None /\ draft.base = source
    BY <2>1, <2>2 DEF Open, Document
  <2>3. CASE ~(draft # None /\ draft.base = source)
    <3>1. doc' = Clean(source, FALSE) \/ doc' = Clean(source, TRUE)
      BY <2>3 DEF Open
    <3> QED BY <1>1, <3>1, MadeTyped DEF FilesOK
  <2> QED BY <2>2, <2>3
<1>3. FilesOK'
  BY <1>1 DEF Open, FilesOK
<1>4. DocOK'
  BY <1>1, <1>2, Absent DEF Open, DocOK
<1>5. JobsOK' /\ UiOK' /\ EditsOK'
  BY <1>1 DEF Open, JobsOK, UiOK, EditsOK, jobVars
<1>6. Still' /\ Owned'
  BY <1>2, Absent DEF Open, IInv, Still, Owned, jobVars
<1> QED BY <1>3, <1>4, <1>5, <1>6, Enough

LEMMA ReopenKeeps == ASSUME IInv, Reopen PROVE IInv'
<1>1. FilesOK /\ DocOK /\ JobsOK /\ UiOK /\ EditsOK /\ Still /\ Owned
  BY Parts DEF IInv
<1>2. FilesOK' /\ EditsOK'
  BY <1>1 DEF Reopen, FilesOK, EditsOK
<1>3. CASE UNCHANGED <<doc, jobVars, ui>>
  <2>1. DocOK'
    BY <1>1, <1>3 DEF Reopen, DocOK
  <2>2. JobsOK' /\ UiOK'
    BY <1>1, <1>3 DEF JobsOK, UiOK, jobVars
  <2>3. Still' /\ Owned'
    BY <1>1, <1>3 DEF Reopen, Still, Owned, jobVars
  <2> QED BY <1>2, <2>1, <2>2, <2>3, Enough
<1>4. CASE doc' = Clean(source, FALSE) /\ Bump /\ UiAt("cleanup")
  <2>1. doc' \in Document
    BY <1>1, <1>4, MadeTyped DEF FilesOK
  <2>2. DocOK'
    BY <1>1, <2>1, Absent DEF Reopen, DocOK
  <2>3. JobsOK' /\ jobs' = {}
    BY <1>1, <1>4, BumpKeeps DEF Owned
  <2>4. UiOK' /\ ui'.at = "cleanup"
    BY <1>1, <1>4 DEF UiOK, UiAt, UiSteps
  <2>5. Still' /\ Owned'
    BY <2>1, <2>3, <2>4, Absent DEF Still, Owned
  <2> QED BY <1>2, <2>2, <2>3, <2>4, <2>5, Enough
<1> QED BY <1>3, <1>4 DEF Reopen

LEMMA EditKeeps == ASSUME IInv, NEW text \in Contents, Edit(text) PROVE IInv'
<1>1. FilesOK /\ DocOK /\ JobsOK /\ UiOK /\ EditsOK /\ Still /\ Owned
  BY Parts DEF IInv
<1>2. doc \in Document /\ tab
  BY <1>1 DEF Edit, DocOK
<1>3. doc' \in Document /\ doc' # None
  BY <1>2, Absent DEF Edit, Document
<1>4. Snapshot(doc') \in Job /\ Snapshot(doc').own
  BY <1>3, MadeTyped
<1>5. FilesOK' /\ EditsOK'
  BY <1>1, Faults DEF Edit, FilesOK, EditsOK
<1>6. DocOK'
  BY <1>1, <1>2, <1>3 DEF Edit, DocOK
<1>7. jobs' \subseteq Job /\ \A j \in jobs' : j.own
  BY <1>1, <1>4 DEF Edit, JobsOK, Current, Owned
<1>8. JobsOK'
  BY <1>1, <1>7 DEF Edit, JobsOK
<1>9. UiOK' /\ ui'.at = ui.at /\ ui.at \in {"idle", "closing"}
  BY <1>1 DEF Edit, UiOK, UiSteps
<1>10. Still' /\ Owned'
  BY <1>3, <1>7, <1>9 DEF Still, Owned
<1> QED BY <1>5, <1>6, <1>8, <1>9, <1>10, Enough

LEMMA TimerKeeps == ASSUME IInv, TimerFires PROVE IInv'
<1>1. FilesOK /\ DocOK /\ JobsOK /\ UiOK /\ EditsOK /\ Still /\ Owned
  BY Parts DEF IInv
<1>2. doc \in Document /\ doc # None
  BY <1>1, Absent DEF TimerFires, DocOK
<1>3. Snapshot(doc) \in Job /\ Snapshot(doc).own
  BY <1>2, MadeTyped
<1>4. FilesOK' /\ EditsOK' /\ DocOK' /\ UiOK'
  BY <1>1 DEF TimerFires, FilesOK, EditsOK, DocOK, UiOK
<1>5. JobsOK'
  BY <1>1, <1>3 DEF TimerFires, JobsOK
<1>6. Still' /\ Owned'
  BY <1>1, <1>2, <1>3 DEF TimerFires, Still, Owned
<1> QED BY <1>4, <1>5, <1>6, Enough

-------------------------------------------------------------------------------
LEMMA WorkerKeeps == ASSUME IInv, Working PROVE IInv'
<1>1. FilesOK /\ DocOK /\ JobsOK /\ UiOK /\ EditsOK /\ Still /\ Owned
  BY Parts DEF IInv
<1>2. CASE \E j \in jobs : Begin(j)
  <2>1. PICK j \in jobs : Begin(j)
    BY <1>2
  <2>2. FilesOK' /\ EditsOK' /\ DocOK' /\ UiOK'
    BY <1>1, <2>1 DEF Begin, FilesOK, EditsOK, DocOK, UiOK, docVars
  <2>3. JobsOK'
    BY <1>1, <2>1 DEF Begin, JobsOK
  <2>4. Still' /\ Owned'
    BY <1>1, <2>1 DEF Begin, Still, Owned, docVars
  <2> QED BY <2>2, <2>3, <2>4, Enough
<1>3. CASE Write \/ Recheck
  <2>1. EditsOK' /\ DocOK' /\ UiOK'
    BY <1>1, <1>3 DEF Write, Recheck, EditsOK, DocOK, UiOK, docVars
  <2>2. worker.job.draft \in Draft \cup {None}
    BY <1>1 DEF JobsOK, Job
  <2>3. FilesOK'
    BY <1>1, <1>3, <2>2 DEF Write, Recheck, FilesOK
  <2>4. JobsOK'
    <3>1. CASE Ends
      BY <1>1, <1>3, <3>1, MadeTyped DEF Write, Recheck, JobsOK, Ends
    <3>2. CASE worker' = [worker EXCEPT !.at = "recheck"]
      BY <1>1, <1>3, <3>2 DEF Write, Recheck, JobsOK
    <3> QED BY <1>3, <3>1, <3>2 DEF Write, Recheck
  <2>5. Still' /\ Owned'
    BY <1>1, <1>3 DEF Write, Recheck, Still, Owned, docVars
  <2> QED BY <2>1, <2>3, <2>4, <2>5, Enough
<1> QED BY <1>2, <1>3 DEF Working

LEMMA WindowKeeps == ASSUME IInv, Window PROVE IInv'
<1>1. FilesOK /\ DocOK /\ JobsOK /\ UiOK /\ EditsOK /\ Still /\ Owned
  BY Parts DEF IInv
<1>2. doc \in Document /\ doc # None /\ ui.at # "idle"
  BY <1>1, Absent DEF Window, Replace, Cleanup, Release, CloseLoop, Flush, Still, DocOK
<1>3. Snapshot(doc) \in Job /\ Snapshot(doc).own /\ Snapshot(doc).draft \in Draft \cup {None}
  BY <1>2, MadeTyped
<1>4. CASE Replace
  <2>1. FilesOK' /\ EditsOK'
    BY <1>1, <1>2, <1>4 DEF Replace, FilesOK, EditsOK, Document
  <2>2. CASE doc' = Clean(doc.contents, FALSE) /\ Bump /\ UiAt("cleanup")
    <3>1. doc' \in Document /\ doc' # None
      BY <1>2, <2>2, MadeTyped, Absent DEF Document
    <3>2. DocOK'
      BY <1>1, <1>4, <3>1 DEF Replace, DocOK
    <3>3. JobsOK' /\ jobs' = {}
      BY <1>1, <2>2, BumpKeeps DEF Owned
    <3>4. UiOK' /\ ui'.at = "cleanup"
      BY <1>1, <2>2 DEF UiOK, UiAt, UiSteps
    <3>5. Still' /\ Owned'
      BY <3>1, <3>3, <3>4 DEF Still, Owned
    <3> QED BY <2>1, <3>2, <3>3, <3>4, <3>5, Enough
  <2>3. CASE ui' = UiIdle /\ UNCHANGED <<source, doc, jobVars>>
    <3>1. DocOK' /\ JobsOK'
      BY <1>1, <1>4, <2>3 DEF Replace, DocOK, JobsOK, jobVars
    <3>2. UiOK' /\ ui'.at = "idle"
      BY <2>3, MadeTyped DEF UiOK, UiIdle
    <3>3. Still' /\ Owned'
      BY <1>1, <1>2, <1>4, <2>3, <3>2 DEF Replace, Still, Owned, jobVars
    <3> QED BY <2>1, <3>1, <3>2, <3>3, Enough
  <2> QED BY <1>4, <2>2, <2>3 DEF Replace
<1>5. CASE Cleanup
  <2>1. FilesOK' /\ EditsOK' /\ DocOK' /\ JobsOK'
    BY <1>1, <1>5 DEF Cleanup, FilesOK, EditsOK, DocOK, JobsOK, docVars, jobVars
  <2>2. UiOK' /\ ui'.at \in {"idle", "flush"}
    BY <1>1, <1>5, MadeTyped DEF Cleanup, UiOK, UiIdle, UiSteps
  <2>3. Still' /\ Owned'
    BY <1>1, <1>2, <1>5, <2>2 DEF Cleanup, Still, Owned, docVars, jobVars
  <2> QED BY <2>1, <2>2, <2>3, Enough
<1>6. CASE Release
  <2>1. FilesOK' /\ EditsOK'
    BY <1>1, <1>6 DEF Release, FilesOK, EditsOK
  <2>2. UiOK' /\ ui'.at = "idle"
    BY <1>6, MadeTyped DEF Release, UiOK, UiIdle
  <2>3. CASE Retire /\ doc' = None
    <3>1. JobsOK' /\ jobs' = {} /\ worker'.at = "idle"
      BY <1>1, <2>3, RetireKeeps DEF Owned
    <3>2. ~tab /\ tab' = tab /\ timer' = timer
      BY <1>1, <1>6 DEF Release, Owned
    <3>3. DocOK'
      BY <1>1, <2>3, <3>2 DEF DocOK
    <3>4. Still' /\ Owned'
      BY <2>2, <3>1 DEF Still, Owned
    <3> QED BY <2>1, <2>2, <3>1, <3>3, <3>4, Enough
  <2>4. CASE UNCHANGED <<draft, doc, jobVars>>
    <3>1. DocOK' /\ JobsOK'
      BY <1>1, <1>6, <2>4 DEF Release, DocOK, JobsOK, jobVars
    <3>2. Still' /\ Owned'
      BY <1>1, <1>2, <2>2, <2>4 DEF Still, Owned, jobVars
    <3> QED BY <2>1, <2>2, <3>1, <3>2, Enough
  <2> QED BY <1>6, <2>3, <2>4 DEF Release
<1>7. CASE CloseLoop
  <2>1. FilesOK' /\ EditsOK' /\ DocOK'
    BY <1>1, <1>7 DEF CloseLoop, FilesOK, EditsOK, DocOK, docVars
  <2>2. /\ jobs' \subseteq jobs \cup {Snapshot(doc)} /\ worker' = worker
        /\ ui'.at # "release"
    BY <1>1, <1>7 DEF CloseLoop, UiAt, UiOK
  <2>3. UiOK'
    BY <1>1, <1>3, <1>7 DEF CloseLoop, UiOK, UiAt, UiSteps
  <2>4. JobsOK'
    BY <1>1, <1>3, <2>2 DEF JobsOK
  <2>5. Still' /\ Owned'
    BY <1>1, <1>2, <1>3, <1>7, <2>2 DEF CloseLoop, Still, Owned, docVars
  <2> QED BY <2>1, <2>3, <2>4, <2>5, Enough
<1>8. CASE Flush
  <2>1. FilesOK' /\ EditsOK'
    BY <1>1, <1>3, <1>8 DEF Flush, FilesOK, EditsOK
  <2>2. UiOK' /\ ui'.at = "idle"
    BY <1>8, MadeTyped DEF Flush, UiOK, UiIdle
  <2>3. JobsOK' /\ jobs' = {} /\ worker'.at = "idle"
    BY <1>1, <1>8, RetireKeeps DEF Flush, Owned
  <2>4. DocOK'
    BY <1>8 DEF Flush, DocOK
  <2>5. Still' /\ Owned'
    BY <2>2, <2>3 DEF Still, Owned
  <2> QED BY <2>1, <2>2, <2>3, <2>4, <2>5, Enough
<1> QED BY <1>4, <1>5, <1>6, <1>7, <1>8 DEF Window

-------------------------------------------------------------------------------
LEMMA SaveKeeps == ASSUME IInv, NEW close \in BOOLEAN, Save(close) PROVE IInv'
<1>1. FilesOK /\ DocOK /\ JobsOK /\ UiOK /\ EditsOK /\ Still /\ Owned
  BY Parts DEF IInv
<1>2. FilesOK' /\ DocOK' /\ JobsOK' /\ EditsOK'
  BY <1>1 DEF Save, FilesOK, DocOK, JobsOK, EditsOK, docVars, jobVars
<1>3. UiOK' /\ ui'.at = "replace"
  BY MadeTyped DEF Save, UiOK, UiIdle, UiSteps
<1>4. Still' /\ Owned'
  BY <1>1, <1>3 DEF Save, Dirty, Still, Owned, docVars, jobVars
<1> QED BY <1>2, <1>3, <1>4, Enough

LEMMA DiscardKeeps == ASSUME IInv, Discard PROVE IInv'
<1>1. FilesOK /\ DocOK /\ JobsOK /\ UiOK /\ EditsOK /\ Still /\ Owned
  BY Parts DEF IInv
<1>2. FilesOK' /\ EditsOK'
  BY <1>1 DEF Discard, FilesOK, EditsOK
<1>3. doc' \in Document /\ doc' # None
  BY <1>1, MadeTyped, Absent DEF Discard, FilesOK
<1>4. DocOK'
  BY <1>1, <1>3 DEF Discard, DocOK
<1>5. JobsOK' /\ jobs' = {}
  BY <1>1, BumpKeeps DEF Discard, Owned
<1>6. UiOK' /\ ui'.at = "cleanup"
  BY <1>1 DEF Discard, UiOK, UiAt, UiSteps
<1>7. Still' /\ Owned'
  BY <1>3, <1>5, <1>6 DEF Still, Owned
<1> QED BY <1>2, <1>4, <1>5, <1>6, <1>7, Enough

LEMMA CloseTabKeeps == ASSUME IInv, CloseTab PROVE IInv'
<1>1. FilesOK /\ DocOK /\ JobsOK /\ UiOK /\ EditsOK /\ Still /\ Owned
  BY Parts DEF IInv
<1>2. FilesOK' /\ DocOK' /\ JobsOK' /\ EditsOK'
  BY <1>1 DEF CloseTab, FilesOK, DocOK, JobsOK, EditsOK, jobVars
<1>3. UiOK'
  BY <1>1 DEF CloseTab, UiOK, UiAt, UiSteps
<1>4. doc' # None
  BY <1>1 DEF CloseTab, DocOK
<1>5. Still' /\ Owned'
  BY <1>1, <1>4 DEF CloseTab, Still, Owned, jobVars
<1> QED BY <1>2, <1>3, <1>5, Enough

LEMMA AskKeeps == ASSUME IInv, AskToClose PROVE IInv'
<1>1. FilesOK /\ DocOK /\ JobsOK /\ UiOK /\ EditsOK /\ Still /\ Owned
  BY Parts DEF IInv
<1>2. FilesOK' /\ DocOK' /\ EditsOK'
  BY <1>1 DEF AskToClose, FilesOK, DocOK, EditsOK, docVars
<1>3. Snapshot(doc) \in Job /\ Snapshot(doc).own
  BY <1>1, MadeTyped DEF AskToClose, DocOK
<1>4. UiOK' /\ ui'.at # "release"
  <2>1. CASE ~Dirty
    BY <1>1, <2>1 DEF AskToClose, UiOK, UiAt, UiSteps
  <2>2. CASE Dirty
    <3>1. ui' = [at |-> "closing", close |-> TRUE, edited |-> FALSE, job |-> Snapshot(doc)]
      BY <2>2 DEF AskToClose
    <3>2. "closing" \in UiSteps
      BY DEF UiSteps
    <3>3. UiOK'
      BY <1>3, <3>1, <3>2 DEF UiOK
    <3> QED BY <3>1, <3>3
  <2> QED BY <2>1, <2>2
<1>5. jobs' \subseteq jobs \cup {Snapshot(doc)} /\ worker' = worker
  BY DEF AskToClose
<1>6. JobsOK'
  BY <1>1, <1>3, <1>5 DEF JobsOK
<1>7. Still' /\ Owned'
  BY <1>1, <1>3, <1>4, <1>5 DEF AskToClose, Still, Owned, docVars
<1> QED BY <1>2, <1>4, <1>6, <1>7, Enough

LEMMA DiesKeeps == ASSUME IInv, Dies PROVE IInv'
<1>1. FilesOK /\ EditsOK
  BY Parts DEF IInv
<1>2. FilesOK' /\ EditsOK' /\ DocOK'
  BY <1>1 DEF Dies, FilesOK, EditsOK, DocOK
<1>3. JobsOK' /\ UiOK'
  BY MadeTyped DEF Dies, Ends, JobsOK, UiOK
<1>4. Still' /\ Owned'
  BY DEF Dies, Ends, Still, Owned, UiIdle
<1> QED BY <1>2, <1>3, <1>4, Enough

LEMMA ExternalKeeps == ASSUME IInv, NEW text \in Contents, External(text) PROVE IInv'
<1>1. FilesOK /\ DocOK /\ JobsOK /\ UiOK /\ EditsOK /\ Still /\ Owned
  BY Parts DEF IInv
<1>2. FilesOK' /\ DocOK' /\ JobsOK' /\ UiOK' /\ EditsOK'
  BY <1>1, Faults DEF External, FilesOK, DocOK, JobsOK, UiOK, EditsOK, docVars, jobVars
<1>3. Still' /\ Owned'
  BY <1>1 DEF External, Still, Owned, docVars, jobVars
<1> QED BY <1>2, <1>3, Enough

LEMMA NextIInv == IInv /\ [Next]_vars => IInv'
<1> SUFFICES ASSUME IInv, [Next]_vars PROVE IInv'
  OBVIOUS
<1>1. CASE UNCHANGED vars
  BY <1>1 DEF vars, docVars, jobVars, IInv, TypeOK, Still, Owned
<1>2. CASE Next
  BY <1>2, OpenKeeps, ReopenKeeps, EditKeeps, TimerKeeps, WorkerKeeps, WindowKeeps,
     SaveKeeps, DiscardKeeps, CloseTabKeeps, AskKeeps, DiesKeeps, ExternalKeeps DEF Next
<1> QED BY <1>1, <1>2

(* While a document stays closed its draft stays as it is.                 *)
LEMMA StillStep ==
  ASSUME IInv, [Next]_vars, doc = None, doc' = None
  PROVE  draft' = draft
<1>1. jobs = {} /\ worker.at = "idle" /\ ui.at = "idle" /\ ~tab /\ ~timer
  BY DEF IInv, Still, TypeOK
<1>2. CASE UNCHANGED vars
  BY <1>2 DEF vars
<1>3. CASE Open
  <2>1. doc' # None
    BY <1>3, OpenKeeps DEF IInv, TypeOK, Open
  <2> QED BY <2>1
<1>4. CASE Working \/ Window
  BY <1>1, <1>4 DEF Working, Write, Recheck, Window, Replace, Cleanup, Release, CloseLoop, Flush
<1>5. CASE Reopen \/ Discard \/ CloseTab \/ AskToClose \/ Dies \/ TimerFires
  BY <1>1, <1>5 DEF Reopen, Discard, CloseTab, AskToClose, Dies, TimerFires
<1>6. CASE \/ \E text \in Contents : Edit(text) \/ External(text)
           \/ \E close \in BOOLEAN : Save(close)
  BY <1>6 DEF Edit, External, Save
<1> QED BY <1>2, <1>3, <1>4, <1>5, <1>6 DEF Next

(* A closed document's draft is not touched until it is opened again, for  *)
(* any text, failures and crashes (retire_recovery, RecoveryWrite::execute). *)
THEOREM ClosedStaysStill == Spec => ClosedIsStill
<1>1. IInv /\ [Next]_vars => [doc = None /\ doc' = None => draft' = draft]_vars
  BY StillStep
<1> QED BY InitIInv, NextIInv, <1>1, PTL DEF Spec, ClosedIsStill

(* The fields of the editor keep their types.                              *)
THEOREM EditorTyped == Spec => []TypeOK
<1>1. IInv => TypeOK
  BY DEF IInv
<1> QED BY InitIInv, NextIInv, <1>1, PTL DEF Spec
-------------------------------------------------------------------------------
(* The draft of an open document.  The jobs of an epoch are all of the     *)
(* document as it is; a worker of an epoch before takes away what it wrote, *)
(* and then the document is clean or another job is still to come.         *)

Busy == worker.at # "idle"
Fresh == Busy /\ worker.fresh
Follows == draft = Snapshot(doc).draft \/ (~Dirty /\ doc.conflicted)

Epoch ==
  /\ jobs \subseteq {Snapshot(doc)}
  /\ Fresh => worker.job = Snapshot(doc)
  /\ Busy => worker.job.own
Stale == Busy /\ ~worker.fresh => timer \/ jobs # {} \/ ~Dirty
Cleaning == ui.at = "cleanup" => jobs = {} /\ ~Fresh /\ ~Dirty
Rechecked == worker.at = "recheck" /\ worker.fresh => draft = Snapshot(doc).draft
Settled ==
  ~Busy /\ ui.at # "cleanup" /\ ~failed /\ ~timer /\ jobs = {} => Follows
Drafting == doc # None => Epoch /\ Stale /\ Cleaning /\ Rechecked /\ Settled
LEMMA InitDrafting == Init => Drafting
BY DEF Init, Drafting

LEMMA OpenDrafting == ASSUME IInv, Open PROVE Drafting'
<1>1. jobs = {} /\ ~Busy /\ UNCHANGED <<jobs, worker, ui>> /\ ui.at = "idle"
  BY DEF IInv, Still, Open, Busy, jobVars
<1>2. draft # None => draft \in Draft
  BY DEF IInv, TypeOK
<1>3. Follows'
  <2>1. CASE draft = None
    BY <2>1 DEF Open, Follows, Snapshot, Clean
  <2>2. CASE draft # None /\ draft.base # source
    BY <2>2 DEF Open, Follows, Dirty, Clean
  <2>3. CASE draft # None /\ draft.base = source /\ draft.contents = source
    BY <2>3 DEF Open, Follows, Snapshot
  <2>4. CASE draft # None /\ draft.base = source /\ draft.contents # source
    <3>1. draft = [base |-> source, contents |-> draft.contents]
      BY <1>2, <2>4 DEF Draft
    <3>2. draft' = draft /\ doc' = [base |-> source, contents |-> draft.contents, conflicted |-> FALSE]
      BY <2>4 DEF Open
    <3> QED BY <2>4, <3>1, <3>2 DEF Follows, Snapshot
  <2> QED BY <2>1, <2>2, <2>3, <2>4
<1> QED BY <1>1, <1>3 DEF Drafting, Epoch, Stale, Cleaning, Rechecked, Settled, Busy, Fresh

(* After a new epoch with a clean document only stale work is left.        *)
LEMMA CleanDrafting ==
  ASSUME JobsOK, Drafting, doc # None, \A j \in jobs : j.own, Bump, UiAt("cleanup"), UiOK,
         NEW text, NEW c, doc' = Clean(text, c)
  PROVE  Drafting'
<1>1. jobs' = {} /\ ui'.at = "cleanup" /\ ~Dirty'
  BY DEF Bump, Current, UiAt, UiOK, Dirty, Clean
<1>2. /\ worker'.at = worker.at /\ worker'.job = worker.job
      /\ worker'.fresh = (worker.fresh /\ ~worker.job.own)
  BY DEF Bump, JobsOK
<1>3. Busy => worker.job.own
  BY DEF Drafting, Epoch
<1> QED BY <1>1, <1>2, <1>3 DEF Drafting, Epoch, Stale, Cleaning, Rechecked, Settled, Busy, Fresh

LEMMA EditDrafting ==
  ASSUME IInv, Drafting, NEW text \in Contents, Edit(text) PROVE Drafting'
<1>1. JobsOK /\ UiOK /\ Owned /\ doc # None
  BY Parts DEF IInv, Edit, DocOK
<1>2. jobs' \subseteq {Snapshot(doc')} /\ timer' = TRUE
  BY <1>1 DEF Edit, Current, Owned
<1>3. ui'.at \in {"idle", "closing"}
  BY <1>1 DEF Edit, UiOK
<1>4. /\ worker'.at = worker.at /\ worker'.job = worker.job
      /\ worker'.fresh = (worker.fresh /\ ~worker.job.own)
  BY <1>1 DEF Edit, JobsOK
<1>5. Busy => worker.job.own
  BY <1>1 DEF Drafting, Epoch
<1> QED BY <1>2, <1>3, <1>4, <1>5
        DEF Drafting, Epoch, Stale, Cleaning, Rechecked, Settled, Busy, Fresh, Snapshot

LEMMA TimerDrafting == ASSUME IInv, Drafting, TimerFires PROVE Drafting'
<1>1. doc # None /\ doc' = doc /\ UNCHANGED <<draft, worker, ui>>
  BY DEF IInv, TypeOK, TimerFires
<1>2. jobs' = jobs \cup {Snapshot(doc)} /\ ui.at # "cleanup"
  BY DEF TimerFires
<1> QED BY <1>1, <1>2
        DEF Drafting, Epoch, Stale, Cleaning, Rechecked, Settled, Busy, Fresh, Snapshot

LEMMA BeginDrafting ==
  ASSUME IInv, Drafting, NEW j \in jobs, Begin(j) PROVE Drafting'
<1>1. UNCHANGED <<doc, timer, draft, ui>> /\ jobs' = jobs \ {j} /\ ~Busy
      /\ worker' = [at |-> "write", job |-> j, fresh |-> TRUE]
  BY DEF Begin, docVars, LockFree, Busy
<1>2. j.own
  BY DEF IInv, Owned
<1>3. ASSUME doc # None PROVE j = Snapshot(doc) /\ ui.at # "cleanup"
  BY <1>3 DEF Drafting, Epoch, Cleaning
<1> QED BY <1>1, <1>2, <1>3
        DEF Drafting, Epoch, Stale, Cleaning, Rechecked, Settled, Busy, Fresh, Snapshot, Dirty

LEMMA WriteDrafting == ASSUME IInv, Drafting, Write, doc # None PROVE Drafting'
<1>1. UNCHANGED <<doc, tab, timer, jobs, ui>> /\ Busy /\ JobsOK
  BY Parts DEF Write, docVars, Busy, IInv
<1>2. Snapshot(doc)' = Snapshot(doc) /\ Dirty' = Dirty
  BY <1>1 DEF Snapshot, Dirty
<1>3. CASE Ends
  <2>1. ~Busy' /\ ~Fresh' /\ worker'.at = "idle"
    BY <1>3 DEF Ends, Busy, Fresh
  <2>2. failed' \/ (draft' = None /\ draft' = worker.job.draft)
    BY <1>3 DEF Write, Ends
  <2>3. CASE ~worker.fresh
    <3>1. ~Dirty => Snapshot(doc).draft = None
      BY DEF Dirty, Snapshot
    <3> QED BY <1>1, <1>2, <2>1, <2>2, <2>3, <3>1
            DEF Drafting, Epoch, Stale, Cleaning, Rechecked, Settled, Follows, Busy
  <2>4. CASE worker.fresh
    <3>1. worker.job = Snapshot(doc)
      BY <1>1, <2>4 DEF Drafting, Epoch, Fresh
    <3> QED BY <1>1, <1>2, <2>1, <2>2, <2>4, <3>1
            DEF Drafting, Epoch, Stale, Cleaning, Rechecked, Settled, Follows, Busy, Fresh
  <2> QED BY <2>3, <2>4
<1>4. CASE draft' = worker.job.draft /\ worker' = [worker EXCEPT !.at = "recheck"]
  <2>1. worker'.at = "recheck" /\ worker'.job = worker.job /\ worker'.fresh = worker.fresh
    BY <1>1, <1>4 DEF JobsOK
  <2> QED BY <1>1, <1>2, <1>4, <2>1
          DEF Drafting, Epoch, Stale, Cleaning, Rechecked, Settled, Busy, Fresh
<1> QED BY <1>3, <1>4 DEF Write

LEMMA RecheckDrafting == ASSUME IInv, Drafting, Recheck, doc # None PROVE Drafting'
<1>1. UNCHANGED <<doc, tab, timer, jobs, ui>> /\ Busy /\ worker.at = "recheck"
  BY DEF Recheck, docVars, Busy
<1>2. Snapshot(doc)' = Snapshot(doc) /\ Dirty' = Dirty
  BY <1>1 DEF Snapshot, Dirty
<1>3. ~Busy' /\ ~Fresh' /\ worker'.at = "idle"
  BY DEF Recheck, Ends, Busy, Fresh
<1>4. ~Dirty => Snapshot(doc).draft = None
  BY DEF Dirty, Snapshot
<1>5. CASE worker.fresh /\ draft' = draft
  BY <1>1, <1>2, <1>3, <1>5
     DEF Drafting, Epoch, Stale, Cleaning, Rechecked, Settled, Follows, Busy
<1>6. CASE ~worker.fresh /\ (draft' = None \/ failed')
  BY <1>1, <1>2, <1>3, <1>4, <1>6
     DEF Drafting, Epoch, Stale, Cleaning, Rechecked, Settled, Follows, Busy
<1> QED BY <1>5, <1>6 DEF Recheck

LEMMA CleanupDrafting == ASSUME IInv, Drafting, Cleanup PROVE Drafting'
<1>1. UNCHANGED <<doc, tab, timer, jobs, worker>> /\ ui.at = "cleanup" /\ doc # None
  BY DEF Cleanup, docVars, jobVars, IInv, Still
<1>2. Snapshot(doc)' = Snapshot(doc) /\ Dirty' = Dirty /\ Busy' = Busy /\ Fresh' = Fresh
  BY <1>1 DEF Snapshot, Dirty, Busy, Fresh
<1>3. jobs = {} /\ ~Fresh /\ ~Dirty
  BY <1>1 DEF Drafting, Cleaning
<1>4. Snapshot(doc).draft = None
  BY <1>3, <1>1 DEF Dirty, Snapshot
<1>5. draft' = None \/ failed'
  BY DEF Cleanup
<1>6. worker.at # "recheck" \/ ~worker.fresh
  BY <1>3 DEF Fresh, Busy
<1> QED BY <1>1, <1>2, <1>3, <1>4, <1>5, <1>6
        DEF Drafting, Epoch, Stale, Cleaning, Rechecked, Settled, Follows

(* The steps of the window that change neither the draft nor the document. *)
LEMMA CloseDrafting ==
  ASSUME IInv, Drafting, UNCHANGED <<draft, doc, timer, worker, failed>>,
         jobs' = jobs \/ jobs' = jobs \cup {Snapshot(doc)},
         ui.at # "cleanup", ui'.at # "cleanup"
  PROVE  Drafting'
<1>1. Snapshot(doc)' = Snapshot(doc) /\ Dirty' = Dirty /\ Busy' = Busy /\ Fresh' = Fresh
  BY DEF Snapshot, Dirty, Busy, Fresh
<1> QED BY <1>1 DEF Drafting, Epoch, Stale, Cleaning, Rechecked, Settled, Follows

LEMMA WindowDrafting == ASSUME IInv, Drafting, Window PROVE Drafting'
<1>1. JobsOK /\ UiOK /\ Owned /\ doc # None
  BY Parts DEF IInv, Still, Window, Replace, Cleanup, Release, CloseLoop, Flush
<1>2. CASE Replace
  <2>1. CASE doc' = Clean(doc.contents, FALSE) /\ Bump /\ UiAt("cleanup")
    BY <1>1, <2>1, CleanDrafting DEF Owned
  <2>2. CASE ui' = UiIdle /\ UNCHANGED <<source, doc, jobVars>>
    BY <1>2, <2>2, CloseDrafting DEF Replace, UiIdle, jobVars
  <2> QED BY <1>2, <2>1, <2>2 DEF Replace
<1>3. CASE Cleanup
  BY <1>3, CleanupDrafting
<1>4. CASE Release
  <2>1. CASE doc' = None
    BY <2>1 DEF Drafting
  <2>2. CASE failed' /\ UNCHANGED <<draft, doc, timer, jobs, worker>>
    <3>1. ui'.at = "idle" /\ ui.at = "release"
      BY <1>4 DEF Release, UiIdle
    <3>2. Snapshot(doc)' = Snapshot(doc) /\ Dirty' = Dirty /\ Busy' = Busy /\ Fresh' = Fresh
      BY <2>2 DEF Snapshot, Dirty, Busy, Fresh
    <3> QED BY <2>2, <3>1, <3>2
            DEF Drafting, Epoch, Stale, Cleaning, Rechecked, Settled
  <2> QED BY <1>4, <2>1, <2>2 DEF Release, jobVars
<1>5. CASE CloseLoop
  <2>1. ui.at # "cleanup" /\ ui'.at # "cleanup"
    BY <1>1, <1>5 DEF CloseLoop, UiAt, UiOK
  <2> QED BY <1>5, <2>1, CloseDrafting DEF CloseLoop, docVars
<1>6. CASE Flush
  BY <1>6 DEF Flush, Drafting
<1> QED BY <1>2, <1>3, <1>4, <1>5, <1>6 DEF Window

LEMMA WriterDrafting ==
  ASSUME IInv, Drafting, ~HiddenEdits,
         Reopen \/ Discard \/ CloseTab \/ AskToClose \/ Dies
         \/ (\E close \in BOOLEAN : Save(close)) \/ (\E text \in Contents : External(text))
  PROVE  Drafting'
<1>1. JobsOK /\ UiOK /\ Owned
  BY Parts DEF IInv
<1>2. CASE Reopen \/ Discard
  <2>1. CASE \E c \in BOOLEAN : doc' = Clean(source, c) /\ Bump /\ UiAt("cleanup")
    <3>1. doc # None
      BY <1>2 DEF Reopen, Discard, IInv, TypeOK
    <3> QED BY <1>1, <2>1, <3>1, CleanDrafting DEF Owned
  <2>2. CASE Reopen /\ UNCHANGED <<doc, jobVars, ui>>
    BY <2>2, CloseDrafting DEF Reopen, jobVars
  <2> QED BY <1>2, <2>1, <2>2 DEF Reopen, Discard
<1>3. CASE CloseTab
  <2>1. timer' = timer /\ ui.at # "cleanup" /\ ui'.at # "cleanup"
    BY <1>1, <1>3 DEF CloseTab, UiAt, UiOK, IInv, TypeOK
  <2> QED BY <1>3, <2>1, CloseDrafting DEF CloseTab, jobVars
<1>4. CASE AskToClose
  <2>1. ui.at # "cleanup" /\ ui'.at # "cleanup"
    BY <1>1, <1>4 DEF AskToClose, UiAt, UiOK
  <2> QED BY <1>4, <2>1, CloseDrafting DEF AskToClose, docVars
<1>5. CASE Dies
  BY <1>5 DEF Dies, Drafting
<1>6. CASE \E close \in BOOLEAN : Save(close)
  <2>1. ui.at # "cleanup" /\ ui'.at # "cleanup"
    BY <1>6 DEF Save, UiIdle
  <2> QED BY <1>6, <2>1, CloseDrafting DEF Save, docVars, jobVars
<1>7. CASE \E text \in Contents : External(text)
  <2>1. UNCHANGED <<draft, doc, timer, jobs, worker, ui, failed>>
    BY <1>7 DEF External, docVars, jobVars
  <2>2. Snapshot(doc)' = Snapshot(doc) /\ Dirty' = Dirty /\ Busy' = Busy /\ Fresh' = Fresh
    BY <2>1 DEF Snapshot, Dirty, Busy, Fresh
  <2> QED BY <2>1, <2>2 DEF Drafting, Epoch, Stale, Cleaning, Rechecked, Settled, Follows
<1> QED BY <1>2, <1>3, <1>4, <1>5, <1>6, <1>7

LEMMA NextDrafting == IInv /\ Drafting /\ ~HiddenEdits /\ [Next]_vars => Drafting'
<1> SUFFICES ASSUME IInv, Drafting, ~HiddenEdits, [Next]_vars PROVE Drafting'
  OBVIOUS
<1>1. CASE UNCHANGED vars
  <2>1. UNCHANGED <<draft, doc, timer, jobs, worker, ui, failed>>
    BY <1>1 DEF vars, docVars, jobVars
  <2>2. Snapshot(doc)' = Snapshot(doc) /\ Dirty' = Dirty /\ Busy' = Busy /\ Fresh' = Fresh
    BY <2>1 DEF Snapshot, Dirty, Busy, Fresh
  <2> QED BY <2>1, <2>2 DEF Drafting, Epoch, Stale, Cleaning, Rechecked, Settled, Follows
<1>2. CASE Write \/ Recheck
  <2>1. doc # None
    BY <1>2 DEF Write, Recheck, IInv, Still
  <2> QED BY <1>2, <2>1, WriteDrafting, RecheckDrafting
<1>3. CASE Working
  BY <1>2, <1>3, BeginDrafting DEF Working
<1> QED BY <1>1, <1>3, OpenDrafting, EditDrafting, TimerDrafting, WindowDrafting,
        WriterDrafting DEF Next

(* When no write is under way the draft on disk is that of the document,   *)
(* for any texts, failures, edits and closings, as long as no tab is       *)
(* closed before the draft of its last change was taken.                   *)
THEOREM DraftsFollow == ASSUME ~HiddenEdits PROVE Spec => []DraftFollows
<1>1. IInv /\ Drafting => DraftFollows
  BY DEF IInv, Owned, Drafting, Settled, Follows, DraftFollows, Quiet, LockFree, Busy
<1>2. IInv /\ Drafting /\ [Next]_vars => IInv' /\ Drafting'
  BY NextIInv, NextDrafting
<1> QED BY InitIInv, InitDrafting, <1>1, <1>2, PTL DEF Spec
===============================================================================
