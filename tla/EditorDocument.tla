----------------------------- MODULE EditorDocument -----------------------------
(***************************************************************************)
(* One source file in Kene Editor: the document the writer edits, the file *)
(* of the project and the recovery draft beside it.  Drafts are written by *)
(* background jobs, 350 ms after the last change; every later change, save *)
(* or discard makes the jobs before it stale.  Tabs, windows and the       *)
(* editor itself may close or die at any of these moments, and other       *)
(* programs change the file.                                               *)
(***************************************************************************)
EXTENDS Naturals, FiniteSets

CONSTANTS
  None,
  Contents,         \* texts of the file
  MayFail,          \* "draft", "save": writes that may report an error
  Racing,           \* another program may write between compare and replace
  HiddenEdits,      \* a tab may be closed within 350 ms of an edit
  MaxEdits          \* bound: edits, and changes by other programs

ASSUME Faults == Racing \in BOOLEAN /\ HiddenEdits \in BOOLEAN /\ MaxEdits \in Nat

VARIABLES
  source,           \* the file in the project
  draft,            \* the recovery file
  doc,              \* the open document, or None
  tab,              \* its panel is open
  timer,            \* the panel waits to write a draft of its last change
  jobs,             \* RecoveryWrites of the present epoch that wait to run
  worker,           \* the one that holds the writer's lock
  ui,               \* what the window does next
  failed,           \* the last write or removal of the draft failed
  edits
docVars == <<doc, tab, timer>>
jobVars == <<jobs, worker>>
vars == <<source, draft, docVars, jobVars, ui, failed, edits>>

Draft == [base : Contents, contents : Contents]
Document == [base : Contents, contents : Contents, conflicted : BOOLEAN]
ASSUME Absent == None \notin Draft \cup Document
(* own: the document it was made for is still open.                        *)
Job == [draft : Draft \cup {None}, own : BOOLEAN]
UiSteps == {"idle", "replace", "cleanup", "release", "closing", "flush"}
NoJob == [draft |-> None, own |-> FALSE]

TypeOK ==
  /\ source \in Contents /\ draft \in Draft \cup {None}
  /\ doc \in Document \cup {None} /\ tab \in BOOLEAN /\ timer \in BOOLEAN
  /\ doc = None => ~tab
  /\ timer => tab
  /\ jobs \subseteq Job
  /\ worker \in [at : {"idle", "write", "recheck"}, job : Job, fresh : BOOLEAN]
  /\ ui \in [at : UiSteps, close : BOOLEAN, edited : BOOLEAN, job : Job]
  /\ failed \in BOOLEAN /\ edits \in 0..MaxEdits

Dirty == doc # None /\ doc.contents # doc.base
Snapshot(d) ==
  [draft |-> IF d.contents = d.base THEN None
             ELSE [base |-> d.base, contents |-> d.contents],
   own |-> TRUE]
LockFree == worker.at = "idle"
UiIdle == [at |-> "idle", close |-> FALSE, edited |-> FALSE, job |-> NoJob]
UiAt(step) == ui' = [ui EXCEPT !.at = step]
Fails(what) == what \in MayFail

-------------------------------------------------------------------------------
(* A new epoch: what waits would find another epoch and return; what runs   *)
(* finds it after its rename.                                               *)

Current(js) == {j \in js : ~j.own}
Bump == jobs' = Current(jobs) /\ worker' = [worker EXCEPT !.fresh = @ /\ ~worker.job.own]
(* A released document takes its lock and bumps the epoch a last time.      *)
(* Mutant: it does not.                                                    *)
RetireNothing ==
  /\ jobs' = {[j EXCEPT !.own = FALSE] : j \in jobs}
  /\ worker' = [worker EXCEPT !.job.own = FALSE]
Retire == LockFree /\ jobs' = Current(jobs) /\ UNCHANGED worker

(* DocumentManager::open and load_recovery.                                *)
Clean(text, conflict) == [base |-> text, contents |-> text, conflicted |-> conflict]
Open ==
  /\ ui.at = "idle" /\ doc = None
  /\ doc' = IF draft = None THEN Clean(source, FALSE)
            ELSE IF draft.base # source THEN Clean(source, TRUE)
            ELSE [base |-> source, contents |-> draft.contents, conflicted |-> FALSE]
  /\ draft' = IF draft # None /\ draft.base = source /\ draft.contents = source
              THEN None ELSE draft
  /\ tab' = TRUE
  /\ UNCHANGED <<source, timer, jobVars, ui, failed, edits>>
(* A document that is open already is refreshed when it is clean.          *)
Reopen ==
  /\ ui.at = "idle" /\ doc # None /\ tab' = TRUE
  /\ IF Dirty \/ source = doc.contents
     THEN ~tab /\ UNCHANGED <<doc, jobVars, ui>>
     ELSE doc' = Clean(source, FALSE) /\ Bump /\ UiAt("cleanup")
  /\ UNCHANGED <<source, draft, timer, failed, edits>>

(* replace_contents, and what the panel does about the draft.              *)
(* Mutant: the panel writes a draft of the first change only.              *)
EditUntimed(text) ==
  /\ ui.at \in {"idle", "closing"} /\ tab /\ text # doc.contents
  /\ edits < MaxEdits /\ edits' = edits + 1
  /\ doc' = [doc EXCEPT !.contents = text] /\ timer' = (timer \/ ~Dirty)
  /\ ui' = [ui EXCEPT !.edited = (ui.at = "closing")]
  /\ jobs' = Current(jobs) \cup (IF text = doc.base THEN {Snapshot(doc')} ELSE {})
  /\ worker' = [worker EXCEPT !.fresh = @ /\ ~worker.job.own]
  /\ UNCHANGED <<source, draft, tab, failed>>
Edit(text) ==
  /\ ui.at \in {"idle", "closing"} /\ tab /\ text # doc.contents
  /\ edits < MaxEdits /\ edits' = edits + 1
  /\ doc' = [doc EXCEPT !.contents = text] /\ timer' = TRUE
  /\ ui' = [ui EXCEPT !.edited = (ui.at = "closing")]
  /\ jobs' = Current(jobs) \cup (IF text = doc.base THEN {Snapshot(doc')} ELSE {})
  /\ worker' = [worker EXCEPT !.fresh = @ /\ ~worker.job.own]
  /\ UNCHANGED <<source, draft, tab, failed>>
TimerFires ==
  /\ timer /\ timer' = FALSE /\ ui.at \in {"idle", "closing"}
  /\ jobs' = jobs \cup {Snapshot(doc)}
  /\ UNCHANGED <<source, draft, doc, tab, worker, ui, failed, edits>>

-------------------------------------------------------------------------------
(* RecoveryWrite::execute under the document's writer lock.                 *)

Begin(j) ==
  /\ LockFree /\ jobs' = jobs \ {j}
  /\ worker' = [at |-> "write", job |-> j, fresh |-> TRUE]
  /\ UNCHANGED <<source, draft, docVars, ui, failed, edits>>
Ends == worker' = [at |-> "idle", job |-> NoJob, fresh |-> FALSE]
Write ==
  /\ worker.at = "write"
  /\ \/ /\ draft' = worker.job.draft /\ failed' = FALSE
        /\ IF draft' = None THEN Ends ELSE worker' = [worker EXCEPT !.at = "recheck"]
     \/ Fails("draft") /\ Ends /\ failed' = TRUE /\ UNCHANGED draft
  /\ UNCHANGED <<source, docVars, jobs, ui, edits>>
(* Mutant: the epoch is not looked at again.                               *)
RecheckNothing ==
  /\ worker.at = "recheck" /\ Ends
  /\ UNCHANGED <<source, draft, docVars, jobs, ui, failed, edits>>
Recheck ==
  /\ worker.at = "recheck" /\ Ends
  /\ \/ worker.fresh /\ UNCHANGED <<draft, failed>>
     \/ ~worker.fresh /\ draft' = None /\ UNCHANGED failed
     \/ ~worker.fresh /\ Fails("draft") /\ failed' = TRUE /\ UNCHANGED draft
  /\ UNCHANGED <<source, docVars, jobs, ui, edits>>

-------------------------------------------------------------------------------
(* SourceDocument::save: compare with the file, replace it, remove the      *)
(* draft without the lock.                                                  *)

Save(close) ==
  /\ ui.at = "idle" /\ Dirty /\ source = doc.base
  /\ ui' = [UiIdle EXCEPT !.at = "replace", !.close = close]
  /\ UNCHANGED <<source, draft, docVars, jobVars, failed, edits>>
Replace ==
  /\ ui.at = "replace"
  /\ \/ /\ source' = doc.contents /\ doc' = Clean(doc.contents, FALSE)
        /\ Bump /\ UiAt("cleanup")
     \/ Fails("save") /\ ui' = UiIdle /\ UNCHANGED <<source, doc, jobVars>>
  /\ UNCHANGED <<draft, tab, timer, failed, edits>>
Cleanup ==
  /\ ui.at = "cleanup"
  /\ \/ draft' = None /\ failed' = FALSE
     \/ Fails("draft") /\ failed' = TRUE /\ UNCHANGED draft
  /\ ui' = IF ui.close THEN [ui EXCEPT !.at = "flush"] ELSE UiIdle
  /\ UNCHANGED <<source, docVars, jobVars, edits>>
(* DocumentManager::reload after the writer agreed to lose the draft.       *)
Discard ==
  /\ ui.at = "idle" /\ tab /\ (Dirty \/ source # doc.base)
  /\ doc' = Clean(source, FALSE) /\ Bump /\ UiAt("cleanup")
  /\ UNCHANGED <<source, draft, tab, timer, failed, edits>>

-------------------------------------------------------------------------------
(* A tab that closes releases a clean document and keeps a dirty one.       *)

CloseTab ==
  /\ ui.at = "idle" /\ tab /\ (HiddenEdits \/ ~timer)
  /\ tab' = FALSE /\ timer' = FALSE
  /\ IF Dirty THEN UNCHANGED ui ELSE UiAt("release")
  /\ UNCHANGED <<source, draft, doc, jobVars, failed, edits>>
Release ==
  /\ ui.at = "release" /\ ui' = UiIdle
  /\ \/ Retire /\ draft' = None /\ doc' = None /\ failed' = FALSE
     \/ LockFree /\ Fails("draft") /\ failed' = TRUE /\ UNCHANGED <<draft, doc, jobVars>>
  /\ UNCHANGED <<source, tab, timer, edits>>

(* confirm_close, Close Without Saving: write what is unsaved, again when   *)
(* it changed meanwhile; a failure does not keep the window.                *)
AskToClose ==
  /\ ui.at = "idle" /\ doc # None
  /\ IF ~Dirty THEN UiAt("flush") /\ UNCHANGED jobs
     ELSE /\ ui' = [at |-> "closing", close |-> TRUE, edited |-> FALSE, job |-> Snapshot(doc)]
          /\ jobs' = jobs \cup {Snapshot(doc)}
  /\ UNCHANGED <<source, draft, docVars, worker, failed, edits>>
Written == ui.job \notin jobs /\ (LockFree \/ worker.job # ui.job)
CloseLoop ==
  /\ ui.at = "closing" /\ Written
  /\ \/ (~ui.edited \/ failed) /\ UiAt("flush") /\ UNCHANGED jobs
     \/ /\ ui.edited /\ ui' = [ui EXCEPT !.edited = FALSE, !.job = Snapshot(doc)]
        /\ jobs' = jobs \cup {Snapshot(doc)}
  /\ UNCHANGED <<source, draft, docVars, worker, failed, edits>>
(* release_project: persist_recovery and retire_recovery.                  *)
Flush ==
  /\ ui.at = "flush" /\ ui' = UiIdle
  /\ Retire /\ doc' = None /\ tab' = FALSE /\ timer' = FALSE
  /\ \/ draft' = Snapshot(doc).draft /\ failed' = FALSE
     \/ Fails("draft") /\ failed' = TRUE /\ UNCHANGED draft
  /\ UNCHANGED <<source, edits>>

Dies ==
  /\ doc # None \/ jobs # {} \/ ~LockFree
  /\ doc' = None /\ tab' = FALSE /\ timer' = FALSE /\ jobs' = {}
  /\ Ends /\ ui' = UiIdle /\ failed' = FALSE
  /\ UNCHANGED <<source, draft, edits>>
(* Another program writes the file.                                        *)
External(text) ==
  /\ text # source /\ edits < MaxEdits /\ edits' = edits + 1
  /\ Racing \/ ui.at # "replace"
  /\ source' = text
  /\ UNCHANGED <<draft, docVars, jobVars, ui, failed>>

Init ==
  /\ source \in Contents /\ draft = None
  /\ doc = None /\ tab = FALSE /\ timer = FALSE
  /\ jobs = {} /\ worker = [at |-> "idle", job |-> NoJob, fresh |-> FALSE]
  /\ ui = UiIdle /\ failed = FALSE /\ edits = 0
Working == Write \/ Recheck \/ \E j \in jobs : Begin(j)
Window == Replace \/ Cleanup \/ Release \/ CloseLoop \/ Flush
Next ==
  \/ Open \/ Reopen \/ Discard \/ CloseTab \/ AskToClose \/ Dies
  \/ \E text \in Contents : Edit(text) \/ External(text)
  \/ \E close \in BOOLEAN : Save(close)
  \/ TimerFires \/ Working \/ Window

(* The timer ends between two handlers, jobs run, a handler runs to its end.*)
Fairness == SF_vars(TimerFires) /\ WF_vars(Working) /\ WF_vars(Window)
Spec == Init /\ [][Next]_vars
FairSpec == Spec /\ Fairness

-------------------------------------------------------------------------------
Quiet == ui.at = "idle" /\ LockFree /\ ~timer /\ \A j \in jobs : ~j.own
(* When no write is under way the draft is that of the document: neither a *)
(* stale job nor a stale removal has the last word.                        *)
DraftFollows ==
  doc # None /\ Quiet /\ ~failed =>
    \/ draft = Snapshot(doc).draft
    \/ ~Dirty /\ doc.conflicted

(* Whatever waits or runs belongs to an open document: a closed project's  *)
(* draft is not touched until it is opened again.                          *)
ClosedIsStill == [][doc = None /\ doc' = None => draft' = draft]_vars

(* An edit that is left alone is in the draft after a while.  Closing the   *)
(* window takes a round per text it finds changed when its draft is        *)
(* written: every round ends although writes fail, and the first one in    *)
(* which the writer does not type closes the window.                       *)
Closing == ui.at \in {"closing", "flush"}
Completes ==
  /\ Dirty /\ tab ~> ~Dirty \/ draft = Snapshot(doc).draft \/ failed \/ ~tab
  /\ Closing /\ ui.edited ~> ~ui.edited
  /\ Closing /\ ~ui.edited ~> ui.at = "idle" \/ ui.edited
===============================================================================
