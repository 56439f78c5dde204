-------------------------------- MODULE HotReload -------------------------------
(***************************************************************************)
(* The running game follows its sources: a watcher collects changes, a     *)
(* worker reads all files again and builds a Program, a frame installs it  *)
(* when nothing changed meanwhile.  The worker reads one file after the    *)
(* other while they are being written.                                     *)
(***************************************************************************)
EXTENDS Naturals

CONSTANTS
  Nil,             \* not read yet
  Files,            \* the files of the project
  Contents,         \* texts of a file
  Invalid,          \* those that a build refuses
  SpawnFails,       \* starting a worker may fail
  MaxChanges        \* bound: writes of files

Sources == [Files -> Contents]
Reading == [Files -> Contents \cup {Nil}]
Nothing == [f \in Files |-> Nil]
Valid(files) == \A f \in Files : files[f] \notin Invalid

ASSUME Texts == Invalid \subseteq Contents /\ Nil \notin Contents
ASSUME Unread == Nil \notin Reading
ASSUME Workers == SpawnFails \in BOOLEAN /\ MaxChanges \in Nat

VARIABLES
  project,          \* what the files hold
  unseen,           \* a change the operating system has not reported yet
  reported,         \* the watcher's set is not empty
  pending,          \* pending_change_count is not zero
  running,          \* the files the worker has read, or Nil
  program,          \* the files the installed Program was built from
  changes
game == <<unseen, reported, pending, running, program>>

TypeOK ==
  /\ project \in Sources /\ program \in Sources
  /\ unseen \in BOOLEAN /\ reported \in BOOLEAN /\ pending \in BOOLEAN
  /\ running \in Reading \cup {Nil}
  /\ changes \in 0..MaxChanges

Report ==
  /\ unseen /\ unseen' = FALSE /\ reported' = TRUE
  /\ UNCHANGED <<project, changes, pending, running, program>>
(* build_hot_reload in its thread.                                         *)
ReadFile(f) ==
  /\ running # Nil /\ running[f] = Nil
  /\ running' = [running EXCEPT ![f] = project[f]]
  /\ UNCHANGED <<project, changes, unseen, reported, pending, program>>

(* Mutant: a change that comes while the worker runs is forgotten with it. *)
CountsIdle == pending \/ (reported /\ running = Nil)
Counts == pending \/ reported
Finished == running # Nil /\ \A f \in Files : running[f] # Nil
(* take_completed_reload and apply_hot_reload.                             *)
Install ==
  program' = IF Finished /\ ~Counts /\ Valid(running) THEN running ELSE program
(* start_pending_reload.                                                   *)
Start ==
  \/ (running # Nil /\ ~Finished) /\ running' = running /\ pending' = Counts
  \/ /\ running = Nil \/ Finished
     /\ \/ ~Counts /\ running' = Nil /\ pending' = FALSE
        \/ Counts /\ running' = Nothing /\ pending' = FALSE
        \/ Counts /\ SpawnFails /\ running' = Nil /\ pending' = TRUE
Frame ==
  /\ reported \/ pending \/ Finished
  /\ reported' = FALSE /\ Install /\ Start
  /\ UNCHANGED <<project, changes, unseen>>
Started == Frame /\ pending' = FALSE

Init ==
  /\ project \in Sources /\ Valid(project) /\ program = project
  /\ unseen = FALSE /\ reported = FALSE /\ pending = FALSE /\ running = Nil
  /\ changes = 0
Change(f, text) ==
  /\ text # project[f] /\ changes < MaxChanges /\ changes' = changes + 1
  /\ project' = [project EXCEPT ![f] = text] /\ unseen' = TRUE
  /\ UNCHANGED <<reported, pending, running, program>>
Game == Report \/ Frame \/ \E f \in Files : ReadFile(f)
Next == Game \/ \E f \in Files, text \in Contents : Change(f, text)

(* Changes are reported, the worker reads on, the game draws frames, and a  *)
(* thread can be started now and then.                                     *)
Fairness ==
  /\ WF_game(Report) /\ WF_game(Frame) /\ SF_game(Started)
  /\ WF_game(\E f \in Files : ReadFile(f))
Spec == Init /\ [][Next]_<<project, changes, game>>
FairSpec == Spec /\ Fairness

-------------------------------------------------------------------------------
(* When nothing is on its way any more, the Program is what the files hold, *)
(* unless they hold something a build refuses: no change was lost between   *)
(* watcher, worker and frame, and no build of half a change remains.        *)
Settled == ~unseen /\ ~reported /\ ~pending /\ running = Nil
PlaysProject == Settled /\ Valid(project) => program = project

(* When the writer has stopped saving, what was saved is played in the end. *)
SavedIsPlayed == <>[]Valid(project) => <>[](program = project)
===============================================================================
