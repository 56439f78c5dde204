----------------------------- MODULE ScriptEngine -----------------------------
(***************************************************************************)
(* The native runtime around one script State: the frame tick, the driver  *)
(* that resumes the script and keeps a continuation checkpoint in memory,  *)
(* the save slots on disk, backlog rollback, the return to the title, hot  *)
(* reload, exit, crash and relaunch.                                       *)
(*                                                                         *)
(* A call of `resume` is a sequence of steps of `run`, one per action of   *)
(* the program; the host does nothing else meanwhile, but the process may  *)
(* die between two of them.  Everything the host does is one action.       *)
(***************************************************************************)
EXTENDS ScriptCore

CONSTANTS
  EntryScene,       \* entry_scene of each program, NoScene without one
  MaxForward,       \* MAX_FORWARD_ACTIONS
  SaveSlots,        \* slot numbers; 0 is QUICK_SAVE_SLOT
  Commands          \* the host operations this instance exercises

ASSUME Entries ==
  /\ EntryScene \in [Fingerprints -> SceneNames \cup {NoScene}]
  /\ \A fp \in Fingerprints :
       EntryScene[fp] # NoScene => HasScene(fp, EntryScene[fp])
ASSUME Fuel == MaxForward \in Nat \ {0}
ASSUME SlotNumbers == 0 \in SaveSlots

VARIABLES
  attached,         \* the program installed in this process
  state,            \* GameState
  run,              \* the resume in progress, None between host operations
  checkpoint,       \* ContinuationCheckpoint, None without one
  returning,        \* ReturnToTitleTransition: "no", "cover", "reveal"
  slots             \* the slot files
vars == <<attached, state, run, checkpoint, returning, slots>>

(* One resume: the actions left, whether a line is put back when the script *)
(* ends, and whether the preview tooling asked for it.                     *)
Run == [fuel : 0..MaxForward, restore : BOOLEAN, tooling : BOOLEAN]
ASSUME NoRun == None \notin Run
TypeOK ==
  /\ attached \in Fingerprints
  /\ state \in StateType
  /\ run \in Run \cup {None}
  /\ checkpoint \in StateType \cup {None}
  /\ returning \in {"no", "cover", "reveal"}
  /\ slots \in [SaveSlots -> StateType \cup {None}]

-------------------------------------------------------------------------------
(* The driver: when to resume, which boundary to keep for a save. *)

YieldedForVideo(a) ==
  a.op = "present" /\ ~a.next /\ a.slot \in VideoSlots /\ a.hold = "block"
(* Mutant: a line on the stage always waits for a click.                   *)
NeedsResumeNoVideo(s) ==
  /\ ~s.ended /\ HasScene(s.fp, s.scene) /\ ~s.diagnostic
  /\ s.dialogue = None /\ s.menu = None /\ s.input = None /\ ~Blocked(s)
(* Mutant: only a tick that saw the presentation end resumes the script.   *)
NeedsResumeNever(s) == FALSE
NeedsResume(s) ==
  /\ ~s.ended /\ HasScene(s.fp, s.scene) /\ ~s.diagnostic
  /\ \/ s.dialogue = None
     \/ /\ s.cursor \in 1..SceneLen(s.fp, s.scene)
        /\ YieldedForVideo(Program[s.fp][s.scene][s.cursor])
  /\ s.menu = None /\ s.input = None
  /\ ~Blocked(s)

(* Mutant: a play-video action asks for no boundary.                       *)
IntroducesNoVideo(a) == a.op = "present" /\ a.slot \in Transient \ VideoSlots
Introduces(a) == a.op = "present" /\ a.slot \in Transient
Capture(kept, s) == IF ~s.ended /\ Exact(s) THEN s ELSE kept
Reset(s) == Capture(None, s)
EnsureCurrent(kept, s) ==
  IF kept # None /\ kept.fp = s.fp THEN kept ELSE Reset(s)

(* Mutant: the live state is written whatever runs on the stage.           *)
ContinuationLive == state
(* Mutant: no fallback to the checkpoint.                                  *)
ContinuationExact == IF Exact(state) THEN state ELSE None
(* The state a save or an exit writes, None when there is none to write.   *)
Continuation ==
  IF Exact(state) THEN state
  ELSE IF checkpoint # None /\ checkpoint.fp = state.fp THEN checkpoint
  ELSE None

-------------------------------------------------------------------------------
(* One resume.  The script refuses to run under an open menu, input or     *)
(* presentation; otherwise it runs until an action yields, the scene ends  *)
(* or the forward limit is reached.                                        *)

(* Mutant: an open menu does not stop a resume.                            *)
RefusesNoMenu(s) == s.input # None \/ Blocked(s)
Refuses(s) == s.menu # None \/ s.input # None \/ Blocked(s)
Started == run.fuel < MaxForward
MayRun == run # None /\ (Started \/ ~Refuses(state)) /\ run.fuel > 0
(* Mutant: the forward limit is not terminal.                              *)
OverNoLimit(out) == out \in {"end", "error"}
Over(out) == out \in {"end", "error", "limit"}

Begin(s, kept, restore) ==
  /\ state' = s
  /\ checkpoint' = EnsureCurrent(kept, s)
  /\ run' = [fuel |-> MaxForward, restore |-> restore, tooling |-> FALSE]

(* finish_step: a line that was advanced is put back for the fade out.     *)
Kept(s, out) ==
  IF Over(out) /\ run.restore /\ s.dialogue = None
  THEN [s EXCEPT !.dialogue = s.previous, !.previous = None] ELSE s

Finish(s, out, kept) ==
  LET done == [s EXCEPT !.diagnostic = out \in {"error", "limit"}]
      settled == IF Over(out) THEN EndGame(done) ELSE done
  IN /\ run' = None
     /\ IF run.tooling
          THEN /\ state' = settled /\ checkpoint' = Reset(settled)
               /\ UNCHANGED returning
          ELSE /\ state' = Kept(done, out) /\ checkpoint' = Capture(kept, done)
               /\ returning' = IF Over(out) THEN "cover" ELSE returning
     /\ UNCHANGED <<attached, slots>>

StepRefused ==
  /\ run # None /\ ~Started /\ Refuses(state)
  /\ Finish(state, "await", checkpoint)

(* Mutant: only finished scenes count against the limit.                   *)
StepActionFree ==
  /\ MayRun /\ HasAction(state)
  /\ LET done == ExecFlow(state, ActionAt(state))
     IN IF done.out = "go"
          THEN /\ state' = done.st
               /\ UNCHANGED <<attached, run, checkpoint, returning, slots>>
          ELSE Finish(done.st, done.out, checkpoint)
StepAction ==
  /\ MayRun /\ HasAction(state)
  /\ LET a == ActionAt(state)
         done == ExecFlow(state, a)
         kept == IF Introduces(a) /\ ~run.tooling THEN Capture(checkpoint, state)
                                                  ELSE checkpoint
     IN IF done.out = "go"
          THEN /\ state' = done.st /\ checkpoint' = kept
               /\ run' = [run EXCEPT !.fuel = @ - 1]
               /\ UNCHANGED <<attached, returning, slots>>
          ELSE Finish(done.st, done.out, kept)

StepPop ==
  /\ MayRun /\ ~HasAction(state) /\ state.stack # <<>>
  /\ state' = PopFrame(state)
  /\ run' = [run EXCEPT !.fuel = @ - 1]
  /\ UNCHANGED <<attached, checkpoint, returning, slots>>

StepFallOff ==
  /\ MayRun /\ ~HasAction(state) /\ state.stack = <<>>
  /\ Finish(state, "end", checkpoint)

StepLimit == run # None /\ run.fuel = 0 /\ Finish(state, "limit", checkpoint)

Step == StepRefused \/ StepAction \/ StepPop \/ StepFallOff \/ StepLimit

-------------------------------------------------------------------------------
(* One frame on the stage.                                                 *)

Idle == run = None
Playing ==
  /\ Idle /\ returning = "no" /\ ~state.ended
  /\ state.input = None /\ state.message = None
Title == Idle /\ returning = "no" /\ state.ended

Active(s) == {p \in Slots : s.live[p] \in {"on", "block"}}
Settle(s, done) ==
  [s EXCEPT !.live = [p \in Slots |->
     IF p \notin done THEN s.live[p]
     ELSE IF p \in HoldSlots THEN "loop" ELSE "off"]]

(* Mutant: a click leaves a line before it is complete.                    *)
AdvanceAlways(s) ==
  Begin(IF s.dialogue # None THEN Advance(s) ELSE s,
        checkpoint, s.dialogue # None)
(* advance_once: the first advance shows the whole line, the next leaves it. *)
AdvanceOnce(s) ==
  IF s.dialogue # None /\ ~s.dialogue.shown
  THEN /\ state' = [s EXCEPT !.dialogue.shown = TRUE]
       /\ UNCHANGED <<run, checkpoint>>
  ELSE Begin(IF s.dialogue # None THEN Advance(s) ELSE s,
             checkpoint, s.dialogue # None)

Modes == {"manual", "auto", "skipread", "skipall"}
Skips(s, mode) == mode = "skipall" \/ (mode = "skipread" /\ IsRead(s))

(* `done` are the presentations that finish during this frame, by their    *)
(* clock or by a skipped video; `typed` says whether the typewriter        *)
(* reaches the end of the line.                                            *)
Tick(done, click, mode, typed) ==
  LET wasBlocked == Blocked(state)
      moved == [Settle(state, done) EXCEPT !.waiting = @ /\ ~click]
      shown == IF typed /\ moved.dialogue # None
                 THEN [moved EXCEPT !.dialogue.shown = TRUE] ELSE moved
      ready == shown.dialogue = None \/ shown.dialogue.shown
      notend == shown.dialogue # None /\ shown.dialogue.auto /\ ready
  IN /\ Playing
     /\ IF wasBlocked \/ NeedsResume(moved)
          THEN IF Blocked(moved)
                 THEN state' = moved /\ UNCHANGED <<run, checkpoint>>
                 ELSE Begin(moved, checkpoint, FALSE)
        ELSE IF Skips(moved, mode) THEN AdvanceOnce(moved)
        ELSE IF click \/ notend \/ (mode = "auto" /\ ready)
          THEN AdvanceOnce(shown)
        ELSE state' = shown /\ UNCHANGED <<run, checkpoint>>
     /\ UNCHANGED <<attached, returning, slots>>

(* The backend drops a finished or failed video outside the tick.          *)
VideoEnds(p) ==
  /\ Idle /\ p \in VideoSlots \cap Active(state)
  /\ state' = Settle(state, {p})
  /\ UNCHANGED <<attached, run, checkpoint, returning, slots>>

(* dispatch_shell: a script asked for the title.                           *)
DispatchShell ==
  /\ Idle /\ state.shell
  /\ state' = EndGame(state)
  /\ UNCHANGED <<attached, run, checkpoint, returning, slots>>

-------------------------------------------------------------------------------
(* What the player does.                                                   *)

(* A refused choice leaves the menu open and nothing is resumed.           *)
Choose(m) ==
  /\ Playing /\ state.menu # None /\ m \in state.menu
  /\ IF Refused(m)
       THEN state' = state /\ UNCHANGED <<run, checkpoint>>
       ELSE Begin(SelectChoice(state, m), checkpoint, FALSE)
  /\ UNCHANGED <<attached, returning, slots>>

SubmitInput(v) ==
  /\ Idle /\ returning = "no" /\ ~state.ended /\ state.input # None
  /\ Begin([state EXCEPT !.vars[state.input] = v, !.input = None],
           checkpoint, FALSE)
  /\ UNCHANGED <<attached, returning, slots>>

ResolveMessage(v) ==
  /\ Idle /\ returning = "no" /\ ~state.ended
  /\ state.input = None /\ state.message # None
  /\ Begin(Answered(state, v), checkpoint, FALSE)
  /\ UNCHANGED <<attached, returning, slots>>

SaveSlot(i) ==
  /\ "save" \in Commands /\ Playing /\ Continuation # None
  /\ slots' = [slots EXCEPT ![i] = Saved(Continuation)]
  /\ UNCHANGED <<attached, state, run, checkpoint, returning>>

LoadSlot(i) ==
  /\ "load" \in Commands /\ (Playing \/ Title)
  /\ slots[i] # None /\ CanRestore(state, slots[i])
  /\ state' = RestoreSaved(state, slots[i])
  /\ checkpoint' = Reset(state')
  /\ UNCHANGED <<attached, run, returning, slots>>

DeleteSlot(i) ==
  /\ "delete" \in Commands /\ (Playing \/ Title) /\ i # 0
  /\ slots' = [slots EXCEPT ![i] = None]
  /\ UNCHANGED <<attached, state, run, checkpoint, returning>>

Rollback(i) ==
  /\ "rollback" \in Commands /\ Playing /\ i \in 1..Len(state.backlog)
  /\ Restorable(state.fp, state.backlog[i])
  /\ state' = RestoreBacklog(state, i)
  /\ checkpoint' = Reset(state')
  /\ UNCHANGED <<attached, run, returning, slots>>

BackToTitle ==
  /\ "title" \in Commands /\ Playing
  /\ slots' = IF Continuation = None THEN slots
              ELSE [slots EXCEPT ![0] = Saved(Continuation)]
  /\ returning' = "cover"
  /\ UNCHANGED <<attached, state, run, checkpoint>>

(* Mutant: the phase never changes.                                        *)
ReturnCoverStays ==
  /\ Idle /\ returning = "cover"
  /\ state' = EndGame(state)
  /\ UNCHANGED <<attached, run, checkpoint, returning, slots>>
(* The cover hides the stage before the session is dropped.                *)
ReturnCover ==
  /\ Idle /\ returning = "cover"
  /\ state' = EndGame(state) /\ returning' = "reveal"
  /\ UNCHANGED <<attached, run, checkpoint, slots>>

ReturnReveal ==
  /\ Idle /\ returning = "reveal" /\ returning' = "no"
  /\ UNCHANGED <<attached, state, run, checkpoint, slots>>

StartGame ==
  LET begun == [state EXCEPT !.ended = FALSE, !.backlog = <<>>,
                             !.scene = EntryScene[state.fp], !.cursor = 0]
  IN /\ Title
     /\ Begin(begun, Reset(begun), FALSE)
     /\ UNCHANGED <<attached, returning, slots>>

Continue ==
  /\ "load" \in Commands /\ Title
  /\ slots[0] # None /\ CanRestore(state, slots[0])
  /\ ~RestoreSaved(state, slots[0]).ended
  /\ state' = RestoreSaved(state, slots[0])
  /\ checkpoint' = Reset(state')
  /\ UNCHANGED <<attached, run, returning, slots>>

-------------------------------------------------------------------------------
(* The process.                                                            *)

Launched(fp) ==
  /\ attached' = fp /\ state' = Fresh(fp) /\ run' = None
  /\ checkpoint' = None /\ returning' = "no"

(* Mutant: an exit on the title screen saves as well.                      *)
ExitSaves(fp) ==
  /\ "exit" \in Commands /\ Idle
  /\ slots' = IF Continuation = None THEN slots
              ELSE [slots EXCEPT ![0] = Saved(Continuation)]
  /\ Launched(fp)
(* quick_save_on_exit, then the next launch with the same or another build. *)
Exit(fp) ==
  /\ "exit" \in Commands /\ Idle
  /\ slots' = IF state.ended \/ Continuation = None THEN slots
              ELSE [slots EXCEPT ![0] = Saved(Continuation)]
  /\ Launched(fp)

Crash(fp) ==
  /\ "crash" \in Commands
  /\ Launched(fp) /\ UNCHANGED slots

(* A hot reload restarts the current scene of the changed program.         *)
Reload(fp) ==
  LET scene == IF HasScene(fp, state.scene) THEN state.scene ELSE EntryScene[fp]
      restarted == [Fresh(fp) EXCEPT !.vars = state.vars, !.scene = scene,
                      !.ended = state.ended \/ scene = NoScene]
  IN /\ "reload" \in Commands /\ Idle /\ returning = "no" /\ fp # state.fp
     /\ attached' = fp /\ state' = restarted
     /\ IF restarted.ended
          THEN checkpoint' = Reset(restarted) /\ run' = None
          ELSE /\ run' = [fuel |-> MaxForward, restore |-> FALSE,
                          tooling |-> TRUE]
               /\ UNCHANGED checkpoint
     /\ UNCHANGED <<returning, slots>>

Init ==
  /\ attached \in Fingerprints
  /\ state = Fresh(attached)
  /\ run = None /\ checkpoint = None /\ returning = "no"
  /\ slots = [i \in SaveSlots |-> None]

Next ==
  \/ Step
  \/ \E done \in SUBSET Active(state), click, typed \in BOOLEAN, mode \in Modes :
       Tick(done, click, mode, typed)
  \/ \E p \in VideoSlots : VideoEnds(p)
  \/ DispatchShell
  \/ state.menu # None /\ \E m \in state.menu : Choose(m)
  \/ \E v \in Values : SubmitInput(v) \/ ResolveMessage(v)
  \/ \E i \in SaveSlots : SaveSlot(i) \/ LoadSlot(i) \/ DeleteSlot(i)
  \/ \E i \in 1..BacklogCapacity : Rollback(i)
  \/ BackToTitle \/ ReturnCover \/ ReturnReveal \/ StartGame \/ Continue
  \/ \E fp \in Fingerprints : Exit(fp) \/ Crash(fp) \/ Reload(fp)

Spec == Init /\ [][Next]_vars

(* Fairness: the frame loop calls the pending resume, runs the clocks of   *)
(* presentations and the typewriter, polls the video backend and drives    *)
(* the return to the title.  Nothing is assumed of the player.             *)
FramePasses == Tick(Active(state) \ VideoSlots, FALSE, "manual", TRUE)
FairSpec ==
  /\ Spec
  /\ WF_vars(Step) /\ WF_vars(FramePasses) /\ WF_vars(DispatchShell)
  /\ \A p \in VideoSlots : WF_vars(VideoEnds(p))
  /\ WF_vars(ReturnCover) /\ WF_vars(ReturnReveal)

-------------------------------------------------------------------------------
(* Safety.                                                                 *)

(* Only a launch or a reload attaches a program: a save or a rollback      *)
(* entry of another build never becomes the running position, and the      *)
(* checkpoint kept between resumes belongs to the attached program.        *)
AttachedProgram ==
  /\ state.fp = attached
  /\ \A i \in 1..Len(state.backlog) : state.backlog[i].fp = attached
  /\ Idle /\ checkpoint # None => checkpoint.fp = attached

(* Cursors and return frames lie inside their program, in the running      *)
(* state, in every rollback entry, in the checkpoint and in every slot.    *)
Placed(s) ==
  /\ s.scene = NoScene \/ FrameIn(s.fp, s.scene, s.cursor)
  /\ StackIn(s.fp, s.stack)
  /\ \A i \in 1..Len(s.backlog) : EntryIn(s.fp, s.backlog[i])
PositionsValid ==
  /\ Placed(state)
  /\ checkpoint # None => Placed(checkpoint)
  /\ \A i \in SaveSlots : slots[i] # None => Placed(slots[i])

(* The driver promises that a save made while a presentation runs that the *)
(* codec cannot hold replays that presentation's action: the checkpoint is *)
(* exact, still playing, and stands in front of such an action.            *)
CheckpointReplays ==
  checkpoint # None =>
    /\ Exact(checkpoint) /\ ~checkpoint.ended
    /\ ~Exact(state) /\ checkpoint.fp = state.fp =>
         HasAction(checkpoint) /\ Introduces(ActionAt(checkpoint))

(* Someone is responsible for the next step of a game that is not over:    *)
(* the player, a running presentation, the shell or the next frame.        *)
Owned(s) ==
  \/ s.dialogue # None \/ s.menu # None \/ s.input # None
  \/ Blocked(s) \/ s.shell \/ NeedsResume(s)
YieldOwned == Idle /\ returning = "no" /\ ~state.ended => Owned(state)

(* Whatever slot the player loads, the game it holds goes on.              *)
SavesResume ==
  \A i \in SaveSlots : slots[i] # None /\ CanRestore(state, slots[i]) =>
    LET loaded == RestoreSaved(state, slots[i])
    IN ~loaded.ended /\ Owned(loaded)

(* Rolling back to a line of the backlog shows that line, unblocked, right *)
(* behind the action that says it.                                         *)
RollbackShowsLine ==
  \A i \in 1..Len(state.backlog) :
    LET back == RestoreBacklog(state, i)
    IN /\ ~Blocked(back) /\ back.dialogue # None
       /\ back.dialogue.line = ReadKey(back)
       /\ back.cursor \in 1..SceneLen(back.fp, back.scene)
       /\ Program[back.fp][back.scene][back.cursor].op = "say"

(* The line on the stage is the newest one of the backlog, also after a    *)
(* rollback, a hot reload and a new game.                                  *)
BacklogTop ==
  state.dialogue # None /\ returning = "no" =>
    /\ state.backlog # <<>>
    /\ state.backlog[Len(state.backlog)].dialogue.line = state.dialogue.line

(* A save is never unavailable while a game is played: the live state or   *)
(* the checkpoint can be written.  (A rollback to a line under a stage     *)
(* mask, and a hot reload, leave neither: the instances and the theorem    *)
(* exclude them.)                                                          *)
SaveAvailable == Playing => Continuation # None

-------------------------------------------------------------------------------
(* What a step may not do.                                                 *)

(* A resume moves nothing under an open menu, input, message or running    *)
(* presentation, however many clicks or frames ask for it.                 *)
Unanswered(s) ==
  \/ s.menu # None \/ s.input # None \/ s.message # None \/ s.waiting
  \/ \E p \in Slots : s.live[p] = "block"
NoStepPastYield ==
  [][run # None /\ Unanswered(state) =>
       state' \in {[state EXCEPT !.diagnostic = FALSE], Fresh(attached')}]_vars

(* The skip mode for read text relies on it: a line becomes read only      *)
(* when it stood on the stage in full.                                     *)
ReadMeansShown ==
  [][\A k \in state'.read \ state.read :
       state.dialogue # None /\ k = ReadKey(state) /\ run' # None
       /\ state'.previous.shown]_vars

(* What a slot receives, loaded by a later process of the same build, is   *)
(* the live State or the checkpoint again: position, return frames, what   *)
(* is asked, every presentation on the stage, the variables and the        *)
(* backlog, although neither the codec nor the repair of positions keeps a *)
(* State as it is.  Not restored, as the codec drops them: the loading     *)
(* policy, a pending command to the shell, session variables and read      *)
(* lines (profile), and in the backlog presentations a slot cannot hold.   *)
SameGame(a, b) ==
  /\ a.fp = b.fp /\ a.scene = b.scene /\ a.cursor = b.cursor /\ a.stack = b.stack
  /\ a.ended = b.ended /\ a.dialogue = b.dialogue /\ a.previous = b.previous
  /\ a.menu = b.menu /\ a.input = b.input /\ a.message = b.message
  /\ a.waiting = b.waiting /\ a.live = b.live
  /\ \A v \in Vars \ SessionVars : a.vars[v] = b.vars[v]
  /\ a.backlog = WrittenLog(b.backlog)
SaveLossless ==
  [][\A i \in SaveSlots : slots'[i] # slots[i] /\ slots'[i] # None =>
       \E s \in {state, checkpoint} :
         /\ s # None /\ s.fp = attached /\ ~s.ended
         /\ SameGame(RestoreSaved(Fresh(attached), slots'[i]), s)]_vars

(* The quick save is written only while gameplay is active: once the game  *)
(* is over or returns to the title, an exit keeps the previous one.        *)
QuickSaveWhilePlaying ==
  [][slots'[0] # slots[0] => returning = "no" /\ ~state.ended]_vars

(* A game started from the title begins as on a fresh launch, but for the  *)
(* profile and for what end_game leaves on the stage: a parallax or a      *)
(* moved background of the last session is still there, and the new game   *)
(* may begin by waiting for an animation of it.  Nothing else leaks.       *)
LeftOver(live) == [p \in Slots |-> IF p \in KeptByEnd THEN live[p] ELSE "off"]
NewGameFresh ==
  [][Title /\ run' # None /\ ~run'.tooling =>
       state' = [Fresh(attached) EXCEPT
                   !.scene = EntryScene[attached], !.ended = FALSE,
                   !.read = state.read, !.diagnostic = state.diagnostic,
                   !.live = LeftOver(state.live)]]_vars

-------------------------------------------------------------------------------
(* Liveness.                                                               *)

AwaitsPlayer ==
  /\ Idle /\ ~state.ended /\ returning = "no"
  /\ \/ state.dialogue # None \/ state.menu # None \/ state.input # None
     \/ state.message # None \/ state.waiting

(* However a script waits for videos, timers and animations, the game      *)
(* comes back to the player or to the title.                               *)
ReachesPlayer == []<>(AwaitsPlayer \/ Title)

(* Each resume ends, also in a script that loops without yielding.         *)
ResumeEnds == run # None ~> run = None

(* A return to the title, once begun, gives the title screen.              *)
ReturnCompletes == returning # "no" ~> Title

(* A video may finish between two frames, under a line that stays on the   *)
(* stage: the script goes on without a click.                              *)
AtVideo ==
  /\ Playing /\ state.cursor \in 1..SceneLen(state.fp, state.scene)
  /\ YieldedForVideo(Program[state.fp][state.scene][state.cursor])
VideoHandsOver == AtVideo ~> ~AtVideo
===============================================================================
