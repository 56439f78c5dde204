------------------------------ MODULE ScriptCore ------------------------------
(***************************************************************************)
(* The Bevy-free script runtime of crates/core: one State, the actions of  *)
(* a compiled Program and the operations that hosts call on the State.     *)
(* Every operator here is a pure function of a State record, as the Rust   *)
(* functions take `&mut State`; module ScriptEngine calls them in the      *)
(* order in which the native runtime does.                                 *)
(*                                                                         *)
(* Names, texts and expressions are abstract.  What an action shows on the *)
(* stage is abstract too: a presentation occupies a slot (a video, the     *)
(* camera, a timed wait, the stage mask ...) whose status says whether it  *)
(* runs and whether the script waits for it.                               *)
(***************************************************************************)
EXTENDS Integers, Sequences, FiniteSets

CONSTANTS
  None,             \* Option::None
  Program,          \* [fingerprint -> [scene name -> Seq(Action)]]
  SceneNames,       \* every name a script may mention, existing or not
  NoScene,          \* the empty scene name
  Vars, Values,     \* script variables and their values
  Unset, Bad,       \* a variable without value; an expression that fails
  SessionVars,      \* State::session_variable_names
  Slots,            \* presentation slots
  VideoSlots,       \* State::videos, finished by the video backend
  Transient,        \* slots a save cannot hold (PersistenceHazard)
  HoldSlots,        \* slots that stay visible once their animation settled
  SceneSlots,       \* slots a scene change clears (stage_animation)
  KeptByEnd,        \* slots end_game does not reset
  InSnapshot,       \* slots a backlog snapshot carries
  KeptByRollback,   \* slots restore_backlog leaves as they are
  BacklogCapacity   \* DEFAULT_BACKLOG_CAPACITY

Fingerprints == DOMAIN Program
Status == {"off", "on", "loop", "block"}
Ops == {"say", "menu", "jump", "call", "scene", "return", "end", "set",
        "present", "stopvideo", "advance", "message", "input", "loading",
        "title", "nop"}

(* A condition of the expression language, by what evaluating it can do. *)
Cond == [kind : {"always", "is", "bad"}, var : Vars, val : Values]
Eval(c, vars) ==
  CASE c.kind = "always" -> "yes"
    [] c.kind = "is"     -> IF vars[c.var] = c.val THEN "yes" ELSE "no"
    [] c.kind = "bad"    -> "bad"

Choice == [show : Cond, enable : Cond,
           kind : {"label", "scene", "call", "continue", "assign"},
           label : Int, scene : SceneNames, var : Vars, val : Values \cup {Bad}]
MenuChoice == [enabled : BOOLEAN, choice : Choice]

(* One compiled action.  `when` and `next` are its Flow wrapper; a field   *)
(* an operation does not read holds an arbitrary value.  A label is its    *)
(* index in the scene, negative when the scene has no such label.          *)
ActionType ==
  [op : Ops, when : Cond, next : BOOLEAN, strict : BOOLEAN, auto : BOOLEAN,
   cond : Cond, label : Int, scene : SceneNames, other : SceneNames \cup {None},
   slot : Slots, hold : Status, var : Vars, val : Values \cup {Unset, Bad},
   choices : SUBSET Choice]

Line == [scene : SceneNames \cup {NoScene}, index : Int]
DialogueType == [line : Line, shown : BOOLEAN, auto : BOOLEAN]
Frame == [scene : SceneNames, cursor : Nat]
LiveType == [Slots -> Status]
VarsType == [Vars -> Values \cup {Unset}]
Entry == [fp : Fingerprints, scene : SceneNames, cursor : Nat,
          stack : Seq(Frame), dialogue : DialogueType, live : LiveType,
          vars : VarsType]

StateType ==
  [fp : Fingerprints, scene : SceneNames \cup {NoScene}, cursor : Nat,
   stack : Seq(Frame), ended : BOOLEAN, diagnostic : BOOLEAN,
   dialogue : DialogueType \cup {None}, previous : DialogueType \cup {None},
   menu : (SUBSET MenuChoice) \cup {None}, input : Vars \cup {None},
   message : Vars \cup {Unset, None}, waiting : BOOLEAN, live : LiveType,
   shell : BOOLEAN,
   loading : Values \cup {Unset}, vars : VarsType, backlog : Seq(Entry),
   read : SUBSET Line]

ASSUME SlotSets ==
  /\ VideoSlots \subseteq Slots /\ Transient \subseteq Slots
  /\ VideoSlots \subseteq Transient
  /\ HoldSlots \subseteq Slots /\ SceneSlots \subseteq Slots
  /\ KeptByEnd \subseteq Slots /\ InSnapshot \subseteq Slots
  /\ KeptByRollback \subseteq Slots
ASSUME Programs ==
  \A fp \in Fingerprints :
    /\ DOMAIN Program[fp] \subseteq SceneNames
    /\ \A n \in DOMAIN Program[fp] :
         /\ Program[fp][n] \in Seq(ActionType)
         /\ \A i \in 1..Len(Program[fp][n]) :
              LET a == Program[fp][n][i]
              IN /\ a.label <= Len(Program[fp][n])
                 /\ \A c \in a.choices : c.label <= Len(Program[fp][n])
                 /\ a.op = "stopvideo" => a.slot \in VideoSlots
                 /\ a.op = "loading" => a.val # Bad
ASSUME NoValue == None \notin DialogueType \cup StateType
ASSUME Names == NoScene \notin SceneNames
ASSUME Capacity == BacklogCapacity \in Nat \ {0}
ASSUME Session == SessionVars \subseteq Vars

-------------------------------------------------------------------------------
(* The program. *)

HasScene(fp, n) == n \in DOMAIN Program[fp]
SceneLen(fp, n) == Len(Program[fp][n])
HasAction(s) ==
  HasScene(s.fp, s.scene) /\ s.cursor \in 0..(SceneLen(s.fp, s.scene) - 1)
ActionAt(s) == Program[s.fp][s.scene][s.cursor + 1]

(* presentation_blocked: some presentation the script waits for is active. *)
Blocked(s) ==
  \/ s.waiting
  \/ s.message # None
  \/ \E p \in Slots : s.live[p] = "block"

(* persistence_safety().is_exact(): nothing a save would drop is active. *)
Exact(s) == \A p \in Transient : s.live[p] = "off"

Fresh(fp) ==
  [fp |-> fp, scene |-> NoScene, cursor |-> 0, stack |-> <<>>, ended |-> TRUE,
   diagnostic |-> FALSE, dialogue |-> None, previous |-> None, menu |-> None,
   input |-> None, message |-> None, waiting |-> FALSE,
   live |-> [p \in Slots |-> "off"], shell |-> FALSE, loading |-> Unset,
   vars |-> [v \in Vars |-> Unset], backlog |-> <<>>, read |-> {}]

-------------------------------------------------------------------------------
(* Scene changes and dialogue. *)

(* Mutant: the cursor is not reset.                                        *)
EnterSceneKeepsCursor(s, n) ==
  IF HasScene(s.fp, n) THEN [s EXCEPT !.scene = n, !.dialogue = None, !.menu = None]
  ELSE s
EnterScene(s, n) ==
  IF HasScene(s.fp, n)
  THEN [s EXCEPT !.scene = n, !.cursor = 0, !.dialogue = None, !.menu = None,
                 !.live = [p \in Slots |-> IF p \in SceneSlots THEN "off"
                                                              ELSE s.live[p]]]
  ELSE s

CallScene(s, n) ==
  IF HasScene(s.fp, n)
  THEN EnterScene([s EXCEPT !.stack =
                     Append(s.stack, [scene |-> s.scene, cursor |-> s.cursor])], n)
  ELSE s

PopFrame(s) ==
  LET frame == s.stack[Len(s.stack)]
  IN [s EXCEPT !.stack = SubSeq(s.stack, 1, Len(s.stack) - 1),
               !.scene = frame.scene, !.cursor = frame.cursor]

(* Mutant: the entry points at the action instead of behind it.            *)
RecordDialogueEarly(s) ==
  [s EXCEPT !.backlog = <<[fp |-> s.fp, scene |-> s.scene,
     cursor |-> s.cursor - 1, stack |-> s.stack, dialogue |-> s.dialogue,
     live |-> s.live, vars |-> s.vars]>>]
(* record_dialogue: push a rollback snapshot, drop the oldest entries. *)
RecordDialogue(s) ==
  LET entry == [fp |-> s.fp, scene |-> s.scene, cursor |-> s.cursor,
                stack |-> s.stack, dialogue |-> s.dialogue, live |-> s.live,
                vars |-> s.vars]
      log == Append(s.backlog, entry)
      excess == IF Len(log) > BacklogCapacity THEN Len(log) - BacklogCapacity
                                              ELSE 0
  IN [s EXCEPT !.backlog = SubSeq(log, excess + 1, Len(log))]

(* current_dialogue_key uses the cursor at the time of asking. *)
ReadKey(s) == [scene |-> s.scene,
               index |-> IF s.cursor = 0 THEN 0 ELSE s.cursor - 1]
IsRead(s) == s.dialogue # None /\ ReadKey(s) \in s.read

(* advance: the line is read and becomes the previous dialogue. *)
Advance(s) ==
  [s EXCEPT !.read = IF s.dialogue # None THEN @ \cup {ReadKey(s)} ELSE @,
            !.previous = s.dialogue, !.dialogue = None]

-------------------------------------------------------------------------------
(* One action of the program.  `s` already has the cursor behind it; the   *)
(* result says whether the forward loop goes on or with what it yields.    *)

Go(s) == [st |-> s, out |-> "go"]
Yield(s, why) == [st |-> s, out |-> why]
Error(s) == [st |-> s, out |-> "error"]

(* The text of an Eiyashou line (strict) may fail to render.               *)
Say(s, a) ==
  LET line == [scene |-> s.scene, index |-> s.cursor - 1]
      said == RecordDialogue([s EXCEPT !.dialogue =
                [line |-> line, shown |-> FALSE, auto |-> a.auto]])
      told == [said EXCEPT !.menu = None]
  IN IF a.strict /\ Eval(a.cond, s.vars) = "bad" THEN Error(s)
     ELSE IF a.next THEN Go(told) ELSE Yield(told, "click")

(* A choice whose condition fails to evaluate is hidden or disabled in a   *)
(* compatibility menu and a runtime error in an Eiyashou menu (strict).    *)
Menu(s, a) ==
  LET visible == {c \in a.choices : Eval(c.show, s.vars) = "yes"}
      menu == {[enabled |-> a.strict \/ Eval(c.enable, s.vars) = "yes",
                choice |-> c] : c \in visible}
  IN IF a.strict /\ \E c \in a.choices : Eval(c.show, s.vars) = "bad"
       THEN Error(s)
     ELSE IF menu = {}
       THEN IF a.strict THEN Error(s) ELSE Go(s)
     ELSE Yield([s EXCEPT !.menu = menu, !.dialogue = None], "choice")

Jump(s, a) ==
  CASE Eval(a.cond, s.vars) = "bad" -> Error(s)
    [] Eval(a.cond, s.vars) = "no"  -> Go(s)
    [] Eval(a.cond, s.vars) = "yes" ->
         IF a.label >= 0 THEN Go([s EXCEPT !.cursor = a.label])
         ELSE IF a.strict THEN Error(s) ELSE Go(s)

(* CallScene is ConditionalCall with a condition that always holds.        *)
Call(s, a) ==
  CASE Eval(a.cond, s.vars) = "yes" -> Go(CallScene(s, a.scene))
    [] Eval(a.cond, s.vars) = "no" /\ a.other # None -> Go(CallScene(s, a.other))
    [] OTHER -> Go(s)

Return(s) == IF s.stack = <<>> THEN Error(s) ELSE Go(PopFrame(s))

(* Mutant: the value is stored without asking whether it exists.           *)
SetUnchecked(s, a) == Go([s EXCEPT !.vars[a.var] = a.val])
Set(s, a) ==
  IF a.val = Bad THEN IF a.strict THEN Error(s) ELSE Go(s)
  ELSE Go([s EXCEPT !.vars[a.var] = a.val])

(* The presentation actions: show, hide, animate, play, wait.  With -next  *)
(* the script does not wait for the presentation it starts.                *)
Present(s, a) ==
  LET status == IF a.hold = "block" /\ a.next THEN "on" ELSE a.hold
      shown == [s EXCEPT !.live[a.slot] = status]
  IN IF status = "block" THEN Yield(shown, "present") ELSE Go(shown)

(* StopVideo at once, or with a fade during which nothing waits for it.    *)
StopVideo(s, a) ==
  IF s.live[a.slot] = "off" THEN Go(s)
  ELSE Go([s EXCEPT !.live[a.slot] = IF a.hold = "off" THEN "off" ELSE "on"])

WaitForAdvance(s, a) ==
  IF a.next THEN Go(s) ELSE Yield([s EXCEPT !.waiting = TRUE], "present")

(* A system message: the variable that takes the answer is optional.       *)
Tell(s, a) ==
  Yield([s EXCEPT !.message = IF a.val = Unset THEN Unset ELSE a.var], "present")
Answered(s, v) ==
  [s EXCEPT !.vars = IF s.message = Unset THEN @ ELSE [@ EXCEPT ![s.message] = v],
            !.message = None]

Exec(s, a) ==
  CASE a.op = "say"       -> Say(s, a)
    [] a.op = "menu"      -> Menu(s, a)
    [] a.op = "jump"      -> Jump(s, a)
    [] a.op = "call"      -> Call(s, a)
    [] a.op = "scene"     -> Go(EnterScene(s, a.scene))
    [] a.op = "return"    -> Return(s)
    [] a.op = "end"       -> Yield(s, "end")
    [] a.op = "set"       -> Set(s, a)
    [] a.op = "present"   -> Present(s, a)
    [] a.op = "stopvideo" -> StopVideo(s, a)
    [] a.op = "advance"   -> WaitForAdvance(s, a)
    [] a.op = "message"   -> Tell(s, a)
    [] a.op = "input"     -> Yield([s EXCEPT !.input = a.var], "input")
    [] a.op = "loading"   -> Go([s EXCEPT !.loading = a.val])
    [] a.op = "title"     -> Go([s EXCEPT !.shell = TRUE])
    [] a.op = "nop"       -> Go(s)

(* The Flow wrapper: a false -when skips the action, a failing one stops.  *)
ExecFlow(s, a) ==
  LET passed == [s EXCEPT !.cursor = @ + 1]
  IN CASE Eval(a.when, s.vars) = "yes" -> Exec(passed, a)
       [] Eval(a.when, s.vars) = "no"  -> Go(passed)
       [] Eval(a.when, s.vars) = "bad" -> Error(passed)

-------------------------------------------------------------------------------
(* Operations the host calls between steps. *)

(* select_choice: a disabled choice or a failing assignment leaves the     *)
(* menu open and changes nothing.                                          *)
Refused(m) == ~m.enabled \/ (m.choice.kind = "assign" /\ m.choice.val = Bad)
SelectChoice(s, m) ==
  LET c == m.choice
      closed == [s EXCEPT !.menu = None]
  IN CASE Refused(m) -> s
       [] ~Refused(m) /\ c.kind = "assign" ->
            [closed EXCEPT !.vars[c.var] = c.val]
       [] ~Refused(m) /\ c.kind = "label" ->
            IF c.label >= 0 THEN [closed EXCEPT !.cursor = c.label] ELSE closed
       [] ~Refused(m) /\ c.kind = "scene" -> EnterScene(closed, c.scene)
       [] ~Refused(m) /\ c.kind = "call" -> CallScene(closed, c.scene)
       [] ~Refused(m) /\ c.kind = "continue" -> closed

(* Mutant: the return frames survive the end of the game.                  *)
EndGameKeepsStack(s) ==
  [Fresh(s.fp) EXCEPT !.stack = s.stack, !.scene = s.scene, !.read = s.read,
                      !.backlog = s.backlog, !.diagnostic = s.diagnostic]
(* end_game: drop the session, keep the profile.  Three fields of the stage *)
(* stay as they are (KeptByEnd): the mouse parallax, the transform of the  *)
(* background and its animation, which the script may wait for.            *)
EndGame(s) ==
  [s EXCEPT !.shell = FALSE, !.loading = Unset, !.stack = <<>>, !.dialogue = None,
            !.previous = None, !.menu = None, !.input = None, !.message = None,
            !.waiting = FALSE,
            !.live = [p \in Slots |-> IF p \in KeptByEnd THEN s.live[p]
                                                        ELSE "off"],
            !.vars = [v \in Vars |-> Unset],
            !.cursor = IF HasScene(s.fp, s.scene) THEN SceneLen(s.fp, s.scene)
                                                  ELSE 0,
            !.ended = TRUE]

(* reconcile_*: a position survives only inside the attached program.      *)
(* Positions inside it are kept as they are, others are dropped or clamped.*)
FrameIn(fp, n, cursor) == HasScene(fp, n) /\ cursor <= SceneLen(fp, n)
StackIn(fp, stack) ==
  \A i \in 1..Len(stack) : FrameIn(fp, stack[i].scene, stack[i].cursor)
EntryIn(fp, entry) ==
  /\ entry.fp = fp
  /\ FrameIn(fp, entry.scene, entry.cursor) /\ entry.cursor > 0
  /\ StackIn(fp, entry.stack)
Clamp(fp, n, cursor) ==
  IF cursor <= SceneLen(fp, n) THEN cursor ELSE SceneLen(fp, n)
ReconcileStack(fp, stack) ==
  LET Known(frame) == HasScene(fp, frame.scene)
      kept == SelectSeq(stack, Known)
  IN IF StackIn(fp, stack) THEN stack
     ELSE [i \in 1..Len(kept) |->
             [kept[i] EXCEPT !.cursor = Clamp(fp, kept[i].scene, kept[i].cursor)]]
Restorable(fp, entry) ==
  entry.fp = fp /\ HasScene(fp, entry.scene) /\ SceneLen(fp, entry.scene) > 0
ReconcileEntry(fp, entry) ==
  [entry EXCEPT !.cursor = Clamp(fp, entry.scene, entry.cursor),
                !.stack = ReconcileStack(fp, entry.stack)]
ReconcileBacklog(fp, log) ==
  LET Usable(entry) == Restorable(fp, entry)
      kept == SelectSeq(log, Usable)
  IN IF \A i \in 1..Len(log) : EntryIn(fp, log[i]) THEN log
     ELSE [i \in 1..Len(kept) |-> ReconcileEntry(fp, kept[i])]
ReconcilePositions(s) ==
  LET checked == [s EXCEPT !.stack = ReconcileStack(s.fp, s.stack),
                           !.backlog = ReconcileBacklog(s.fp, s.backlog)]
  IN IF HasScene(s.fp, s.scene)
       THEN [checked EXCEPT !.cursor = Clamp(s.fp, s.scene, s.cursor)]
     ELSE IF checked.stack # <<>> THEN PopFrame(checked)
     ELSE [checked EXCEPT !.scene = NoScene, !.cursor = 0]

(* What the slot codec writes of a state: serde skips the rest, also inside *)
(* the snapshots of the backlog.                                           *)
Written(live) == [p \in Slots |-> IF p \in Transient THEN "off" ELSE live[p]]
WrittenLog(log) ==
  [i \in DOMAIN log |-> [log[i] EXCEPT !.live = Written(@)]]
Saved(s) ==
  [s EXCEPT !.diagnostic = FALSE, !.shell = FALSE, !.loading = Unset,
            !.read = {}, !.live = Written(@), !.backlog = WrittenLog(@),
            !.vars = [v \in Vars |-> IF v \in SessionVars THEN Unset
                                                          ELSE s.vars[v]]]

(* Mutant: no fingerprint check.                                           *)
CanRestoreAny(s, saved) == TRUE
(* restore_saved, for a slot written against the attached program; the     *)
(* profile (read lines, session variables) is the live one.                *)
CanRestore(s, saved) == saved.fp = s.fp
RestoreSaved(s, saved) ==
  LET merged == [saved EXCEPT
                   !.read = s.read,
                   !.vars = [v \in Vars |->
                               IF v \in SessionVars /\ s.vars[v] # Unset
                               THEN s.vars[v] ELSE saved.vars[v]]]
      placed == ReconcilePositions(merged)
  IN IF placed.scene = NoScene THEN [placed EXCEPT !.ended = TRUE] ELSE placed

(* Mutant: the restored line is dropped with those after it.               *)
RestoreBacklogShort(s, i) ==
  LET entry == s.backlog[i]
  IN [Fresh(s.fp) EXCEPT !.scene = entry.scene, !.cursor = entry.cursor,
        !.stack = entry.stack, !.dialogue = entry.dialogue,
        !.vars = entry.vars, !.read = s.read, !.ended = FALSE,
        !.backlog = SubSeq(s.backlog, 1, i - 1)]
(* restore_backlog: the stage, position and variables of an earlier line.  *)
RestoreBacklog(s, i) ==
  LET entry == ReconcileEntry(s.fp, s.backlog[i])
  IN [s EXCEPT !.scene = entry.scene, !.cursor = entry.cursor,
               !.stack = entry.stack, !.dialogue = entry.dialogue,
               !.shell = FALSE, !.previous = None, !.menu = None, !.input = None,
               !.message = None, !.waiting = FALSE, !.vars = entry.vars,
               !.live = [p \in Slots |->
                           IF p \in InSnapshot THEN entry.live[p]
                           ELSE IF p \in KeptByRollback THEN s.live[p]
                           ELSE "off"],
               !.ended = FALSE, !.backlog = SubSeq(s.backlog, 1, i)]
===============================================================================
