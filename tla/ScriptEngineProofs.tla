--------------------------- MODULE ScriptEngineProofs ---------------------------
(***************************************************************************)
(* The continuation checkpoint of ScriptEngine: for every program, every   *)
(* set of presentations and every order of clicks, frames, saves, loads,   *)
(* rollbacks and reloads, what a save falls back to is a complete state    *)
(* that replays the presentation it stands in front of.                    *)
(***************************************************************************)
EXTENDS ScriptEngine, TLAPS

-------------------------------------------------------------------------------
(* As much typing as the argument needs: a State has its fields, belongs   *)
(* to a program, and its menu and presentations are of their types.        *)

Fields == {"fp", "scene", "cursor", "stack", "ended", "diagnostic", "dialogue",
           "previous", "menu", "input", "message", "waiting", "live", "shell",
           "loading", "vars", "backlog", "read"}
Shaped(s) ==
  /\ Fields \subseteq DOMAIN s
  /\ s.fp \in Fingerprints
  /\ s.ended \in BOOLEAN
  /\ s.menu = None \/ s.menu \in SUBSET MenuChoice
  /\ DOMAIN s.live = Slots

(* An operation that starts nothing a save would drop.                     *)
Keeps(s, t) ==
  /\ Shaped(t) /\ t.fp = s.fp
  /\ Exact(s) => Exact(t)

(* A new State is shaped.                                                  *)
LEMMA FreshShaped ==
  ASSUME NEW fp \in Fingerprints
  PROVE  Shaped(Fresh(fp)) /\ Fresh(fp).fp = fp /\ Fresh(fp).ended
BY DEF Fresh, Shaped, Fields

(* Changing what is neither program, menu nor presentation.                *)
LEMMA EnterSceneKeeps ==
  ASSUME NEW s, Shaped(s), NEW n
  PROVE  Keeps(s, EnterScene(s, n)) /\ EnterScene(s, n).ended = s.ended
BY SlotSets DEF EnterScene, Keeps, Shaped, Exact, Fields

LEMMA PopFrameKeeps ==
  ASSUME NEW s, Shaped(s)
  PROVE  Keeps(s, PopFrame(s)) /\ PopFrame(s).ended = s.ended
BY DEF PopFrame, Keeps, Shaped, Exact, Fields

LEMMA CallSceneKeeps ==
  ASSUME NEW s, Shaped(s), NEW n
  PROVE  Keeps(s, CallScene(s, n)) /\ CallScene(s, n).ended = s.ended
<1> DEFINE t == [s EXCEPT !.stack = Append(s.stack, [scene |-> s.scene, cursor |-> s.cursor])]
<1>1. Keeps(s, t) /\ t.ended = s.ended
  BY DEF Keeps, Shaped, Exact, Fields
<1>2. Keeps(t, EnterScene(t, n)) /\ EnterScene(t, n).ended = t.ended
  BY <1>1, EnterSceneKeeps DEF Keeps
<1>. QED  BY <1>1, <1>2 DEF CallScene, Keeps

LEMMA AdvanceKeeps ==
  ASSUME NEW s, Shaped(s)
  PROVE  Keeps(s, Advance(s)) /\ Advance(s).ended = s.ended
BY DEF Advance, Keeps, Shaped, Exact, Fields

(* A frame only stops presentations, and only those that run.              *)
LEMMA SettleKeeps ==
  ASSUME NEW s, Shaped(s), NEW done \in SUBSET Active(s)
  PROVE  Keeps(s, Settle(s, done)) /\ Settle(s, done).ended = s.ended
<1>1. Shaped(Settle(s, done)) /\ Settle(s, done).fp = s.fp
      /\ Settle(s, done).ended = s.ended
  BY DEF Settle, Shaped, Fields
<1>2. ASSUME Exact(s) PROVE Exact(Settle(s, done))
  BY <1>2, SlotSets DEF Settle, Active, Exact, Shaped, Fields
<1>. QED  BY <1>1, <1>2 DEF Keeps

(* The end of a game stops presentations and starts none.                  *)
LEMMA EndGameKeeps ==
  ASSUME NEW s, Shaped(s)
  PROVE  Keeps(s, EndGame(s)) /\ EndGame(s).ended
<1>1. Shaped(EndGame(s)) /\ EndGame(s).fp = s.fp /\ EndGame(s).ended
  BY DEF EndGame, Shaped, Fields
<1>2. \A p \in Slots : EndGame(s).live[p] \in {s.live[p], "off"}
  BY DEF EndGame, Shaped, Fields
<1>3. ASSUME Exact(s) PROVE Exact(EndGame(s))
  BY <1>2, <1>3, SlotSets DEF Exact
<1>. QED  BY <1>1, <1>3 DEF Keeps

(* A choice changes the position and the variables only.                   *)
LEMMA SelectChoiceKeeps ==
  ASSUME NEW s, Shaped(s), NEW m \in MenuChoice
  PROVE  Keeps(s, SelectChoice(s, m)) /\ SelectChoice(s, m).ended = s.ended
<1> DEFINE c == m.choice
           closed == [s EXCEPT !.menu = None]
<1>1. c.kind \in {"label", "scene", "call", "continue", "assign"}
  BY DEF MenuChoice, Choice
<1>2. Keeps(s, closed) /\ closed.ended = s.ended
  BY DEF Keeps, Shaped, Exact, Fields
<1>3. Keeps(s, s)
  BY DEF Keeps
<1>4. /\ Keeps(s, [closed EXCEPT !.vars[c.var] = c.val])
      /\ [closed EXCEPT !.vars[c.var] = c.val].ended = s.ended
  BY DEF Keeps, Shaped, Exact, Fields
<1>5. /\ Keeps(s, [closed EXCEPT !.cursor = c.label])
      /\ [closed EXCEPT !.cursor = c.label].ended = s.ended
  BY DEF Keeps, Shaped, Exact, Fields
<1>6. /\ Keeps(s, EnterScene(closed, c.scene)) /\ EnterScene(closed, c.scene).ended = s.ended
      /\ Keeps(s, CallScene(closed, c.scene)) /\ CallScene(closed, c.scene).ended = s.ended
  BY <1>2, EnterSceneKeeps, CallSceneKeeps DEF Keeps
<1>. HIDE DEF closed, c
<1>7. SelectChoice(s, m) \in
        {s, closed, [closed EXCEPT !.vars[c.var] = c.val],
         [closed EXCEPT !.cursor = c.label],
         EnterScene(closed, c.scene), CallScene(closed, c.scene)}
  BY <1>1 DEF SelectChoice, closed, c
<1>. QED  BY <1>2, <1>3, <1>4, <1>5, <1>6, <1>7

-------------------------------------------------------------------------------
(* Actions of the program. *)

(* The action at the cursor is an action of the program.                   *)
LEMMA ActionTyped ==
  ASSUME NEW s, s.fp \in Fingerprints, HasAction(s)
  PROVE  /\ ActionAt(s) \in ActionType
         /\ ActionAt(s).op = "stopvideo" => ActionAt(s).slot \in VideoSlots
<1> DEFINE scene == Program[s.fp][s.scene]
<1>1. scene \in Seq(ActionType)
      /\ \A i \in 1..Len(scene) :
           scene[i].op = "stopvideo" => scene[i].slot \in VideoSlots
  BY Programs DEF HasAction, HasScene
<1>2. s.cursor + 1 \in 1..Len(scene)
  BY <1>1 DEF HasAction, SceneLen
<1>. QED  BY <1>1, <1>2 DEF ActionAt

(* What an action leaves: a shaped state, exact again unless the action    *)
(* starts a presentation that a save cannot hold.                          *)
Yields(s, a, t) ==
  /\ Shaped(t) /\ t.fp = s.fp /\ t.ended = s.ended
  /\ Exact(s) /\ ~Introduces(a) => Exact(t)

LEMMA SayYields ==
  ASSUME NEW s, Shaped(s), NEW a
  PROVE  Yields(s, a, Say(s, a).st)
<1> DEFINE line == [scene |-> s.scene, index |-> s.cursor - 1]
           spoken == [s EXCEPT !.dialogue = [line |-> line, shown |-> FALSE, auto |-> a.auto]]
<1>1. Keeps(s, spoken) /\ spoken.ended = s.ended
  BY DEF Keeps, Shaped, Exact, Fields
<1>. HIDE DEF spoken
<1>2. Keeps(s, RecordDialogue(spoken)) /\ RecordDialogue(spoken).ended = s.ended
  BY <1>1 DEF RecordDialogue, Keeps, Shaped, Exact, Fields
<1> DEFINE told == [RecordDialogue(spoken) EXCEPT !.menu = None]
<1>3. Keeps(s, told) /\ told.ended = s.ended
  BY <1>2 DEF Keeps, Shaped, Exact, Fields
<1>4. Say(s, a).st \in {s, told}
  BY DEF Say, Go, Yield, Error, spoken
<1>. QED  BY <1>3, <1>4 DEF Yields, Keeps

LEMMA MenuYields ==
  ASSUME NEW s, Shaped(s), NEW a \in ActionType
  PROVE  Yields(s, a, Menu(s, a).st)
<1> DEFINE visible == {c \in a.choices : Eval(c.show, s.vars) = "yes"}
           menu == {[enabled |-> a.strict \/ Eval(c.enable, s.vars) = "yes",
                     choice |-> c] : c \in visible}
           asked == [s EXCEPT !.menu = menu, !.dialogue = None]
<1>1. a.choices \subseteq Choice /\ a.strict \in BOOLEAN
  BY DEF ActionType
<1>2. ASSUME NEW c \in Choice, NEW e \in BOOLEAN
      PROVE  [enabled |-> e, choice |-> c] \in MenuChoice
  BY DEF MenuChoice
<1>2a. \A c \in visible : (a.strict \/ Eval(c.enable, s.vars) = "yes") \in BOOLEAN
  OBVIOUS
<1>2b. menu \in SUBSET MenuChoice
  BY <1>1, <1>2, <1>2a
<1>3. Yields(s, a, s)
  BY DEF Yields
<1>4. Menu(s, a).st \in {s, asked}
  BY DEF Menu, Go, Yield, Error
<1>. HIDE DEF menu
<1>5. Yields(s, a, asked)
  BY <1>2b DEF Yields, Shaped, Exact, Fields
<1>. QED  BY <1>3, <1>4, <1>5

LEMMA PresentYields ==
  ASSUME NEW s, Shaped(s), NEW a \in ActionType, a.op = "present"
  PROVE  Yields(s, a, Present(s, a).st)
<1> DEFINE status == IF a.hold = "block" /\ a.next THEN "on" ELSE a.hold
           shown == [s EXCEPT !.live[a.slot] = status]
<1>1. Present(s, a).st = shown
  BY DEF Present, Go, Yield
<1>. HIDE DEF status
<1>2. Shaped(shown) /\ shown.fp = s.fp /\ shown.ended = s.ended
  BY DEF Shaped, Fields
<1>3. \A p \in Slots : p # a.slot => shown.live[p] = s.live[p]
  BY DEF Shaped, Fields
<1>. QED  BY <1>1, <1>2, <1>3, SlotSets DEF Yields, Exact, Introduces

LEMMA StopVideoYields ==
  ASSUME NEW s, Shaped(s), NEW a, a.slot \in VideoSlots
  PROVE  Yields(s, a, StopVideo(s, a).st)
<1>1. CASE s.live[a.slot] = "off"
  BY <1>1 DEF StopVideo, Yields, Go
<1>2. CASE s.live[a.slot] # "off"
  <2>1. ~Exact(s)
    BY <1>2, SlotSets DEF Exact
  <2>. QED  BY <1>2, <2>1 DEF StopVideo, Go, Yields, Shaped, Fields
<1>. QED  BY <1>1, <1>2

LEMMA FieldYields ==
  ASSUME NEW s, Shaped(s), NEW a, NEW x
  PROVE  /\ Yields(s, a, s)
         /\ Yields(s, a, [s EXCEPT !.cursor = x])
         /\ Yields(s, a, [s EXCEPT !.vars = x])
         /\ Yields(s, a, [s EXCEPT !.waiting = x])
         /\ Yields(s, a, [s EXCEPT !.message = x])
         /\ Yields(s, a, [s EXCEPT !.input = x])
         /\ Yields(s, a, [s EXCEPT !.loading = x])
         /\ Yields(s, a, [s EXCEPT !.shell = x])
BY DEF Yields, Shaped, Exact, Fields

(* A condition evaluates to one of three results.                          *)
LEMMA EvalTyped ==
  ASSUME NEW c \in Cond, NEW v
  PROVE  Eval(c, v) \in {"yes", "no", "bad"}
BY DEF Eval, Cond

(* Every operation.                                                        *)
LEMMA ExecYields ==
  ASSUME NEW s, Shaped(s), NEW a \in ActionType,
         a.op = "stopvideo" => a.slot \in VideoSlots
  PROVE  Yields(s, a, Exec(s, a).st)
<1>1. /\ a.op \in Ops
      /\ Eval(a.cond, s.vars) \in {"yes", "no", "bad"}
  BY EvalTyped DEF ActionType
<1>2. ASSUME NEW t, Keeps(s, t), t.ended = s.ended PROVE Yields(s, a, t)
  BY <1>2 DEF Keeps, Yields
<1>3. CASE a.op = "say"
  BY <1>3, SayYields DEF Exec
<1>4. CASE a.op = "menu"
  BY <1>4, MenuYields DEF Exec
<1>5. CASE a.op = "jump"
  <2>1. Jump(s, a).st \in {s, [s EXCEPT !.cursor = a.label]}
    BY <1>1 DEF Jump, Go, Error
  <2>2. Yields(s, a, s) /\ Yields(s, a, [s EXCEPT !.cursor = a.label])
    BY FieldYields
  <2>3. Exec(s, a) = Jump(s, a)
    BY <1>5 DEF Exec
  <2>. QED  BY <2>1, <2>2, <2>3
<1>6. CASE a.op = "call"
  <2>1. Call(s, a).st \in {s, CallScene(s, a.scene), CallScene(s, a.other)}
    BY DEF Call, Go
  <2>. QED  BY <1>2, <1>6, <2>1, FieldYields, CallSceneKeeps DEF Exec
<1>7. CASE a.op = "scene"
  BY <1>2, <1>7, EnterSceneKeeps DEF Exec, Go
<1>8. CASE a.op = "return"
  <2>1. Return(s).st \in {s, PopFrame(s)}
    BY DEF Return, Go, Error
  <2>. QED  BY <1>2, <1>8, <2>1, FieldYields, PopFrameKeeps DEF Exec
<1>9. CASE a.op \in {"end", "nop"}
  BY <1>9, FieldYields DEF Exec, Go, Yield
<1>10. CASE a.op = "set"
  <2>1. Yields(s, a, s) /\ Yields(s, a, [s EXCEPT !.vars[a.var] = a.val])
    BY DEF Yields, Shaped, Exact, Fields
  <2>2. Set(s, a).st \in {s, [s EXCEPT !.vars[a.var] = a.val]}
    BY DEF Set, Go, Error
  <2>3. Exec(s, a) = Set(s, a)
    BY <1>10 DEF Exec
  <2>. QED  BY <2>1, <2>2, <2>3
<1>11. CASE a.op = "present"
  BY <1>11, PresentYields DEF Exec
<1>12. CASE a.op = "stopvideo"
  BY <1>12, StopVideoYields DEF Exec
<1>13. CASE a.op = "advance"
  BY <1>13, FieldYields DEF Exec, WaitForAdvance, Go, Yield
<1>14. CASE a.op \in {"message", "input"}
  BY <1>14, FieldYields DEF Exec, Tell, Yield
<1>15. CASE a.op \in {"loading", "title"}
  BY <1>15, FieldYields DEF Exec, Go
<1>. QED
  BY <1>1, <1>3, <1>4, <1>5, <1>6, <1>7, <1>8, <1>9, <1>10, <1>11, <1>12, <1>13,
     <1>14, <1>15 DEF Ops

(* The action at the cursor, under its -when condition.                    *)
LEMMA FlowYields ==
  ASSUME NEW s, Shaped(s), HasAction(s)
  PROVE  Yields(s, ActionAt(s), ExecFlow(s, ActionAt(s)).st)
<1> DEFINE a == ActionAt(s)
           passed == [s EXCEPT !.cursor = @ + 1]
<1>1. a \in ActionType /\ (a.op = "stopvideo" => a.slot \in VideoSlots)
  BY ActionTyped DEF Shaped
<1>2. Keeps(s, passed) /\ passed.ended = s.ended
  BY DEF Keeps, Shaped, Exact, Fields
<1>. HIDE DEF a, passed
<1>3. Yields(passed, a, Exec(passed, a).st)
  BY <1>1, <1>2, ExecYields DEF Keeps
<1>4. Yields(passed, a, passed)
  BY <1>2 DEF Yields, Keeps
<1>5. Eval(a.when, s.vars) \in {"yes", "no", "bad"}
  BY <1>1, EvalTyped DEF ActionType
<1>6. ExecFlow(s, a).st \in {passed, Exec(passed, a).st}
  BY <1>5 DEF ExecFlow, Go, Error, passed
<1>. QED  BY <1>2, <1>3, <1>4, <1>6 DEF Yields, Keeps, a

-------------------------------------------------------------------------------
(* States that come from a slot or from the backlog. *)

LEMMA SavedShaped ==
  ASSUME NEW s, Shaped(s)
  PROVE  Shaped(Saved(s)) /\ Saved(s).fp = s.fp
BY DEF Saved, Written, Shaped, Fields

(* Reconciling positions changes positions only.                           *)
LEMMA ReconcileShaped ==
  ASSUME NEW s, Shaped(s)
  PROVE  Shaped(ReconcilePositions(s)) /\ ReconcilePositions(s).fp = s.fp
<1> DEFINE stack == ReconcileStack(s.fp, s.stack)
           log == ReconcileBacklog(s.fp, s.backlog)
           checked == [s EXCEPT !.stack = stack, !.backlog = log]
<1>. HIDE DEF stack, log
<1>1. Shaped(checked) /\ checked.fp = s.fp
  BY DEF Shaped, Fields
<1>2. \A x : Shaped([checked EXCEPT !.cursor = x]) /\ [checked EXCEPT !.cursor = x].fp = s.fp
  BY <1>1 DEF Shaped, Fields
<1>3. Shaped(PopFrame(checked)) /\ PopFrame(checked).fp = s.fp
  BY <1>1, PopFrameKeeps DEF Keeps
<1>4. /\ Shaped([checked EXCEPT !.scene = NoScene, !.cursor = 0])
      /\ [checked EXCEPT !.scene = NoScene, !.cursor = 0].fp = s.fp
  BY <1>1 DEF Shaped, Fields
<1>. HIDE DEF checked
<1>5. ReconcilePositions(s) \in
        {[checked EXCEPT !.cursor = Clamp(s.fp, s.scene, s.cursor)],
         PopFrame(checked), [checked EXCEPT !.scene = NoScene, !.cursor = 0]}
  BY DEF ReconcilePositions, checked, stack, log
<1>. QED  BY <1>2, <1>3, <1>4, <1>5

LEMMA RestoreSavedShaped ==
  ASSUME NEW s, NEW saved, Shaped(saved)
  PROVE  Shaped(RestoreSaved(s, saved)) /\ RestoreSaved(s, saved).fp = saved.fp
<1> DEFINE merged == [saved EXCEPT
              !.read = s.read,
              !.vars = [v \in Vars |-> IF v \in SessionVars /\ s.vars[v] # Unset
                                         THEN s.vars[v] ELSE saved.vars[v]]]
           placed == ReconcilePositions(merged)
<1>1. Shaped(merged) /\ merged.fp = saved.fp
  BY DEF Shaped, Fields
<1>. HIDE DEF merged
<1>2. Shaped(placed) /\ placed.fp = saved.fp
  BY <1>1, ReconcileShaped
<1>. HIDE DEF placed
<1>3. Shaped([placed EXCEPT !.ended = TRUE]) /\ [placed EXCEPT !.ended = TRUE].fp = saved.fp
  BY <1>2 DEF Shaped, Fields
<1>4. RestoreSaved(s, saved) \in {placed, [placed EXCEPT !.ended = TRUE]}
  BY DEF RestoreSaved, placed, merged
<1>. QED  BY <1>2, <1>3, <1>4

LEMMA RestoreBacklogShaped ==
  ASSUME NEW s, Shaped(s), NEW i
  PROVE  Shaped(RestoreBacklog(s, i)) /\ RestoreBacklog(s, i).fp = s.fp
BY DEF RestoreBacklog, Shaped, Fields

-------------------------------------------------------------------------------
(* The checkpoint. *)

(* The property, for a boundary kept before the state s.                   *)
Replays(kept, s) ==
  kept # None =>
    /\ Exact(kept) /\ ~kept.ended
    /\ ~Exact(s) /\ kept.fp = s.fp =>
         HasAction(kept) /\ Introduces(ActionAt(kept))

Tooling == run # None /\ run.tooling
SlotsShaped ==
  /\ DOMAIN slots = SaveSlots
  /\ \A i \in SaveSlots : slots[i] # None => Shaped(slots[i])
(* Outside a tooling run the checkpoint belongs to the program of the      *)
(* state; a hot reload keeps the checkpoint of the program it replaced     *)
(* until its run is over.  A run is always that of a game in progress.     *)
CheckpointInv ==
  /\ Shaped(state) /\ state.fp = attached
  /\ checkpoint # None =>
       /\ Shaped(checkpoint)
       /\ IF Tooling THEN checkpoint.fp # state.fp ELSE checkpoint.fp = state.fp
  /\ run # None => run \in Run /\ ~state.ended
  /\ SlotsShaped
  /\ Replays(checkpoint, state)

(* An operation that starts no transient presentation keeps the property.  *)
LEMMA KeepsReplays ==
  ASSUME NEW kept, NEW s, NEW t, Replays(kept, s), Keeps(s, t)
  PROVE  Replays(kept, t)
BY DEF Replays, Keeps

(* A boundary taken of an exact game in progress is one.                   *)
LEMMA CaptureReplays ==
  ASSUME NEW kept, NEW s, Replays(kept, s)
  PROVE  Replays(Capture(kept, s), s)
BY DEF Replays, Capture

LEMMA ResetReplays ==
  ASSUME NEW s, Shaped(s)
  PROVE  /\ Replays(Reset(s), s)
         /\ Reset(s) # None => Shaped(Reset(s)) /\ Reset(s).fp = s.fp
BY DEF Replays, Reset, Capture

LEMMA EnsureReplays ==
  ASSUME NEW kept, NEW s, Shaped(s), Replays(kept, s), kept # None => Shaped(kept)
  PROVE  /\ Replays(EnsureCurrent(kept, s), s)
         /\ EnsureCurrent(kept, s) # None =>
              Shaped(EnsureCurrent(kept, s)) /\ EnsureCurrent(kept, s).fp = s.fp
BY ResetReplays DEF EnsureCurrent

-------------------------------------------------------------------------------
(* What the host does to the checkpoint, as four patterns. *)

(* The resume begins with an operation on the state of a game in progress. *)
LEMMA BeginInv ==
  ASSUME CheckpointInv, Idle, NEW s, Keeps(state, s), ~s.ended,
         NEW restore \in BOOLEAN, Begin(s, checkpoint, restore),
         UNCHANGED <<attached, slots>>
  PROVE  CheckpointInv'
<1>1. Replays(checkpoint, s) /\ Shaped(s) /\ s.fp = state.fp
  BY KeepsReplays DEF CheckpointInv, Keeps
<1>2. /\ Replays(checkpoint', s)
      /\ checkpoint' # None => Shaped(checkpoint') /\ checkpoint'.fp = s.fp
  BY <1>1, EnsureReplays DEF Begin, CheckpointInv
<1>3. run' \in Run /\ ~run'.tooling
  BY Fuel DEF Begin, Run
<1>4. state' = s
  BY DEF Begin
<1>. QED  BY <1>1, <1>2, <1>3, <1>4 DEF CheckpointInv, Tooling, SlotsShaped

(* The state changes without a resume.                                     *)
LEMMA IdleInv ==
  ASSUME CheckpointInv, Idle, Keeps(state, state'),
         UNCHANGED <<attached, run, checkpoint>>, SlotsShaped'
  PROVE  CheckpointInv'
<1>1. Replays(checkpoint', state')
  BY KeepsReplays DEF CheckpointInv
<1>. QED  BY <1>1 DEF CheckpointInv, Tooling, Keeps, Idle

(* The game is replaced and the checkpoint taken anew.                     *)
LEMMA ResetInv ==
  ASSUME CheckpointInv, Shaped(state'), state'.fp = attached',
         checkpoint' = Reset(state'), run' = None, SlotsShaped'
  PROVE  CheckpointInv'
<1>1. /\ Replays(checkpoint', state')
      /\ checkpoint' # None => Shaped(checkpoint') /\ checkpoint'.fp = state'.fp
  BY ResetReplays
<1>. QED  BY <1>1 DEF CheckpointInv, Tooling

(* The resume ends with `s`, having kept a boundary in front of what runs. *)
LEMMA FinishInv ==
  ASSUME CheckpointInv, run # None, NEW s, Shaped(s), s.fp = state.fp, ~s.ended,
         NEW kept, Replays(kept, s), kept # None => Shaped(kept),
         ~Tooling => (kept # None => kept.fp = state.fp),
         NEW out, Finish(s, out, kept)
  PROVE  CheckpointInv'
<1> DEFINE done == [s EXCEPT !.diagnostic = out \in {"error", "limit"}]
           settled == IF Over(out) THEN EndGame(done) ELSE done
<1>1. Keeps(s, done) /\ done.ended = s.ended
  BY DEF Keeps, Shaped, Exact, Fields
<1>. HIDE DEF done
<1>2. Shaped(settled) /\ settled.fp = state.fp
  BY <1>1, EndGameKeeps DEF Keeps
<1>. HIDE DEF settled
<1>3. run' = None /\ UNCHANGED <<attached, slots>>
  BY DEF Finish
<1>4. SlotsShaped'
  BY <1>3 DEF CheckpointInv, SlotsShaped
<1>5. CASE run.tooling
  <2>1. state' = settled /\ checkpoint' = Reset(settled)
    BY <1>5 DEF Finish, settled, done
  <2>2. attached' = state.fp
    BY <1>3 DEF CheckpointInv
  <2>. QED  BY <1>2, <1>3, <1>4, <2>1, <2>2, ResetInv
<1>6. CASE ~run.tooling
  <2>1. state' = Kept(done, out) /\ checkpoint' = Capture(kept, done)
    BY <1>6 DEF Finish, done
  <2>2. Keeps(done, Kept(done, out)) /\ Kept(done, out).ended = s.ended
    BY <1>1 DEF Kept, Keeps, Shaped, Exact, Fields
  <2>3. Replays(kept, done)
    BY <1>1, KeepsReplays
  <2>4. Replays(Capture(kept, done), done)
    BY <2>3, CaptureReplays
  <2>5. Replays(checkpoint', state')
    BY <2>1, <2>2, <2>4, KeepsReplays
  <2>6. checkpoint' # None => Shaped(checkpoint') /\ checkpoint'.fp = state.fp
    BY <1>1, <1>6, <2>1 DEF Capture, Keeps, Tooling
  <2>7. Shaped(state') /\ state'.fp = state.fp
    BY <1>1, <2>1, <2>2 DEF Keeps
  <2>. QED
    BY <1>3, <1>4, <2>5, <2>6, <2>7 DEF CheckpointInv, Tooling
<1>. QED  BY <1>5, <1>6

-------------------------------------------------------------------------------
(* The steps of a resume. *)

LEMMA StepInv ==
  ASSUME CheckpointInv, Step
  PROVE  CheckpointInv'
<1>0. run # None
  BY DEF Step, StepRefused, StepAction, StepPop, StepFallOff, StepLimit, MayRun
<1>1. /\ Shaped(state) /\ ~state.ended /\ run \in Run
      /\ Replays(checkpoint, state)
      /\ checkpoint # None => Shaped(checkpoint)
      /\ ~Tooling => (checkpoint # None => checkpoint.fp = state.fp)
      /\ Tooling => (checkpoint # None => checkpoint.fp # state.fp)
  BY <1>0 DEF CheckpointInv
<1>2. CASE StepRefused \/ StepFallOff \/ StepLimit
  <2>1. PICK out \in {"await", "end", "limit"} : Finish(state, out, checkpoint)
    BY <1>2 DEF StepRefused, StepFallOff, StepLimit
  <2>. QED  BY <1>0, <1>1, <2>1, FinishInv
<1>3. CASE StepPop
  <2>1. Keeps(state, PopFrame(state)) /\ PopFrame(state).ended = state.ended
    BY <1>1, PopFrameKeeps
  <2>2. /\ state' = PopFrame(state) /\ run' = [run EXCEPT !.fuel = @ - 1]
        /\ run.fuel > 0 /\ UNCHANGED <<attached, checkpoint, slots>>
    BY <1>3 DEF StepPop, MayRun
  <2>3. run' \in Run /\ run'.tooling = run.tooling
    BY <1>1, <2>2, Fuel DEF Run
  <2>4. Replays(checkpoint', state')
    BY <1>1, <2>1, <2>2, KeepsReplays
  <2>5. Tooling' = Tooling
    BY <1>0, <2>3, NoRun DEF Tooling
  <2>. QED
    BY <1>1, <2>1, <2>2, <2>3, <2>4, <2>5 DEF CheckpointInv, Keeps, SlotsShaped
<1>4. CASE StepAction
  <2> DEFINE a == ActionAt(state)
             done == ExecFlow(state, a)
             kept == IF Introduces(a) /\ ~run.tooling THEN Capture(checkpoint, state)
                                                      ELSE checkpoint
  <2>0. HasAction(state) /\ run.fuel > 0
    BY <1>4 DEF StepAction, MayRun
  <2>1. Yields(state, a, done.st)
    BY <1>1, <2>0, FlowYields
  <2>2. IF done.out = "go"
          THEN /\ state' = done.st /\ checkpoint' = kept
               /\ run' = [run EXCEPT !.fuel = @ - 1]
               /\ UNCHANGED <<attached, returning, slots>>
          ELSE Finish(done.st, done.out, kept)
    BY <1>4 DEF StepAction
  <2>. HIDE DEF done
  <2>3. /\ Shaped(done.st) /\ done.st.fp = state.fp /\ ~done.st.ended
        /\ Exact(state) /\ ~Introduces(a) => Exact(done.st)
    BY <1>1, <2>1 DEF Yields
  <2>4. kept # None => Shaped(kept)
    BY <1>1 DEF Capture
  <2>5. /\ ~Tooling => (kept # None => kept.fp = state.fp)
        /\ Tooling => (kept # None => kept.fp # state.fp)
    BY <1>0, <1>1 DEF Capture, Tooling
  <2>6. Replays(kept, done.st)
    <3>1. CASE Tooling
      BY <1>0, <1>1, <2>3, <2>5, <3>1 DEF Replays, Tooling
    <3>2. CASE ~Tooling /\ Introduces(a)
      <4>1. CASE Exact(state)
        BY <1>0, <1>1, <2>0, <3>2, <4>1 DEF Replays, Capture, Tooling
      <4>2. CASE ~Exact(state)
        BY <1>0, <1>1, <2>3, <3>2, <4>2 DEF Replays, Capture, Tooling
      <4>. QED  BY <4>1, <4>2
    <3>3. CASE ~Introduces(a)
      BY <1>1, <2>3, <3>3 DEF Replays
    <3>. QED  BY <3>1, <3>2, <3>3
  <2>. HIDE DEF kept, a
  <2>7. CASE done.out = "go"
    <3>1. /\ state' = done.st /\ checkpoint' = kept
          /\ run' = [run EXCEPT !.fuel = @ - 1] /\ UNCHANGED <<attached, slots>>
      BY <2>2, <2>7
    <3>2. run' \in Run /\ run'.tooling = run.tooling
      BY <1>1, <2>0, <3>1, Fuel DEF Run
    <3>3. Tooling' = Tooling
      BY <1>0, <3>2, NoRun DEF Tooling
    <3>. QED
      BY <2>3, <2>4, <2>5, <2>6, <3>1, <3>2, <3>3 DEF CheckpointInv, SlotsShaped
  <2>8. CASE done.out # "go"
    BY <1>0, <2>2, <2>3, <2>4, <2>5, <2>6, <2>8, FinishInv
  <2>. QED  BY <2>7, <2>8
<1>. QED  BY <1>2, <1>3, <1>4 DEF Step

-------------------------------------------------------------------------------
(* The host. *)

LEMMA AdvanceOnceInv ==
  ASSUME CheckpointInv, Idle, NEW s, Keeps(state, s), ~s.ended, AdvanceOnce(s),
         UNCHANGED <<attached, slots>>
  PROVE  CheckpointInv'
<1>1. CASE s.dialogue # None /\ ~s.dialogue.shown
  <2>1. Keeps(s, [s EXCEPT !.dialogue.shown = TRUE])
    BY DEF Keeps, Shaped, Exact, Fields
  <2>2. Keeps(state, state') /\ UNCHANGED <<run, checkpoint>>
    BY <1>1, <2>1 DEF AdvanceOnce, Keeps
  <2>. QED  BY <2>2, IdleInv DEF CheckpointInv, SlotsShaped
<1>2. CASE ~(s.dialogue # None /\ ~s.dialogue.shown)
  <2> DEFINE t == IF s.dialogue # None THEN Advance(s) ELSE s
  <2>1. Keeps(state, t) /\ ~t.ended
    BY AdvanceKeeps DEF Keeps
  <2>2. Begin(t, checkpoint, s.dialogue # None)
    BY <1>2 DEF AdvanceOnce
  <2>. HIDE DEF t
  <2>3. (s.dialogue # None) \in BOOLEAN
    OBVIOUS
  <2>. QED  BY <2>1, <2>2, <2>3, BeginInv
<1>. QED  BY <1>1, <1>2

(* One frame: presentations end, then at most one reason to go on.         *)
LEMMA TickInv ==
  ASSUME CheckpointInv, NEW done \in SUBSET Active(state), NEW click \in BOOLEAN,
         NEW typed \in BOOLEAN, NEW mode, Tick(done, click, mode, typed)
  PROVE  CheckpointInv'
<1> DEFINE moved == [Settle(state, done) EXCEPT !.waiting = @ /\ ~click]
           shown == IF typed /\ moved.dialogue # None
                      THEN [moved EXCEPT !.dialogue.shown = TRUE] ELSE moved
<1>1. Idle /\ ~state.ended /\ UNCHANGED <<attached, slots>> /\ SlotsShaped'
  BY DEF Tick, Playing, CheckpointInv, SlotsShaped
<1>2. Keeps(state, Settle(state, done)) /\ ~Settle(state, done).ended
  BY <1>1, SettleKeeps DEF CheckpointInv
<1>3. Keeps(state, moved) /\ ~moved.ended
  BY <1>2 DEF Keeps, Shaped, Exact, Fields
<1>. HIDE DEF moved
<1>4. Keeps(state, shown) /\ ~shown.ended
  BY <1>3 DEF Keeps, Shaped, Exact, Fields
<1>. HIDE DEF shown
<1>5. \/ state' = moved /\ UNCHANGED <<run, checkpoint>>
      \/ Begin(moved, checkpoint, FALSE)
      \/ AdvanceOnce(moved)
      \/ AdvanceOnce(shown)
      \/ state' = shown /\ UNCHANGED <<run, checkpoint>>
  BY DEF Tick, moved, shown
<1>. QED  BY <1>1, <1>3, <1>4, <1>5, IdleInv, BeginInv, AdvanceOnceInv

(* What the player answers.                                                *)
LEMMA AnswerInv ==
  ASSUME CheckpointInv,
         \/ state.menu # None /\ \E m \in state.menu : Choose(m)
         \/ \E v \in Values : SubmitInput(v) \/ ResolveMessage(v)
  PROVE  CheckpointInv'
<1>1. ASSUME NEW m \in state.menu, state.menu # None, Choose(m) PROVE CheckpointInv'
  <2>1. m \in MenuChoice
    BY <1>1 DEF CheckpointInv, Shaped
  <2>2. Keeps(state, SelectChoice(state, m)) /\ ~SelectChoice(state, m).ended
    BY <1>1, <2>1, SelectChoiceKeeps DEF CheckpointInv, Choose, Playing
  <2>3. Idle /\ UNCHANGED <<attached, slots>> /\ SlotsShaped' /\ Keeps(state, state)
    BY <1>1 DEF Choose, Playing, CheckpointInv, SlotsShaped, Keeps
  <2>. QED  BY <1>1, <2>2, <2>3, IdleInv, BeginInv DEF Choose
<1>2. ASSUME NEW v \in Values, SubmitInput(v) PROVE CheckpointInv'
  <2>1. /\ Keeps(state, [state EXCEPT !.vars[state.input] = v, !.input = None])
        /\ ~[state EXCEPT !.vars[state.input] = v, !.input = None].ended
    BY <1>2 DEF SubmitInput, CheckpointInv, Keeps, Shaped, Exact, Fields
  <2>. QED  BY <1>2, <2>1, BeginInv DEF SubmitInput
<1>3. ASSUME NEW v \in Values, ResolveMessage(v) PROVE CheckpointInv'
  <2>1. Keeps(state, Answered(state, v)) /\ ~Answered(state, v).ended
    BY <1>3 DEF Answered, ResolveMessage, CheckpointInv, Keeps, Shaped, Exact, Fields
  <2>. QED  BY <1>3, <2>1, BeginInv DEF ResolveMessage
<1>. QED  BY <1>1, <1>2, <1>3

(* Writing a slot keeps the slots shaped.                                  *)
LEMMA WritesShaped ==
  ASSUME CheckpointInv, NEW i \in SaveSlots,
         \/ slots' = slots
         \/ slots' = [slots EXCEPT ![i] = None]
         \/ Continuation # None /\ slots' = [slots EXCEPT ![i] = Saved(Continuation)]
  PROVE  SlotsShaped'
<1>1. Continuation # None => Shaped(Saved(Continuation))
  BY SavedShaped DEF Continuation, CheckpointInv
<1>. QED  BY <1>1 DEF SlotsShaped, CheckpointInv

LEMMA SlotInv ==
  ASSUME CheckpointInv, NEW i \in SaveSlots, SaveSlot(i) \/ LoadSlot(i) \/ DeleteSlot(i)
  PROVE  CheckpointInv'
<1>1. CASE SaveSlot(i) \/ DeleteSlot(i)
  <2>1. SlotsShaped'
    BY <1>1, WritesShaped DEF SaveSlot, DeleteSlot
  <2>2. Idle /\ UNCHANGED <<attached, state, run, checkpoint>> /\ Keeps(state, state')
    BY <1>1 DEF SaveSlot, DeleteSlot, Playing, Title, CheckpointInv, Keeps
  <2>. QED  BY <2>1, <2>2, IdleInv
<1>2. CASE LoadSlot(i)
  <2>1. /\ slots[i] # None /\ slots[i].fp = state.fp /\ run' = None
        /\ state' = RestoreSaved(state, slots[i]) /\ checkpoint' = Reset(state')
        /\ UNCHANGED <<attached, slots>>
    BY <1>2 DEF LoadSlot, CanRestore, Playing, Title, Idle
  <2>2. Shaped(state') /\ state'.fp = attached' /\ SlotsShaped'
    BY <2>1, RestoreSavedShaped DEF CheckpointInv, SlotsShaped
  <2>. QED  BY <2>1, <2>2, ResetInv
<1>. QED  BY <1>1, <1>2

LEMMA ContinueInv ==
  ASSUME CheckpointInv, Continue
  PROVE  CheckpointInv'
<1>1. /\ slots[0] # None /\ slots[0].fp = state.fp /\ run' = None
      /\ state' = RestoreSaved(state, slots[0]) /\ checkpoint' = Reset(state')
      /\ UNCHANGED <<attached, slots>>
  BY DEF Continue, CanRestore, Title, Idle
<1>2. Shaped(slots[0])
  BY <1>1, SlotNumbers DEF CheckpointInv, SlotsShaped
<1>3. Shaped(state') /\ state'.fp = attached' /\ SlotsShaped'
  BY <1>1, <1>2, RestoreSavedShaped DEF CheckpointInv, SlotsShaped
<1>. QED  BY <1>1, <1>3, ResetInv

LEMMA RollbackInv ==
  ASSUME CheckpointInv, NEW i, Rollback(i)
  PROVE  CheckpointInv'
<1>1. /\ state' = RestoreBacklog(state, i) /\ checkpoint' = Reset(state')
      /\ run' = None /\ UNCHANGED <<attached, slots>>
  BY DEF Rollback, Playing, Idle
<1>2. Shaped(state') /\ state'.fp = attached' /\ SlotsShaped'
  BY <1>1, RestoreBacklogShaped DEF CheckpointInv, SlotsShaped
<1>. QED  BY <1>1, <1>2, ResetInv

(* A new game.                                                             *)
LEMMA StartInv ==
  ASSUME CheckpointInv, StartGame
  PROVE  CheckpointInv'
<1> DEFINE begun == [state EXCEPT !.ended = FALSE, !.backlog = <<>>,
                                  !.scene = EntryScene[state.fp], !.cursor = 0]
<1>1. /\ Begin(begun, Reset(begun), FALSE) /\ UNCHANGED <<attached, slots>>
  BY DEF StartGame
<1>2. Shaped(begun) /\ begun.fp = state.fp /\ ~begun.ended
  BY DEF CheckpointInv, Shaped, Fields
<1>. HIDE DEF begun
<1>3. /\ Replays(Reset(begun), begun)
      /\ Reset(begun) # None => Shaped(Reset(begun)) /\ Reset(begun).fp = begun.fp
  BY <1>2, ResetReplays
<1>4. /\ Replays(checkpoint', begun)
      /\ checkpoint' # None => Shaped(checkpoint') /\ checkpoint'.fp = begun.fp
  BY <1>1, <1>2, <1>3, EnsureReplays DEF Begin
<1>5. run' \in Run /\ ~run'.tooling /\ state' = begun
  BY <1>1, Fuel DEF Begin, Run
<1>. QED
  BY <1>1, <1>2, <1>4, <1>5 DEF CheckpointInv, Tooling, SlotsShaped

(* The title, the videos and the shell.                                    *)
LEMMA StageInv ==
  ASSUME CheckpointInv,
         \/ \E p \in VideoSlots : VideoEnds(p)
         \/ DispatchShell \/ BackToTitle \/ ReturnCover \/ ReturnReveal
  PROVE  CheckpointInv'
<1>1. Shaped(state) /\ Keeps(state, state) /\ Keeps(state, EndGame(state))
  BY EndGameKeeps DEF CheckpointInv, Keeps
<1>2. ASSUME NEW p \in VideoSlots, VideoEnds(p) PROVE CheckpointInv'
  <2>1. {p} \in SUBSET Active(state)
    BY <1>2 DEF VideoEnds
  <2>2. Keeps(state, state')
    BY <1>1, <1>2, <2>1, SettleKeeps DEF VideoEnds
  <2>. QED  BY <1>2, <2>2, IdleInv DEF VideoEnds, CheckpointInv, SlotsShaped
<1>3. CASE DispatchShell \/ ReturnCover \/ ReturnReveal
  <2>1. /\ Keeps(state, state') /\ Idle
        /\ UNCHANGED <<attached, run, checkpoint, slots>>
    BY <1>1, <1>3 DEF DispatchShell, ReturnCover, ReturnReveal
  <2>. QED  BY <2>1, IdleInv DEF CheckpointInv, SlotsShaped
<1>4. CASE BackToTitle
  <2>1. SlotsShaped'
    BY <1>4, WritesShaped, SlotNumbers DEF BackToTitle
  <2>. QED  BY <1>1, <1>4, <2>1, IdleInv DEF BackToTitle, Playing
<1>. QED  BY <1>2, <1>3, <1>4

(* Exit, crash and launch.                                                 *)
LEMMA ProcessInv ==
  ASSUME CheckpointInv, NEW fp \in Fingerprints, Exit(fp) \/ Crash(fp)
  PROVE  CheckpointInv'
<1>1. /\ attached' = fp /\ state' = Fresh(fp) /\ run' = None /\ checkpoint' = None
  BY DEF Exit, Crash, Launched
<1>2. SlotsShaped'
  BY WritesShaped, SlotNumbers DEF Exit, Crash
<1>. QED
  BY <1>1, <1>2, FreshShaped DEF CheckpointInv, Replays, Tooling

(* A hot reload: the run that follows is the tooling's, which keeps the    *)
(* boundary of the replaced program out of use.                            *)
LEMMA ReloadInv ==
  ASSUME CheckpointInv, NEW fp \in Fingerprints, Reload(fp)
  PROVE  CheckpointInv'
<1> DEFINE scene == IF HasScene(fp, state.scene) THEN state.scene ELSE EntryScene[fp]
           restarted == [Fresh(fp) EXCEPT !.vars = state.vars, !.scene = scene,
                           !.ended = state.ended \/ scene = NoScene]
<1>1. /\ Idle /\ fp # state.fp /\ attached' = fp /\ state' = restarted
      /\ UNCHANGED slots
      /\ IF restarted.ended
           THEN checkpoint' = Reset(restarted) /\ run' = None
           ELSE /\ run' = [fuel |-> MaxForward, restore |-> FALSE, tooling |-> TRUE]
                /\ UNCHANGED checkpoint
  BY DEF Reload
<1>2. Shaped(restarted) /\ restarted.fp = fp
  <2>1. (state.ended \/ scene = NoScene) \in BOOLEAN
    OBVIOUS
  <2>. HIDE DEF scene
  <2>. QED  BY <2>1 DEF Fresh, Shaped, Fields
<1>. HIDE DEF restarted
<1>3. SlotsShaped'
  BY <1>1 DEF CheckpointInv, SlotsShaped
<1>4. CASE restarted.ended
  BY <1>1, <1>2, <1>3, <1>4, ResetInv
<1>5. CASE ~restarted.ended
  <2>1. /\ run' = [fuel |-> MaxForward, restore |-> FALSE, tooling |-> TRUE]
        /\ UNCHANGED checkpoint
    BY <1>1, <1>5
  <2>2. run' \in Run /\ run'.tooling
    BY <2>1, Fuel DEF Run
  <2>3. run' # None
    BY <2>2, NoRun
  <2>4. checkpoint # None => Shaped(checkpoint) /\ checkpoint.fp = state.fp
    BY <1>1 DEF CheckpointInv, Tooling, Idle
  <2>5. Replays(checkpoint, restarted)
    BY <1>1, <1>2, <2>4 DEF CheckpointInv, Replays
  <2>. QED
    BY <1>1, <1>2, <1>3, <1>5, <2>1, <2>2, <2>3, <2>4, <2>5 DEF CheckpointInv, Tooling
<1>. QED  BY <1>4, <1>5

-------------------------------------------------------------------------------
(* The theorem. *)

LEMMA CheckpointInit == Init => CheckpointInv
<1>. SUFFICES ASSUME Init PROVE CheckpointInv
  OBVIOUS
<1>1. Shaped(state) /\ state.fp = attached
  BY FreshShaped DEF Init
<1>. QED  BY <1>1 DEF Init, CheckpointInv, SlotsShaped, Replays, Tooling

LEMMA CheckpointStep == CheckpointInv /\ [Next]_vars => CheckpointInv'
<1>. SUFFICES ASSUME CheckpointInv, [Next]_vars PROVE CheckpointInv'
  OBVIOUS
<1>1. CASE UNCHANGED vars
  BY <1>1 DEF vars, CheckpointInv, Tooling, SlotsShaped
<1>2. CASE \E done \in SUBSET Active(state), click, typed \in BOOLEAN, mode \in Modes :
             Tick(done, click, mode, typed)
  BY <1>2, TickInv
<1>3. CASE \E i \in SaveSlots : SaveSlot(i) \/ LoadSlot(i) \/ DeleteSlot(i)
  BY <1>3, SlotInv
<1>4. CASE \E i \in 1..BacklogCapacity : Rollback(i)
  BY <1>4, RollbackInv
<1>5. CASE \E fp \in Fingerprints : Exit(fp) \/ Crash(fp) \/ Reload(fp)
  BY <1>5, ProcessInv, ReloadInv
<1>. QED
  BY <1>1, <1>2, <1>3, <1>4, <1>5, StepInv, AnswerInv, StageInv, StartInv, ContinueInv
     DEF Next

(* Whenever the stage runs a presentation that a save cannot hold, the     *)
(* checkpoint of the running program, if there is one, is an exact state   *)
(* of a game in progress standing in front of an action that starts such a *)
(* presentation: what the driver promises to saves and exits.              *)
THEOREM CheckpointAlwaysReplays == Spec => []CheckpointReplays
<1>1. CheckpointInv => CheckpointReplays
  BY DEF CheckpointInv, CheckpointReplays, Replays
<1>. QED  BY <1>1, CheckpointInit, CheckpointStep, PTL DEF Spec

(* Only a launch or a reload attaches a program, and no resume, load or    *)
(* rollback makes the state one of another program; a run is always that   *)
(* of a game in progress.                                                  *)
RunsAttachedProgram == state.fp = attached /\ (run # None => ~state.ended)
THEOREM AlwaysAttached == Spec => []RunsAttachedProgram
<1>1. CheckpointInv => RunsAttachedProgram
  BY DEF CheckpointInv, RunsAttachedProgram
<1>. QED  BY <1>1, CheckpointInit, CheckpointStep, PTL DEF Spec
===============================================================================
