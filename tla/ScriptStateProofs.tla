--------------------------- MODULE ScriptStateProofs ---------------------------
(***************************************************************************)
(* The State of ScriptEngine itself: for every set of programs and every   *)
(* order of resumes, clicks, frames, saves, loads, rollbacks, reloads and  *)
(* crashes, positions stay inside their program, a rollback entry stands   *)
(* right behind the action that says its line, a menu offers labels of its *)
(* own scene, a presentation runs only if some action starts it, and a     *)
(* game that is over holds nothing of the session.                         *)
(***************************************************************************)
EXTENDS ScriptEngineProofs, SequenceTheorems

-------------------------------------------------------------------------------
(* What a program can put on the stage, and wait for. *)

Presents(fp, p, held) ==
  \E n \in DOMAIN Program[fp] : \E i \in 1..Len(Program[fp][n]) :
    /\ Program[fp][n][i].op = "present"
    /\ Program[fp][n][i].slot = p
    /\ Program[fp][n][i].hold \in held
Presented(fp, p) == Presents(fp, p, {"on", "loop", "block"})
Awaited(fp, p) == Presents(fp, p, {"block"})

(* Every program has a scene to start with.                                *)
EveryProgramStarts == \A fp \in Fingerprints : EntryScene[fp] # NoScene

-------------------------------------------------------------------------------
(* The invariant of one State. *)

Standing(s) ==
  /\ s.scene = NoScene \/ FrameIn(s.fp, s.scene, s.cursor)
  /\ StackIn(s.fp, s.stack)
Shows(fp, live) ==
  \A p \in Slots : /\ live[p] # "off" => Presented(fp, p)
                   /\ live[p] = "block" => Awaited(fp, p)
Recorded(fp, e) ==
  /\ EntryIn(fp, e)
  /\ e.dialogue.line = [scene |-> e.scene, index |-> e.cursor - 1]
  /\ Program[fp][e.scene][e.cursor].op = "say"
  /\ Shows(fp, e.live) /\ \A p \in Slots : e.live[p] # "block"
Logged(s) == \A i \in 1..Len(s.backlog) : Recorded(s.fp, s.backlog[i])
Offers(s) ==
  s.menu # None =>
    /\ HasScene(s.fp, s.scene)
    /\ \A m \in s.menu : m.choice.label <= SceneLen(s.fp, s.scene)
Blank(s) ==
  /\ s.stack = <<>> /\ s.dialogue = None /\ s.previous = None /\ s.menu = None
  /\ s.input = None /\ s.message = None /\ ~s.waiting /\ ~s.shell
  /\ s.loading = Unset
Dropped(s) ==
  /\ s.vars = [v \in Vars |-> Unset]
  /\ \A p \in Slots \ KeptByEnd : s.live[p] = "off"
Rests(s) ==
  /\ s.ended \/ s.scene = NoScene => Blank(s)
  /\ EveryProgramStarts => IF s.ended THEN Dropped(s) ELSE s.scene # NoScene
Sound(s) ==
  /\ s \in StateType
  /\ Standing(s) /\ Logged(s) /\ Shows(s.fp, s.live) /\ Offers(s) /\ Rests(s)

(* The line on the stage is the newest one of the backlog.                 *)
TopIn(s) ==
  s.dialogue # None =>
    /\ s.backlog # <<>>
    /\ s.backlog[Len(s.backlog)].dialogue.line = s.dialogue.line

(* What an operation on a game in progress keeps.                          *)
Follows(s, t) ==
  /\ Sound(t) /\ t.fp = s.fp /\ ~t.ended /\ t.scene # NoScene
  /\ t.read = s.read
  /\ TopIn(s) => TopIn(t)
Alive(s) == Sound(s) /\ ~s.ended /\ s.scene # NoScene

LEMMA SoundIsShaped ==
  ASSUME NEW s \in StateType
  PROVE  Shaped(s)
<1>1. Fields \subseteq DOMAIN s /\ DOMAIN s.live = Slots
  BY DEF StateType, Fields, LiveType
<1>2. s.fp \in Fingerprints /\ s.ended \in BOOLEAN
  BY DEF StateType
<1>3. s.menu \in (SUBSET MenuChoice) \cup {None}
  BY DEF StateType
<1>. QED  BY <1>1, <1>2, <1>3 DEF Shaped

(* An operation that records no line, opens no menu and stays placed.      *)
LEMMA Moves ==
  ASSUME NEW s, Alive(s), NEW t \in StateType, t.fp = s.fp, ~t.ended,
         t.scene # NoScene, FrameIn(t.fp, t.scene, t.cursor),
         StackIn(t.fp, t.stack), t.backlog = s.backlog, t.read = s.read,
         Shows(t.fp, t.live),
         t.menu = None \/ (t.menu = s.menu /\ t.scene = s.scene),
         t.dialogue = None \/ t.dialogue = s.dialogue
  PROVE  Follows(s, t)
BY DEF Follows, Alive, Sound, Standing, Logged, Offers, Rests, TopIn

(* The types of the fields the argument looks into.                        *)
LEMMA FieldsOf ==
  ASSUME NEW s \in StateType
  PROVE  /\ s.fp \in Fingerprints /\ s.scene \in SceneNames \cup {NoScene}
         /\ s.cursor \in Nat /\ s.stack \in Seq(Frame)
         /\ s.menu \in (SUBSET MenuChoice) \cup {None}
         /\ s.dialogue \in DialogueType \cup {None}
         /\ s.previous \in DialogueType \cup {None}
         /\ s.live \in LiveType /\ s.vars \in VarsType
         /\ s.backlog \in Seq(Entry) /\ s.read \in SUBSET Line
<1>1. /\ s.fp \in Fingerprints /\ s.scene \in SceneNames \cup {NoScene}
      /\ s.cursor \in Nat /\ s.stack \in Seq(Frame)
  BY DEF StateType
<1>2. /\ s.menu \in (SUBSET MenuChoice) \cup {None}
      /\ s.dialogue \in DialogueType \cup {None}
      /\ s.previous \in DialogueType \cup {None}
  BY DEF StateType
<1>3. /\ s.live \in LiveType /\ s.vars \in VarsType
      /\ s.backlog \in Seq(Entry) /\ s.read \in SUBSET Line
  BY DEF StateType
<1>. QED  BY <1>1, <1>2, <1>3

-------------------------------------------------------------------------------
(* Scenes and the program. *)

(* A scene is a sequence of actions, and NoScene is none.                  *)
LEMMA SceneTyped ==
  ASSUME NEW fp \in Fingerprints, NEW n, HasScene(fp, n)
  PROVE  /\ n \in SceneNames /\ n # NoScene
         /\ Program[fp][n] \in Seq(ActionType) /\ SceneLen(fp, n) \in Nat
BY Programs, Names DEF HasScene, SceneLen

LEMMA EnterSceneFollows ==
  ASSUME NEW s, Alive(s), NEW n
  PROVE  Follows(s, EnterScene(s, n))
<1>1. CASE ~HasScene(s.fp, n)
  <2>1. s \in StateType /\ FrameIn(s.fp, s.scene, s.cursor)
    BY DEF Alive, Sound, Standing
  <2>. QED  BY <1>1, <2>1 DEF EnterScene, Follows, Alive
<1>2. CASE HasScene(s.fp, n)
  <2> DEFINE live == [p \in Slots |-> IF p \in SceneSlots THEN "off" ELSE s.live[p]]
             t == [s EXCEPT !.scene = n, !.cursor = 0, !.dialogue = None,
                            !.menu = None, !.live = live]
  <2>1. s \in StateType /\ n \in SceneNames /\ n # NoScene /\ SceneLen(s.fp, n) \in Nat
    BY <1>2, SceneTyped, FieldsOf DEF Alive, Sound
  <2>2. live \in LiveType
    BY <2>1, FieldsOf DEF LiveType, Status
  <2>3. Shows(s.fp, live)
    BY DEF Shows, Alive, Sound
  <2>. HIDE DEF live
  <2>4. t \in StateType
    BY <2>1, <2>2 DEF StateType
  <2>5. /\ t.fp = s.fp /\ t.ended = s.ended /\ t.scene = n /\ t.cursor = 0
        /\ t.stack = s.stack /\ t.backlog = s.backlog /\ t.read = s.read
        /\ t.live = live /\ t.menu = None /\ t.dialogue = None
    BY <2>1 DEF StateType
  <2>6. EnterScene(s, n) = t
    BY <1>2 DEF EnterScene, live
  <2>. HIDE DEF t
  <2>7. FrameIn(t.fp, t.scene, t.cursor) /\ StackIn(t.fp, t.stack)
    BY <1>2, <2>1, <2>5 DEF FrameIn, Alive, Sound, Standing
  <2>. QED  BY <2>1, <2>3, <2>4, <2>5, <2>6, <2>7, Moves DEF Alive
<1>. QED  BY <1>1, <1>2

LEMMA FollowsTransitive ==
  ASSUME NEW s, NEW t, NEW u, Follows(s, t), Follows(t, u)
  PROVE  Follows(s, u) /\ Alive(t)
BY DEF Follows, Alive

LEMMA FollowsItself ==
  ASSUME NEW s, Alive(s)
  PROVE  Follows(s, s)
BY DEF Follows, Alive

LEMMA PopFrameFollows ==
  ASSUME NEW s, Alive(s), s.stack # <<>>, s.menu = None
  PROVE  Follows(s, PopFrame(s))
<1> DEFINE n == Len(s.stack)
           frame == s.stack[n]
           rest == SubSeq(s.stack, 1, n - 1)
           t == [s EXCEPT !.stack = rest, !.scene = frame.scene, !.cursor = frame.cursor]
<1>1. s \in StateType /\ s.stack \in Seq(Frame) /\ StackIn(s.fp, s.stack)
  BY FieldsOf DEF Alive, Sound, Standing
<1>2. n \in Nat \ {0}
  BY <1>1, EmptySeq
<1>3. frame \in Frame /\ FrameIn(s.fp, frame.scene, frame.cursor)
  BY <1>1, <1>2 DEF StackIn
<1>4. frame.scene \in SceneNames /\ frame.cursor \in Nat /\ frame.scene # NoScene
  BY <1>3, Names DEF Frame
<1>5. /\ rest \in Seq(Frame) /\ Len(rest) = n - 1
      /\ \A i \in 1..(n - 1) : rest[i] = s.stack[i]
  <2>1. \A i \in 1..(n - 1) : s.stack[i] \in Frame
    BY <1>1, <1>2
  <2>2. /\ rest \in Seq(Frame)
        /\ Len(rest) = IF 1 <= n - 1 THEN (n - 1) - 1 + 1 ELSE 0
        /\ \A i \in 1..((n - 1) - 1 + 1) : rest[i] = s.stack[1 + i - 1]
    BY <1>2, <2>1, SubSeqProperties
  <2>. QED  BY <1>2, <2>2
<1>6. StackIn(s.fp, rest)
  BY <1>1, <1>2, <1>5 DEF StackIn
<1>. HIDE DEF rest, frame
<1>7. t \in StateType
  BY <1>1, <1>4, <1>5 DEF StateType
<1>8. /\ t.fp = s.fp /\ t.ended = s.ended /\ t.scene = frame.scene
      /\ t.cursor = frame.cursor /\ t.stack = rest /\ t.backlog = s.backlog
      /\ t.read = s.read /\ t.live = s.live /\ t.menu = None
      /\ t.dialogue = s.dialogue
  BY <1>1 DEF StateType
<1>9. PopFrame(s) = t
  BY DEF PopFrame, rest, frame
<1>. HIDE DEF t
<1>10. Shows(t.fp, t.live)
  BY <1>8 DEF Alive, Sound
<1>. QED  BY <1>3, <1>4, <1>6, <1>7, <1>8, <1>9, <1>10, Moves DEF Alive

LEMMA CallSceneFollows ==
  ASSUME NEW s, Alive(s), NEW n
  PROVE  Follows(s, CallScene(s, n))
<1> DEFINE frame == [scene |-> s.scene, cursor |-> s.cursor]
           stack == Append(s.stack, frame)
           t == [s EXCEPT !.stack = stack]
<1>1. /\ s \in StateType /\ s.stack \in Seq(Frame) /\ StackIn(s.fp, s.stack)
      /\ FrameIn(s.fp, s.scene, s.cursor)
  BY FieldsOf DEF Alive, Sound, Standing
<1>2. s.scene \in SceneNames /\ s.cursor \in Nat
  BY <1>1, FieldsOf DEF Alive
<1>3. frame \in Frame /\ frame.scene = s.scene /\ frame.cursor = s.cursor
  BY <1>2 DEF Frame
<1>. HIDE DEF frame
<1>4. /\ stack \in Seq(Frame) /\ Len(stack) = Len(s.stack) + 1
      /\ \A i \in 1..Len(s.stack) : stack[i] = s.stack[i]
      /\ stack[Len(s.stack) + 1] = frame
  BY <1>1, <1>3, AppendProperties
<1>5. StackIn(s.fp, stack)
  BY <1>1, <1>3, <1>4 DEF StackIn
<1>. HIDE DEF stack
<1>6. t \in StateType
  BY <1>1, <1>4 DEF StateType
<1>7. /\ t.fp = s.fp /\ t.ended = s.ended /\ t.scene = s.scene
      /\ t.cursor = s.cursor /\ t.stack = stack /\ t.backlog = s.backlog
      /\ t.read = s.read /\ t.live = s.live /\ t.menu = s.menu
      /\ t.dialogue = s.dialogue
  BY <1>1 DEF StateType
<1>8. CallScene(s, n) \in {s, EnterScene(t, n)}
  BY DEF CallScene, stack, frame
<1>. HIDE DEF t
<1>9. Follows(s, t)
  BY <1>1, <1>5, <1>6, <1>7, Moves DEF Alive, Sound
<1>10. Follows(s, EnterScene(t, n))
  BY <1>9, EnterSceneFollows, FollowsTransitive DEF Follows, Alive
<1>. QED  BY <1>8, <1>10, FollowsItself

-------------------------------------------------------------------------------
(* Actions of the program. *)

(* The state in which an action runs: the cursor is behind it and nothing  *)
(* holds the script.                                                       *)
Behind(s, a) ==
  /\ Alive(s) /\ ~Unanswered(s)
  /\ s.cursor \in 1..SceneLen(s.fp, s.scene)
  /\ a = Program[s.fp][s.scene][s.cursor]
(* What the action leaves: going on means that nothing holds the script.   *)
Runs(s, r) == Follows(s, r.st) /\ (r.out = "go" => ~Unanswered(r.st))

(* What is known of an action at its place.                                *)
LEMMA BehindAction ==
  ASSUME NEW s, NEW a, Behind(s, a)
  PROVE  /\ s \in StateType /\ HasScene(s.fp, s.scene)
         /\ SceneLen(s.fp, s.scene) \in Nat
         /\ a \in ActionType
         /\ a.label <= SceneLen(s.fp, s.scene)
         /\ \A c \in a.choices : c.label <= SceneLen(s.fp, s.scene)
         /\ a.op = "stopvideo" => a.slot \in VideoSlots
         /\ a.op = "loading" => a.val # Bad
         /\ a.op = "present" /\ a.hold \in {"on", "loop", "block"}
              => Presented(s.fp, a.slot)
         /\ a.op = "present" /\ a.hold = "block" => Awaited(s.fp, a.slot)
<1>1. /\ s \in StateType /\ s.fp \in Fingerprints /\ HasScene(s.fp, s.scene)
      /\ s.cursor \in 1..SceneLen(s.fp, s.scene)
      /\ a = Program[s.fp][s.scene][s.cursor]
  BY FieldsOf DEF Behind, Alive, Sound, Standing, FrameIn
<1>2. SceneLen(s.fp, s.scene) \in Nat /\ a \in ActionType
  BY <1>1, SceneTyped DEF SceneLen
<1>3. /\ a.label <= SceneLen(s.fp, s.scene)
      /\ \A c \in a.choices : c.label <= SceneLen(s.fp, s.scene)
      /\ a.op = "stopvideo" => a.slot \in VideoSlots
      /\ a.op = "loading" => a.val # Bad
  BY <1>1, Programs DEF HasScene, SceneLen
<1>4. /\ a.op = "present" /\ a.hold \in {"on", "loop", "block"}
           => Presented(s.fp, a.slot)
      /\ a.op = "present" /\ a.hold = "block" => Awaited(s.fp, a.slot)
  BY <1>1 DEF HasScene, SceneLen, Presented, Awaited, Presents
<1>. QED  BY <1>1, <1>2, <1>3, <1>4

(* The last entries of a sequence.                                         *)
LEMMA LastEntries ==
  ASSUME NEW all \in Seq(Entry), NEW first \in 1..Len(all)
  PROVE  LET kept == SubSeq(all, first, Len(all))
         IN /\ kept \in Seq(Entry) /\ kept # <<>>
            /\ kept[Len(kept)] = all[Len(all)]
            /\ \A i \in 1..Len(kept) : \E j \in 1..Len(all) : kept[i] = all[j]
<1> DEFINE last == Len(all)
           kept == SubSeq(all, first, last)
<1>1. first \in Int /\ last \in Int /\ 1 <= first /\ first <= last
  OBVIOUS
<1>2. \A i \in first..last : all[i] \in Entry
  BY <1>1
<1>. HIDE DEF last
<1>3. /\ kept \in Seq(Entry)
      /\ Len(kept) = IF first <= last THEN last - first + 1 ELSE 0
      /\ \A i \in 1..(last - first + 1) : kept[i] = all[first + i - 1]
  BY <1>1, <1>2, SubSeqProperties
<1>. HIDE DEF kept
<1>4. Len(kept) = last - first + 1 /\ Len(kept) \in Nat \ {0}
  BY <1>1, <1>3
<1>5. kept # <<>>
  BY <1>3, <1>4, EmptySeq
<1>6. kept[Len(kept)] = all[last]
  BY <1>1, <1>3, <1>4
<1>7. ASSUME NEW i \in 1..Len(kept)
      PROVE  \E j \in 1..last : kept[i] = all[j]
  <2>1. kept[i] = all[first + i - 1] /\ first + i - 1 \in 1..last
    BY <1>1, <1>3, <1>4
  <2>. QED  BY <2>1
<1>. QED  BY <1>3, <1>5, <1>6, <1>7 DEF kept, last

LEMMA SayRuns ==
  ASSUME NEW s, NEW a, Behind(s, a), a.op = "say"
  PROVE  Runs(s, Say(s, a))
<1> DEFINE line == [scene |-> s.scene, index |-> s.cursor - 1]
           dialogue == [line |-> line, shown |-> FALSE, auto |-> a.auto]
           entry == [fp |-> s.fp, scene |-> s.scene, cursor |-> s.cursor,
                     stack |-> s.stack, dialogue |-> dialogue, live |-> s.live,
                     vars |-> s.vars]
           log == Append(s.backlog, entry)
           excess == IF Len(log) > BacklogCapacity THEN Len(log) - BacklogCapacity
                                                   ELSE 0
           kept == SubSeq(log, excess + 1, Len(log))
           told == [s EXCEPT !.dialogue = dialogue, !.backlog = kept, !.menu = None]
<1>1. /\ s \in StateType /\ a \in ActionType /\ s.fp \in Fingerprints
      /\ s.scene \in SceneNames /\ s.cursor \in Nat /\ s.cursor > 0
      /\ s.stack \in Seq(Frame) /\ s.live \in LiveType /\ s.vars \in VarsType
      /\ s.backlog \in Seq(Entry)
  BY BehindAction, FieldsOf DEF Behind, Alive
<1>2. line \in Line
  BY <1>1 DEF Line
<1>3. a.auto \in BOOLEAN
  BY <1>1 DEF ActionType
<1>. HIDE DEF line
<1>4. dialogue \in DialogueType /\ dialogue.line = line
  BY <1>2, <1>3 DEF DialogueType
<1>. HIDE DEF dialogue
<1>5. entry \in Entry
  BY <1>1, <1>4 DEF Entry
<1>6. /\ entry.fp = s.fp /\ entry.scene = s.scene /\ entry.cursor = s.cursor
      /\ entry.stack = s.stack /\ entry.dialogue = dialogue /\ entry.live = s.live
  OBVIOUS
<1>. HIDE DEF entry
<1>7. Recorded(s.fp, entry)
  <2>1. EntryIn(s.fp, entry)
    BY <1>1, <1>6, Names DEF EntryIn, Behind, Alive, Sound, Standing
  <2>2. /\ Program[s.fp][s.scene][s.cursor].op = "say"
        /\ Shows(s.fp, s.live) /\ \A p \in Slots : s.live[p] # "block"
    BY DEF Behind, Alive, Sound, Unanswered
  <2>. QED  BY <1>4, <1>6, <2>1, <2>2 DEF Recorded, line
<1>8. /\ log \in Seq(Entry) /\ Len(log) = Len(s.backlog) + 1
      /\ log[Len(s.backlog) + 1] = entry
      /\ \A i \in 1..Len(s.backlog) : log[i] = s.backlog[i]
  BY <1>1, <1>5, AppendProperties
<1>. HIDE DEF log
<1>9. /\ kept \in Seq(Entry) /\ kept # <<>> /\ kept[Len(kept)] = entry
      /\ \A i \in 1..Len(kept) :
           kept[i] = entry \/ \E j \in 1..Len(s.backlog) : kept[i] = s.backlog[j]
  <2>1. excess + 1 \in 1..Len(log)
    BY <1>1, <1>8, Capacity
  <2>. HIDE DEF excess
  <2>2. /\ kept \in Seq(Entry) /\ kept # <<>> /\ kept[Len(kept)] = log[Len(log)]
        /\ \A i \in 1..Len(kept) : \E j \in 1..Len(log) : kept[i] = log[j]
    BY <1>8, <2>1, LastEntries
  <2>. HIDE DEF kept
  <2>. QED  BY <1>1, <1>8, <2>2
<1>10. \A i \in 1..Len(kept) : Recorded(s.fp, kept[i])
  BY <1>7, <1>9 DEF Behind, Alive, Sound, Logged
<1>11. \/ Say(s, a) = Error(s)
       \/ Say(s, a).st = told /\ (Say(s, a).out = "go" => ~Unanswered(told))
  <2> DEFINE spoken == [s EXCEPT !.dialogue = dialogue]
  <2>1. /\ spoken.fp = s.fp /\ spoken.scene = s.scene /\ spoken.cursor = s.cursor
        /\ spoken.stack = s.stack /\ spoken.dialogue = dialogue
        /\ spoken.live = s.live /\ spoken.vars = s.vars /\ spoken.backlog = s.backlog
    BY <1>1 DEF StateType
  <2>2. RecordDialogue(spoken) = [spoken EXCEPT !.backlog = kept]
    BY <2>1 DEF RecordDialogue, log, entry
  <2>. HIDE DEF kept, excess
  <2>3. \/ Say(s, a) = Error(s)
        \/ Say(s, a).st = [[spoken EXCEPT !.backlog = kept] EXCEPT !.menu = None]
    BY <2>2 DEF Say, Go, Yield, line, dialogue
  <2>4. Say(s, a) = Error(s) \/ Say(s, a).st = told
    BY <1>1, <2>3 DEF StateType
  <2>5. ~Unanswered(told)
    BY <1>1 DEF Unanswered, Behind, StateType
  <2>. QED  BY <2>4, <2>5
<1>. HIDE DEF kept, excess
<1>12. told \in StateType
  BY <1>1, <1>4, <1>9 DEF StateType
<1>13. /\ told.fp = s.fp /\ told.ended = s.ended /\ told.scene = s.scene
       /\ told.cursor = s.cursor /\ told.stack = s.stack /\ told.backlog = kept
       /\ told.read = s.read /\ told.live = s.live /\ told.menu = None
       /\ told.dialogue = dialogue
  BY <1>1 DEF StateType
<1>. HIDE DEF told
<1>14. Sound(told) /\ TopIn(told)
  BY <1>6, <1>9, <1>10, <1>12, <1>13
     DEF Sound, Standing, Logged, Offers, Rests, TopIn, Behind, Alive
<1>15. Say(s, a) = Error(s) => Runs(s, Say(s, a))
  BY FollowsItself DEF Runs, Error, Behind
<1>. QED  BY <1>11, <1>13, <1>14, <1>15 DEF Runs, Follows, Behind, Alive

(* A menu offers choices of the action, whose labels lie in the scene.     *)
LEMMA MenuRuns ==
  ASSUME NEW s, NEW a, Behind(s, a)
  PROVE  Runs(s, Menu(s, a))
<1> DEFINE visible == {c \in a.choices : Eval(c.show, s.vars) = "yes"}
           menu == {[enabled |-> a.strict \/ Eval(c.enable, s.vars) = "yes",
                     choice |-> c] : c \in visible}
           asked == [s EXCEPT !.menu = menu, !.dialogue = None]
<1>1. /\ s \in StateType /\ a \in ActionType /\ HasScene(s.fp, s.scene)
      /\ \A c \in a.choices : c.label <= SceneLen(s.fp, s.scene)
  BY BehindAction
<1>2. a.choices \subseteq Choice /\ a.strict \in BOOLEAN
  BY <1>1 DEF ActionType
<1>3. ASSUME NEW m \in menu
      PROVE  m \in MenuChoice /\ m.choice \in a.choices
  <2>1. PICK c \in visible :
          m = [enabled |-> a.strict \/ Eval(c.enable, s.vars) = "yes", choice |-> c]
    OBVIOUS
  <2> DEFINE e == a.strict \/ Eval(c.enable, s.vars) = "yes"
  <2>2. e \in BOOLEAN /\ c \in a.choices /\ c \in Choice
    BY <1>2
  <2>3. m = [enabled |-> e, choice |-> c]
    BY <2>1
  <2>. HIDE DEF e
  <2>. QED  BY <2>2, <2>3 DEF MenuChoice
<1>4. menu \in SUBSET MenuChoice /\ \A m \in menu : m.choice.label <= SceneLen(s.fp, s.scene)
  BY <1>1, <1>3
<1>5. Menu(s, a).st \in {s, asked} /\ (Menu(s, a).out = "go" => Menu(s, a).st = s)
  BY DEF Menu, Go, Yield, Error
<1>. HIDE DEF menu
<1>6. asked \in StateType
  BY <1>1, <1>4 DEF StateType
<1>7. /\ asked.fp = s.fp /\ asked.ended = s.ended /\ asked.scene = s.scene
      /\ asked.cursor = s.cursor /\ asked.stack = s.stack
      /\ asked.backlog = s.backlog /\ asked.read = s.read /\ asked.live = s.live
      /\ asked.menu = menu /\ asked.dialogue = None
  BY <1>1 DEF StateType
<1>. HIDE DEF asked
<1>8. Follows(s, asked)
  BY <1>1, <1>4, <1>6, <1>7
     DEF Follows, Sound, Standing, Logged, Offers, Rests, TopIn, Behind, Alive
<1>9. Follows(s, s) /\ ~Unanswered(s)
  BY FollowsItself DEF Behind
<1>. QED  BY <1>5, <1>8, <1>9 DEF Runs

LEMMA JumpRuns ==
  ASSUME NEW s, NEW a, Behind(s, a)
  PROVE  Runs(s, Jump(s, a))
<1> DEFINE t == [s EXCEPT !.cursor = a.label]
<1>1. /\ s \in StateType /\ a \in ActionType /\ a.label <= SceneLen(s.fp, s.scene)
      /\ HasScene(s.fp, s.scene)
  BY BehindAction
<1>2. a.label \in Int /\ Eval(a.cond, s.vars) \in {"yes", "no", "bad"}
  BY <1>1, EvalTyped DEF ActionType
<1>3. Jump(s, a).st = s \/ (Jump(s, a).st = t /\ a.label >= 0)
  BY <1>2 DEF Jump, Go, Error
<1>4. ASSUME a.label >= 0 PROVE Follows(s, t)
  <2>0. a.label \in Nat
    BY <1>2, <1>4
  <2>1. t \in StateType
    BY <1>1, <2>0 DEF StateType
  <2>2. /\ t.fp = s.fp /\ t.ended = s.ended /\ t.scene = s.scene
        /\ t.cursor = a.label /\ t.stack = s.stack /\ t.backlog = s.backlog
        /\ t.read = s.read /\ t.live = s.live /\ t.menu = s.menu
        /\ t.dialogue = s.dialogue
    BY <1>1 DEF StateType
  <2>. HIDE DEF t
  <2>3. FrameIn(t.fp, t.scene, t.cursor) /\ StackIn(t.fp, t.stack) /\ Shows(t.fp, t.live)
    BY <1>1, <2>2 DEF FrameIn, Behind, Alive, Sound, Standing
  <2>. QED  BY <2>1, <2>2, <2>3, Moves DEF Behind, Alive
<1>5. ~Unanswered(t)
  BY <1>1 DEF Unanswered, Behind, StateType
<1>6. Follows(s, s) /\ ~Unanswered(s)
  BY FollowsItself DEF Behind
<1>. QED  BY <1>3, <1>4, <1>5, <1>6 DEF Runs

(* What an action does to one slot of the stage.                           *)
LEMMA LiveFollows ==
  ASSUME NEW s, Alive(s), NEW p \in Slots, NEW x \in Status,
         x # "off" => Presented(s.fp, p), x = "block" => Awaited(s.fp, p)
  PROVE  /\ Follows(s, [s EXCEPT !.live[p] = x])
         /\ ~Unanswered(s) /\ x # "block" => ~Unanswered([s EXCEPT !.live[p] = x])
<1> DEFINE live == [s.live EXCEPT ![p] = x]
           t == [s EXCEPT !.live = live]
<1>1. s \in StateType /\ s.live \in LiveType
  BY FieldsOf DEF Alive, Sound
<1>2. live \in LiveType /\ live[p] = x /\ \A q \in Slots \ {p} : live[q] = s.live[q]
  BY <1>1 DEF LiveType
<1>3. [s EXCEPT !.live[p] = x] = t
  BY <1>1 DEF StateType
<1>. HIDE DEF live
<1>4. t \in StateType
  BY <1>1, <1>2 DEF StateType
<1>5. /\ t.fp = s.fp /\ t.ended = s.ended /\ t.scene = s.scene
      /\ t.cursor = s.cursor /\ t.stack = s.stack /\ t.backlog = s.backlog
      /\ t.read = s.read /\ t.live = live /\ t.menu = s.menu
      /\ t.dialogue = s.dialogue
  BY <1>1 DEF StateType
<1>6. t.input = s.input /\ t.message = s.message /\ t.waiting = s.waiting
  BY <1>1 DEF StateType
<1>. HIDE DEF t
<1>7. Shows(t.fp, t.live)
  BY <1>2, <1>5 DEF Shows, Alive, Sound
<1>8. FrameIn(t.fp, t.scene, t.cursor) /\ StackIn(t.fp, t.stack)
  BY <1>5 DEF Alive, Sound, Standing
<1>9. Follows(s, t)
  BY <1>4, <1>5, <1>7, <1>8, Moves DEF Alive
<1>10. ~Unanswered(s) /\ x # "block" => ~Unanswered(t)
  BY <1>2, <1>5, <1>6 DEF Unanswered
<1>. QED  BY <1>3, <1>9, <1>10

LEMMA PresentRuns ==
  ASSUME NEW s, NEW a, Behind(s, a), a.op = "present"
  PROVE  Runs(s, Present(s, a))
<1> DEFINE status == IF a.hold = "block" /\ a.next THEN "on" ELSE a.hold
           t == [s EXCEPT !.live[a.slot] = status]
<1>1. a.slot \in Slots /\ a.hold \in Status
  BY BehindAction DEF ActionType
<1>2. status \in Status
  BY <1>1 DEF Status
<1>3. /\ status # "off" => Presented(s.fp, a.slot)
      /\ status = "block" => Awaited(s.fp, a.slot)
  BY <1>1, BehindAction DEF Status
<1>4. Present(s, a).st = t /\ (Present(s, a).out = "go" => status # "block")
  BY DEF Present, Go, Yield
<1>. HIDE DEF status
<1>5. Follows(s, t) /\ (status # "block" => ~Unanswered(t))
  BY <1>1, <1>2, <1>3, LiveFollows DEF Behind
<1>. QED  BY <1>4, <1>5 DEF Runs

LEMMA StopVideoRuns ==
  ASSUME NEW s, NEW a, Behind(s, a), a.op = "stopvideo"
  PROVE  Runs(s, StopVideo(s, a))
<1> DEFINE status == IF a.hold = "off" THEN "off" ELSE "on"
           t == [s EXCEPT !.live[a.slot] = status]
<1>1. a.slot \in Slots
  BY BehindAction, SlotSets
<1>2. status \in Status /\ status # "block"
  BY DEF Status
<1>3. Follows(s, s) /\ ~Unanswered(s)
  BY FollowsItself DEF Behind
<1>4. \/ StopVideo(s, a).st = s
      \/ StopVideo(s, a).st = t /\ s.live[a.slot] # "off"
  BY DEF StopVideo, Go
<1>. HIDE DEF status
<1>5. ASSUME s.live[a.slot] # "off" PROVE Follows(s, t) /\ ~Unanswered(t)
  <2>1. Presented(s.fp, a.slot)
    BY <1>1, <1>5 DEF Shows, Behind, Alive, Sound
  <2>. QED  BY <1>1, <1>2, <2>1, LiveFollows DEF Behind
<1>. QED  BY <1>3, <1>4, <1>5 DEF Runs

(* Fields that neither hold the script nor place it.                       *)
LEMMA FieldFollows ==
  ASSUME NEW s, Alive(s), NEW a \in ActionType
  PROVE  /\ Follows(s, [s EXCEPT !.waiting = TRUE])
         /\ Follows(s, Tell(s, a).st)
         /\ Follows(s, [s EXCEPT !.input = a.var])
<1>1. s \in StateType /\ a.var \in Vars
  BY DEF Alive, Sound, ActionType
<1>2. ASSUME NEW t \in StateType, t.fp = s.fp, t.ended = s.ended,
             t.scene = s.scene, t.cursor = s.cursor, t.stack = s.stack,
             t.backlog = s.backlog, t.read = s.read, t.live = s.live,
             t.menu = s.menu, t.dialogue = s.dialogue
      PROVE  Follows(s, t)
  <2>1. FrameIn(t.fp, t.scene, t.cursor) /\ StackIn(t.fp, t.stack) /\ Shows(t.fp, t.live)
    BY <1>2 DEF Alive, Sound, Standing
  <2>. QED  BY <1>2, <2>1, Moves DEF Alive
<1>3. Follows(s, [s EXCEPT !.waiting = TRUE])
  <2> DEFINE t == [s EXCEPT !.waiting = TRUE]
  <2>1. t \in StateType
    BY <1>1 DEF StateType
  <2>2. /\ t.fp = s.fp /\ t.ended = s.ended /\ t.scene = s.scene
        /\ t.cursor = s.cursor /\ t.stack = s.stack /\ t.backlog = s.backlog
        /\ t.read = s.read /\ t.live = s.live /\ t.menu = s.menu
        /\ t.dialogue = s.dialogue
    BY <1>1 DEF StateType
  <2>. QED  BY <1>2, <2>1, <2>2
<1>4. Follows(s, Tell(s, a).st)
  <2>1. ASSUME NEW w \in Vars \cup {Unset} PROVE Follows(s, [s EXCEPT !.message = w])
    <3> DEFINE t == [s EXCEPT !.message = w]
    <3>1. t \in StateType
      BY <1>1, <2>1 DEF StateType
    <3>2. /\ t.fp = s.fp /\ t.ended = s.ended /\ t.scene = s.scene
          /\ t.cursor = s.cursor /\ t.stack = s.stack /\ t.backlog = s.backlog
          /\ t.read = s.read /\ t.live = s.live /\ t.menu = s.menu
          /\ t.dialogue = s.dialogue
      BY <1>1 DEF StateType
    <3>. QED  BY <1>2, <3>1, <3>2
  <2>2. \E w \in Vars \cup {Unset} : Tell(s, a).st = [s EXCEPT !.message = w]
    BY <1>1 DEF Tell, Yield
  <2>. QED  BY <2>1, <2>2
<1>5. Follows(s, [s EXCEPT !.input = a.var])
  <2> DEFINE t == [s EXCEPT !.input = a.var]
  <2>1. t \in StateType
    BY <1>1 DEF StateType
  <2>2. /\ t.fp = s.fp /\ t.ended = s.ended /\ t.scene = s.scene
        /\ t.cursor = s.cursor /\ t.stack = s.stack /\ t.backlog = s.backlog
        /\ t.read = s.read /\ t.live = s.live /\ t.menu = s.menu
        /\ t.dialogue = s.dialogue
    BY <1>1 DEF StateType
  <2>. QED  BY <1>2, <2>1, <2>2
<1>. QED  BY <1>3, <1>4, <1>5

LEMMA QuietRuns ==
  ASSUME NEW s, NEW a, Behind(s, a)
  PROVE  /\ Runs(s, Set(s, a))
         /\ a.op = "loading" => Runs(s, Go([s EXCEPT !.loading = a.val]))
         /\ Runs(s, Go([s EXCEPT !.shell = TRUE]))
<1>1. /\ s \in StateType /\ a \in ActionType /\ s.vars \in VarsType
      /\ a.op = "loading" => a.val # Bad
  BY BehindAction, FieldsOf
<1>2. a.val \in Values \cup {Unset, Bad} /\ a.var \in Vars
  BY <1>1 DEF ActionType
<1>3. ASSUME NEW t \in StateType, t.fp = s.fp, t.ended = s.ended,
             t.scene = s.scene, t.cursor = s.cursor, t.stack = s.stack,
             t.backlog = s.backlog, t.read = s.read, t.live = s.live,
             t.menu = s.menu, t.dialogue = s.dialogue, t.input = s.input,
             t.message = s.message, t.waiting = s.waiting
      PROVE  Follows(s, t) /\ ~Unanswered(t)
  <2>1. FrameIn(t.fp, t.scene, t.cursor) /\ StackIn(t.fp, t.stack) /\ Shows(t.fp, t.live)
    BY <1>3 DEF Behind, Alive, Sound, Standing
  <2>2. Follows(s, t)
    BY <1>3, <2>1, Moves DEF Behind, Alive
  <2>3. ~Unanswered(t)
    BY <1>3 DEF Unanswered, Behind
  <2>. QED  BY <2>2, <2>3
<1>4. Runs(s, Set(s, a))
  <2> DEFINE vars1 == [s.vars EXCEPT ![a.var] = a.val]
             t == [s EXCEPT !.vars = vars1]
  <2>1. Set(s, a).st = s \/ (Set(s, a).st = t /\ a.val # Bad)
    BY <1>1 DEF Set, Go, Error, StateType
  <2>2. ASSUME a.val # Bad PROVE Follows(s, t) /\ ~Unanswered(t)
    <3>1. vars1 \in VarsType
      BY <1>1, <1>2, <2>2 DEF VarsType
    <3>. HIDE DEF vars1
    <3>. QED  BY <1>1, <1>3, <3>1 DEF StateType
  <2>3. Follows(s, s) /\ ~Unanswered(s)
    BY FollowsItself DEF Behind
  <2>. QED  BY <2>1, <2>2, <2>3 DEF Runs
<1>5. ASSUME a.op = "loading"
      PROVE  Runs(s, Go([s EXCEPT !.loading = a.val]))
  <2>1. a.val \in Values \cup {Unset}
    BY <1>1, <1>2, <1>5
  <2>2. Follows(s, [s EXCEPT !.loading = a.val]) /\ ~Unanswered([s EXCEPT !.loading = a.val])
    BY <1>1, <1>3, <2>1 DEF StateType
  <2>. QED  BY <2>2 DEF Runs, Go
<1>6. Runs(s, Go([s EXCEPT !.shell = TRUE]))
  <2>1. Follows(s, [s EXCEPT !.shell = TRUE]) /\ ~Unanswered([s EXCEPT !.shell = TRUE])
    BY <1>1, <1>3 DEF StateType
  <2>. QED  BY <2>1 DEF Runs, Go
<1>. QED  BY <1>4, <1>5, <1>6

(* A change of scene holds nothing.                                        *)
LEMMA SceneChangeFree ==
  ASSUME NEW s \in StateType, ~Unanswered(s), NEW n
  PROVE  /\ ~Unanswered(EnterScene(s, n))
         /\ ~Unanswered(CallScene(s, n))
         /\ ~Unanswered(PopFrame(s))
<1>1. ASSUME NEW t \in StateType, ~Unanswered(t) PROVE ~Unanswered(EnterScene(t, n))
  BY <1>1 DEF EnterScene, Unanswered, StateType
<1>2. ~Unanswered(PopFrame(s))
  BY DEF PopFrame, Unanswered, StateType
<1>3. ~Unanswered(CallScene(s, n))
  BY DEF CallScene, EnterScene, Unanswered, StateType
<1>. QED  BY <1>1, <1>2, <1>3

(* Every operation.                                                        *)
LEMMA ExecRuns ==
  ASSUME NEW s, NEW a, Behind(s, a)
  PROVE  Runs(s, Exec(s, a))
<1>1. /\ s \in StateType /\ a \in ActionType /\ Alive(s) /\ ~Unanswered(s)
  BY BehindAction DEF Behind
<1>2. a.op \in Ops
  BY <1>1 DEF ActionType
<1>3. Follows(s, s)
  BY <1>1, FollowsItself
<1>4. CASE a.op = "say"
  BY <1>4, SayRuns DEF Exec
<1>5. CASE a.op = "menu"
  BY <1>5, MenuRuns DEF Exec
<1>6. CASE a.op = "jump"
  BY <1>6, JumpRuns DEF Exec
<1>7. CASE a.op = "call"
  <2>1. Call(s, a).st \in {s, CallScene(s, a.scene), CallScene(s, a.other)}
    BY DEF Call, Go
  <2>2. Exec(s, a) = Call(s, a)
    BY <1>7 DEF Exec
  <2>. QED  BY <1>1, <1>3, <2>1, <2>2, CallSceneFollows, SceneChangeFree DEF Runs
<1>8. CASE a.op = "scene"
  <2>1. Exec(s, a) = Go(EnterScene(s, a.scene))
    BY <1>8 DEF Exec
  <2>. QED  BY <1>1, <2>1, EnterSceneFollows, SceneChangeFree DEF Runs, Go
<1>9. CASE a.op = "return"
  <2>1. \/ Return(s).st = s
        \/ Return(s).st = PopFrame(s) /\ s.stack # <<>>
    BY DEF Return, Go, Error
  <2>2. Exec(s, a) = Return(s) /\ s.menu = None
    BY <1>1, <1>9 DEF Exec, Unanswered
  <2>. QED  BY <1>1, <1>3, <2>1, <2>2, PopFrameFollows, SceneChangeFree DEF Runs
<1>10. CASE a.op \in {"end", "nop"}
  BY <1>1, <1>3, <1>10 DEF Exec, Go, Yield, Runs
<1>11. CASE a.op = "set"
  BY <1>11, QuietRuns DEF Exec
<1>12. CASE a.op = "present"
  BY <1>12, PresentRuns DEF Exec
<1>13. CASE a.op = "stopvideo"
  BY <1>13, StopVideoRuns DEF Exec
<1>14. CASE a.op = "advance"
  <2>1. Exec(s, a) = WaitForAdvance(s, a)
    BY <1>14 DEF Exec
  <2> DEFINE t == [s EXCEPT !.waiting = TRUE]
  <2>2. Follows(s, t)
    BY <1>1, FieldFollows
  <2>3. Exec(s, a) \in {Go(s), Yield(t, "present")}
    BY <2>1 DEF WaitForAdvance
  <2>. HIDE DEF t
  <2>4. Runs(s, Go(s)) /\ Runs(s, Yield(t, "present"))
    BY <1>1, <1>3, <2>2 DEF Go, Yield, Runs
  <2>. QED  BY <2>3, <2>4
<1>15. CASE a.op \in {"message", "input"}
  <2>1. Tell(s, a).out = "present"
    BY DEF Tell, Yield
  <2>2. Exec(s, a) \in {Tell(s, a), Yield([s EXCEPT !.input = a.var], "input")}
    BY <1>15 DEF Exec
  <2>3. Runs(s, Tell(s, a))
    BY <1>1, <2>1, FieldFollows DEF Runs
  <2>4. Runs(s, Yield([s EXCEPT !.input = a.var], "input"))
    BY <1>1, FieldFollows DEF Yield, Runs
  <2>. QED  BY <2>2, <2>3, <2>4
<1>16. CASE a.op \in {"loading", "title"}
  BY <1>16, QuietRuns DEF Exec
<1>. QED
  BY <1>2, <1>4, <1>5, <1>6, <1>7, <1>8, <1>9, <1>10, <1>11, <1>12, <1>13, <1>14,
     <1>15, <1>16 DEF Ops

(* The action at the cursor, under its -when condition.                    *)
LEMMA FlowRuns ==
  ASSUME NEW s, Alive(s), ~Unanswered(s), HasAction(s)
  PROVE  Runs(s, ExecFlow(s, ActionAt(s)))
<1> DEFINE a == ActionAt(s)
           t == [s EXCEPT !.cursor = @ + 1]
<1>1. /\ s \in StateType /\ s.cursor \in Nat /\ s.fp \in Fingerprints
      /\ HasScene(s.fp, s.scene) /\ SceneLen(s.fp, s.scene) \in Nat
      /\ s.cursor + 1 \in 1..SceneLen(s.fp, s.scene)
  BY FieldsOf, SceneTyped DEF HasAction, Alive, Sound
<1>2. t \in StateType
  BY <1>1 DEF StateType
<1>3. /\ t.fp = s.fp /\ t.ended = s.ended /\ t.scene = s.scene
      /\ t.cursor = s.cursor + 1 /\ t.stack = s.stack /\ t.backlog = s.backlog
      /\ t.read = s.read /\ t.live = s.live /\ t.menu = s.menu
      /\ t.dialogue = s.dialogue
  BY <1>1 DEF StateType
<1>4. t.input = s.input /\ t.message = s.message /\ t.waiting = s.waiting
  BY <1>1 DEF StateType
<1>5. a = Program[s.fp][s.scene][s.cursor + 1]
  BY DEF ActionAt
<1>. HIDE DEF t, a
<1>6. FrameIn(t.fp, t.scene, t.cursor) /\ StackIn(t.fp, t.stack) /\ Shows(t.fp, t.live)
  BY <1>1, <1>3 DEF FrameIn, Alive, Sound, Standing
<1>7. Follows(s, t)
  BY <1>2, <1>3, <1>6, Moves DEF Alive
<1>8. ~Unanswered(t)
  BY <1>3, <1>4 DEF Unanswered
<1>9. Behind(t, a)
  BY <1>1, <1>3, <1>5, <1>7, <1>8 DEF Behind, Follows, Alive
<1>10. Runs(t, Exec(t, a))
  BY <1>9, ExecRuns
<1>11. a \in ActionType
  BY <1>9, BehindAction
<1>12. Eval(a.when, s.vars) \in {"yes", "no", "bad"}
  BY <1>11, EvalTyped DEF ActionType
<1>13. ExecFlow(s, a) \in {Exec(t, a), Go(t), Error(t)}
  BY <1>12 DEF ExecFlow, t
<1>14. Runs(s, Exec(t, a))
  BY <1>7, <1>10, FollowsTransitive DEF Runs
<1>15. Runs(s, Go(t)) /\ Runs(s, Error(t))
  BY <1>7, <1>8 DEF Runs, Go, Error
<1>. QED  BY <1>13, <1>14, <1>15 DEF a

-------------------------------------------------------------------------------
(* Operations of the host. *)

(* A new State, also one that carries variables into a hot reload.         *)
LEMMA FreshSound ==
  ASSUME NEW fp \in Fingerprints
  PROVE  Sound(Fresh(fp)) /\ Fresh(fp).ended /\ TopIn(Fresh(fp)) /\ ~Fresh(fp).diagnostic
<1> DEFINE f == Fresh(fp)
<1>1. /\ f.fp = fp /\ f.scene = NoScene /\ f.cursor = 0 /\ f.stack = <<>> /\ f.ended = TRUE
      /\ f.diagnostic = FALSE /\ f.dialogue = None /\ f.previous = None
      /\ f.menu = None /\ f.input = None /\ f.message = None /\ f.waiting = FALSE
      /\ f.live = [p \in Slots |-> "off"] /\ f.shell = FALSE /\ f.loading = Unset
      /\ f.vars = [v \in Vars |-> Unset] /\ f.backlog = <<>> /\ f.read = {}
  BY DEF Fresh
<1>2. /\ [p \in Slots |-> "off"] \in LiveType /\ [v \in Vars |-> Unset] \in VarsType
      /\ <<>> \in Seq(Frame) /\ <<>> \in Seq(Entry)
  BY EmptySeq DEF LiveType, VarsType, Status
<1>3. f \in StateType
  BY <1>2 DEF Fresh, StateType
<1>. HIDE DEF f
<1>4. Shows(f.fp, f.live) /\ Standing(f) /\ Logged(f) /\ Offers(f)
  BY <1>1 DEF Shows, Standing, StackIn, Logged, Offers
<1>5. Rests(f) /\ TopIn(f)
  BY <1>1 DEF Rests, Blank, Dropped, TopIn
<1>. QED  BY <1>1, <1>3, <1>4, <1>5 DEF Sound, f

(* An operation that keeps position and log.                               *)
LEMMA Stays ==
  ASSUME NEW s, Sound(s), NEW t \in StateType, t.fp = s.fp, t.scene = s.scene,
         t.cursor = s.cursor, t.stack = s.stack, t.backlog = s.backlog,
         t.ended = s.ended, Shows(t.fp, t.live), t.menu = s.menu \/ t.menu = None,
         s.ended \/ s.scene = NoScene => Blank(t),
         EveryProgramStarts /\ t.ended => Dropped(t)
  PROVE  Sound(t)
BY DEF Sound, Standing, Logged, Offers, Rests

LEMMA DiagnosticSound ==
  ASSUME NEW s, Sound(s), NEW b \in BOOLEAN
  PROVE  LET t == [s EXCEPT !.diagnostic = b]
         IN /\ Sound(t) /\ t.fp = s.fp /\ t.ended = s.ended /\ t.scene = s.scene
            /\ t.dialogue = s.dialogue /\ t.previous = s.previous
            /\ t.read = s.read /\ t.backlog = s.backlog /\ t.diagnostic = b
<1> DEFINE t == [s EXCEPT !.diagnostic = b]
<1>1. s \in StateType
  BY DEF Sound
<1>2. t \in StateType
  BY <1>1 DEF StateType
<1>3. /\ t.fp = s.fp /\ t.ended = s.ended /\ t.scene = s.scene
      /\ t.cursor = s.cursor /\ t.stack = s.stack /\ t.backlog = s.backlog
      /\ t.read = s.read /\ t.live = s.live /\ t.menu = s.menu
      /\ t.dialogue = s.dialogue /\ t.diagnostic = b
  BY <1>1 DEF StateType
<1>4. /\ t.previous = s.previous /\ t.input = s.input /\ t.message = s.message
      /\ t.waiting = s.waiting /\ t.shell = s.shell /\ t.loading = s.loading
      /\ t.vars = s.vars
  BY <1>1 DEF StateType
<1>. HIDE DEF t
<1>5. /\ Shows(t.fp, t.live) /\ (s.ended \/ s.scene = NoScene => Blank(t))
      /\ EveryProgramStarts /\ t.ended => Dropped(t)
  BY <1>3, <1>4 DEF Sound, Rests, Blank, Dropped
<1>6. Sound(t)
  BY <1>2, <1>3, <1>5, Stays
<1>. QED  BY <1>3, <1>4, <1>6 DEF t

(* The end of a game leaves nothing of the session.                        *)
LEMMA EndGameSound ==
  ASSUME NEW s, Sound(s)
  PROVE  LET t == EndGame(s)
         IN Sound(t) /\ t.fp = s.fp /\ t.ended /\ t.read = s.read /\ TopIn(t)
<1> DEFINE t == EndGame(s)
           live == [p \in Slots |-> IF p \in KeptByEnd THEN s.live[p] ELSE "off"]
           cursor == IF HasScene(s.fp, s.scene) THEN SceneLen(s.fp, s.scene) ELSE 0
           blank == [v \in Vars |-> Unset]
<1>1. s \in StateType /\ s.fp \in Fingerprints /\ s.live \in LiveType
  BY FieldsOf DEF Sound
<1>2. live \in LiveType /\ blank \in VarsType /\ <<>> \in Seq(Frame) /\ cursor \in Nat
  BY <1>1, SceneTyped, EmptySeq DEF LiveType, VarsType, Status
<1>3. t = [s EXCEPT !.shell = FALSE, !.loading = Unset, !.stack = <<>>, !.dialogue = None,
             !.previous = None, !.menu = None, !.input = None, !.message = None,
             !.waiting = FALSE, !.live = live, !.vars = blank, !.cursor = cursor,
             !.ended = TRUE]
  BY DEF EndGame
<1>4. \A p \in Slots : live[p] \in {s.live[p], "off"} /\ (p \notin KeptByEnd => live[p] = "off")
  OBVIOUS
<1>5. s.scene = NoScene \/ (HasScene(s.fp, s.scene) /\ cursor = SceneLen(s.fp, s.scene))
  BY DEF Sound, Standing, FrameIn
<1>. HIDE DEF live, cursor, blank, t
<1>6. t \in StateType
  BY <1>1, <1>2, <1>3 DEF StateType
<1>7. /\ t.fp = s.fp /\ t.ended = TRUE /\ t.scene = s.scene
      /\ t.cursor = cursor /\ t.stack = <<>> /\ t.backlog = s.backlog
      /\ t.read = s.read /\ t.live = live /\ t.menu = None
      /\ t.dialogue = None
  BY <1>1, <1>3 DEF StateType
<1>8. /\ t.previous = None /\ t.input = None /\ t.message = None
      /\ t.waiting = FALSE /\ t.shell = FALSE /\ t.loading = Unset
      /\ t.vars = blank
  BY <1>1, <1>3 DEF StateType
<1>9. Shows(t.fp, t.live)
  BY <1>4, <1>7 DEF Shows, Sound
<1>10. Standing(t)
  BY <1>1, <1>2, <1>5, <1>7, SceneTyped DEF Standing, FrameIn, StackIn
<1>11. Rests(t) /\ TopIn(t) /\ Offers(t)
  BY <1>4, <1>7, <1>8 DEF Rests, Blank, Dropped, TopIn, Offers, blank
<1>12. Logged(t)
  BY <1>7 DEF Logged, Sound
<1>. QED  BY <1>6, <1>7, <1>9, <1>10, <1>11, <1>12 DEF Sound, t

(* Leaving a line.                                                         *)
LEMMA AdvanceSound ==
  ASSUME NEW s, Sound(s)
  PROVE  LET t == Advance(s)
         IN /\ Sound(t) /\ t.fp = s.fp /\ t.ended = s.ended /\ t.scene = s.scene
            /\ TopIn(t)
            /\ t.diagnostic = s.diagnostic /\ t.previous = s.dialogue
            /\ t.read = IF s.dialogue # None THEN s.read \cup {ReadKey(s)} ELSE s.read
<1> DEFINE t == Advance(s)
           read == IF s.dialogue # None THEN s.read \cup {ReadKey(s)} ELSE s.read
<1>1. /\ s \in StateType /\ s.read \in SUBSET Line /\ s.cursor \in Nat
      /\ s.scene \in SceneNames \cup {NoScene} /\ s.dialogue \in DialogueType \cup {None}
  BY FieldsOf DEF Sound
<1>2. ReadKey(s) \in Line
  BY <1>1 DEF ReadKey, Line
<1>3. read \in SUBSET Line
  BY <1>1, <1>2
<1>4. t = [s EXCEPT !.read = read, !.previous = s.dialogue, !.dialogue = None]
  BY <1>1 DEF Advance, StateType
<1>. HIDE DEF t, read
<1>5. t \in StateType
  BY <1>1, <1>3, <1>4 DEF StateType
<1>6. /\ t.fp = s.fp /\ t.ended = s.ended /\ t.scene = s.scene
      /\ t.cursor = s.cursor /\ t.stack = s.stack /\ t.backlog = s.backlog
      /\ t.read = read /\ t.live = s.live /\ t.menu = s.menu
      /\ t.dialogue = None
  BY <1>1, <1>4 DEF StateType
<1>7. /\ t.previous = s.dialogue /\ t.input = s.input /\ t.message = s.message
      /\ t.waiting = s.waiting /\ t.shell = s.shell /\ t.loading = s.loading
      /\ t.vars = s.vars /\ t.diagnostic = s.diagnostic
  BY <1>1, <1>4 DEF StateType
<1>8. /\ Shows(t.fp, t.live) /\ (s.ended \/ s.scene = NoScene => Blank(t))
      /\ EveryProgramStarts /\ t.ended => Dropped(t)
  BY <1>6, <1>7 DEF Sound, Rests, Blank, Dropped
<1>9. Sound(t) /\ TopIn(t)
  BY <1>5, <1>6, <1>8, Stays DEF TopIn
<1>. QED  BY <1>6, <1>7, <1>9 DEF t, read

(* What a frame does to the stage and to the line.                         *)
Steady(s, t) ==
  /\ Sound(t) /\ t.fp = s.fp /\ t.ended = s.ended /\ t.scene = s.scene
  /\ t.cursor = s.cursor /\ t.read = s.read /\ t.diagnostic = s.diagnostic
  /\ TopIn(s) => TopIn(t)

LEMMA SettleSound ==
  ASSUME NEW s, Sound(s), NEW done \in SUBSET Active(s)
  PROVE  Steady(s, Settle(s, done)) /\ Settle(s, done).dialogue = s.dialogue
<1> DEFINE t == Settle(s, done)
           live == [p \in Slots |-> IF p \notin done THEN s.live[p]
                                    ELSE IF p \in HoldSlots THEN "loop" ELSE "off"]
<1>1. s \in StateType /\ s.live \in LiveType
  BY FieldsOf DEF Sound
<1>2. live \in LiveType
  BY <1>1 DEF LiveType, Status
<1>3. /\ \A p \in Slots : live[p] # "off" => s.live[p] # "off"
      /\ \A p \in Slots : live[p] = "block" => s.live[p] = "block"
  BY DEF Active
<1>4. t = [s EXCEPT !.live = live]
  BY DEF Settle
<1>. HIDE DEF t, live
<1>5. t \in StateType
  BY <1>1, <1>2, <1>4 DEF StateType
<1>6. /\ t.fp = s.fp /\ t.ended = s.ended /\ t.scene = s.scene
      /\ t.cursor = s.cursor /\ t.stack = s.stack /\ t.backlog = s.backlog
      /\ t.read = s.read /\ t.live = live /\ t.menu = s.menu
      /\ t.dialogue = s.dialogue
  BY <1>1, <1>4 DEF StateType
<1>7. /\ t.previous = s.previous /\ t.input = s.input /\ t.message = s.message
      /\ t.waiting = s.waiting /\ t.shell = s.shell /\ t.loading = s.loading
      /\ t.vars = s.vars /\ t.diagnostic = s.diagnostic
  BY <1>1, <1>4 DEF StateType
<1>8. Shows(t.fp, t.live)
  BY <1>3, <1>6 DEF Sound, Shows
<1>9. s.ended \/ s.scene = NoScene => Blank(t)
  BY <1>6, <1>7 DEF Sound, Rests, Blank
<1>10. EveryProgramStarts /\ t.ended => Dropped(t)
  BY <1>3, <1>6, <1>7 DEF Sound, Rests, Dropped
<1>11. Sound(t)
  BY <1>5, <1>6, <1>8, <1>9, <1>10, Stays
<1>. QED  BY <1>6, <1>7, <1>11 DEF Steady, TopIn, t

(* A click ends the wait for one, a complete line is marked.               *)
LEMMA LineSound ==
  ASSUME NEW s, Sound(s), NEW b \in BOOLEAN
  PROVE  /\ Steady(s, [s EXCEPT !.waiting = @ /\ b])
         /\ [s EXCEPT !.waiting = @ /\ b].dialogue = s.dialogue
         /\ s.dialogue # None => Steady(s, [s EXCEPT !.dialogue.shown = TRUE])
<1>1. s \in StateType /\ s.dialogue \in DialogueType \cup {None} /\ s.waiting \in BOOLEAN
  BY FieldsOf DEF Sound, StateType
<1>2. ASSUME NEW t \in StateType, t.fp = s.fp, t.ended = s.ended, t.scene = s.scene,
             t.cursor = s.cursor, t.stack = s.stack, t.backlog = s.backlog,
             t.read = s.read, t.live = s.live, t.menu = s.menu,
             t.previous = s.previous, t.input = s.input, t.message = s.message,
             t.shell = s.shell, t.loading = s.loading, t.vars = s.vars,
             t.diagnostic = s.diagnostic, t.waiting => s.waiting,
             t.dialogue = s.dialogue \/
               (s.dialogue # None /\ t.dialogue.line = s.dialogue.line)
      PROVE  Steady(s, t)
  <2>1. Shows(t.fp, t.live)
    BY <1>2 DEF Sound
  <2>2. s.ended \/ s.scene = NoScene => Blank(t)
    BY <1>2 DEF Sound, Rests, Blank
  <2>3. EveryProgramStarts /\ t.ended => Dropped(t)
    BY <1>2 DEF Sound, Rests, Dropped
  <2>4. Sound(t)
    BY <1>2, <2>1, <2>2, <2>3, Stays
  <2>5. TopIn(s) => TopIn(t)
    BY <1>2 DEF TopIn
  <2>. QED  BY <1>2, <2>4, <2>5 DEF Steady
<1>3. Steady(s, [s EXCEPT !.waiting = @ /\ b]) /\ [s EXCEPT !.waiting = @ /\ b].dialogue = s.dialogue
  <2> DEFINE w == s.waiting /\ b
             t == [s EXCEPT !.waiting = w]
  <2>1. w \in BOOLEAN /\ (w => s.waiting)
    BY <1>1
  <2>2. [s EXCEPT !.waiting = @ /\ b] = t
    BY <1>1 DEF StateType
  <2>. HIDE DEF w
  <2>3. t \in StateType
    BY <1>1, <2>1 DEF StateType
  <2>4. t.waiting = w
    BY <1>1 DEF StateType
  <2>5. /\ t.fp = s.fp /\ t.ended = s.ended /\ t.scene = s.scene
        /\ t.cursor = s.cursor /\ t.stack = s.stack /\ t.backlog = s.backlog
        /\ t.read = s.read /\ t.live = s.live /\ t.menu = s.menu
        /\ t.dialogue = s.dialogue
    BY <1>1 DEF StateType
  <2>6. /\ t.previous = s.previous /\ t.input = s.input /\ t.message = s.message
        /\ t.shell = s.shell /\ t.loading = s.loading
        /\ t.vars = s.vars /\ t.diagnostic = s.diagnostic
    BY <1>1 DEF StateType
  <2>. HIDE DEF t
  <2>7. t.waiting => s.waiting
    BY <2>1, <2>4
  <2>. QED  BY <1>2, <2>2, <2>3, <2>5, <2>6, <2>7
<1>4. ASSUME s.dialogue # None PROVE Steady(s, [s EXCEPT !.dialogue.shown = TRUE])
  <2> DEFINE d == [s.dialogue EXCEPT !.shown = TRUE]
             t == [s EXCEPT !.dialogue = d]
  <2>1. d \in DialogueType /\ d.line = s.dialogue.line
    BY <1>1, <1>4 DEF DialogueType
  <2>2. [s EXCEPT !.dialogue.shown = TRUE] = t
    BY <1>1 DEF StateType
  <2>. HIDE DEF d
  <2>3. t \in StateType
    BY <1>1, <2>1 DEF StateType
  <2>4. /\ t.fp = s.fp /\ t.ended = s.ended /\ t.scene = s.scene
        /\ t.cursor = s.cursor /\ t.stack = s.stack /\ t.backlog = s.backlog
        /\ t.read = s.read /\ t.live = s.live /\ t.menu = s.menu
        /\ t.dialogue = d
    BY <1>1 DEF StateType
  <2>5. /\ t.previous = s.previous /\ t.input = s.input /\ t.message = s.message
        /\ t.waiting = s.waiting /\ t.shell = s.shell /\ t.loading = s.loading
        /\ t.vars = s.vars /\ t.diagnostic = s.diagnostic
    BY <1>1 DEF StateType
  <2>. HIDE DEF t
  <2>6. t.waiting => s.waiting
    BY <2>5
  <2>. QED  BY <1>2, <1>4, <2>1, <2>2, <2>3, <2>4, <2>5, <2>6
<1>. QED  BY <1>3, <1>4

(* A choice goes where its menu says.                                      *)
LEMMA SelectChoiceFollows ==
  ASSUME NEW s, Alive(s), s.menu # None, NEW m \in s.menu
  PROVE  Follows(s, SelectChoice(s, m)) /\ SelectChoice(s, m).diagnostic = s.diagnostic
<1> DEFINE c == m.choice
           closed == [s EXCEPT !.menu = None]
           vars1 == [s.vars EXCEPT ![c.var] = c.val]
           assigned == [closed EXCEPT !.vars = vars1]
           moved == [closed EXCEPT !.cursor = c.label]
<1>1. /\ s \in StateType /\ m \in MenuChoice /\ s.vars \in VarsType
      /\ HasScene(s.fp, s.scene) /\ c.label <= SceneLen(s.fp, s.scene)
  BY FieldsOf DEF Alive, Sound, Offers
<1>2. /\ c.kind \in {"label", "scene", "call", "continue", "assign"}
      /\ c.label \in Int /\ c.var \in Vars /\ c.val \in Values \cup {Bad}
  BY <1>1 DEF MenuChoice, Choice
<1>3. /\ closed \in StateType /\ closed.diagnostic = s.diagnostic
      /\ closed.vars = s.vars
  BY <1>1 DEF StateType
<1>4. /\ closed.fp = s.fp /\ closed.ended = s.ended /\ closed.scene = s.scene
      /\ closed.cursor = s.cursor /\ closed.stack = s.stack
      /\ closed.backlog = s.backlog /\ closed.read = s.read
      /\ closed.live = s.live /\ closed.menu = None
      /\ closed.dialogue = s.dialogue
  BY <1>1 DEF StateType
<1>5. [closed EXCEPT !.vars[c.var] = c.val] = assigned
  BY <1>1, <1>3 DEF StateType
<1>. HIDE DEF closed, c, vars1
<1>6. ASSUME NEW t \in StateType, t.fp = s.fp, t.ended = s.ended,
             t.scene = s.scene, t.cursor <= SceneLen(s.fp, s.scene),
             t.stack = s.stack, t.backlog = s.backlog, t.read = s.read,
             t.live = s.live, t.menu = None, t.dialogue = s.dialogue
      PROVE  Follows(s, t)
  <2>1. FrameIn(t.fp, t.scene, t.cursor) /\ StackIn(t.fp, t.stack) /\ Shows(t.fp, t.live)
    BY <1>1, <1>6 DEF FrameIn, Alive, Sound, Standing
  <2>. QED  BY <1>6, <2>1, Moves DEF Alive
<1>7. s.cursor <= SceneLen(s.fp, s.scene)
  BY <1>1 DEF Alive, Sound, Standing, FrameIn
<1>8. Follows(s, closed) /\ closed.diagnostic = s.diagnostic
  BY <1>3, <1>4, <1>6, <1>7
<1>9. ASSUME c.val # Bad
      PROVE  Follows(s, assigned) /\ assigned.diagnostic = s.diagnostic
  <2>1. vars1 \in VarsType
    BY <1>1, <1>2, <1>9 DEF vars1, VarsType
  <2>2. assigned \in StateType /\ assigned.diagnostic = s.diagnostic
    BY <1>3, <2>1 DEF StateType
  <2>3. /\ assigned.fp = s.fp /\ assigned.ended = s.ended /\ assigned.scene = s.scene
        /\ assigned.cursor = s.cursor /\ assigned.stack = s.stack
        /\ assigned.backlog = s.backlog /\ assigned.read = s.read
        /\ assigned.live = s.live /\ assigned.menu = None
        /\ assigned.dialogue = s.dialogue
    BY <1>3, <1>4 DEF StateType
  <2>. QED  BY <1>6, <1>7, <2>2, <2>3
<1>10. ASSUME c.label >= 0
       PROVE  Follows(s, moved) /\ moved.diagnostic = s.diagnostic
  <2>1. c.label \in Nat
    BY <1>2, <1>10
  <2>2. moved \in StateType /\ moved.diagnostic = s.diagnostic
    BY <1>3, <2>1 DEF StateType
  <2>3. /\ moved.fp = s.fp /\ moved.ended = s.ended /\ moved.scene = s.scene
        /\ moved.cursor = c.label /\ moved.stack = s.stack
        /\ moved.backlog = s.backlog /\ moved.read = s.read
        /\ moved.live = s.live /\ moved.menu = None
        /\ moved.dialogue = s.dialogue
    BY <1>3, <1>4 DEF StateType
  <2>. QED  BY <1>1, <1>6, <2>2, <2>3
<1>11. \A n : /\ Follows(s, EnterScene(closed, n)) /\ Follows(s, CallScene(closed, n))
              /\ EnterScene(closed, n).diagnostic = s.diagnostic
              /\ CallScene(closed, n).diagnostic = s.diagnostic
  <2>1. Alive(closed)
    BY <1>8 DEF Follows, Alive
  <2>2. \A n : Follows(closed, EnterScene(closed, n)) /\ Follows(closed, CallScene(closed, n))
    BY <2>1, EnterSceneFollows, CallSceneFollows
  <2>3. ASSUME NEW n PROVE EnterScene(closed, n).diagnostic = s.diagnostic
                           /\ CallScene(closed, n).diagnostic = s.diagnostic
    BY <1>3 DEF EnterScene, CallScene, StateType
  <2>. QED  BY <1>8, <2>2, <2>3, FollowsTransitive
<1>12. Follows(s, s)
  BY FollowsItself
<1>. HIDE DEF assigned, moved
<1>13. \/ SelectChoice(s, m) \in {s, closed}
       \/ SelectChoice(s, m) = assigned /\ c.val # Bad
       \/ SelectChoice(s, m) = moved /\ c.label >= 0
       \/ \E n : SelectChoice(s, m) \in {EnterScene(closed, n), CallScene(closed, n)}
  <2>1. CASE Refused(m)
    BY <2>1 DEF SelectChoice
  <2>2. CASE ~Refused(m) /\ c.kind = "assign"
    BY <1>5, <2>2 DEF SelectChoice, Refused, c, closed
  <2>3. CASE ~Refused(m) /\ c.kind = "label"
    BY <2>3 DEF SelectChoice, moved, c, closed
  <2>4. CASE ~Refused(m) /\ c.kind \in {"scene", "call", "continue"}
    BY <2>4 DEF SelectChoice, c, closed
  <2>. QED  BY <1>2, <2>1, <2>2, <2>3, <2>4
<1>. QED  BY <1>8, <1>9, <1>10, <1>11, <1>12, <1>13

(* An answer is stored in the variable that waits for it.                  *)
LEMMA AnswerFollows ==
  ASSUME NEW s, Alive(s), NEW v \in Values
  PROVE  /\ s.input # None =>
              Follows(s, [s EXCEPT !.vars[s.input] = v, !.input = None])
         /\ s.message # None => Follows(s, Answered(s, v))
<1>1. /\ s \in StateType /\ s.vars \in VarsType
      /\ s.input \in Vars \cup {None} /\ s.message \in Vars \cup {Unset, None}
  BY FieldsOf DEF Alive, Sound, StateType
<1>2. ASSUME NEW t \in StateType, t.fp = s.fp, t.ended = s.ended,
             t.scene = s.scene, t.cursor = s.cursor,
             t.stack = s.stack, t.backlog = s.backlog, t.read = s.read,
             t.live = s.live, t.menu = s.menu, t.dialogue = s.dialogue
      PROVE  Follows(s, t)
  <2>1. FrameIn(t.fp, t.scene, t.cursor) /\ StackIn(t.fp, t.stack) /\ Shows(t.fp, t.live)
    BY <1>2 DEF FrameIn, Alive, Sound, Standing
  <2>. QED  BY <1>2, <2>1, Moves DEF Alive
<1>3. ASSUME NEW w \in Vars
      PROVE  [s.vars EXCEPT ![w] = v] \in VarsType
  BY <1>1 DEF VarsType
<1>4. ASSUME s.input # None
      PROVE  Follows(s, [s EXCEPT !.vars[s.input] = v, !.input = None])
  <2> DEFINE vars1 == [s.vars EXCEPT ![s.input] = v]
             t == [s EXCEPT !.vars = vars1, !.input = None]
  <2>1. vars1 \in VarsType
    BY <1>1, <1>3, <1>4
  <2>2. [s EXCEPT !.vars[s.input] = v, !.input = None] = t
    BY <1>1 DEF StateType
  <2>. HIDE DEF vars1
  <2>3. t \in StateType
    BY <1>1, <2>1 DEF StateType
  <2>4. /\ t.fp = s.fp /\ t.ended = s.ended /\ t.scene = s.scene
        /\ t.cursor = s.cursor /\ t.stack = s.stack /\ t.backlog = s.backlog
        /\ t.read = s.read /\ t.live = s.live /\ t.menu = s.menu
        /\ t.dialogue = s.dialogue
    BY <1>1 DEF StateType
  <2>. QED  BY <1>2, <2>2, <2>3, <2>4
<1>5. ASSUME s.message # None
      PROVE  Follows(s, Answered(s, v))
  <2> DEFINE vars1 == IF s.message = Unset THEN s.vars
                      ELSE [s.vars EXCEPT ![s.message] = v]
             t == [s EXCEPT !.vars = vars1, !.message = None]
  <2>1. vars1 \in VarsType
    BY <1>1, <1>3, <1>5
  <2>2. Answered(s, v) = t
    BY DEF Answered
  <2>. HIDE DEF vars1
  <2>3. t \in StateType
    BY <1>1, <2>1 DEF StateType
  <2>4. /\ t.fp = s.fp /\ t.ended = s.ended /\ t.scene = s.scene
        /\ t.cursor = s.cursor /\ t.stack = s.stack /\ t.backlog = s.backlog
        /\ t.read = s.read /\ t.live = s.live /\ t.menu = s.menu
        /\ t.dialogue = s.dialogue
    BY <1>1 DEF StateType
  <2>. QED  BY <1>2, <2>2, <2>3, <2>4
<1>. QED  BY <1>4, <1>5

-------------------------------------------------------------------------------
(* Slots and the backlog. *)

(* The backlog of a slot holds the same lines.                             *)
LEMMA WrittenLogged ==
  ASSUME NEW fp, NEW log \in Seq(Entry), \A i \in 1..Len(log) : Recorded(fp, log[i])
  PROVE  /\ WrittenLog(log) \in Seq(Entry) /\ Len(WrittenLog(log)) = Len(log)
         /\ \A i \in 1..Len(log) :
              /\ Recorded(fp, WrittenLog(log)[i])
              /\ WrittenLog(log)[i].dialogue = log[i].dialogue
<1>1. DOMAIN log = 1..Len(log) /\ Len(log) \in Nat
  OBVIOUS
<1>2. ASSUME NEW i \in 1..Len(log)
      PROVE  LET e == [log[i] EXCEPT !.live = Written(@)]
             IN e \in Entry /\ Recorded(fp, e) /\ e.dialogue = log[i].dialogue
  <2> DEFINE live == Written(log[i].live)
             e == [log[i] EXCEPT !.live = live]
  <2>0. log[i] \in Entry
    BY <1>1
  <2>1. log[i] \in Entry /\ log[i].live \in LiveType /\ Recorded(fp, log[i])
    BY <2>0 DEF Entry
  <2>2. live \in LiveType /\ \A p \in Slots : live[p] \in {log[i].live[p], "off"}
    BY <2>1 DEF Written, LiveType, Status
  <2>. HIDE DEF live
  <2>3. e \in Entry
    BY <2>1, <2>2 DEF Entry
  <2>4. /\ e.fp = log[i].fp /\ e.scene = log[i].scene /\ e.cursor = log[i].cursor
        /\ e.stack = log[i].stack /\ e.dialogue = log[i].dialogue /\ e.live = live
    BY <2>1 DEF Entry
  <2>5. Shows(fp, live) /\ \A p \in Slots : live[p] # "block"
    BY <2>1, <2>2 DEF Recorded, Shows
  <2>6. Recorded(fp, e)
    BY <2>1, <2>4, <2>5 DEF Recorded, EntryIn
  <2>. QED  BY <2>3, <2>4, <2>6 DEF live
<1>3. WrittenLog(log) = [i \in 1..Len(log) |-> [log[i] EXCEPT !.live = Written(@)]]
  BY <1>1 DEF WrittenLog
<1> DEFINE w == WrittenLog(log)
<1>4. /\ DOMAIN w = 1..Len(log)
      /\ \A i \in 1..Len(log) : w[i] = [log[i] EXCEPT !.live = Written(@)]
  BY <1>3
<1>. HIDE DEF w
<1>5. \A i \in 1..Len(log) : /\ w[i] \in Entry /\ Recorded(fp, w[i])
                            /\ w[i].dialogue = log[i].dialogue
  BY <1>2, <1>4
<1>6. w = [i \in 1..Len(log) |-> w[i]]
  BY <1>3, <1>4 DEF w
<1>7. w \in Seq(Entry) /\ Len(w) = Len(log)
  BY <1>1, <1>4, <1>5, <1>6
<1>. QED  BY <1>5, <1>7 DEF w

(* What a slot holds can be played.                                        *)
LEMMA SavedSound ==
  ASSUME NEW s, Sound(s), ~s.ended
  PROVE  LET t == Saved(s)
         IN /\ Sound(t) /\ t.fp = s.fp /\ ~t.ended /\ ~t.diagnostic
            /\ Exact(t) /\ (TopIn(s) => TopIn(t))
<1> DEFINE t == Saved(s)
           live == Written(s.live)
           log == WrittenLog(s.backlog)
           vars1 == [v \in Vars |-> IF v \in SessionVars THEN Unset ELSE s.vars[v]]
<1>1. /\ s \in StateType /\ s.live \in LiveType /\ s.vars \in VarsType
      /\ s.ended = FALSE /\ s.backlog \in Seq(Entry) /\ Logged(s)
  BY FieldsOf DEF Sound, StateType
<1>2. live \in LiveType /\ vars1 \in VarsType /\ {} \in SUBSET Line
  BY <1>1 DEF Written, LiveType, VarsType, Status
<1>3. /\ \A p \in Slots : live[p] \in {s.live[p], "off"}
      /\ \A p \in Transient : live[p] = "off"
  BY SlotSets DEF Written
<1>4. t = [s EXCEPT !.diagnostic = FALSE, !.shell = FALSE, !.loading = Unset,
                    !.read = {}, !.live = live, !.backlog = log, !.vars = vars1]
  BY DEF Saved
<1>5. /\ log \in Seq(Entry) /\ Len(log) = Len(s.backlog)
      /\ \A i \in 1..Len(s.backlog) : /\ Recorded(s.fp, log[i])
                                      /\ log[i].dialogue = s.backlog[i].dialogue
  BY <1>1, WrittenLogged DEF Logged
<1>. HIDE DEF t, live, log, vars1
<1>6. t \in StateType
  BY <1>1, <1>2, <1>4, <1>5 DEF StateType
<1>7. /\ t.fp = s.fp /\ t.ended = s.ended /\ t.scene = s.scene
      /\ t.cursor = s.cursor /\ t.stack = s.stack /\ t.backlog = log
      /\ t.live = live /\ t.menu = s.menu /\ t.dialogue = s.dialogue
  BY <1>1, <1>4 DEF StateType
<1>8. /\ t.previous = s.previous /\ t.input = s.input /\ t.message = s.message
      /\ t.waiting = s.waiting /\ t.shell = FALSE /\ t.loading = Unset
      /\ t.diagnostic = FALSE
  BY <1>1, <1>4 DEF StateType
<1>9. /\ Shows(t.fp, t.live) /\ Exact(t)
  BY <1>3, <1>7 DEF Sound, Shows, Exact
<1>10. Logged(t) /\ Standing(t) /\ Offers(t)
  BY <1>5, <1>7 DEF Sound, Logged, Standing, Offers
<1>11. Rests(t)
  BY <1>1, <1>7, <1>8 DEF Sound, Rests, Blank
<1>12. TopIn(s) => TopIn(t)
  <2>1. ASSUME s.backlog # <<>> PROVE log # <<>> /\ Len(s.backlog) \in 1..Len(s.backlog)
    BY <1>1, <1>5, <2>1, EmptySeq
  <2>. QED  BY <1>5, <1>7, <2>1 DEF TopIn
<1>. QED  BY <1>1, <1>6, <1>7, <1>8, <1>9, <1>10, <1>11, <1>12 DEF Sound, t

(* Positions of the attached program are left as they are.                 *)
LEMMA ReconcileKeeps ==
  ASSUME NEW s, Sound(s)
  PROVE  /\ s.scene # NoScene => ReconcilePositions(s) = s
         /\ s.scene = NoScene => ReconcilePositions(s) = [s EXCEPT !.cursor = 0]
<1> DEFINE checked == [s EXCEPT !.stack = ReconcileStack(s.fp, s.stack),
                                !.backlog = ReconcileBacklog(s.fp, s.backlog)]
<1>1. /\ s \in StateType /\ s.fp \in Fingerprints /\ s.cursor \in Nat
  BY FieldsOf DEF Sound
<1>2. ReconcileStack(s.fp, s.stack) = s.stack /\ ReconcileBacklog(s.fp, s.backlog) = s.backlog
  BY DEF ReconcileStack, ReconcileBacklog, Sound, Standing, Logged, Recorded
<1>3. checked = s
  BY <1>1, <1>2 DEF StateType
<1>4. CASE s.scene # NoScene
  <2>1. HasScene(s.fp, s.scene) /\ Clamp(s.fp, s.scene, s.cursor) = s.cursor
    BY <1>4 DEF Sound, Standing, FrameIn, Clamp
  <2>2. ReconcilePositions(s) = [s EXCEPT !.cursor = s.cursor]
    BY <1>3, <2>1 DEF ReconcilePositions
  <2>3. [s EXCEPT !.cursor = s.cursor] = s
    BY <1>1 DEF StateType
  <2>. QED  BY <1>4, <2>2, <2>3
<1>5. CASE s.scene = NoScene
  <2>1. ~HasScene(s.fp, s.scene) /\ s.stack = <<>>
    BY <1>1, <1>5, SceneTyped DEF Sound, Rests, Blank
  <2>2. ReconcilePositions(s) = [s EXCEPT !.scene = NoScene, !.cursor = 0]
    BY <1>3, <2>1 DEF ReconcilePositions
  <2>3. [s EXCEPT !.scene = NoScene, !.cursor = 0] = [s EXCEPT !.cursor = 0]
    BY <1>1, <1>5 DEF StateType
  <2>. QED  BY <1>5, <2>2, <2>3
<1>. QED  BY <1>4, <1>5

(* States that take over values of another one.                            *)
LEMMA MergedTyped ==
  ASSUME NEW s \in StateType, NEW r \in SUBSET Line, NEW v \in VarsType
  PROVE  [s EXCEPT !.read = r, !.vars = v] \in StateType
BY DEF StateType

LEMMA RestartedTyped ==
  ASSUME NEW s \in StateType, NEW v \in VarsType,
         NEW n \in SceneNames \cup {NoScene}, NEW b \in BOOLEAN
  PROVE  [s EXCEPT !.vars = v, !.scene = n, !.ended = b] \in StateType
BY DEF StateType

(* Loading a slot of the attached program gives back what was saved.       *)
LEMMA RestoreSavedSound ==
  ASSUME NEW s \in StateType, NEW saved, Sound(saved), ~saved.ended
  PROVE  LET t == RestoreSaved(s, saved)
         IN /\ Sound(t) /\ t.fp = saved.fp /\ t.scene = saved.scene
            /\ t.read = s.read /\ t.diagnostic = saved.diagnostic
            /\ saved.scene # NoScene => ~t.ended
            /\ Exact(saved) => Exact(t)
            /\ TopIn(saved) => TopIn(t)
<1> DEFINE vars1 == [v \in Vars |-> IF v \in SessionVars /\ s.vars[v] # Unset
                                      THEN s.vars[v] ELSE saved.vars[v]]
           merged == [saved EXCEPT !.read = s.read, !.vars = vars1]
           t == RestoreSaved(s, saved)
<1>1. /\ saved \in StateType /\ saved.vars \in VarsType /\ s.vars \in VarsType
      /\ s.read \in SUBSET Line
  BY FieldsOf DEF Sound
<1>2. vars1 \in VarsType
  BY <1>1 DEF VarsType
<1>. HIDE DEF vars1
<1>3. merged \in StateType
  BY <1>1, <1>2, MergedTyped
<1>4. /\ merged.fp = saved.fp /\ merged.ended = saved.ended /\ merged.scene = saved.scene
      /\ merged.cursor = saved.cursor /\ merged.stack = saved.stack
      /\ merged.backlog = saved.backlog /\ merged.live = saved.live
      /\ merged.menu = saved.menu /\ merged.dialogue = saved.dialogue
  BY <1>1 DEF StateType
<1>5. /\ merged.previous = saved.previous /\ merged.input = saved.input
      /\ merged.message = saved.message /\ merged.waiting = saved.waiting
      /\ merged.shell = saved.shell /\ merged.loading = saved.loading
      /\ merged.diagnostic = saved.diagnostic /\ merged.read = s.read
  BY <1>1 DEF StateType
<1>6. t = LET placed == ReconcilePositions(merged)
          IN IF placed.scene = NoScene THEN [placed EXCEPT !.ended = TRUE] ELSE placed
  BY DEF RestoreSaved, vars1
<1>. HIDE DEF merged, t
<1>7. /\ Shows(merged.fp, merged.live)
      /\ merged.ended \/ merged.scene = NoScene => Blank(merged)
  BY <1>4, <1>5 DEF Sound, Rests, Blank
<1>8. Sound(merged)
  BY <1>3, <1>4, <1>7, Stays
<1>9. CASE saved.scene # NoScene
  <2>1. t = merged
    BY <1>4, <1>6, <1>8, <1>9, ReconcileKeeps
  <2>. QED  BY <1>4, <1>5, <1>8, <1>9, <2>1 DEF Exact, TopIn, t
<1>10. CASE saved.scene = NoScene
  <2>1. ReconcilePositions(merged) = [merged EXCEPT !.cursor = 0]
    BY <1>4, <1>8, <1>10, ReconcileKeeps
  <2>2. [merged EXCEPT !.cursor = 0].scene = NoScene
    BY <1>3, <1>4, <1>10 DEF StateType
  <2>3. t = [merged EXCEPT !.cursor = 0, !.ended = TRUE]
    BY <1>3, <1>6, <2>1, <2>2 DEF StateType
  <2>4. t \in StateType
    BY <1>3, <2>3 DEF StateType
  <2>5. /\ t.fp = merged.fp /\ t.ended = TRUE /\ t.scene = merged.scene
        /\ t.stack = merged.stack /\ t.backlog = merged.backlog /\ t.read = merged.read
        /\ t.live = merged.live /\ t.menu = merged.menu /\ t.dialogue = merged.dialogue
    BY <1>3, <2>3 DEF StateType
  <2>6. /\ t.previous = merged.previous /\ t.input = merged.input
        /\ t.message = merged.message /\ t.waiting = merged.waiting
        /\ t.shell = merged.shell /\ t.loading = merged.loading
        /\ t.diagnostic = merged.diagnostic
    BY <1>3, <2>3 DEF StateType
  <2>7. ~EveryProgramStarts
    BY <1>10 DEF Sound, Rests
  <2>8. Rests(t) /\ Offers(t)
    BY <1>4, <1>7, <1>10, <2>5, <2>6, <2>7 DEF Rests, Blank, Offers
  <2>9. Standing(t) /\ Logged(t) /\ Shows(t.fp, t.live)
    BY <1>4, <1>8, <1>10, <2>5 DEF Sound, Standing, Logged
  <2>. QED
    BY <1>4, <1>5, <1>10, <2>4, <2>5, <2>6, <2>8, <2>9 DEF Sound, Exact, TopIn, t
<1>. QED  BY <1>9, <1>10

(* Rolling back to a line.                                                 *)
LEMMA RestoreBacklogSound ==
  ASSUME NEW s, Sound(s), NEW i \in 1..Len(s.backlog)
  PROVE  LET t == RestoreBacklog(s, i)
             e == s.backlog[i]
         IN /\ Sound(t) /\ t.fp = s.fp /\ ~t.ended /\ t.scene # NoScene
            /\ t.read = s.read /\ t.diagnostic = s.diagnostic /\ TopIn(t)
            /\ t.scene = e.scene /\ t.cursor = e.cursor /\ t.dialogue = e.dialogue
            /\ ~t.waiting /\ t.message = None
            /\ t.live = [p \in Slots |-> IF p \in InSnapshot THEN e.live[p]
                                         ELSE IF p \in KeptByRollback THEN s.live[p]
                                         ELSE "off"]
<1> DEFINE e == s.backlog[i]
           live == [p \in Slots |-> IF p \in InSnapshot THEN e.live[p]
                                    ELSE IF p \in KeptByRollback THEN s.live[p]
                                    ELSE "off"]
           log == SubSeq(s.backlog, 1, i)
           t == RestoreBacklog(s, i)
<1>1. /\ s \in StateType /\ s.live \in LiveType /\ s.backlog \in Seq(Entry)
      /\ s.fp \in Fingerprints
  BY FieldsOf DEF Sound
<1>2. e \in Entry /\ Recorded(s.fp, e)
  BY <1>1 DEF Sound, Logged
<1>3. /\ e.scene \in SceneNames /\ e.cursor \in Nat /\ e.stack \in Seq(Frame)
      /\ e.dialogue \in DialogueType /\ e.live \in LiveType /\ e.vars \in VarsType
  BY <1>2 DEF Entry
<1>4. /\ log \in Seq(Entry) /\ Len(log) = i
      /\ \A j \in 1..i : log[j] = s.backlog[j]
  <2>1. \A j \in 1..i : s.backlog[j] \in Entry
    BY <1>1
  <2>2. /\ log \in Seq(Entry)
        /\ Len(log) = IF 1 <= i THEN i - 1 + 1 ELSE 0
        /\ \A j \in 1..(i - 1 + 1) : log[j] = s.backlog[1 + j - 1]
    BY <2>1, SubSeqProperties
  <2>. QED  BY <2>2
<1>. HIDE DEF log
<1>5. ReconcileEntry(s.fp, e) = e
  <2>1. Clamp(s.fp, e.scene, e.cursor) = e.cursor /\ ReconcileStack(s.fp, e.stack) = e.stack
    BY <1>2 DEF Recorded, EntryIn, FrameIn, Clamp, ReconcileStack
  <2>2. [e EXCEPT !.cursor = e.cursor, !.stack = e.stack] = e
    BY <1>2 DEF Entry
  <2>. QED  BY <2>1, <2>2 DEF ReconcileEntry
<1>6. t = [s EXCEPT !.scene = e.scene, !.cursor = e.cursor,
             !.stack = e.stack, !.dialogue = e.dialogue,
             !.shell = FALSE, !.previous = None, !.menu = None, !.input = None,
             !.message = None, !.waiting = FALSE, !.vars = e.vars,
             !.live = live, !.ended = FALSE, !.backlog = log]
  BY <1>5 DEF RestoreBacklog, log
<1>7. live \in LiveType /\ Shows(s.fp, live)
  <2>1. live \in LiveType
    BY <1>1, <1>3 DEF LiveType, Status
  <2>2. Shows(s.fp, e.live) /\ Shows(s.fp, s.live)
    BY <1>2 DEF Recorded, Sound
  <2>. QED  BY <2>1, <2>2 DEF Shows
<1>. HIDE DEF t, live, e
<1>8. t \in StateType
  BY <1>1, <1>3, <1>4, <1>6, <1>7 DEF StateType
<1>9. /\ t.fp = s.fp /\ t.ended = FALSE /\ t.scene = e.scene
      /\ t.cursor = e.cursor /\ t.stack = e.stack /\ t.backlog = log
      /\ t.read = s.read /\ t.live = live /\ t.menu = None
      /\ t.dialogue = e.dialogue
  BY <1>1, <1>6 DEF StateType
<1>10. /\ t.message = None /\ t.waiting = FALSE /\ t.diagnostic = s.diagnostic
  BY <1>1, <1>6 DEF StateType
<1>11. e.scene # NoScene
  BY <1>3, Names
<1>12. Standing(t) /\ Offers(t) /\ Rests(t)
  BY <1>2, <1>9, <1>11 DEF Standing, Offers, Rests, Recorded, EntryIn
<1>13. Logged(t)
  BY <1>1, <1>4, <1>9 DEF Logged, Sound
<1>14. TopIn(t)
  <2>1. log # <<>> /\ log[Len(log)] = e
    BY <1>4, EmptySeq DEF e
  <2>. QED  BY <1>9, <2>1 DEF TopIn
<1>15. Sound(t)
  BY <1>7, <1>8, <1>9, <1>12, <1>13 DEF Sound
<1>. QED  BY <1>9, <1>10, <1>11, <1>14, <1>15 DEF t, e, live

(* A new game: what the title screen leaves is what a launch leaves.       *)
LEMMA BegunSound ==
  ASSUME NEW s, Sound(s), s.ended
  PROVE  LET t == [s EXCEPT !.ended = FALSE, !.backlog = <<>>,
                            !.scene = EntryScene[s.fp], !.cursor = 0]
         IN /\ Sound(t) /\ t.fp = s.fp /\ ~t.ended /\ t.read = s.read
            /\ t.diagnostic = s.diagnostic /\ TopIn(t) /\ ~t.shell /\ Blank(t)
            /\ t.live = s.live /\ t.scene = EntryScene[s.fp]
<1> DEFINE n == EntryScene[s.fp]
           t == [s EXCEPT !.ended = FALSE, !.backlog = <<>>, !.scene = n, !.cursor = 0]
<1>1. s \in StateType /\ s.fp \in Fingerprints /\ Blank(s)
  BY FieldsOf DEF Sound, Rests
<1>2. /\ n \in SceneNames \cup {NoScene} /\ (n # NoScene => HasScene(s.fp, n))
      /\ (EveryProgramStarts => n # NoScene) /\ <<>> \in Seq(Entry)
  BY <1>1, Entries, EmptySeq DEF EveryProgramStarts
<1>. HIDE DEF n
<1>3. t \in StateType
  BY <1>1, <1>2 DEF StateType
<1>4. /\ t.fp = s.fp /\ t.ended = FALSE /\ t.scene = n
      /\ t.cursor = 0 /\ t.stack = s.stack /\ t.backlog = <<>>
      /\ t.read = s.read /\ t.live = s.live /\ t.menu = s.menu
      /\ t.dialogue = s.dialogue
  BY <1>1 DEF StateType
<1>5. /\ t.previous = s.previous /\ t.input = s.input /\ t.message = s.message
      /\ t.waiting = s.waiting /\ t.shell = s.shell /\ t.loading = s.loading
      /\ t.diagnostic = s.diagnostic
  BY <1>1 DEF StateType
<1>. HIDE DEF t
<1>6. Blank(t)
  BY <1>1, <1>4, <1>5 DEF Blank
<1>7. Standing(t)
  <2>1. n # NoScene => SceneLen(s.fp, n) \in Nat
    BY <1>1, <1>2, SceneTyped
  <2>. QED  BY <1>2, <1>4, <1>6, <2>1 DEF Standing, FrameIn, StackIn, Blank
<1>8. Logged(t) /\ Shows(t.fp, t.live) /\ Offers(t) /\ Rests(t) /\ TopIn(t)
  BY <1>2, <1>4, <1>6 DEF Logged, Offers, Rests, TopIn, Blank, Sound
<1>. QED  BY <1>3, <1>4, <1>5, <1>6, <1>7, <1>8 DEF Sound, Blank, t, n

(* A hot reload restarts a scene of the new program.                       *)
LEMMA RestartedSound ==
  ASSUME NEW s, Sound(s), NEW fp \in Fingerprints
  PROVE  LET n == IF HasScene(fp, s.scene) THEN s.scene ELSE EntryScene[fp]
             t == [Fresh(fp) EXCEPT !.vars = s.vars, !.scene = n,
                     !.ended = s.ended \/ n = NoScene]
         IN /\ Sound(t) /\ t.fp = fp /\ t.read = {} /\ TopIn(t) /\ ~t.diagnostic
            /\ t.ended = (s.ended \/ n = NoScene) /\ ~Unanswered(t)
<1> DEFINE n == IF HasScene(fp, s.scene) THEN s.scene ELSE EntryScene[fp]
           over == s.ended \/ n = NoScene
           f == Fresh(fp)
           t == [f EXCEPT !.vars = s.vars, !.scene = n, !.ended = over]
<1>1. s \in StateType /\ s.vars \in VarsType
  BY FieldsOf DEF Sound
<1>2. /\ n \in SceneNames \cup {NoScene}
      /\ (n # NoScene => HasScene(fp, n) /\ SceneLen(fp, n) \in Nat)
      /\ (EveryProgramStarts => n # NoScene)
  BY Entries, SceneTyped DEF EveryProgramStarts
<1>3. over \in BOOLEAN /\ (EveryProgramStarts => over = s.ended) /\ (~over => n # NoScene)
  BY <1>1, <1>2 DEF StateType
<1>4. /\ f.fp = fp /\ f.cursor = 0 /\ f.stack = <<>> /\ f.read = {}
      /\ f.diagnostic = FALSE /\ f.dialogue = None /\ f.previous = None
      /\ f.menu = None /\ f.input = None /\ f.message = None /\ f.waiting = FALSE
      /\ f.live = [p \in Slots |-> "off"] /\ f.shell = FALSE /\ f.loading = Unset
      /\ f.backlog = <<>>
  BY DEF Fresh
<1>5. f \in StateType /\ Shows(fp, f.live)
  BY <1>4, FreshSound DEF Sound
<1>. HIDE DEF n, over, f
<1>6. t \in StateType
  BY <1>1, <1>2, <1>3, <1>5, RestartedTyped
<1>7. /\ t.fp = fp /\ t.ended = over /\ t.scene = n
      /\ t.cursor = 0 /\ t.stack = <<>> /\ t.backlog = <<>>
      /\ t.read = {} /\ t.live = f.live /\ t.menu = None
      /\ t.dialogue = None /\ t.vars = s.vars
  BY <1>4, <1>5 DEF StateType
<1>8. /\ t.previous = None /\ t.input = None /\ t.message = None
      /\ t.waiting = FALSE /\ t.shell = FALSE /\ t.loading = Unset
      /\ t.diagnostic = FALSE
  BY <1>4, <1>5 DEF StateType
<1>. HIDE DEF t
<1>9. Blank(t)
  BY <1>7, <1>8 DEF Blank
<1>10. Standing(t) /\ Logged(t) /\ Offers(t) /\ TopIn(t)
  BY <1>2, <1>7 DEF Standing, FrameIn, StackIn, Logged, Offers, TopIn
<1>11. Rests(t)
  BY <1>2, <1>3, <1>4, <1>7, <1>9 DEF Rests, Dropped, Sound
<1>12. ~Unanswered(t)
  BY <1>4, <1>7, <1>8 DEF Unanswered
<1>. QED
  BY <1>5, <1>6, <1>7, <1>8, <1>10, <1>11, <1>12 DEF Sound, t, f, over, n

(* finish_step puts an advanced line back on the stage.                    *)
LEMMA KeptSound ==
  ASSUME NEW s, Sound(s), NEW out
  PROVE  LET t == Kept(s, out)
         IN /\ Sound(t) /\ t.fp = s.fp /\ t.ended = s.ended /\ t.read = s.read
            /\ ~Over(out) => t = s
<1> DEFINE put == [s EXCEPT !.dialogue = s.previous, !.previous = None]
<1>1. s \in StateType /\ s.previous \in DialogueType \cup {None}
  BY FieldsOf DEF Sound
<1>2. put \in StateType
  BY <1>1 DEF StateType
<1>3. /\ put.fp = s.fp /\ put.ended = s.ended /\ put.scene = s.scene
      /\ put.cursor = s.cursor /\ put.stack = s.stack /\ put.backlog = s.backlog
      /\ put.read = s.read /\ put.live = s.live /\ put.menu = s.menu
      /\ put.dialogue = s.previous
  BY <1>1 DEF StateType
<1>4. /\ put.previous = None /\ put.input = s.input /\ put.message = s.message
      /\ put.waiting = s.waiting /\ put.shell = s.shell /\ put.loading = s.loading
      /\ put.vars = s.vars
  BY <1>1 DEF StateType
<1>5. Kept(s, out) \in {s, put} /\ (~Over(out) => Kept(s, out) = s)
  BY DEF Kept
<1>. HIDE DEF put
<1>6. /\ Shows(put.fp, put.live) /\ (s.ended \/ s.scene = NoScene => Blank(put))
      /\ EveryProgramStarts /\ put.ended => Dropped(put)
  BY <1>3, <1>4 DEF Sound, Rests, Blank, Dropped
<1>7. Sound(put)
  BY <1>2, <1>3, <1>6, Stays
<1>. QED  BY <1>3, <1>5, <1>7

-------------------------------------------------------------------------------
(* The invariant of the engine. *)

(* Without the quick save of an exit no State reaches a slot while the     *)
(* game fades out, with an advanced line put back over its backlog.        *)
NoExit == "exit" \notin Commands

StateInv ==
  /\ Sound(state)
  /\ run = None /\ returning = "no" /\ ~state.ended => ~state.diagnostic
  /\ NoExit /\ returning = "no" => TopIn(state)
BoundaryInv ==
  checkpoint # None => Sound(checkpoint) /\ (NoExit => TopIn(checkpoint))
Storable(s) ==
  /\ Sound(s) /\ ~s.ended /\ ~s.diagnostic
  /\ NoExit => TopIn(s)
SlotsInv ==
  /\ slots \in [SaveSlots -> StateType \cup {None}]
  /\ \A i \in SaveSlots : slots[i] # None => Storable(slots[i])
(* A resume runs on a stage that holds nothing, once it has started; a     *)
(* return to the title waits for no resume.                                *)
PhaseInv ==
  /\ returning \in {"no", "cover", "reveal"}
  /\ returning # "no" => run = None
  /\ returning = "reveal" => state.ended
  /\ run # None /\ run.fuel < MaxForward => ~Unanswered(state)
EngineInv == CheckpointInv /\ StateInv /\ BoundaryInv /\ SlotsInv /\ PhaseInv

(* The operation of the host that starts a resume.                         *)
LEMMA BeginEngine ==
  ASSUME EngineInv, CheckpointInv', run = None, returning = "no",
         NEW s, Sound(s), NoExit => TopIn(s),
         NEW kept, kept \in {checkpoint, Reset(s)},
         NEW restore \in BOOLEAN, Begin(s, kept, restore),
         UNCHANGED <<attached, returning, slots>>
  PROVE  EngineInv'
<1>1. /\ state' = s /\ checkpoint' = EnsureCurrent(kept, s)
      /\ run' = [fuel |-> MaxForward, restore |-> restore, tooling |-> FALSE]
  BY DEF Begin
<1>2. run' # None
  <2>1. run' \in Run
    BY <1>1, Fuel DEF Run
  <2>. QED  BY <2>1, NoRun
<1>3. ~(run'.fuel < MaxForward)
  BY <1>1, Fuel
<1>4. checkpoint' \in {checkpoint, s, None}
  BY <1>1 DEF EnsureCurrent, Reset, Capture
<1>5. StateInv'
  BY <1>1, <1>2 DEF StateInv
<1>6. BoundaryInv'
  BY <1>4 DEF BoundaryInv, EngineInv
<1>7. SlotsInv' /\ PhaseInv'
  BY <1>3 DEF SlotsInv, PhaseInv, EngineInv
<1>. QED  BY <1>5, <1>6, <1>7 DEF EngineInv

(* The stage changes between two resumes.                                  *)
LEMMA IdleEngine ==
  ASSUME EngineInv, CheckpointInv', run = None, Sound(state'),
         UNCHANGED <<run, checkpoint>>, SlotsInv',
         returning' \in {"no", "cover", "reveal"},
         returning' = "reveal" => state'.ended,
         returning' = "no" /\ ~state'.ended => ~state'.diagnostic,
         NoExit /\ returning' = "no" => TopIn(state')
  PROVE  EngineInv'
BY DEF EngineInv, StateInv, BoundaryInv, PhaseInv

(* The game is replaced and the checkpoint taken anew.                     *)
LEMMA ResetEngine ==
  ASSUME EngineInv, CheckpointInv', Sound(state'), run' = None,
         checkpoint' = Reset(state'), SlotsInv', returning' = "no",
         ~state'.ended => ~state'.diagnostic, NoExit => TopIn(state')
  PROVE  EngineInv'
<1>1. checkpoint' \in {state', None}
  BY DEF Reset, Capture
<1>2. StateInv' /\ PhaseInv'
  BY DEF StateInv, PhaseInv
<1>3. BoundaryInv'
  BY <1>1 DEF BoundaryInv
<1>. QED  BY <1>2, <1>3 DEF EngineInv

(* The resume ends with `s`.                                               *)
LEMMA FinishEngine ==
  ASSUME EngineInv, CheckpointInv', run # None, NEW s, Sound(s), ~s.ended,
         NoExit => TopIn(s), NEW kept,
         kept # None => Sound(kept) /\ (NoExit => TopIn(kept)),
         NEW out, Finish(s, out, kept)
  PROVE  EngineInv'
<1> DEFINE failed == out \in {"error", "limit"}
           done == [s EXCEPT !.diagnostic = failed]
           settled == IF Over(out) THEN EndGame(done) ELSE done
<1>1. failed \in BOOLEAN /\ (failed => Over(out))
  BY DEF Over
<1>. HIDE DEF failed
<1>2. /\ Sound(done) /\ done.ended = s.ended /\ done.diagnostic = failed
      /\ NoExit => TopIn(done)
  BY <1>1, DiagnosticSound DEF TopIn
<1>. HIDE DEF done
<1>3. returning = "no" /\ run' = None /\ UNCHANGED <<attached, slots>>
  BY DEF Finish, EngineInv, PhaseInv
<1>4. SlotsInv'
  BY <1>3 DEF SlotsInv, EngineInv
<1>5. CASE run.tooling
  <2>1. state' = settled /\ checkpoint' = Reset(settled) /\ returning' = "no"
    BY <1>3, <1>5 DEF Finish, settled, done, failed
  <2>2. Sound(settled) /\ (NoExit => TopIn(settled)) /\ (~settled.ended => ~settled.diagnostic)
    BY <1>1, <1>2, EndGameSound
  <2>. HIDE DEF settled
  <2>. QED  BY <1>3, <1>4, <2>1, <2>2, ResetEngine
<1>6. CASE ~run.tooling
  <2>1. /\ state' = Kept(done, out) /\ checkpoint' = Capture(kept, done)
        /\ returning' = IF Over(out) THEN "cover" ELSE returning
    BY <1>6 DEF Finish, done, failed
  <2>2. Sound(state') /\ (~Over(out) => state' = done)
    BY <1>2, <2>1, KeptSound
  <2>3. checkpoint' \in {kept, done}
    BY <2>1 DEF Capture
  <2>4. StateInv' /\ PhaseInv'
    BY <1>1, <1>2, <1>3, <2>1, <2>2 DEF StateInv, PhaseInv
  <2>5. BoundaryInv'
    BY <1>2, <2>3 DEF BoundaryInv
  <2>. QED  BY <1>4, <2>4, <2>5 DEF EngineInv
<1>. QED  BY <1>5, <1>6

-------------------------------------------------------------------------------
(* The steps of a resume. *)

LEMMA StepEngine ==
  ASSUME EngineInv, CheckpointInv', Step
  PROVE  EngineInv'
<1>1. run # None
  BY DEF Step, StepRefused, StepAction, StepPop, StepFallOff, StepLimit, MayRun
<1>2. /\ Sound(state) /\ ~state.ended /\ returning = "no" /\ run \in Run
      /\ NoExit => TopIn(state)
      /\ checkpoint # None => Sound(checkpoint) /\ (NoExit => TopIn(checkpoint))
  BY <1>1 DEF EngineInv, StateInv, BoundaryInv, PhaseInv, CheckpointInv
<1>3. MayRun => ~Unanswered(state)
  BY DEF MayRun, Started, Refuses, Blocked, Unanswered, EngineInv, PhaseInv
<1>4. CASE StepRefused \/ StepFallOff \/ StepLimit
  <2>1. PICK out \in {"await", "end", "limit"} : Finish(state, out, checkpoint)
    BY <1>4 DEF StepRefused, StepFallOff, StepLimit
  <2>. QED  BY <1>1, <1>2, <2>1, FinishEngine
<1>5. CASE StepPop
  <2>1. /\ state.stack # <<>> /\ ~Unanswered(state) /\ state' = PopFrame(state)
        /\ UNCHANGED <<attached, checkpoint, returning, slots>>
        /\ run' = [run EXCEPT !.fuel = @ - 1]
    BY <1>3, <1>5 DEF StepPop
  <2>2. Alive(state) /\ state.menu = None
    BY <1>2, <2>1 DEF Alive, Sound, Rests, Blank, Unanswered
  <2>3. Follows(state, PopFrame(state)) /\ ~Unanswered(PopFrame(state))
    BY <1>2, <2>1, <2>2, PopFrameFollows, SceneChangeFree DEF Sound
  <2>4. run' # None
    <3>1. run.fuel > 0
      BY <1>5 DEF StepPop, MayRun
    <3>2. run' \in Run
      BY <1>2, <2>1, <3>1, Fuel DEF Run
    <3>. QED  BY <3>2, NoRun
  <2>5. StateInv' /\ PhaseInv'
    BY <1>2, <2>1, <2>3, <2>4 DEF StateInv, PhaseInv, Follows
  <2>6. BoundaryInv' /\ SlotsInv'
    BY <2>1 DEF EngineInv, BoundaryInv, SlotsInv
  <2>. QED  BY <2>5, <2>6 DEF EngineInv
<1>6. CASE StepAction
  <2> DEFINE a == ActionAt(state)
             done == ExecFlow(state, a)
             kept == IF Introduces(a) /\ ~run.tooling THEN Capture(checkpoint, state)
                                                      ELSE checkpoint
  <2>1. HasAction(state) /\ ~Unanswered(state)
    BY <1>3, <1>6 DEF StepAction
  <2>2. Alive(state)
    BY <1>2, <2>1, SceneTyped, FieldsOf DEF HasAction, Alive, Sound
  <2>3. Runs(state, done)
    BY <2>1, <2>2, FlowRuns
  <2>4. IF done.out = "go"
          THEN /\ state' = done.st /\ checkpoint' = kept
               /\ run' = [run EXCEPT !.fuel = @ - 1]
               /\ UNCHANGED <<attached, returning, slots>>
          ELSE Finish(done.st, done.out, kept)
    BY <1>6 DEF StepAction
  <2>5. kept # None => Sound(kept) /\ (NoExit => TopIn(kept))
    BY <1>2 DEF Capture
  <2>. HIDE DEF done, kept, a
  <2>6. /\ Sound(done.st) /\ ~done.st.ended /\ (NoExit => TopIn(done.st))
        /\ done.out = "go" => ~Unanswered(done.st)
    BY <1>2, <2>3 DEF Runs, Follows
  <2>7. CASE done.out = "go"
    <3>1. /\ state' = done.st /\ checkpoint' = kept
          /\ run' = [run EXCEPT !.fuel = @ - 1]
          /\ UNCHANGED <<attached, returning, slots>>
      BY <2>4, <2>7
    <3>2. run' # None
      <4>1. run.fuel > 0
        BY <1>6 DEF StepAction, MayRun
      <4>2. run' \in Run
        BY <1>2, <3>1, <4>1, Fuel DEF Run
      <4>. QED  BY <4>2, NoRun
    <3>3. StateInv' /\ PhaseInv'
      BY <1>2, <2>6, <2>7, <3>1, <3>2 DEF StateInv, PhaseInv
    <3>4. BoundaryInv' /\ SlotsInv'
      BY <2>5, <3>1 DEF EngineInv, BoundaryInv, SlotsInv
    <3>. QED  BY <3>3, <3>4 DEF EngineInv
  <2>8. CASE done.out # "go"
    BY <1>1, <2>4, <2>5, <2>6, <2>8, FinishEngine
  <2>. QED  BY <2>7, <2>8
<1>. QED  BY <1>4, <1>5, <1>6 DEF Step

-------------------------------------------------------------------------------
(* The host. *)

(* An operation that leaves the slots alone.                               *)
LEMMA SlotsStay ==
  ASSUME EngineInv, UNCHANGED slots
  PROVE  SlotsInv'
BY DEF EngineInv, SlotsInv

LEMMA AdvanceOnceEngine ==
  ASSUME EngineInv, CheckpointInv', run = None, returning = "no", ~state.ended,
         NEW s, Steady(state, s), AdvanceOnce(s),
         UNCHANGED <<attached, returning, slots>>
  PROVE  EngineInv'
<1>1. /\ Sound(s) /\ ~s.ended /\ ~s.diagnostic /\ (NoExit => TopIn(s))
  BY DEF Steady, EngineInv, StateInv
<1>2. CASE s.dialogue # None /\ ~s.dialogue.shown
  <2> DEFINE t == [s EXCEPT !.dialogue.shown = TRUE]
  <2>1. Steady(s, t)
    BY <1>1, <1>2, LineSound
  <2>2. state' = t /\ UNCHANGED <<run, checkpoint>>
    BY <1>2 DEF AdvanceOnce
  <2>. HIDE DEF t
  <2>. QED  BY <1>1, <2>1, <2>2, IdleEngine, SlotsStay DEF Steady
<1>3. CASE ~(s.dialogue # None /\ ~s.dialogue.shown)
  <2> DEFINE t == IF s.dialogue # None THEN Advance(s) ELSE s
             b == s.dialogue # None
  <2>1. Sound(t) /\ (NoExit => TopIn(t))
    BY <1>1, AdvanceSound
  <2>2. Begin(t, checkpoint, b)
    BY <1>3 DEF AdvanceOnce
  <2>3. b \in BOOLEAN
    OBVIOUS
  <2>. HIDE DEF t, b
  <2>. QED  BY <2>1, <2>2, <2>3, BeginEngine
<1>. QED  BY <1>2, <1>3

(* What a frame makes of the stage before it looks for a reason to go on.  *)
LEMMA FrameStates ==
  ASSUME Sound(state), NEW done \in SUBSET Active(state), NEW click \in BOOLEAN,
         NEW typed \in BOOLEAN
  PROVE  LET moved == [Settle(state, done) EXCEPT !.waiting = @ /\ ~click]
             shown == IF typed /\ moved.dialogue # None
                        THEN [moved EXCEPT !.dialogue.shown = TRUE] ELSE moved
         IN Steady(state, moved) /\ Steady(state, shown)
            /\ moved.dialogue = state.dialogue
<1> DEFINE settled == Settle(state, done)
           b == ~click
           moved == [settled EXCEPT !.waiting = @ /\ b]
           shown == IF typed /\ moved.dialogue # None
                      THEN [moved EXCEPT !.dialogue.shown = TRUE] ELSE moved
<1>1. Steady(state, settled) /\ settled.dialogue = state.dialogue
  BY SettleSound
<1>2. b \in BOOLEAN
  OBVIOUS
<1>. HIDE DEF settled, b
<1>3. Steady(settled, moved) /\ moved.dialogue = settled.dialogue
  BY <1>1, <1>2, LineSound DEF Steady
<1>. HIDE DEF moved
<1>4. Steady(state, moved) /\ moved.dialogue = state.dialogue
  BY <1>1, <1>3 DEF Steady
<1>5. moved.dialogue # None => Steady(moved, [moved EXCEPT !.dialogue.shown = TRUE])
  BY <1>4, LineSound DEF Steady
<1>6. Steady(state, shown)
  BY <1>4, <1>5 DEF Steady
<1>. QED  BY <1>4, <1>6 DEF shown, moved, settled, b

LEMMA TickEngine ==
  ASSUME EngineInv, CheckpointInv', NEW done \in SUBSET Active(state),
         NEW click \in BOOLEAN, NEW typed \in BOOLEAN, NEW mode,
         Tick(done, click, mode, typed)
  PROVE  EngineInv'
<1> DEFINE moved == [Settle(state, done) EXCEPT !.waiting = @ /\ ~click]
           shown == IF typed /\ moved.dialogue # None
                      THEN [moved EXCEPT !.dialogue.shown = TRUE] ELSE moved
<1>1. /\ run = None /\ returning = "no" /\ ~state.ended
      /\ UNCHANGED <<attached, returning, slots>>
  BY DEF Tick, Playing, Idle
<1>2. Steady(state, moved) /\ Steady(state, shown)
  BY FrameStates DEF EngineInv, StateInv
<1>3. \/ state' = moved /\ UNCHANGED <<run, checkpoint>>
      \/ Begin(moved, checkpoint, FALSE)
      \/ AdvanceOnce(moved)
      \/ AdvanceOnce(shown)
      \/ state' = shown /\ UNCHANGED <<run, checkpoint>>
  BY DEF Tick
<1>. HIDE DEF moved, shown
<1>4. ASSUME NEW s, Steady(state, s)
      PROVE  Sound(s) /\ ~s.ended /\ ~s.diagnostic /\ (NoExit => TopIn(s))
  BY <1>1, <1>4 DEF Steady, EngineInv, StateInv
<1>. QED
  BY <1>1, <1>2, <1>3, <1>4, IdleEngine, BeginEngine, AdvanceOnceEngine, SlotsStay

(* What the player answers.                                                *)
LEMMA AnswerEngine ==
  ASSUME EngineInv, CheckpointInv',
         \/ state.menu # None /\ \E m \in state.menu : Choose(m)
         \/ \E v \in Values : SubmitInput(v) \/ ResolveMessage(v)
  PROVE  EngineInv'
<1>1. Sound(state)
  BY DEF EngineInv, StateInv
<1>2. ASSUME ~state.ended, ~Blank(state)
      PROVE  Alive(state)
  BY <1>1, <1>2 DEF Alive, Sound, Rests
<1>3. ASSUME NEW s, Follows(state, s), run = None, returning = "no",
             Begin(s, checkpoint, FALSE), UNCHANGED <<attached, returning, slots>>
      PROVE  EngineInv'
  <2>1. Sound(s) /\ (NoExit => TopIn(s))
    BY <1>3 DEF Follows, EngineInv, StateInv
  <2>2. FALSE \in BOOLEAN
    OBVIOUS
  <2>. QED  BY <1>3, <2>1, <2>2, BeginEngine
<1>4. CASE state.menu # None /\ \E m \in state.menu : Choose(m)
  <2>1. PICK m \in state.menu : Choose(m)
    BY <1>4
  <2>2. Alive(state) /\ run = None /\ returning = "no" /\ ~state.ended
        /\ UNCHANGED <<attached, returning, slots>>
    BY <1>2, <1>4, <2>1 DEF Choose, Playing, Idle, Blank
  <2>3. CASE Refused(m)
    <3>1. state' = state /\ UNCHANGED <<run, checkpoint>>
      BY <2>1, <2>3 DEF Choose
    <3>. QED  BY <2>2, <3>1 DEF EngineInv, StateInv, BoundaryInv, SlotsInv, PhaseInv
  <2>4. CASE ~Refused(m)
    <3>1. Begin(SelectChoice(state, m), checkpoint, FALSE)
      BY <2>1, <2>4 DEF Choose
    <3>2. Follows(state, SelectChoice(state, m))
      BY <1>4, <2>2, SelectChoiceFollows
    <3>. QED  BY <1>3, <2>2, <3>1, <3>2
  <2>. QED  BY <2>3, <2>4
<1>5. CASE \E v \in Values : SubmitInput(v)
  <2>1. PICK v \in Values : SubmitInput(v)
    BY <1>5
  <2> DEFINE s == [state EXCEPT !.vars[state.input] = v, !.input = None]
  <2>2. /\ run = None /\ returning = "no" /\ state.input # None /\ ~state.ended
        /\ Begin(s, checkpoint, FALSE) /\ UNCHANGED <<attached, returning, slots>>
    BY <2>1 DEF SubmitInput, Idle
  <2>3. Follows(state, s)
    BY <1>2, <2>2, AnswerFollows DEF Blank
  <2>. HIDE DEF s
  <2>. QED  BY <1>3, <2>2, <2>3
<1>6. CASE \E v \in Values : ResolveMessage(v)
  <2>1. PICK v \in Values : ResolveMessage(v)
    BY <1>6
  <2> DEFINE s == Answered(state, v)
  <2>2. /\ run = None /\ returning = "no" /\ state.message # None /\ ~state.ended
        /\ Begin(s, checkpoint, FALSE) /\ UNCHANGED <<attached, returning, slots>>
    BY <2>1 DEF ResolveMessage, Idle
  <2>3. Follows(state, s)
    BY <1>2, <2>2, AnswerFollows DEF Blank
  <2>. HIDE DEF s
  <2>. QED  BY <1>3, <2>2, <2>3
<1>. QED  BY <1>4, <1>5, <1>6

(* What there is to save of a game in progress.                            *)
LEMMA ContinuationSound ==
  ASSUME EngineInv, ~state.ended, Continuation # None
  PROVE  /\ Sound(Continuation) /\ ~Continuation.ended /\ Exact(Continuation)
         /\ Continuation.fp = state.fp
         /\ NoExit /\ returning = "no" => TopIn(Continuation)
<1>1. \/ Continuation = state /\ Exact(state)
      \/ Continuation = checkpoint /\ checkpoint # None /\ checkpoint.fp = state.fp
  BY DEF Continuation
<1>2. CASE Continuation = state /\ Exact(state)
  BY <1>2 DEF EngineInv, StateInv
<1>3. CASE Continuation = checkpoint /\ checkpoint # None /\ checkpoint.fp = state.fp
  BY <1>3 DEF EngineInv, BoundaryInv, CheckpointInv, Replays
<1>. QED  BY <1>1, <1>2, <1>3

(* Writing a slot.                                                         *)
LEMMA WriteStores ==
  ASSUME EngineInv, NEW i \in SaveSlots, NEW s,
         s = None \/ Storable(s), slots' = [slots EXCEPT ![i] = s]
  PROVE  SlotsInv'
<1>1. s \in StateType \cup {None}
  BY DEF Storable, Sound
<1>2. slots' \in [SaveSlots -> StateType \cup {None}]
  BY <1>1 DEF EngineInv, SlotsInv
<1>3. \A j \in SaveSlots : slots'[j] = s \/ slots'[j] = slots[j]
  BY DEF EngineInv, SlotsInv
<1>4. \A j \in SaveSlots : slots'[j] # None => Storable(slots'[j])
  BY <1>3 DEF EngineInv, SlotsInv
<1>. QED  BY <1>2, <1>4 DEF SlotsInv, Storable

LEMMA SavedStorable ==
  ASSUME EngineInv, ~state.ended, Continuation # None, NoExit => returning = "no"
  PROVE  Storable(Saved(Continuation))
BY ContinuationSound, SavedSound DEF Storable

(* A loaded slot becomes the State.                                        *)
LEMMA LoadEngine ==
  ASSUME EngineInv, CheckpointInv', NEW i \in SaveSlots, slots[i] # None,
         run = None, returning = "no", state' = RestoreSaved(state, slots[i]),
         checkpoint' = Reset(state'), UNCHANGED <<attached, run, returning, slots>>
  PROVE  EngineInv'
<1>1. Storable(slots[i]) /\ state \in StateType
  BY DEF EngineInv, SlotsInv, StateInv, Sound
<1>2. Sound(state') /\ state'.diagnostic = slots[i].diagnostic
      /\ (TopIn(slots[i]) => TopIn(state'))
  BY <1>1, RestoreSavedSound DEF Storable
<1>3. ~state'.diagnostic /\ (NoExit => TopIn(state'))
  BY <1>1, <1>2 DEF Storable
<1>. QED  BY <1>2, <1>3, SlotsStay, ResetEngine

LEMMA SlotEngine ==
  ASSUME EngineInv, CheckpointInv', NEW i \in SaveSlots,
         SaveSlot(i) \/ LoadSlot(i) \/ DeleteSlot(i)
  PROVE  EngineInv'
<1>1. CASE SaveSlot(i) \/ DeleteSlot(i)
  <2>1. run = None /\ returning = "no" /\ UNCHANGED <<attached, state, run, checkpoint, returning>>
    BY <1>1 DEF SaveSlot, DeleteSlot, Playing, Title, Idle
  <2>2. CASE SaveSlot(i)
    <3>1. /\ ~state.ended /\ Continuation # None
          /\ slots' = [slots EXCEPT ![i] = Saved(Continuation)]
      BY <2>2 DEF SaveSlot, Playing
    <3>2. SlotsInv'
      BY <2>1, <3>1, SavedStorable, WriteStores
    <3>. QED  BY <2>1, <3>2 DEF EngineInv, StateInv, BoundaryInv, PhaseInv
  <2>3. CASE DeleteSlot(i)
    <3>1. slots' = [slots EXCEPT ![i] = None]
      BY <2>3 DEF DeleteSlot
    <3>2. SlotsInv'
      BY <3>1, WriteStores
    <3>. QED  BY <2>1, <3>2 DEF EngineInv, StateInv, BoundaryInv, PhaseInv
  <2>. QED  BY <1>1, <2>2, <2>3
<1>2. CASE LoadSlot(i)
  <2>1. /\ run = None /\ returning = "no" /\ slots[i] # None
        /\ state' = RestoreSaved(state, slots[i]) /\ checkpoint' = Reset(state')
        /\ UNCHANGED <<attached, run, returning, slots>>
    BY <1>2 DEF LoadSlot, Playing, Title, Idle
  <2>. QED  BY <2>1, LoadEngine
<1>. QED  BY <1>1, <1>2

LEMMA ContinueEngine ==
  ASSUME EngineInv, CheckpointInv', Continue
  PROVE  EngineInv'
BY SlotNumbers, LoadEngine DEF Continue, Title, Idle

LEMMA RollbackEngine ==
  ASSUME EngineInv, CheckpointInv', NEW i, Rollback(i)
  PROVE  EngineInv'
<1>1. /\ run = None /\ returning = "no" /\ ~state.ended /\ i \in 1..Len(state.backlog)
      /\ state' = RestoreBacklog(state, i) /\ checkpoint' = Reset(state')
      /\ UNCHANGED <<attached, run, returning, slots>>
  BY DEF Rollback, Playing, Idle
<1>2. Sound(state) /\ ~state.diagnostic
  BY <1>1 DEF EngineInv, StateInv
<1>3. Sound(state') /\ state'.diagnostic = state.diagnostic /\ TopIn(state')
  BY <1>1, <1>2, RestoreBacklogSound
<1>. QED  BY <1>1, <1>2, <1>3, SlotsStay, ResetEngine

(* The stage between two resumes, and the way back to the title.           *)
LEMMA StageEngine ==
  ASSUME EngineInv, CheckpointInv',
         \/ \E p \in VideoSlots : VideoEnds(p)
         \/ DispatchShell \/ BackToTitle \/ ReturnCover \/ ReturnReveal
  PROVE  EngineInv'
<1>1. /\ Sound(state) /\ returning \in {"no", "cover", "reveal"}
      /\ returning = "reveal" => state.ended
      /\ run = None /\ returning = "no" /\ ~state.ended => ~state.diagnostic
      /\ NoExit /\ returning = "no" => TopIn(state)
  BY DEF EngineInv, StateInv, PhaseInv
<1>2. CASE \E p \in VideoSlots : VideoEnds(p)
  <2>1. PICK p \in VideoSlots : VideoEnds(p)
    BY <1>2
  <2>2. /\ {p} \in SUBSET Active(state) /\ state' = Settle(state, {p}) /\ run = None
        /\ UNCHANGED <<attached, run, checkpoint, returning, slots>>
    BY <2>1 DEF VideoEnds, Idle
  <2>3. Steady(state, state')
    BY <1>1, <2>2, SettleSound
  <2>. QED  BY <1>1, <2>2, <2>3, SlotsStay, IdleEngine DEF Steady
<1>3. CASE DispatchShell \/ ReturnCover
  <2>1. /\ state' = EndGame(state) /\ run = None
        /\ UNCHANGED <<attached, run, checkpoint, slots>>
        /\ returning' \in {returning, "reveal"}
    BY <1>3 DEF DispatchShell, ReturnCover, Idle
  <2>2. Sound(state') /\ state'.ended /\ TopIn(state')
    BY <1>1, <2>1, EndGameSound
  <2>. QED  BY <1>1, <2>1, <2>2, SlotsStay, IdleEngine
<1>4. CASE BackToTitle
  <2>1. /\ run = None /\ returning = "no" /\ ~state.ended /\ returning' = "cover"
        /\ UNCHANGED <<attached, state, run, checkpoint>>
        /\ slots' = IF Continuation = None THEN slots
                    ELSE [slots EXCEPT ![0] = Saved(Continuation)]
    BY <1>4 DEF BackToTitle, Playing, Idle
  <2>2. SlotsInv'
    <3>1. CASE Continuation = None
      BY <2>1, <3>1, SlotsStay
    <3>2. CASE Continuation # None
      BY <2>1, <3>2, SavedStorable, WriteStores, SlotNumbers
    <3>. QED  BY <3>1, <3>2
  <2>. QED  BY <1>1, <2>1, <2>2, IdleEngine
<1>5. CASE ReturnReveal
  <2>1. /\ run = None /\ state.ended /\ returning' = "no"
        /\ UNCHANGED <<attached, state, run, checkpoint, slots>>
    BY <1>1, <1>5 DEF ReturnReveal, Idle
  <2>2. TopIn(state)
    BY <1>1, <2>1 DEF Sound, Rests, Blank, TopIn
  <2>. QED  BY <1>1, <2>1, <2>2, SlotsStay, IdleEngine
<1>. QED  BY <1>2, <1>3, <1>4, <1>5

LEMMA StartEngine ==
  ASSUME EngineInv, CheckpointInv', StartGame
  PROVE  EngineInv'
<1> DEFINE begun == [state EXCEPT !.ended = FALSE, !.backlog = <<>>,
                                  !.scene = EntryScene[state.fp], !.cursor = 0]
<1>1. /\ run = None /\ returning = "no" /\ state.ended
      /\ Begin(begun, Reset(begun), FALSE) /\ UNCHANGED <<attached, returning, slots>>
  BY DEF StartGame, Title, Idle
<1>2. Sound(begun) /\ TopIn(begun)
  BY <1>1, BegunSound DEF EngineInv, StateInv
<1>3. FALSE \in BOOLEAN /\ Reset(begun) \in {checkpoint, Reset(begun)}
  OBVIOUS
<1>. HIDE DEF begun
<1>. QED  BY <1>1, <1>2, <1>3, BeginEngine

-------------------------------------------------------------------------------
(* The process. *)

LEMMA ProcessEngine ==
  ASSUME EngineInv, CheckpointInv', NEW fp \in Fingerprints, Exit(fp) \/ Crash(fp)
  PROVE  EngineInv'
<1>1. /\ state' = Fresh(fp) /\ run' = None /\ checkpoint' = None /\ returning' = "no"
      /\ slots' = slots \/ /\ "exit" \in Commands /\ ~state.ended /\ Continuation # None
                           /\ slots' = [slots EXCEPT ![0] = Saved(Continuation)]
  BY DEF Exit, Crash, Launched
<1>2. SlotsInv'
  <2>1. CASE slots' = slots
    BY <2>1, SlotsStay
  <2>2. CASE slots' # slots
    <3>1. ~NoExit
      BY <1>1, <2>2 DEF NoExit
    <3>. QED  BY <1>1, <2>2, <3>1, SavedStorable, WriteStores, SlotNumbers
  <2>. QED  BY <2>1, <2>2
<1>3. Sound(state') /\ state'.ended /\ TopIn(state') /\ ~state'.diagnostic
  BY <1>1, FreshSound
<1>4. StateInv' /\ BoundaryInv' /\ PhaseInv'
  BY <1>1, <1>3 DEF StateInv, BoundaryInv, PhaseInv
<1>. QED  BY <1>2, <1>4 DEF EngineInv

LEMMA ReloadEngine ==
  ASSUME EngineInv, CheckpointInv', NEW fp \in Fingerprints, Reload(fp)
  PROVE  EngineInv'
<1> DEFINE n == IF HasScene(fp, state.scene) THEN state.scene ELSE EntryScene[fp]
           restarted == [Fresh(fp) EXCEPT !.vars = state.vars, !.scene = n,
                           !.ended = state.ended \/ n = NoScene]
<1>1. /\ state' = restarted /\ run = None /\ returning' = "no"
      /\ UNCHANGED slots
      /\ IF restarted.ended
           THEN checkpoint' = Reset(restarted) /\ run' = None
           ELSE /\ run' = [fuel |-> MaxForward, restore |-> FALSE, tooling |-> TRUE]
                /\ UNCHANGED checkpoint
  BY DEF Reload, Idle
<1>2. Sound(restarted) /\ TopIn(restarted) /\ ~restarted.diagnostic
  BY RestartedSound DEF EngineInv, StateInv
<1>. HIDE DEF restarted
<1>3. SlotsInv'
  BY <1>1, SlotsStay
<1>4. CASE restarted.ended
  BY <1>1, <1>2, <1>3, <1>4, ResetEngine
<1>5. CASE ~restarted.ended
  <2>1. StateInv' /\ BoundaryInv'
    BY <1>1, <1>2, <1>5 DEF StateInv, BoundaryInv, EngineInv
  <2>2. PhaseInv'
    BY <1>1, <1>5, Fuel DEF PhaseInv
  <2>. QED  BY <1>3, <2>1, <2>2 DEF EngineInv
<1>. QED  BY <1>4, <1>5

LEMMA EngineInit == Init => EngineInv
<1>. SUFFICES ASSUME Init PROVE EngineInv
  OBVIOUS
<1>1. /\ attached \in Fingerprints /\ state = Fresh(attached) /\ run = None
      /\ checkpoint = None /\ returning = "no" /\ slots = [i \in SaveSlots |-> None]
  BY DEF Init
<1>2. CheckpointInv
  BY CheckpointInit
<1>3. Sound(state) /\ state.ended /\ TopIn(state)
  BY <1>1, FreshSound
<1>4. StateInv /\ BoundaryInv /\ PhaseInv
  BY <1>1, <1>3 DEF StateInv, BoundaryInv, PhaseInv
<1>5. SlotsInv
  BY <1>1 DEF SlotsInv
<1>. QED  BY <1>2, <1>4, <1>5 DEF EngineInv

LEMMA EngineStep == EngineInv /\ [Next]_vars => EngineInv'
<1>. SUFFICES ASSUME EngineInv, [Next]_vars PROVE EngineInv'
  OBVIOUS
<1>1. CheckpointInv'
  BY CheckpointStep DEF EngineInv
<1>2. CASE UNCHANGED vars
  BY <1>1, <1>2 DEF vars, EngineInv, StateInv, BoundaryInv, SlotsInv, PhaseInv
<1>3. CASE Step
  BY <1>1, <1>3, StepEngine
<1>4. CASE \E done \in SUBSET Active(state), click, typed \in BOOLEAN, mode \in Modes :
             Tick(done, click, mode, typed)
  BY <1>1, <1>4, TickEngine
<1>5. CASE \E i \in SaveSlots : SaveSlot(i) \/ LoadSlot(i) \/ DeleteSlot(i)
  BY <1>1, <1>5, SlotEngine
<1>6. CASE \E i \in 1..BacklogCapacity : Rollback(i)
  BY <1>1, <1>6, RollbackEngine
<1>7. CASE \/ state.menu # None /\ \E m \in state.menu : Choose(m)
           \/ \E v \in Values : SubmitInput(v) \/ ResolveMessage(v)
  BY <1>1, <1>7, AnswerEngine
<1>8. CASE \/ \E p \in VideoSlots : VideoEnds(p)
           \/ DispatchShell \/ BackToTitle \/ ReturnCover \/ ReturnReveal
  BY <1>1, <1>8, StageEngine
<1>9. CASE StartGame \/ Continue
  BY <1>1, <1>9, StartEngine, ContinueEngine
<1>10. CASE \E fp \in Fingerprints : Exit(fp) \/ Crash(fp) \/ Reload(fp)
  BY <1>1, <1>10, ProcessEngine, ReloadEngine
<1>. QED
  BY <1>2, <1>3, <1>4, <1>5, <1>6, <1>7, <1>8, <1>9, <1>10 DEF Next

LEMMA EngineAlways == Spec => []EngineInv
BY EngineInit, EngineStep, PTL DEF Spec

-------------------------------------------------------------------------------
(* The theorems. *)

(* Every field of the engine keeps its type, for all programs and commands: *)
(* no operation on the State leaves a cursor, frame, menu or backlog entry  *)
(* that is not one.                                                         *)
THEOREM EngineTyped == Spec => []TypeOK
<1>1. EngineInv => TypeOK
  <2>1. EngineInv => attached \in Fingerprints /\ run \in Run \cup {None}
    BY DEF EngineInv, CheckpointInv, Shaped
  <2>2. EngineInv => state \in StateType /\ checkpoint \in StateType \cup {None}
    BY DEF EngineInv, StateInv, BoundaryInv, Sound
  <2>3. EngineInv => slots \in [SaveSlots -> StateType \cup {None}]
                     /\ returning \in {"no", "cover", "reveal"}
    BY DEF EngineInv, SlotsInv, PhaseInv
  <2>. QED  BY <2>1, <2>2, <2>3 DEF TypeOK
<1>. QED  BY <1>1, EngineAlways, PTL

(* What is sound lies inside its program.                                   *)
LEMMA SoundPlaced ==
  ASSUME NEW s, Sound(s)
  PROVE  Placed(s)
BY DEF Sound, Standing, Logged, Recorded, Placed

(* Cursors and return frames lie inside their program, in the running       *)
(* State, its backlog, the checkpoint and every slot file: a load or a      *)
(* rollback has nothing to repair (reconcile_positions).                    *)
THEOREM PositionsAlwaysValid == Spec => []PositionsValid
<1>1. EngineInv => PositionsValid
  BY SoundPlaced DEF EngineInv, StateInv, BoundaryInv, SlotsInv, Storable, PositionsValid
<1>. QED  BY <1>1, EngineAlways, PTL

(* Only a launch or a reload attaches a program: the running State, its     *)
(* rollback entries and, between resumes, the checkpoint belong to it.      *)
THEOREM ProgramStaysAttached == Spec => []AttachedProgram
<1>1. EngineInv => AttachedProgram
  BY DEF EngineInv, CheckpointInv, Tooling, StateInv, Sound, Logged, Recorded,
         EntryIn, AttachedProgram, Idle
<1>. QED  BY <1>1, EngineAlways, PTL

(* A sound State in a scene has an owner.                                   *)
LEMMA PlayedIsOwned ==
  ASSUME NEW s, Sound(s), s.scene # NoScene, ~s.ended, ~s.diagnostic
  PROVE  Owned(s)
<1>1. HasScene(s.fp, s.scene)
  BY DEF Sound, Standing, FrameIn
<1>. QED  BY <1>1 DEF Owned, NeedsResume

(* When every program has an entry scene, a game that goes on waits for     *)
(* somebody: the player, a presentation, the shell or the next frame.       *)
THEOREM YieldsAreOwned == ASSUME EveryProgramStarts PROVE Spec => []YieldOwned
<1>1. EngineInv => YieldOwned
  BY PlayedIsOwned DEF EngineInv, StateInv, Sound, Rests, YieldOwned, Idle
<1>. QED  BY <1>1, EngineAlways, PTL

(* Whatever slot the player loads, the game it holds goes on: it has a      *)
(* scene, has not ended and somebody moves it.                              *)
THEOREM LoadedGamesGoOn == ASSUME EveryProgramStarts PROVE Spec => []SavesResume
<1>1. ASSUME EngineInv, NEW i \in SaveSlots, slots[i] # None
      PROVE  ~RestoreSaved(state, slots[i]).ended /\ Owned(RestoreSaved(state, slots[i]))
  <2> DEFINE t == RestoreSaved(state, slots[i])
  <2>1. Storable(slots[i]) /\ state \in StateType
    BY <1>1 DEF EngineInv, SlotsInv, StateInv, Sound
  <2>2. Sound(slots[i]) /\ ~slots[i].ended /\ ~slots[i].diagnostic
    BY <2>1 DEF Storable
  <2>3. slots[i].scene # NoScene
    BY <2>2 DEF Sound, Rests
  <2>4. Sound(t) /\ t.scene # NoScene /\ ~t.ended /\ ~t.diagnostic
    BY <2>1, <2>2, <2>3, RestoreSavedSound
  <2>. HIDE DEF t
  <2>5. ~t.ended /\ Owned(t)
    BY <2>4, PlayedIsOwned
  <2>. QED  BY <2>5 DEF t
<1>2. EngineInv => SavesResume
  BY <1>1 DEF SavesResume
<1>. QED  BY <1>2, EngineAlways, PTL

(* What a rollback leaves as it is never holds the script.                  *)
RollbackReleases ==
  \A fp \in Fingerprints : \A p \in KeptByRollback : ~Awaited(fp, p)

(* A rollback shows the line it was asked for, unblocked and right behind   *)
(* the action that says it, whatever ran on the stage (restore_backlog).    *)
THEOREM RollbacksShowTheirLine ==
  ASSUME RollbackReleases PROVE Spec => []RollbackShowsLine
<1>1. ASSUME EngineInv, NEW i \in 1..Len(state.backlog)
      PROVE  LET back == RestoreBacklog(state, i)
             IN /\ ~Blocked(back) /\ back.dialogue # None
                /\ back.dialogue.line = ReadKey(back)
                /\ back.cursor \in 1..SceneLen(back.fp, back.scene)
                /\ Program[back.fp][back.scene][back.cursor].op = "say"
  <2> DEFINE back == RestoreBacklog(state, i)
             e == state.backlog[i]
  <2>1. Sound(state)
    BY <1>1 DEF EngineInv, StateInv
  <2>2. /\ Sound(back) /\ back.fp = state.fp /\ back.scene = e.scene
        /\ back.cursor = e.cursor /\ back.dialogue = e.dialogue
        /\ ~back.waiting /\ back.message = None
        /\ back.live = [p \in Slots |-> IF p \in InSnapshot THEN e.live[p]
                                        ELSE IF p \in KeptByRollback THEN state.live[p]
                                        ELSE "off"]
    BY <1>1, <2>1, RestoreBacklogSound
  <2>3. Recorded(state.fp, e) /\ e \in Entry /\ state.fp \in Fingerprints
    BY <1>1, <2>1, FieldsOf DEF Sound, Logged
  <2>. HIDE DEF back, e
  <2>4. \A p \in Slots : back.live[p] # "block"
    BY <2>1, <2>2, <2>3 DEF Recorded, Sound, Shows, RollbackReleases
  <2>5. ~Blocked(back)
    BY <2>2, <2>4 DEF Blocked
  <2>6. e.dialogue # None /\ e.cursor \in Nat
    BY <2>3, NoValue DEF Entry
  <2>7. /\ FrameIn(state.fp, e.scene, e.cursor) /\ e.cursor > 0
        /\ e.dialogue.line = [scene |-> e.scene, index |-> e.cursor - 1]
        /\ Program[state.fp][e.scene][e.cursor].op = "say"
    BY <2>3 DEF Recorded, EntryIn
  <2>8. SceneLen(state.fp, e.scene) \in Nat
    BY <2>3, <2>7, SceneTyped DEF FrameIn
  <2>9. e.cursor \in 1..SceneLen(state.fp, e.scene)
    BY <2>6, <2>7, <2>8 DEF FrameIn
  <2>10. ReadKey(back) = [scene |-> e.scene, index |-> e.cursor - 1]
    BY <2>2, <2>6, <2>7 DEF ReadKey
  <2>. QED  BY <2>2, <2>5, <2>6, <2>7, <2>9, <2>10 DEF back
<1>2. EngineInv => RollbackShowsLine
  BY <1>1 DEF RollbackShowsLine
<1>. QED  BY <1>2, EngineAlways, PTL

(* The line on the stage is the newest one of the backlog, through loads,   *)
(* rollbacks and new games.  A quick save on exit during the fade out of a  *)
(* finished game may hold an advanced line again, put back over a backlog   *)
(* that has moved on; without that command the backlog leads.               *)
THEOREM BacklogLeads == ASSUME NoExit PROVE Spec => []BacklogTop
<1>1. EngineInv => BacklogTop
  BY DEF EngineInv, StateInv, TopIn, BacklogTop
<1>. QED  BY <1>1, EngineAlways, PTL

-------------------------------------------------------------------------------
(* What no step does. *)

(* The host does nothing while a resume runs; the process may still die.    *)
LEMMA HostIsIdle ==
  ASSUME run # None, [Next]_vars
  PROVE  Step \/ (\E fp \in Fingerprints : Crash(fp)) \/ UNCHANGED vars
<1>1. ASSUME NEW done, NEW click, NEW mode, NEW typed, Tick(done, click, mode, typed)
      PROVE  FALSE
  BY <1>1 DEF Tick, Playing, Idle
<1>2. ASSUME NEW p, VideoEnds(p) PROVE FALSE
  BY <1>2 DEF VideoEnds, Idle
<1>3. ASSUME NEW m, Choose(m) PROVE FALSE
  BY <1>3 DEF Choose, Playing, Idle
<1>4. ASSUME NEW v, SubmitInput(v) \/ ResolveMessage(v) PROVE FALSE
  BY <1>4 DEF SubmitInput, ResolveMessage, Idle
<1>5. ASSUME NEW i, SaveSlot(i) \/ LoadSlot(i) \/ DeleteSlot(i) \/ Rollback(i) PROVE FALSE
  BY <1>5 DEF SaveSlot, LoadSlot, DeleteSlot, Rollback, Playing, Title, Idle
<1>6. ASSUME DispatchShell \/ BackToTitle \/ ReturnCover \/ ReturnReveal
             \/ StartGame \/ Continue
      PROVE  FALSE
  BY <1>6 DEF DispatchShell, BackToTitle, ReturnCover, ReturnReveal, StartGame,
              Continue, Playing, Title, Idle
<1>7. ASSUME NEW fp, Exit(fp) \/ Reload(fp) PROVE FALSE
  BY <1>7 DEF Exit, Reload, Idle
<1>. QED  BY <1>1, <1>2, <1>3, <1>4, <1>5, <1>6, <1>7 DEF Next

(* A resume under something unanswered yields at once and moves nothing.    *)
LEMMA UnansweredStays ==
  ASSUME EngineInv, [Next]_vars, run # None, Unanswered(state)
  PROVE  state' \in {[state EXCEPT !.diagnostic = FALSE], Fresh(attached')} \/ UNCHANGED vars
<1>1. /\ run \in Run /\ ~state.ended /\ ~(run.fuel < MaxForward)
      /\ checkpoint # None => Sound(checkpoint)
  BY DEF EngineInv, CheckpointInv, PhaseInv, BoundaryInv
<1>2. run.fuel = MaxForward /\ run.fuel > 0
  BY <1>1, Fuel DEF Run
<1>3. ~MayRun
  <2>1. Refuses(state)
    BY DEF Refuses, Blocked, Unanswered
  <2>2. ~Started
    BY <1>1 DEF Started
  <2>. QED  BY <2>1, <2>2 DEF MayRun
<1>4. CASE Step
  <2>1. Finish(state, "await", checkpoint)
    BY <1>2, <1>3, <1>4 DEF Step, StepRefused, StepAction, StepPop, StepFallOff, StepLimit
  <2>2. state' = [state EXCEPT !.diagnostic = "await" \in {"error", "limit"}]
    BY <2>1 DEF Finish, Over, Kept
  <2>3. ("await" \in {"error", "limit"}) = FALSE
    OBVIOUS
  <2>. QED  BY <2>2, <2>3
<1>5. CASE \E fp \in Fingerprints : Crash(fp)
  BY <1>5 DEF Crash, Launched
<1>. QED  BY <1>4, <1>5, HostIsIdle

(* No click, frame or click storm moves a script past an open menu, input,  *)
(* message or presentation it waits for (ScriptRuntime::resume).            *)
THEOREM NothingPassesAYield == Spec => NoStepPastYield
<1>1. EngineInv /\ [Next]_vars =>
        [run # None /\ Unanswered(state) =>
           state' \in {[state EXCEPT !.diagnostic = FALSE], Fresh(attached')}]_vars
  BY UnansweredStays
<1>. QED  BY <1>1, EngineAlways, PTL DEF Spec, NoStepPastYield

(* Leaving a line that stands on the stage in full.                         *)
LEMMA AdvanceOnceReads ==
  ASSUME Sound(state), NEW s, Steady(state, s), s.dialogue # None => state.dialogue # None,
         AdvanceOnce(s), NEW k \in state'.read \ state.read
  PROVE  state.dialogue # None /\ k = ReadKey(state) /\ run' # None /\ state'.previous.shown
<1>1. /\ Sound(s) /\ s.scene = state.scene /\ s.cursor = state.cursor
      /\ s.read = state.read
  BY DEF Steady
<1>2. ReadKey(s) = ReadKey(state)
  BY <1>1 DEF ReadKey
<1>3. CASE s.dialogue # None /\ ~s.dialogue.shown
  <2>1. state' = [s EXCEPT !.dialogue.shown = TRUE]
    BY <1>3 DEF AdvanceOnce
  <2>2. Steady(s, [s EXCEPT !.dialogue.shown = TRUE])
    BY <1>1, <1>3, LineSound
  <2>. QED  BY <1>1, <2>1, <2>2 DEF Steady
<1>4. CASE s.dialogue = None
  <2>1. state' = s
    BY <1>4 DEF AdvanceOnce, Begin
  <2>. QED  BY <1>1, <2>1
<1>5. CASE s.dialogue # None /\ s.dialogue.shown
  <2>1. state' = Advance(s) /\ run' = [fuel |-> MaxForward, restore |-> s.dialogue # None,
                                       tooling |-> FALSE]
    BY <1>5 DEF AdvanceOnce, Begin
  <2>2. state'.previous = s.dialogue /\ state'.read = s.read \cup {ReadKey(s)}
    BY <1>1, <1>5, <2>1, AdvanceSound
  <2>3. run' \in Run
    BY <1>5, <2>1, Fuel DEF Run
  <2>. QED  BY <1>1, <1>2, <1>5, <2>2, <2>3, NoRun
<1>. QED  BY <1>3, <1>4, <1>5

(* Every other operation leaves the read lines alone or starts over.        *)
LEMMA StepReads ==
  ASSUME EngineInv, Step
  PROVE  state'.read \subseteq state.read
<1>1. run # None
  BY DEF Step, StepRefused, StepAction, StepPop, StepFallOff, StepLimit, MayRun
<1>2. Sound(state) /\ ~state.ended
  BY <1>1 DEF EngineInv, StateInv, CheckpointInv
<1>3. MayRun => ~Unanswered(state)
  BY DEF MayRun, Started, Refuses, Blocked, Unanswered, EngineInv, PhaseInv
<1>4. ASSUME NEW s, Sound(s), s.read = state.read, NEW out, NEW kept, Finish(s, out, kept)
      PROVE  state'.read = state.read
  <2> DEFINE b == out \in {"error", "limit"}
             done == [s EXCEPT !.diagnostic = b]
             settled == IF Over(out) THEN EndGame(done) ELSE done
  <2>1. b \in BOOLEAN
    OBVIOUS
  <2>2. state' \in {settled, Kept(done, out)}
    BY <1>4 DEF Finish
  <2>. HIDE DEF b
  <2>3. Sound(done) /\ done.read = s.read
    BY <1>4, <2>1, DiagnosticSound
  <2>. HIDE DEF done
  <2>4. settled.read = s.read /\ Kept(done, out).read = s.read
    BY <2>3, EndGameSound, KeptSound
  <2>. QED  BY <1>4, <2>2, <2>4
<1>5. CASE StepRefused \/ StepFallOff \/ StepLimit
  <2>1. PICK out \in {"await", "end", "limit"} : Finish(state, out, checkpoint)
    BY <1>5 DEF StepRefused, StepFallOff, StepLimit
  <2>. QED  BY <1>2, <1>4, <2>1
<1>6. CASE StepPop
  BY <1>2, <1>6, FieldsOf DEF StepPop, PopFrame, Sound
<1>7. CASE StepAction
  <2> DEFINE done == ExecFlow(state, ActionAt(state))
  <2>1. Alive(state) /\ HasAction(state) /\ ~Unanswered(state)
    BY <1>2, <1>3, <1>7, SceneTyped, FieldsOf DEF StepAction, HasAction, Alive, Sound
  <2>2. Sound(done.st) /\ done.st.read = state.read
    BY <2>1, FlowRuns DEF Runs, Follows
  <2>3. state' = done.st \/ \E kept : Finish(done.st, done.out, kept)
    BY <1>7 DEF StepAction
  <2>. HIDE DEF done
  <2>. QED  BY <1>4, <2>2, <2>3
<1>. QED  BY <1>5, <1>6, <1>7 DEF Step

LEMMA TickReads ==
  ASSUME EngineInv, NEW done \in SUBSET Active(state), NEW click \in BOOLEAN,
         NEW typed \in BOOLEAN, NEW mode, Tick(done, click, mode, typed),
         NEW k \in state'.read \ state.read
  PROVE  state.dialogue # None /\ k = ReadKey(state) /\ run' # None /\ state'.previous.shown
<1> DEFINE moved == [Settle(state, done) EXCEPT !.waiting = @ /\ ~click]
           shown == IF typed /\ moved.dialogue # None
                      THEN [moved EXCEPT !.dialogue.shown = TRUE] ELSE moved
<1>1. Sound(state)
  BY DEF EngineInv, StateInv
<1>2. /\ Steady(state, moved) /\ Steady(state, shown)
      /\ moved.dialogue = state.dialogue
  BY <1>1, FrameStates
<1>3. \/ state' = moved \/ state' = shown
      \/ AdvanceOnce(moved) \/ AdvanceOnce(shown)
  BY DEF Tick, Begin
<1>4. shown.dialogue # None => moved.dialogue # None
  OBVIOUS
<1>. HIDE DEF moved, shown
<1>5. moved.read = state.read /\ shown.read = state.read
  BY <1>2 DEF Steady
<1>. QED  BY <1>1, <1>2, <1>3, <1>4, <1>5, AdvanceOnceReads

LEMMA HostReads ==
  ASSUME EngineInv,
         \/ \E p \in VideoSlots : VideoEnds(p)
         \/ DispatchShell \/ BackToTitle \/ ReturnCover \/ ReturnReveal
         \/ state.menu # None /\ \E m \in state.menu : Choose(m)
         \/ \E v \in Values : SubmitInput(v) \/ ResolveMessage(v)
         \/ \E i \in SaveSlots : SaveSlot(i) \/ LoadSlot(i) \/ DeleteSlot(i)
         \/ \E i \in 1..BacklogCapacity : Rollback(i)
         \/ StartGame \/ Continue
         \/ \E fp \in Fingerprints : Exit(fp) \/ Crash(fp) \/ Reload(fp)
  PROVE  state'.read \subseteq state.read
<1>1. Sound(state) /\ state \in StateType
  BY DEF EngineInv, StateInv, Sound
<1>2. ASSUME NEW p, VideoEnds(p) PROVE state'.read = state.read
  <2>1. {p} \in SUBSET Active(state) /\ state' = Settle(state, {p})
    BY <1>2 DEF VideoEnds
  <2>. QED  BY <1>1, <2>1, SettleSound DEF Steady
<1>3. /\ DispatchShell \/ ReturnCover => state'.read = state.read
      /\ BackToTitle \/ ReturnReveal => state'.read = state.read
  BY <1>1, EndGameSound DEF DispatchShell, ReturnCover, BackToTitle, ReturnReveal
<1>4. CASE state.menu # None /\ \E m \in state.menu : Choose(m)
  <2>1. PICK m \in state.menu : Choose(m)
    BY <1>4
  <2>2. state' \in {state, SelectChoice(state, m)}
    BY <2>1 DEF Choose, Begin
  <2>3. Alive(state)
    BY <1>1, <1>4, <2>1 DEF Choose, Playing, Alive, Sound, Rests, Blank
  <2>4. SelectChoice(state, m).read = state.read
    BY <1>4, <2>3, SelectChoiceFollows DEF Follows
  <2>. QED  BY <2>2, <2>4
<1>5. ASSUME NEW v, SubmitInput(v) \/ ResolveMessage(v) PROVE state'.read = state.read
  BY <1>1, <1>5 DEF SubmitInput, ResolveMessage, Answered, Begin, StateType
<1>6. ASSUME NEW i \in SaveSlots, slots[i] # None, state' = RestoreSaved(state, slots[i])
      PROVE  state'.read = state.read
  <2>1. Sound(slots[i]) /\ ~slots[i].ended
    BY <1>6 DEF EngineInv, SlotsInv, Storable
  <2>. QED  BY <1>1, <1>6, <2>1, RestoreSavedSound
<1>7. ASSUME NEW i \in SaveSlots, SaveSlot(i) \/ LoadSlot(i) \/ DeleteSlot(i)
      PROVE  state'.read = state.read
  BY <1>6, <1>7 DEF SaveSlot, LoadSlot, DeleteSlot
<1>8. ASSUME NEW i, Rollback(i) PROVE state'.read = state.read
  BY <1>1, <1>8, RestoreBacklogSound DEF Rollback
<1>9. /\ StartGame => state'.read = state.read
      /\ Continue => state'.read = state.read
  <2>1. StartGame => state'.read = state.read
    BY <1>1 DEF StartGame, Begin, StateType
  <2>2. Continue => state'.read = state.read
    BY <1>6, SlotNumbers DEF Continue
  <2>. QED  BY <2>1, <2>2
<1>10. ASSUME NEW fp \in Fingerprints, Exit(fp) \/ Crash(fp) \/ Reload(fp)
       PROVE  state'.read = {}
  <2>1. Exit(fp) \/ Crash(fp) => state'.read = {}
    BY DEF Exit, Crash, Launched, Fresh
  <2> DEFINE n == IF HasScene(fp, state.scene) THEN state.scene ELSE EntryScene[fp]
             t == [Fresh(fp) EXCEPT !.vars = state.vars, !.scene = n,
                     !.ended = state.ended \/ n = NoScene]
  <2>3. t.read = {}
    BY <1>1, RestartedSound
  <2>4. Reload(fp) => state' = t
    BY DEF Reload
  <2>. HIDE DEF t
  <2>2. Reload(fp) => state'.read = {}
    BY <2>3, <2>4
  <2>. QED  BY <1>10, <2>1, <2>2
<1>. QED  BY <1>2, <1>3, <1>4, <1>5, <1>7, <1>8, <1>9, <1>10

(* Text becomes read only by leaving a line that stood on the stage in      *)
(* full: a skip through read text never jumps over a line the player has    *)
(* not seen (advance, advance_once).                                        *)
THEOREM ReadTextWasShown == Spec => ReadMeansShown
<1>1. ASSUME EngineInv, [Next]_vars, NEW k \in state'.read \ state.read
      PROVE  state.dialogue # None /\ k = ReadKey(state) /\ run' # None
             /\ state'.previous.shown
  <2>1. CASE UNCHANGED vars \/ Step
    BY <1>1, <2>1, StepReads DEF vars
  <2>2. CASE \E done \in SUBSET Active(state), click, typed \in BOOLEAN, mode \in Modes :
               Tick(done, click, mode, typed)
    BY <1>1, <2>2, TickReads
  <2>. QED  BY <1>1, <2>1, <2>2, HostReads DEF Next
<1>2. EngineInv /\ [Next]_vars =>
        [\A k \in state'.read \ state.read :
           state.dialogue # None /\ k = ReadKey(state) /\ run' # None
           /\ state'.previous.shown]_vars
  BY <1>1
<1>. QED  BY <1>2, EngineAlways, PTL DEF Spec, ReadMeansShown

(* What a step writes into a slot.                                          *)
LEMMA SlotWrites ==
  ASSUME EngineInv, [Next]_vars, NEW i \in SaveSlots, slots'[i] # slots[i], slots'[i] # None
  PROVE  ~state.ended /\ Continuation # None /\ slots'[i] = Saved(Continuation)
<1>1. DOMAIN slots = SaveSlots
  BY DEF EngineInv, SlotsInv
<1>2. CASE UNCHANGED slots
  BY <1>2
<1>3. CASE \E j \in SaveSlots : SaveSlot(j) \/ DeleteSlot(j)
  BY <1>1, <1>3 DEF SaveSlot, DeleteSlot, Playing
<1>4. CASE BackToTitle
  BY <1>1, <1>4, SlotNumbers DEF BackToTitle, Playing
<1>5. CASE \E fp \in Fingerprints : Exit(fp)
  BY <1>1, <1>5, SlotNumbers DEF Exit
<1>6. Step => UNCHANGED slots
  BY DEF Step, StepRefused, StepAction, StepPop, StepFallOff, StepLimit, Finish
<1>7. ASSUME NEW done, NEW click, NEW mode, NEW typed, Tick(done, click, mode, typed)
      PROVE  UNCHANGED slots
  BY <1>7 DEF Tick
<1>10. ASSUME NEW m, Choose(m) \/ SubmitInput(m) \/ ResolveMessage(m) \/ VideoEnds(m)
       PROVE  UNCHANGED slots
  BY <1>10 DEF Choose, SubmitInput, ResolveMessage, VideoEnds
<1>11. DispatchShell => UNCHANGED slots
  BY DEF DispatchShell
<1>8. /\ (\E j \in SaveSlots : LoadSlot(j)) => UNCHANGED slots
      /\ (\E j \in 1..BacklogCapacity : Rollback(j)) => UNCHANGED slots
      /\ (ReturnCover \/ ReturnReveal \/ StartGame \/ Continue) => UNCHANGED slots
      /\ (\E fp \in Fingerprints : Crash(fp) \/ Reload(fp)) => UNCHANGED slots
  BY DEF LoadSlot, Rollback, ReturnCover, ReturnReveal, StartGame, Continue, Crash, Reload
<1>9. UNCHANGED vars => UNCHANGED slots
  BY DEF vars
<1>. QED
  BY <1>2, <1>3, <1>4, <1>5, <1>6, <1>7, <1>8, <1>9, <1>10, <1>11 DEF Next

(* A slot written from a Sound State gives that State back.                 *)
LEMMA SavedComesBack ==
  ASSUME NEW s, Sound(s), Exact(s), ~s.ended, s.scene # NoScene
  PROVE  SameGame(RestoreSaved(Fresh(s.fp), Saved(s)), s)
<1> DEFINE saved == Saved(s)
           f == Fresh(s.fp)
           vars1 == [v \in Vars |-> IF v \in SessionVars /\ f.vars[v] # Unset
                                      THEN f.vars[v] ELSE saved.vars[v]]
           merged == [saved EXCEPT !.read = f.read, !.vars = vars1]
<1>1. /\ Sound(saved) /\ saved \in StateType /\ saved.vars \in VarsType
      /\ s \in StateType /\ s.live \in LiveType /\ s.fp \in Fingerprints
  BY SavedSound, FieldsOf DEF Sound
<1>2. /\ f.vars = [v \in Vars |-> Unset] /\ f.read = {}
  BY DEF Fresh
<1>3. vars1 = saved.vars
  BY <1>1, <1>2 DEF VarsType
<1>4. /\ saved.fp = s.fp /\ saved.scene = s.scene /\ saved.cursor = s.cursor
      /\ saved.stack = s.stack /\ saved.ended = s.ended /\ saved.dialogue = s.dialogue
      /\ saved.previous = s.previous /\ saved.menu = s.menu /\ saved.input = s.input
      /\ saved.message = s.message /\ saved.waiting = s.waiting
  BY <1>1 DEF Saved, StateType
<1>5. /\ saved.live = Written(s.live) /\ saved.backlog = WrittenLog(s.backlog)
      /\ saved.vars = [v \in Vars |-> IF v \in SessionVars THEN Unset ELSE s.vars[v]]
  BY <1>1 DEF Saved, StateType
<1>6. Written(s.live) = s.live
  BY <1>1 DEF Written, Exact, LiveType
<1>7. RestoreSaved(f, saved) =
        LET placed == ReconcilePositions(merged)
        IN IF placed.scene = NoScene THEN [placed EXCEPT !.ended = TRUE] ELSE placed
  BY DEF RestoreSaved
<1>. HIDE DEF saved, f, vars1
<1>8. merged = [saved EXCEPT !.read = {}]
  BY <1>1, <1>2, <1>3 DEF StateType
<1>9. merged \in StateType
  BY <1>1, <1>8 DEF StateType
<1>. HIDE DEF merged
<1>10. /\ merged.fp = saved.fp /\ merged.scene = saved.scene
       /\ merged.cursor = saved.cursor /\ merged.stack = saved.stack
       /\ merged.ended = saved.ended /\ merged.dialogue = saved.dialogue
       /\ merged.previous = saved.previous /\ merged.menu = saved.menu
       /\ merged.input = saved.input /\ merged.message = saved.message
       /\ merged.waiting = saved.waiting
  BY <1>1, <1>8 DEF StateType
<1>11. /\ merged.live = saved.live /\ merged.backlog = saved.backlog
       /\ merged.vars = saved.vars
  BY <1>1, <1>8 DEF StateType
<1>12. Sound(merged)
  <2>1. Shows(merged.fp, merged.live) /\ ~merged.ended
    BY <1>1, <1>4, <1>10, <1>11 DEF Sound
  <2>2. ~saved.ended /\ saved.scene # NoScene
    BY <1>4
  <2>. QED  BY <1>1, <1>9, <1>10, <1>11, <2>1, <2>2, Stays
<1>13. RestoreSaved(f, saved) = merged
  BY <1>4, <1>7, <1>10, <1>12, ReconcileKeeps
<1>. QED  BY <1>4, <1>5, <1>6, <1>10, <1>11, <1>13 DEF SameGame, saved, f

(* Whatever a save, the way to the title or an exit writes, at any moment,  *)
(* a later process of the same build that loads it has the live State or    *)
(* the checkpoint again, but for what SaveLossless names: the codec and the *)
(* repair of positions lose nothing else (continuation_state,               *)
(* restore_saved).  A program without a scene to start with has a game      *)
(* without a scene, which no load brings back.                              *)
THEOREM SavesLoseNothing == ASSUME EveryProgramStarts PROVE Spec => SaveLossless
<1>1. ASSUME EngineInv, [Next]_vars, NEW i \in SaveSlots, slots'[i] # slots[i],
             slots'[i] # None
      PROVE  \E s \in {state, checkpoint} :
               /\ s # None /\ s.fp = attached /\ ~s.ended
               /\ SameGame(RestoreSaved(Fresh(attached), slots'[i]), s)
  <2>1. ~state.ended /\ Continuation # None /\ slots'[i] = Saved(Continuation)
    BY <1>1, SlotWrites
  <2>2. /\ Sound(Continuation) /\ Exact(Continuation) /\ ~Continuation.ended
        /\ Continuation.fp = state.fp
    BY <1>1, <2>1, ContinuationSound
  <2>3. Continuation \in {state, checkpoint} /\ state.fp = attached
    BY <1>1, <2>1 DEF Continuation, EngineInv, CheckpointInv
  <2>4. Continuation.scene # NoScene
    BY <2>2 DEF Sound, Rests
  <2>. QED  BY <2>1, <2>2, <2>3, <2>4, SavedComesBack
<1>2. EngineInv /\ [Next]_vars =>
        [\A i \in SaveSlots : slots'[i] # slots[i] /\ slots'[i] # None =>
           \E s \in {state, checkpoint} :
             /\ s # None /\ s.fp = attached /\ ~s.ended
             /\ SameGame(RestoreSaved(Fresh(attached), slots'[i]), s)]_vars
  BY <1>1
<1>. QED  BY <1>2, EngineAlways, PTL DEF Spec, SaveLossless

-------------------------------------------------------------------------------
(* A new game. *)

(* Two States with the same fields are the same.                           *)
LEMMA SameState ==
  ASSUME NEW s \in StateType, NEW t \in StateType,
         s.fp = t.fp, s.scene = t.scene, s.cursor = t.cursor, s.stack = t.stack,
         s.ended = t.ended, s.diagnostic = t.diagnostic, s.dialogue = t.dialogue,
         s.previous = t.previous, s.menu = t.menu, s.input = t.input,
         s.message = t.message, s.waiting = t.waiting, s.live = t.live,
         s.shell = t.shell, s.loading = t.loading, s.vars = t.vars,
         s.backlog = t.backlog, s.read = t.read
  PROVE  s = t
BY DEF StateType

(* The State of a new game, field by field.                                *)
LEMMA StartsFresh ==
  ASSUME EveryProgramStarts, EngineInv, StartGame
  PROVE  state' = [Fresh(attached) EXCEPT
                     !.scene = EntryScene[attached], !.ended = FALSE,
                     !.read = state.read, !.diagnostic = state.diagnostic,
                     !.live = LeftOver(state.live)]
<1> DEFINE f == Fresh(attached)
           t == [f EXCEPT !.scene = EntryScene[attached], !.ended = FALSE,
                          !.read = state.read, !.diagnostic = state.diagnostic,
                          !.live = state.live]
           begun == [state EXCEPT !.ended = FALSE, !.backlog = <<>>,
                                  !.scene = EntryScene[state.fp], !.cursor = 0]
<1>1. /\ Sound(state) /\ state \in StateType /\ state.ended /\ state.fp = attached
      /\ attached \in Fingerprints
  BY DEF StartGame, Title, EngineInv, StateInv, Sound, CheckpointInv, Shaped
<1>2. state' = begun
  BY DEF StartGame, Begin
<1>3. Sound(f) /\ f \in StateType
  BY <1>1, FreshSound DEF Sound
<1>4. Blank(state) /\ state.vars = [v \in Vars |-> Unset]
      /\ \A p \in Slots \ KeptByEnd : state.live[p] = "off"
  BY <1>1 DEF Sound, Rests, Dropped
<1>6. LeftOver(state.live) = state.live
  <2>1. state.live \in [Slots -> Status]
    BY <1>1, FieldsOf DEF LiveType
  <2>. QED  BY <1>4, <2>1 DEF LeftOver
<1>7. /\ f.fp = attached /\ f.cursor = 0 /\ f.stack = <<>> /\ f.dialogue = None
      /\ f.previous = None /\ f.menu = None /\ f.input = None /\ f.message = None
      /\ f.waiting = FALSE
  BY DEF Fresh
<1>8. /\ f.shell = FALSE /\ f.loading = Unset
      /\ f.vars = [v \in Vars |-> Unset] /\ f.backlog = <<>>
  BY DEF Fresh
<1>. HIDE DEF f
<1>9. begun \in StateType
  BY <1>1, BegunSound DEF Sound
<1>10. EntryScene[attached] \in SceneNames \cup {NoScene}
  BY <1>1, Entries
<1>11. state.read \in SUBSET Line /\ state.diagnostic \in BOOLEAN /\ state.live \in LiveType
  BY <1>1 DEF StateType
<1>12. t \in StateType
  BY <1>3, <1>10, <1>11 DEF StateType
<1>13. /\ begun.fp = t.fp /\ begun.scene = t.scene /\ begun.cursor = t.cursor
       /\ begun.ended = t.ended /\ begun.backlog = t.backlog /\ begun.read = t.read
       /\ begun.diagnostic = t.diagnostic
  <2>1. /\ begun.fp = attached /\ begun.scene = EntryScene[attached]
        /\ begun.cursor = 0 /\ begun.ended = FALSE /\ begun.backlog = <<>>
        /\ begun.read = state.read /\ begun.diagnostic = state.diagnostic
    BY <1>1 DEF StateType
  <2>2. /\ t.fp = f.fp /\ t.scene = EntryScene[attached]
        /\ t.cursor = f.cursor /\ t.ended = FALSE /\ t.backlog = f.backlog
        /\ t.read = state.read /\ t.diagnostic = state.diagnostic
    BY <1>3 DEF StateType
  <2>. QED  BY <1>7, <1>8, <2>1, <2>2
<1>14. /\ begun.stack = t.stack /\ begun.dialogue = t.dialogue
       /\ begun.previous = t.previous /\ begun.menu = t.menu
       /\ begun.input = t.input /\ begun.message = t.message
       /\ begun.waiting = t.waiting
  <2>1. /\ begun.stack = state.stack /\ begun.dialogue = state.dialogue
        /\ begun.previous = state.previous /\ begun.menu = state.menu
        /\ begun.input = state.input /\ begun.message = state.message
        /\ begun.waiting = state.waiting
    BY <1>1 DEF StateType
  <2>2. /\ t.stack = f.stack /\ t.dialogue = f.dialogue
        /\ t.previous = f.previous /\ t.menu = f.menu
        /\ t.input = f.input /\ t.message = f.message
        /\ t.waiting = f.waiting
    BY <1>3 DEF StateType
  <2>3. state.waiting = FALSE
    BY <1>1, <1>4 DEF StateType, Blank
  <2>. QED  BY <1>4, <1>7, <2>1, <2>2, <2>3 DEF Blank
<1>15. /\ begun.live = t.live /\ begun.shell = t.shell
       /\ begun.loading = t.loading /\ begun.vars = t.vars
  <2>1. /\ begun.live = state.live /\ begun.shell = state.shell
        /\ begun.loading = state.loading /\ begun.vars = state.vars
    BY <1>1 DEF StateType
  <2>2. /\ t.live = state.live /\ t.shell = f.shell
        /\ t.loading = f.loading /\ t.vars = f.vars
    BY <1>3 DEF StateType
  <2>3. state.shell = FALSE
    BY <1>1, <1>4 DEF StateType, Blank
  <2>. QED  BY <1>4, <1>8, <2>1, <2>2, <2>3 DEF Blank
<1>. HIDE DEF t, begun
<1>16. begun = t
  BY <1>9, <1>12, <1>13, <1>14, <1>15, SameState
<1>. QED  BY <1>2, <1>6, <1>16 DEF t, f

(* Only a new game or a hot reload starts a resume from the title.         *)
LEMMA TitleStarts ==
  ASSUME Title, run' # None, ~run'.tooling, [Next]_vars
  PROVE  StartGame
<1>0. run = None /\ state.ended
  BY DEF Title, Idle
<1>1. ASSUME NEW done, NEW click, NEW mode, NEW typed, Tick(done, click, mode, typed)
      PROVE  FALSE
  BY <1>0, <1>1 DEF Tick, Playing
<1>2. ASSUME NEW m, Choose(m) \/ SubmitInput(m) \/ ResolveMessage(m) PROVE FALSE
  BY <1>0, <1>2 DEF Choose, SubmitInput, ResolveMessage, Playing
<1>3. ASSUME NEW i, VideoEnds(i) \/ SaveSlot(i) \/ LoadSlot(i) \/ DeleteSlot(i) \/ Rollback(i)
      PROVE  FALSE
  BY <1>0, <1>3 DEF VideoEnds, SaveSlot, LoadSlot, DeleteSlot, Rollback
<1>4. ASSUME DispatchShell \/ BackToTitle \/ ReturnCover \/ ReturnReveal \/ Continue
      PROVE  FALSE
  BY <1>0, <1>4 DEF DispatchShell, BackToTitle, ReturnCover, ReturnReveal, Continue
<1>5. ASSUME NEW fp, Exit(fp) \/ Crash(fp) \/ Reload(fp) PROVE FALSE
  BY <1>5 DEF Exit, Crash, Launched, Reload
<1>6. ~Step
  BY <1>0 DEF Step, StepRefused, StepAction, StepPop, StepFallOff, StepLimit, MayRun
<1>7. ~UNCHANGED vars
  BY <1>0 DEF vars
<1>. QED  BY <1>1, <1>2, <1>3, <1>4, <1>5, <1>6, <1>7 DEF Next

(* When every program has an entry scene, a game started from the title     *)
(* begins as on a fresh launch, whatever was played, loaded or reloaded     *)
(* before, but for the read lines, the diagnostic and what end_game leaves  *)
(* on the stage (the mouse parallax, the moved background).                 *)
THEOREM NewGamesAreFresh == ASSUME EveryProgramStarts PROVE Spec => NewGameFresh
<1>1. EngineInv /\ [Next]_vars =>
        [Title /\ run' # None /\ ~run'.tooling =>
           state' = [Fresh(attached) EXCEPT
                       !.scene = EntryScene[attached], !.ended = FALSE,
                       !.read = state.read, !.diagnostic = state.diagnostic,
                       !.live = LeftOver(state.live)]]_vars
  BY TitleStarts, StartsFresh
<1>. QED  BY <1>1, EngineAlways, PTL DEF Spec, NewGameFresh

-------------------------------------------------------------------------------
(* A save is always possible. *)

NoReload == "reload" \notin Commands
(* What the end of a game or a rollback leaves on the stage can be saved.  *)
LeftoversAreSaved ==
  \A fp \in Fingerprints :
    \A p \in Transient \cap (KeptByEnd \cup InSnapshot \cup KeptByRollback) :
      ~Presented(fp, p)

(* A game whose live State cannot be written has a boundary; what a slot   *)
(* holds can be written again.                                             *)
AvailInv ==
  /\ run # None => ~run.tooling
  /\ ~state.ended /\ ~Exact(state) => checkpoint # None
  /\ \A i \in SaveSlots : slots[i] # None => Exact(slots[i])

(* What an operation of the host makes of the State and its boundary.      *)
Hosts(s) ==
  \/ state' = s /\ UNCHANGED <<run, checkpoint>>
  \/ \E b \in BOOLEAN : Begin(s, checkpoint, b)

LEMMA HostsAvail ==
  ASSUME EngineInv, AvailInv, run = None, UNCHANGED slots,
         NEW s, Keeps(state, s), s.ended = state.ended, Hosts(s)
  PROVE  AvailInv'
<1>1. Exact(state) => Exact(s)
  BY DEF Keeps
<1>2. CASE state' = s /\ UNCHANGED <<run, checkpoint>>
  BY <1>1, <1>2 DEF AvailInv
<1>3. CASE \E b \in BOOLEAN : Begin(s, checkpoint, b)
  <2>1. /\ state' = s /\ checkpoint' = EnsureCurrent(checkpoint, s)
        /\ run'.tooling = FALSE
    BY <1>3 DEF Begin
  <2>2. checkpoint # None => checkpoint.fp = s.fp
    BY DEF EngineInv, CheckpointInv, Tooling, Keeps
  <2>3. ~s.ended /\ ~Exact(s) => checkpoint # None /\ checkpoint' = checkpoint
    BY <1>1, <2>1, <2>2 DEF AvailInv, EnsureCurrent
  <2>. QED  BY <2>1, <2>3 DEF AvailInv
<1>. QED  BY <1>2, <1>3 DEF Hosts

(* A State that can be written replaces the one before.                    *)
LEMMA ExactAvail ==
  ASSUME AvailInv, state'.ended \/ Exact(state'), run' = None,
         \A i \in SaveSlots : slots'[i] # None => Exact(slots'[i])
  PROVE  AvailInv'
BY DEF AvailInv

LEMMA AdvanceOnceHosts ==
  ASSUME NEW s, Keeps(state, s), s.ended = state.ended, AdvanceOnce(s)
  PROVE  \E t : Keeps(state, t) /\ t.ended = state.ended /\ Hosts(t)
<1>1. CASE s.dialogue # None /\ ~s.dialogue.shown
  <2> DEFINE t == [s EXCEPT !.dialogue.shown = TRUE]
  <2>1. Keeps(s, t) /\ t.ended = s.ended
    BY DEF Keeps, Shaped, Exact, Fields
  <2>2. state' = t /\ UNCHANGED <<run, checkpoint>>
    BY <1>1 DEF AdvanceOnce
  <2>. HIDE DEF t
  <2>. QED  BY <2>1, <2>2 DEF Keeps, Hosts
<1>2. CASE ~(s.dialogue # None /\ ~s.dialogue.shown)
  <2> DEFINE t == IF s.dialogue # None THEN Advance(s) ELSE s
             b == s.dialogue # None
  <2>1. Keeps(state, t) /\ t.ended = state.ended
    BY AdvanceKeeps DEF Keeps
  <2>2. Begin(t, checkpoint, b) /\ b \in BOOLEAN
    BY <1>2 DEF AdvanceOnce
  <2>. HIDE DEF t, b
  <2>. QED  BY <2>1, <2>2 DEF Hosts
<1>. QED  BY <1>1, <1>2

LEMMA TickAvail ==
  ASSUME EngineInv, AvailInv, NEW done \in SUBSET Active(state), NEW click \in BOOLEAN,
         NEW typed \in BOOLEAN, NEW mode, Tick(done, click, mode, typed)
  PROVE  AvailInv'
<1> DEFINE settled == Settle(state, done)
           moved == [settled EXCEPT !.waiting = @ /\ ~click]
           shown == IF typed /\ moved.dialogue # None
                      THEN [moved EXCEPT !.dialogue.shown = TRUE] ELSE moved
<1>1. run = None /\ UNCHANGED slots
  BY DEF Tick, Playing, Idle
<1>2. Keeps(state, settled) /\ settled.ended = state.ended
  BY SettleKeeps DEF EngineInv, CheckpointInv
<1>3. \/ state' = moved /\ UNCHANGED <<run, checkpoint>>
      \/ Begin(moved, checkpoint, FALSE)
      \/ AdvanceOnce(moved)
      \/ AdvanceOnce(shown)
      \/ state' = shown /\ UNCHANGED <<run, checkpoint>>
  BY DEF Tick
<1>. HIDE DEF settled
<1>4. Keeps(state, moved) /\ moved.ended = state.ended
  BY <1>2 DEF Keeps, Shaped, Exact, Fields
<1>. HIDE DEF moved
<1>5. Keeps(state, shown) /\ shown.ended = state.ended
  BY <1>4 DEF Keeps, Shaped, Exact, Fields
<1>. HIDE DEF shown
<1>6. \E t : Keeps(state, t) /\ t.ended = state.ended /\ Hosts(t)
  BY <1>3, <1>4, <1>5, AdvanceOnceHosts DEF Hosts
<1>. QED  BY <1>1, <1>6, HostsAvail

LEMMA AnswerAvail ==
  ASSUME EngineInv, AvailInv,
         \/ state.menu # None /\ \E m \in state.menu : Choose(m)
         \/ \E v \in Values : SubmitInput(v) \/ ResolveMessage(v)
  PROVE  AvailInv'
<1>1. Shaped(state) /\ Keeps(state, state)
  BY DEF EngineInv, CheckpointInv, Keeps
<1>2. CASE state.menu # None /\ \E m \in state.menu : Choose(m)
  <2>1. PICK m \in state.menu : Choose(m)
    BY <1>2
  <2>2. Keeps(state, SelectChoice(state, m)) /\ SelectChoice(state, m).ended = state.ended
    BY <1>1, <1>2, <2>1, SelectChoiceKeeps DEF Shaped
  <2>3. Hosts(state) \/ Hosts(SelectChoice(state, m))
    BY <2>1 DEF Choose, Hosts
  <2>4. run = None /\ UNCHANGED slots
    BY <2>1 DEF Choose, Playing, Idle
  <2>. QED  BY <1>1, <2>2, <2>3, <2>4, HostsAvail
<1>3. ASSUME NEW v \in Values, SubmitInput(v) PROVE AvailInv'
  <2> DEFINE t == [state EXCEPT !.vars[state.input] = v, !.input = None]
  <2>1. Keeps(state, t) /\ t.ended = state.ended
    BY <1>1 DEF Keeps, Shaped, Exact, Fields
  <2>2. run = None /\ UNCHANGED slots /\ Hosts(t)
    BY <1>3 DEF SubmitInput, Idle, Hosts
  <2>. QED  BY <2>1, <2>2, HostsAvail
<1>4. ASSUME NEW v \in Values, ResolveMessage(v) PROVE AvailInv'
  <2> DEFINE t == Answered(state, v)
  <2>1. Keeps(state, t) /\ t.ended = state.ended
    BY <1>1 DEF Answered, Keeps, Shaped, Exact, Fields
  <2>2. run = None /\ UNCHANGED slots /\ Hosts(t)
    BY <1>4 DEF ResolveMessage, Idle, Hosts
  <2>. QED  BY <2>1, <2>2, HostsAvail
<1>. QED  BY <1>2, <1>3, <1>4

(* A step keeps a boundary in front of what a save would lose.             *)
LEMMA FinishAvail ==
  ASSUME AvailInv, run # None, UNCHANGED slots, NEW s, NEW kept,
         ~Exact(s) => kept # None, Fields \subseteq DOMAIN s, NEW out, Finish(s, out, kept)
  PROVE  AvailInv'
<1> DEFINE done == [s EXCEPT !.diagnostic = out \in {"error", "limit"}]
<1>1. /\ run' = None /\ state' = Kept(done, out) /\ checkpoint' = Capture(kept, done)
  BY DEF Finish, AvailInv
<1>2. done.live = s.live /\ done.ended = s.ended
      /\ Kept(done, out).live = s.live /\ Kept(done, out).ended = s.ended
  BY DEF Kept, Fields
<1>3. (Exact(done) <=> Exact(s)) /\ (Exact(state') <=> Exact(s))
  BY <1>1, <1>2 DEF Exact
<1>4. ~state'.ended /\ ~Exact(state') => checkpoint' # None
  BY <1>1, <1>3 DEF Capture
<1>. QED  BY <1>1, <1>4 DEF AvailInv

LEMMA StepAvail ==
  ASSUME EngineInv, AvailInv, Step
  PROVE  AvailInv'
<1>1. run # None
  BY DEF Step, StepRefused, StepAction, StepPop, StepFallOff, StepLimit, MayRun
<1>2. /\ Shaped(state) /\ ~state.ended /\ run \in Run /\ ~run.tooling
      /\ ~Exact(state) => checkpoint # None
  BY <1>1 DEF EngineInv, CheckpointInv, AvailInv
<1>3. CASE StepRefused \/ StepFallOff \/ StepLimit
  <2>1. PICK out \in {"await", "end", "limit"} : Finish(state, out, checkpoint)
    BY <1>3 DEF StepRefused, StepFallOff, StepLimit
  <2>2. UNCHANGED slots
    BY <2>1 DEF Finish
  <2>. QED  BY <1>1, <1>2, <2>1, <2>2, FinishAvail DEF Shaped
<1>4. CASE StepPop
  <2>1. Keeps(state, PopFrame(state))
    BY <1>2, PopFrameKeeps
  <2>2. /\ state' = PopFrame(state) /\ UNCHANGED <<checkpoint, slots>>
        /\ run' = [run EXCEPT !.fuel = @ - 1]
    BY <1>4 DEF StepPop
  <2>3. run'.tooling = run.tooling
    BY <1>2, <2>2 DEF Run
  <2>. QED  BY <1>2, <2>1, <2>2, <2>3 DEF AvailInv, Keeps
<1>5. CASE StepAction
  <2> DEFINE a == ActionAt(state)
             done == ExecFlow(state, a)
             kept == IF Introduces(a) /\ ~run.tooling THEN Capture(checkpoint, state)
                                                      ELSE checkpoint
  <2>1. Yields(state, a, done.st)
    BY <1>2, <1>5, FlowYields DEF StepAction
  <2>2. IF done.out = "go"
          THEN /\ state' = done.st /\ checkpoint' = kept
               /\ run' = [run EXCEPT !.fuel = @ - 1]
               /\ UNCHANGED <<attached, returning, slots>>
          ELSE Finish(done.st, done.out, kept)
    BY <1>5 DEF StepAction
  <2>. HIDE DEF done
  <2>3. Shaped(done.st) /\ (Exact(state) /\ ~Introduces(a) => Exact(done.st))
    BY <2>1 DEF Yields
  <2>4. state # None
    BY NoValue DEF EngineInv, StateInv, Sound
  <2>5. ~Exact(done.st) => kept # None
    BY <1>2, <2>3, <2>4 DEF Capture
  <2>. HIDE DEF kept, a
  <2>6. CASE done.out = "go"
    <3>1. /\ state' = done.st /\ checkpoint' = kept /\ UNCHANGED slots
          /\ run' = [run EXCEPT !.fuel = @ - 1]
      BY <2>2, <2>6
    <3>2. run'.tooling = run.tooling
      BY <1>2, <3>1 DEF Run
    <3>. QED  BY <1>2, <2>5, <3>1, <3>2 DEF AvailInv
  <2>7. CASE done.out # "go"
    <3>1. Finish(done.st, done.out, kept) /\ UNCHANGED slots
      BY <2>2, <2>7 DEF Finish
    <3>. QED  BY <1>1, <2>3, <2>5, <3>1, FinishAvail DEF Shaped
  <2>. QED  BY <2>6, <2>7
<1>. QED  BY <1>3, <1>4, <1>5 DEF Step

(* What is written can be written again.                                   *)
LEMMA SlotsExact ==
  ASSUME EngineInv, AvailInv, [Next]_vars
  PROVE  \A i \in SaveSlots : slots'[i] # None => Exact(slots'[i])
<1>. SUFFICES ASSUME NEW i \in SaveSlots, slots'[i] # None
              PROVE  Exact(slots'[i])
  OBVIOUS
<1>1. CASE slots'[i] = slots[i]
  BY <1>1 DEF AvailInv
<1>2. CASE slots'[i] # slots[i]
  BY <1>2, SlotWrites, ContinuationSound, SavedSound
<1>. QED  BY <1>1, <1>2

LEMMA HostAvail ==
  ASSUME EngineInv, AvailInv, EveryProgramStarts, LeftoversAreSaved, [Next]_vars,
         \/ \E p \in VideoSlots : VideoEnds(p)
         \/ \E i \in SaveSlots : SaveSlot(i) \/ LoadSlot(i) \/ DeleteSlot(i)
         \/ \E i \in 1..BacklogCapacity : Rollback(i)
         \/ DispatchShell \/ BackToTitle \/ ReturnCover \/ ReturnReveal
         \/ StartGame \/ Continue
         \/ \E fp \in Fingerprints : Exit(fp) \/ Crash(fp)
  PROVE  AvailInv'
<1>1. /\ Sound(state) /\ Shaped(state) /\ state \in StateType
      /\ state.fp \in Fingerprints
      /\ \A i \in SaveSlots : slots'[i] # None => Exact(slots'[i])
  BY SlotsExact DEF EngineInv, StateInv, Sound, CheckpointInv, Shaped
<1>2. ASSUME NEW p, VideoEnds(p) PROVE AvailInv'
  <2>1. /\ {p} \in SUBSET Active(state) /\ run = None /\ UNCHANGED slots
        /\ state' = Settle(state, {p}) /\ UNCHANGED <<run, checkpoint>>
    BY <1>2 DEF VideoEnds, Idle
  <2>2. Keeps(state, state') /\ state'.ended = state.ended
    BY <1>1, <2>1, SettleKeeps
  <2>. QED  BY <2>1, <2>2, HostsAvail DEF Hosts
<1>3. ASSUME DispatchShell \/ ReturnCover PROVE AvailInv'
  <2>1. state' = EndGame(state) /\ run' = None
    BY <1>3 DEF DispatchShell, ReturnCover, Idle
  <2>. QED  BY <1>1, <2>1, EndGameSound, ExactAvail
<1>4. ASSUME BackToTitle \/ ReturnReveal \/ \E i \in SaveSlots : SaveSlot(i) \/ DeleteSlot(i)
      PROVE  AvailInv'
  <2>1. UNCHANGED <<state, run, checkpoint>>
    BY <1>4 DEF BackToTitle, ReturnReveal, SaveSlot, DeleteSlot
  <2>. QED  BY <1>1, <2>1 DEF AvailInv
<1>5. ASSUME NEW i \in SaveSlots, slots[i] # None, run' = None,
             state' = RestoreSaved(state, slots[i])
      PROVE  AvailInv'
  <2>1. Sound(slots[i]) /\ ~slots[i].ended /\ Exact(slots[i])
    BY <1>5 DEF EngineInv, SlotsInv, Storable, AvailInv
  <2>2. Exact(state')
    BY <1>1, <1>5, <2>1, RestoreSavedSound
  <2>. QED  BY <1>1, <1>5, <2>2, ExactAvail
<1>6. ASSUME NEW i \in SaveSlots, LoadSlot(i) PROVE AvailInv'
  BY <1>5, <1>6 DEF LoadSlot, Playing, Title, Idle
<1>7. ASSUME Continue PROVE AvailInv'
  BY <1>5, <1>7, SlotNumbers DEF Continue, Title, Idle
<1>8. ASSUME NEW i, Rollback(i) PROVE AvailInv'
  <2> DEFINE e == state.backlog[i]
  <2>1. /\ run' = None /\ i \in 1..Len(state.backlog)
        /\ state' = RestoreBacklog(state, i)
    BY <1>8 DEF Rollback, Playing, Idle
  <2>2. state'.live = [p \in Slots |-> IF p \in InSnapshot THEN e.live[p]
                                       ELSE IF p \in KeptByRollback THEN state.live[p]
                                       ELSE "off"]
    BY <1>1, <2>1, RestoreBacklogSound
  <2>3. Shows(state.fp, e.live) /\ Shows(state.fp, state.live)
    BY <1>1, <2>1 DEF Sound, Logged, Recorded
  <2>. HIDE DEF e
  <2>4. \A p \in Transient : state'.live[p] = "off"
    BY <1>1, <2>2, <2>3, SlotSets DEF Shows, LeftoversAreSaved
  <2>. QED  BY <1>1, <2>1, <2>4, ExactAvail DEF Exact
<1>9. ASSUME StartGame PROVE AvailInv'
  <2> DEFINE begun == [state EXCEPT !.ended = FALSE, !.backlog = <<>>,
                                    !.scene = EntryScene[state.fp], !.cursor = 0]
  <2>1. /\ state.ended /\ state' = begun
        /\ run' = [fuel |-> MaxForward, restore |-> FALSE, tooling |-> FALSE]
    BY <1>9 DEF StartGame, Title, Begin
  <2>2. begun.live = state.live
    BY <1>1, <2>1, BegunSound
  <2>3. \A p \in Transient : state.live[p] = "off"
    <3>1. \A p \in Transient \ KeptByEnd : state.live[p] = "off"
      BY <1>1, <2>1, SlotSets DEF Sound, Rests, Dropped
    <3>2. \A p \in Transient \cap KeptByEnd : state.live[p] = "off"
      BY <1>1, SlotSets DEF Sound, Shows, LeftoversAreSaved
    <3>. QED  BY <3>1, <3>2
  <2>. HIDE DEF begun
  <2>4. Exact(state') /\ ~run'.tooling
    BY <2>1, <2>2, <2>3 DEF Exact
  <2>. QED  BY <1>1, <2>4 DEF AvailInv
<1>10. ASSUME NEW fp \in Fingerprints, Exit(fp) \/ Crash(fp) PROVE AvailInv'
  <2>1. state' = Fresh(fp) /\ run' = None
    BY <1>10 DEF Exit, Crash, Launched
  <2>. QED  BY <1>1, <2>1, FreshSound, ExactAvail
<1>. QED  BY <1>2, <1>3, <1>4, <1>6, <1>7, <1>8, <1>9, <1>10

(* While a game is played a save is possible at any moment: the live State  *)
(* or the checkpoint can be written.  A hot reload restarts a scene with no *)
(* boundary, and a parallax or sprite sequence that survives a rollback     *)
(* leaves none: without them there always is one.                           *)
THEOREM SavesAreAvailable ==
  ASSUME EveryProgramStarts, LeftoversAreSaved, NoReload
  PROVE  Spec => []SaveAvailable
<1>1. Init => AvailInv
  BY EngineInit, FreshSound DEF Init, AvailInv
<1>2. EngineInv /\ AvailInv /\ [Next]_vars => AvailInv'
  <2>. SUFFICES ASSUME EngineInv, AvailInv, [Next]_vars PROVE AvailInv'
    OBVIOUS
  <2>1. CASE UNCHANGED vars
    BY <2>1 DEF vars, AvailInv
  <2>2. ASSUME NEW fp, Reload(fp) PROVE FALSE
    BY <2>2 DEF Reload, NoReload
  <2>3. CASE \/ \E p \in VideoSlots : VideoEnds(p)
             \/ \E i \in SaveSlots : SaveSlot(i) \/ LoadSlot(i) \/ DeleteSlot(i)
             \/ \E i \in 1..BacklogCapacity : Rollback(i)
             \/ DispatchShell \/ BackToTitle \/ ReturnCover \/ ReturnReveal
             \/ StartGame \/ Continue
             \/ \E fp \in Fingerprints : Exit(fp) \/ Crash(fp)
    BY <2>3, HostAvail
  <2>. QED  BY <2>1, <2>2, <2>3, StepAvail, TickAvail, AnswerAvail DEF Next
<1>3. EngineInv /\ AvailInv => SaveAvailable
  <2>. SUFFICES ASSUME EngineInv, AvailInv, Playing PROVE Continuation # None
    BY DEF SaveAvailable
  <2>1. run = None /\ ~state.ended
    BY DEF Playing, Idle
  <2>2. state # None
    BY NoValue DEF EngineInv, StateInv, Sound
  <2>3. ~Exact(state) => checkpoint # None /\ checkpoint.fp = state.fp
    BY <2>1 DEF AvailInv, EngineInv, CheckpointInv, Tooling
  <2>. QED  BY <2>2, <2>3 DEF Continuation
<1>. QED  BY <1>1, <1>2, <1>3, EngineInit, EngineStep, PTL DEF Spec
===============================================================================
