------------------------------- MODULE MCScript -------------------------------
(* Small programs and bounds for model checking ScriptEngine. *)
EXTENDS ScriptEngine, TLC

Always == [kind |-> "always", var |-> "v", val |-> "x"]
IsX == [Always EXCEPT !.kind = "is"]
Failing == [Always EXCEPT !.kind = "bad"]

Base == [op |-> "nop", when |-> Always, next |-> FALSE, strict |-> FALSE,
         auto |-> FALSE, cond |-> Always, label |-> -1, scene |-> "main",
         other |-> None, slot |-> "wait", hold |-> "block", var |-> "v",
         val |-> Unset, choices |-> {}]
Op(op) == [Base EXCEPT !.op = op]
SayLine == Op("say")
SayNext == [SayLine EXCEPT !.next = TRUE]
SayAuto == [SayLine EXCEPT !.auto = TRUE]
SayFailing == [SayLine EXCEPT !.strict = TRUE, !.cond = Failing]
Goto(label) == [Op("jump") EXCEPT !.label = label]
GotoIf(cond, label) == [Goto(label) EXCEPT !.cond = cond, !.strict = TRUE]
CallTo(scene) == [Op("call") EXCEPT !.scene = scene]
SceneTo(scene) == [Op("scene") EXCEPT !.scene = scene]
SetTo(val) == [Op("set") EXCEPT !.val = val]
Show(slot, hold, next) ==
  [Op("present") EXCEPT !.slot = slot, !.hold = hold, !.next = next]
Stop(slot, hold) == [Op("stopvideo") EXCEPT !.slot = slot, !.hold = hold]

Pick == [show |-> Always, enable |-> Always, kind |-> "continue", label |-> 0,
         scene |-> "main", var |-> "v", val |-> "x"]
PickLabel(label) == [Pick EXCEPT !.kind = "label", !.label = label]
PickScene(scene) == [Pick EXCEPT !.kind = "scene", !.scene = scene]
PickCall(scene) == [Pick EXCEPT !.kind = "call", !.scene = scene]
PickSet(val) == [Pick EXCEPT !.kind = "assign", !.val = val]
PickIf(cond) == [Pick EXCEPT !.show = cond]
PickLocked == [Pick EXCEPT !.enable = Failing]
Ask(choices, strict) ==
  [Op("menu") EXCEPT !.choices = choices, !.strict = strict]

Empty == ""
MCScenes == {"main", "side", "lost"}
MCVars == {"v", "s"}
MCValues == {"x", "y"}
MCSession == {"s"}

-------------------------------------------------------------------------------
(* Control flow: calls, menus of both kinds, jumps, errors and the limit.  *)
(* The second program moves the background: its place and the animation    *)
(* outlive the game, its place is in the snapshots of the backlog.         *)
FlowProgram ==
  "p" :> ("main" :> <<
            SayNext, CallTo("side"),
            Ask({PickLabel(4), PickCall("side"), PickSet("x"), PickSet(Bad),
                 PickLocked, PickIf(IsX), PickScene("lost")}, FALSE),
            Op("title"),
            GotoIf(IsX, 4), SayLine, Ask({PickIf(IsX)}, TRUE), Op("end") >>
          @@ "side" :> <<
            [Op("message") EXCEPT !.when = IsX, !.val = "y"], Op("advance"),
            Op("input"), [Op("return") EXCEPT !.when = IsX] >>)
  @@ "q" :> ("main" :> <<
            Show("place", "loop", FALSE), SayAuto, Show("background", "block", FALSE),
            Op("message"), SetTo(Bad), SayFailing,
            Ask({PickIf(Failing), Pick}, TRUE) >>)
FlowSlots == {"wait", "background", "place"}
FlowKept == {"background", "place"}
FlowEntry == [fp \in {"p", "q"} |-> "main"]
FlowCommands == {"reload", "rollback", "title"}

-------------------------------------------------------------------------------
(* Presentations against saves: camera moves and videos that a slot cannot *)
(* hold, a moving background that it can and that outlives the game, and a *)
(* stage mask, which a snapshot of the backlog carries in memory only.     *)
StageProgram ==
  "p" :> ("main" :> <<
            Show("video", "loop", FALSE), SayLine, Show("camera", "block", FALSE),
            Stop("video", "on"), Show("background", "block", FALSE),
            Show("mask", "loop", FALSE), SayNext, Show("mask", "off", FALSE),
            SceneTo("side") >>
          @@ "side" :> << SayNext, Show("video", "block", FALSE), SayLine >>)
  @@ "q" :> ("main" :> << SayLine >>)
StageSlots == {"wait", "background", "camera", "mask", "video"}
StageTransient == {"camera", "mask", "video"}
StageCommands == {"save", "load", "delete", "exit", "crash", "title"}

-------------------------------------------------------------------------------
(* Waiting: a line under a video, a timed wait, a curtain that stays and a *)
(* loop that never yields.                                                 *)
WaitProgram ==
  "p" :> ("main" :> <<
            SayNext, Show("video", "block", FALSE), Show("curtain", "block", FALSE),
            Ask({PickLabel(5), PickScene("side")}, FALSE), Op("advance"),
            Show("wait", "block", TRUE), Show("video", "block", FALSE), SayAuto >>
          @@ "side" :> << Op("nop"), Goto(0) >>)
WaitEntry == [fp \in {"p"} |-> "main"]
WaitCommands == {"title", "rollback", "crash"}

-------------------------------------------------------------------------------
(* A mouse parallax: neither saved, nor reset by end_game or a rollback.   *)
ParallaxProgram == "p" :> ("main" :> << Show("parallax", "loop", FALSE), SayLine >>)
ParallaxCommands == {"title"}

(* A script that simply ends.                                              *)
EndProgram == "p" :> ("main" :> << SayLine, Op("end"), SayLine >>)
EndCommands == {"exit"}
===============================================================================
