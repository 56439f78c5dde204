---------------------------- MODULE AuthoringPreview ----------------------------
(***************************************************************************)
(* The editor's preview: a mailbox the window fills, a control thread that *)
(* takes one command at a time and asks the engine process one request at  *)
(* a time, and the engine, which keeps the open documents over the files   *)
(* of the project, rebuilds the game from them and publishes on its own    *)
(* where it is.  The engine may die or be slow at any moment; the next     *)
(* start sends everything again.  Texts are taken up to their layout: a    *)
(* save formats its document without telling the preview.                  *)
(***************************************************************************)
EXTENDS Naturals, Sequences, OpenScripts

VARIABLES
  docs,             \* the texts of the writer
  panels,           \* each document's panel
  box,              \* PendingCommands
  worker,           \* the control thread
  wire, answers,    \* requests and responses on their way
  engine,           \* the process, or None
  published,        \* the revision of the last ExecutionLocation, or None
  shown,            \* PreviewSnapshot
  edits, clicks
window == <<docs, panels, edits, clicks>>
link == <<wire, answers, engine, published>>
preview == <<window, box, worker, link, shown>>

(* A panel has passed its text on ("open"), runs a debounce, or is being   *)
(* typed into as a block; a document without one is kept when it is dirty. *)
Tabs == {"open", "due", "typing"}
Waits == {"launch", "resend", "start", "source", "cursor", "variable"}
Request == [kind : Waits, path : Documents \cup {None}, old : Scripts \cup {None},
            text : Scripts \cup {None},
            base : Nat \cup {None}, revision : Nat, mine : BOOLEAN]
Answer == [ok : BOOLEAN, stale : BOOLEAN, mine : BOOLEAN]
Process == [live : BOOLEAN, running : BOOLEAN, documents : Overlay, revision : Nat,
            applied : Nat, plays : Overlay]
ASSUME NoProcess == None \notin Process

PreviewType ==
  /\ docs \in [Documents -> Scripts]
  /\ panels \in [Documents -> Tabs \cup {"kept", "closed"}]
  /\ box \in [control : Seq({"Start", "Stop", "Fail", "SetVariable"}), sources : Overlay,
              cursor : BOOLEAN, failed : BOOLEAN]
  /\ worker \in [at : Waits \cup {"idle"}, known : Overlay, todo : SUBSET Documents, revision : Nat]
  /\ engine \in Process \cup {None}
  /\ wire \in Seq(Request) /\ answers \in Seq(Answer)
  /\ published \in Nat \cup {None}
  /\ shown \in [life : {"Off", "Starting", "Running", "Failed"}, revision : Nat,
                position : Nat \cup {None}]
  /\ edits \in 0..MaxEdits /\ clicks \in 0..MaxClicks
  /\ engine = None => wire = << >> /\ answers = << >>
  /\ worker.at \in Waits => engine # None


-------------------------------------------------------------------------------
(* PendingCommands.                                                        *)

Emptied == [control |-> <<"Fail">>, sources |-> NoScripts, cursor |-> FALSE, failed |-> TRUE]
Pushed(b, p, text) ==
  LET more == [b.sources EXCEPT ![p] = text]
  IN  IF b.failed THEN b ELSE IF Total(more) > Budget THEN Emptied
      ELSE [b EXCEPT !.sources = more]
Preempt(b, command) == [b EXCEPT !.control = <<command>>, !.cursor = FALSE]
Intend(b, command) ==
  IF b.failed /\ command = "Start" THEN b
  ELSE [b EXCEPT !.control = Append(SelectSeq(@, LAMBDA c : c # command), command)]
(* apply_sources: the documents the editor holds replace what waits.       *)
Held == [p \in Documents |-> IF panels[p] = "closed" THEN None ELSE docs[p]]
Fits == Total(Held) <= Budget
AllSources(b) ==
  IF Fits THEN [b EXCEPT !.sources = Held, !.failed = FALSE,
                         !.control = SelectSeq(@, LAMBDA c : c # "Fail")]
  ELSE Emptied
Pops(command) ==
  /\ box.control # << >> /\ Head(box.control) = command
  /\ command = "Start" => Known(box.sources) = {}
  /\ box' = [box EXCEPT !.control = Tail(@)]
First(texts) == CHOOSE p \in Known(texts) : TRUE

-------------------------------------------------------------------------------
(* The window.                                                             *)

(* While a block is typed into nothing is passed on, whatever else changes. *)
Edit(p, text, block) ==
  /\ panels[p] \in Tabs /\ text # docs[p] /\ edits < MaxEdits /\ edits' = edits + 1
  /\ docs' = [docs EXCEPT ![p] = text]
  /\ panels' = [panels EXCEPT ![p] = IF block \/ @ = "typing" THEN "typing" ELSE "due"]
  /\ UNCHANGED <<clicks, box, worker, link, shown>>
PassOn(p) ==
  /\ panels' = [panels EXCEPT ![p] = "open"] /\ box' = Pushed(box, p, docs[p])
  /\ UNCHANGED <<docs, edits, worker, link, shown>>
Debounced(p) == panels[p] = "due" /\ PassOn(p) /\ UNCHANGED clicks
(* finish_block_text_edit, when the block loses the focus.                 *)
LeaveBlock(p) == panels[p] = "typing" /\ PassOn(p) /\ UNCHANGED clicks
(* The timer and the block die with their panel, and what they have not    *)
(* passed on stays behind.  Opening a document passes its text on.  What   *)
(* lies on the disk under a closed document is taken to compile.           *)
CloseTab(p) ==
  /\ panels[p] \in Tabs /\ clicks < MaxClicks /\ clicks' = clicks + 1
  /\ \/ panels' = [panels EXCEPT ![p] = "kept"]
     \/ docs[p] \notin Refused /\ panels' = [panels EXCEPT ![p] = "closed"]
  /\ UNCHANGED <<docs, edits, box, worker, link, shown>>
OpenTab(p) == panels[p] \notin Tabs /\ PassOn(p) /\ UNCHANGED clicks
Click(b) ==
  /\ clicks < MaxClicks /\ clicks' = clicks + 1 /\ box' = b
  /\ UNCHANGED <<docs, panels, edits, worker, link, shown>>
On == shown.life \in {"Running", "Starting"}
Toggle ==
  \/ On /\ Click(Preempt(box, "Stop"))
  \/ ~On /\ Click(IF Fits THEN Intend(AllSources(box), "Start") ELSE AllSources(box))
RunBlock ==
  Click(IF ~Fits THEN AllSources(box)
        ELSE [(IF On THEN AllSources(box) ELSE Intend(AllSources(box), "Start"))
              EXCEPT !.cursor = TRUE])
SetCursor == ~box.failed /\ Click([box EXCEPT !.cursor = TRUE])
SetVariable == shown.position # None /\ Click(Intend(box, "SetVariable"))

-------------------------------------------------------------------------------
(* The control thread.                                                     *)

Ask(request) == wire' = Append(wire, request)
Plain(kind, revision) ==
  [kind |-> kind, path |-> None, old |-> None, text |-> None, base |-> None,
   revision |-> revision, mine |-> TRUE]
Snapshot(kind, p, text, revision) ==
  [Plain(kind, revision) EXCEPT !.path = p, !.text = text]
GoTo(step) == worker' = [worker EXCEPT !.at = step]
Gone == engine' = None /\ wire' = << >> /\ answers' = << >> /\ published' = None
Fail ==
  /\ Gone /\ GoTo("idle")
  /\ shown' = [shown EXCEPT !.life = "Failed", !.position = None]

HandleStop ==
  /\ worker.at = "idle" /\ Pops("Stop") /\ Gone
  /\ shown' = [shown EXCEPT !.life = "Off", !.position = None]
  /\ UNCHANGED <<window, worker>>
HandleFail == worker.at = "idle" /\ Pops("Fail") /\ Fail /\ UNCHANGED window
HandleVariable ==
  /\ worker.at = "idle" /\ Pops("SetVariable")
  /\ IF engine = None THEN UNCHANGED <<wire, worker>>
     ELSE Ask(Plain("variable", worker.revision)) /\ GoTo("variable")
  /\ UNCHANGED <<window, answers, engine, published, shown>>
NewProcess == [live |-> TRUE, running |-> FALSE, documents |-> NoScripts, revision |-> 0,
               applied |-> 0, plays |-> NoScripts]
HandleStart ==
  /\ worker.at = "idle" /\ Pops("Start") /\ UNCHANGED window
  /\ IF engine # None THEN UNCHANGED <<worker, link, shown>>
     ELSE \/ /\ shown' = [shown EXCEPT !.life = "Starting"]
             /\ engine' = NewProcess /\ UNCHANGED <<answers, published>>
             /\ Ask(Plain("launch", 0)) /\ worker' = [worker EXCEPT !.at = "launch", !.todo = Known(worker.known)]
          \/ Fail

(* apply_snapshot: the text is kept first, then sent, as a patch when the   *)
(* one before it is known and the difference is small.                     *)
NextSource ==
  /\ worker.at = "idle" /\ Known(box.sources) # {}
  /\ (box.control # << >> => Head(box.control) = "Start")
Keep(p, text) == [worker EXCEPT !.known[p] = text]
Send(p, text) ==
  LET r == worker.revision + 1
      old == worker.known[p]
      patch == [Snapshot("source", p, text, r) EXCEPT !.old = old, !.base = worker.revision]
  IN  /\ \/ Ask(Snapshot("source", p, text, r))
         \/ old # None /\ Ask(patch)
      /\ worker' = [Keep(p, text) EXCEPT !.revision = r, !.at = "source"]
(* Mutant: a text that arrives without an engine is not kept.              *)
SendOnly(p, text) ==
  IF engine = None THEN UNCHANGED <<wire, worker>> ELSE Send(p, text)
TakeSource(p, text) ==
  IF engine = None \/ worker.known[p] = text
  THEN worker' = Keep(p, text) /\ UNCHANGED wire
  ELSE Send(p, text)
HandleSource ==
  /\ NextSource
  /\ LET p == First(box.sources) IN
     box' = [box EXCEPT !.sources[p] = None] /\ TakeSource(p, box.sources[p])
  /\ UNCHANGED <<window, answers, engine, published, shown>>
(* set_cursor: nothing is asked twice for the same place and revision.     *)
HandleCursor ==
  /\ worker.at = "idle" /\ box.control = << >> /\ Known(box.sources) = {} /\ box.cursor
  /\ box' = [box EXCEPT !.cursor = FALSE]
  /\ \/ UNCHANGED <<wire, worker>>
     \/ engine # None /\ Ask(Plain("cursor", worker.revision)) /\ GoTo("cursor")
  /\ UNCHANGED <<window, answers, engine, published, shown>>

(* start: hello, open, validate; every known text under a new revision;     *)
(* start_preview.                                                          *)
Resend(todo) ==
  IF todo = {} THEN Ask(Plain("start", worker.revision)) /\ GoTo("start")
  ELSE LET p == CHOOSE q \in todo : TRUE
           r == worker.revision + 1
       IN  /\ Ask(Snapshot("resend", p, worker.known[p], r))
           /\ worker' = [worker EXCEPT !.at = "resend", !.todo = todo \ {p}, !.revision = r]
PreviewRuns ==
  /\ shown' = [life |-> "Running", revision |-> worker.revision, position |-> None]
  /\ \/ UNCHANGED wire /\ GoTo("idle")
     \/ Ask(Plain("cursor", worker.revision)) /\ GoTo("cursor")
Reloaded ==
  /\ shown' = [shown EXCEPT !.revision = worker.revision, !.position = None]
  /\ GoTo("idle") /\ UNCHANGED wire
Sought(ok) ==
  /\ shown' = [shown EXCEPT !.position = IF ok THEN worker.revision ELSE @]
  /\ GoTo("idle") /\ UNCHANGED wire
Accept(answer) ==
  /\ CASE worker.at \in {"launch", "resend"} -> Resend(worker.todo) /\ UNCHANGED shown
       [] worker.at = "start" -> PreviewRuns
       [] worker.at = "source" -> Reloaded
       [] worker.at = "cursor" -> Sought(answer.ok)
       [] OTHER -> GoTo("idle") /\ UNCHANGED <<wire, shown>>
  /\ UNCHANGED <<engine, published>>
(* A variable that cannot be set is shown beside it, and what still comes   *)
(* for it belongs to no request; any other refusal ends the preview.       *)
NotMine(messages) == [i \in DOMAIN messages |-> [messages[i] EXCEPT !.mine = FALSE]]
Refuse(rest) ==
  \/ worker.at # "variable" /\ Fail
  \/ /\ worker.at = "variable" /\ GoTo("idle")
     /\ wire' = NotMine(wire) /\ answers' = NotMine(rest)
     /\ UNCHANGED <<engine, published, shown>>
(* Mutant: an answer is not compared with its request.                     *)
Trusts(answer) == answer.ok \/ (worker.at = "cursor" /\ ~answer.stale)
Accepts(answer) ==
  answer.mine /\ (answer.ok \/ (worker.at = "cursor" /\ ~answer.stale))
Answered ==
  /\ worker.at \in Waits /\ answers # << >>
  /\ LET answer == Head(answers) IN
     \/ Accepts(answer) /\ Accept(answer) /\ answers' = Tail(answers)
     \/ ~Accepts(answer) /\ Refuse(Tail(answers))
  /\ UNCHANGED <<window, box>>
(* recv_timeout; Closed: the end of the stream.                            *)
GiveUp ==
  /\ worker.at \in Waits /\ answers = << >> /\ Refuse(<< >>)
  /\ UNCHANGED <<window, box>>
Closed == engine # None /\ ~engine.live /\ GiveUp

(* poll_position.                                                          *)
(* Mutant: the revision of what was published is not looked at.            *)
TakeAny == shown' = [shown EXCEPT !.position = published]
TakePublished ==
  shown' = IF published = worker.revision THEN [shown EXCEPT !.position = published] ELSE shown
Poll ==
  /\ worker.at = "idle" /\ engine # None
  /\ \/ ~engine.live /\ Fail
     \/ /\ engine.live /\ published # None /\ TakePublished /\ published' = None
        /\ UNCHANGED <<worker, wire, answers, engine>>
  /\ UNCHANGED <<window, box>>

-------------------------------------------------------------------------------
(* The engine's session.                                                   *)

Say(ok, stale, mine) == answers' = Append(answers, [ok |-> ok, stale |-> stale, mine |-> mine])
(* reload_source: a refused text leaves what was built before.             *)
Reload(e) ==
  IF e.running /\ Compiles(e.documents)
  THEN [e EXCEPT !.applied = e.revision, !.plays = e.documents] ELSE e
Stores(r, text) ==
  engine' = Reload([engine EXCEPT !.documents[r.path] = text, !.revision = r.revision])
CommitSnapshot(r) ==
  IF r.revision > engine.revision
  THEN Stores(r, r.text) /\ Say(TRUE, FALSE, r.mine)
  ELSE UNCHANGED engine /\ Say(FALSE, TRUE, r.mine)
(* A difference laid over another text gives some text.                    *)
ApplyPatch(r) ==
  IF r.base = engine.revision /\ engine.documents[r.path] # None
  THEN /\ IF engine.documents[r.path] = r.old THEN Stores(r, r.text)
          ELSE \E text \in Scripts : Stores(r, text)
       /\ Say(TRUE, FALSE, r.mine)
  ELSE UNCHANGED engine /\ Say(FALSE, r.base # engine.revision, r.mine)
StartPreview(r) ==
  IF Compiles(engine.documents)
  THEN /\ engine' = Reload([engine EXCEPT !.running = TRUE, !.revision = r.revision])
       /\ Say(TRUE, FALSE, r.mine)
  ELSE UNCHANGED engine /\ Say(FALSE, FALSE, r.mine)
Seek(r) ==
  /\ UNCHANGED engine
  /\ IF r.revision # engine.revision THEN Say(FALSE, TRUE, r.mine)
     ELSE \/ engine.running /\ engine.applied = r.revision /\ Say(TRUE, FALSE, r.mine)
          \/ Say(FALSE, FALSE, r.mine)
Serve ==
  /\ engine # None /\ engine.live /\ wire # << >> /\ wire' = Tail(wire)
  /\ LET r == Head(wire) IN
     \/ r.kind \in {"launch", "variable"} /\ UNCHANGED engine /\ Say(TRUE, FALSE, r.mine)
     \/ r.kind \in {"resend", "source"} /\ r.base = None /\ CommitSnapshot(r)
     \/ r.kind = "source" /\ r.base # None /\ ApplyPatch(r)
     \/ r.kind = "start" /\ StartPreview(r)
     \/ r.kind = "cursor" /\ Seek(r)
  /\ UNCHANGED <<window, box, worker, published, shown>>
(* publish_live_position, when the game has moved.                         *)
Publish ==
  /\ engine # None /\ engine.live /\ engine.running /\ published' = engine.applied
  /\ UNCHANGED <<window, box, worker, wire, answers, engine, shown>>
(* Its window is closed, or it crashes.                                    *)
Dies ==
  /\ engine # None /\ engine.live /\ engine' = [engine EXCEPT !.live = FALSE]
  /\ UNCHANGED <<window, box, worker, wire, answers, published, shown>>

-------------------------------------------------------------------------------
PreviewInit ==
  /\ docs \in [Documents -> Scripts] /\ Compiles(docs)
  /\ panels = [p \in Documents |-> "open"]
  /\ box = [control |-> << >>, sources |-> NoScripts, cursor |-> FALSE, failed |-> FALSE]
  /\ worker = [at |-> "idle", known |-> NoScripts, todo |-> {}, revision |-> 0]
  /\ wire = << >> /\ answers = << >> /\ engine = None /\ published = None
  /\ shown = [life |-> "Off", revision |-> 0, position |-> None]
  /\ edits = 0 /\ clicks = 0
Writer ==
  \/ \E p \in Documents, text \in Scripts, block \in BOOLEAN : Edit(p, text, block)
  \/ \E p \in Documents : LeaveBlock(p) \/ CloseTab(p) \/ OpenTab(p)
  \/ Toggle \/ RunBlock \/ SetCursor \/ SetVariable
Debounce == \E p \in Documents : Debounced(p)
Handle ==
  \/ HandleStop \/ HandleFail \/ HandleVariable \/ HandleStart
  \/ HandleSource \/ HandleCursor
Thread == Handle \/ Answered
PreviewNext == Writer \/ Debounce \/ Thread \/ GiveUp \/ Poll \/ Serve \/ Publish \/ Dies
(* Timers end, the thread takes what waits and hears what comes, the engine *)
(* answers while it lives.  Nothing is assumed of the writer, who may stay  *)
(* in a block for ever.                                                    *)
PreviewFairness ==
  /\ WF_preview(Debounce) /\ WF_preview(Thread) /\ WF_preview(Closed)
  /\ WF_preview(Poll) /\ WF_preview(Serve)
PreviewSpec == PreviewInit /\ [][PreviewNext]_preview

-------------------------------------------------------------------------------
Attended == engine # None /\ engine.live /\ engine.running /\ worker.at = "idle"
(* Between two requests editor and engine agree on every text that was     *)
(* sent and on its revision, so no patch meets another text than its own   *)
(* and no request is refused as stale; the game plays these texts unless   *)
(* one does not compile.                                                   *)
Synced ==
  /\ \A i \in DOMAIN answers : answers[i].mine => ~answers[i].stale
  /\ Attended =>
       /\ engine.documents = worker.known /\ engine.revision = worker.revision
       /\ Compiles(worker.known) =>
            engine.plays = worker.known /\ engine.applied = worker.revision

(* A place shown in the documents belongs to the texts the engine got last.*)
ShownIsCurrent ==
  shown.position # None => shown.position = shown.revision /\ shown.life = "Running"

(* A preview that goes on running ends up with the text of every document  *)
(* that stays in its tab, outside of its blocks: no edit of it is lost     *)
(* between debounce, mailbox, thread, restart and engine, also when its    *)
(* tab was closed before the debounce ended and opened again.              *)
Watched(p) == shown.life = "Running" /\ panels[p] \in Tabs \ {"typing"}
Delivered ==
  \A p \in Documents :
    <>[]Watched(p) => <>[](engine # None /\ engine.documents[p] = docs[p])
===============================================================================
