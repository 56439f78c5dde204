------------------------- MODULE AuthoringPreviewProofs -------------------------
(***************************************************************************)
(* The editor and its preview agree, for any documents, texts, budget and  *)
(* clicks: between two requests both sides have the same texts under the   *)
(* same revision, however slow the engine is and whenever it dies.  The    *)
(* argument follows the one request that is in progress: what the engine   *)
(* will make of it while it is on its way, and what it has made of it once *)
(* the answer is.                                                          *)
(***************************************************************************)
EXTENDS LiveSources, HotReloadProofs, SequenceTheorems, TLAPS

WorkerType == [at : Waits \cup {"idle"}, known : Overlay, todo : SUBSET Documents, revision : Nat]
ShownType == [life : {"Off", "Starting", "Running", "Failed"}, revision : Nat,
              position : Nat \cup {None}]
Mailed(b) == "sources" \in DOMAIN b /\ b.sources \in Overlay
Typed ==
  /\ docs \in [Documents -> Scripts] /\ Mailed(box)
  /\ worker \in WorkerType /\ engine \in Process \cup {None}
  /\ wire \in Seq(Request) /\ answers \in Seq(Answer)
  /\ shown \in ShownType /\ published \in Nat \cup {None}

-------------------------------------------------------------------------------
(* What an engine e has to do with a control thread w.                     *)

(* Both have the same texts, and the game plays them.                      *)
Agrees(e, w) ==
  /\ e.running /\ e.documents = w.known /\ e.revision = w.revision
  /\ Compiles(w.known) => e.plays = w.known /\ e.applied = w.revision
(* A new engine has got all texts but some.                                *)
Lacks(e, w, missing) ==
  /\ ~e.running /\ e.revision <= w.revision
  /\ \A p \in Documents : e.documents[p] = IF p \in missing THEN None ELSE w.known[p]
(* A request on its way: what the engine has before it comes to it.  A text *)
(* raises the revision by one and makes both sides the same.               *)
Resends(r, e, w) ==
  /\ Lacks(e, w, w.todo \cup {r.path}) /\ e.revision < w.revision
  /\ r.path \in Documents \ w.todo /\ r.text = w.known[r.path] /\ r.base = None
Changes(r, e, w) ==
  /\ e.running /\ w.revision = e.revision + 1
  /\ r.path \in Documents /\ r.text = w.known[r.path]
  /\ \A p \in Documents \ {r.path} : e.documents[p] = w.known[p]
  /\ r.base # None =>
       r.base = e.revision /\ r.old = e.documents[r.path] /\ e.documents[r.path] # None
Asked(r, e, w) ==
  /\ r.kind = w.at
  /\ r.kind # "launch" => r.revision = w.revision
  /\ r.kind = "launch" => Lacks(e, w, w.todo)
  /\ r.kind = "resend" => Resends(r, e, w)
  /\ r.kind = "start" => Lacks(e, w, {})
  /\ r.kind = "source" => Changes(r, e, w)
(* An answer on its way: what the editor may rely on.                      *)
Heard(a, e, w) ==
  /\ ~a.stale
  /\ w.at \in {"launch", "resend"} => Lacks(e, w, w.todo)
  /\ w.at = "start" => (a.ok => Agrees(e, w))
  /\ w.at = "source" => Agrees(e, w)
Steady(w) == w.at \in {"idle", "cursor", "variable"}

(* The request in progress is the last message on its way, there or back;   *)
(* those that were given up change nothing.                                *)
NoneMine(messages) == \A i \in 1..Len(messages) : ~messages[i].mine
OneRequest ==
  /\ \A i \in 1..Len(wire) :
       IF wire[i].mine THEN i = Len(wire) /\ Asked(wire[i], engine, worker)
       ELSE wire[i].kind = "variable"
  /\ \A i \in 1..Len(answers) :
       answers[i].mine => i = Len(answers) /\ wire = << >> /\ Heard(answers[i], engine, worker)
  /\ worker.at = "idle" => NoneMine(wire) /\ NoneMine(answers)
Linked ==
  /\ engine = None => wire = << >> /\ answers = << >> /\ worker.at = "idle"
  /\ engine # None => OneRequest /\ (Steady(worker) => Agrees(engine, worker))
(* Whatever changes the editor's revision takes back the place it shows.   *)
Placed ==
  /\ ShownIsCurrent
  /\ engine = None \/ worker.at \in {"launch", "resend", "start"} => shown.position = None
  /\ engine # None /\ Steady(worker) => shown.life = "Running" /\ shown.revision = worker.revision
  /\ worker.at = "source" => shown.life = "Running"
Inv == Typed /\ Linked /\ Placed

-------------------------------------------------------------------------------
LEMMA TailOf ==
  ASSUME NEW S, NEW s \in Seq(S), s # << >>
  PROVE  /\ Head(s) = s[1] /\ Head(s) \in S /\ Tail(s) \in Seq(S) /\ Len(Tail(s)) = Len(s) - 1
         /\ Len(s) \in Nat \ {0}
         /\ \A i \in 1..Len(Tail(s)) : Tail(s)[i] = s[i + 1] /\ i + 1 \in 1..Len(s)
OBVIOUS
LEMMA AppendOf ==
  ASSUME NEW S, NEW s \in Seq(S), NEW x \in S
  PROVE  /\ Append(s, x) \in Seq(S) /\ Len(Append(s, x)) = Len(s) + 1
         /\ Append(s, x)[Len(s) + 1] = x
         /\ \A i \in 1..Len(s) : Append(s, x)[i] = s[i]
OBVIOUS
(* Messages that were given up are of the same kind and nobody's.          *)
LEMMA GivenUp ==
  /\ \A s \in Seq(Request) : /\ NotMine(s) \in Seq(Request) /\ NoneMine(NotMine(s))
                             /\ Len(NotMine(s)) = Len(s)
                             /\ \A i \in 1..Len(s) : NotMine(s)[i].kind = s[i].kind
  /\ \A s \in Seq(Answer) : NotMine(s) \in Seq(Answer) /\ NoneMine(NotMine(s))
<1>1. ASSUME NEW s \in Seq(Request)
      PROVE  /\ NotMine(s) \in Seq(Request) /\ NoneMine(NotMine(s))
             /\ Len(NotMine(s)) = Len(s)
             /\ \A i \in 1..Len(s) : NotMine(s)[i].kind = s[i].kind
  <2>1. \A i \in 1..Len(s) : s[i] \in Request
    OBVIOUS
  <2>2. \A i \in 1..Len(s) : /\ [s[i] EXCEPT !.mine = FALSE] \in Request
                             /\ [s[i] EXCEPT !.mine = FALSE].kind = s[i].kind
                             /\ ~[s[i] EXCEPT !.mine = FALSE].mine
    BY <2>1 DEF Request
  <2>3. NotMine(s) = [i \in 1..Len(s) |-> [s[i] EXCEPT !.mine = FALSE]]
    BY DEF NotMine
  <2>4. NotMine(s) \in Seq(Request) /\ Len(NotMine(s)) = Len(s)
    BY <2>2, <2>3
  <2>. QED  BY <2>2, <2>3, <2>4 DEF NoneMine
<1>2. ASSUME NEW s \in Seq(Answer) PROVE NotMine(s) \in Seq(Answer) /\ NoneMine(NotMine(s))
  <2>1. \A i \in 1..Len(s) : s[i] \in Answer
    OBVIOUS
  <2>2. \A i \in 1..Len(s) : /\ [s[i] EXCEPT !.mine = FALSE] \in Answer
                             /\ ~[s[i] EXCEPT !.mine = FALSE].mine
    BY <2>1 DEF Answer
  <2>3. NotMine(s) = [i \in 1..Len(s) |-> [s[i] EXCEPT !.mine = FALSE]]
    BY DEF NotMine
  <2>. QED  BY <2>2, <2>3 DEF NoneMine
<1>. QED  BY <1>1, <1>2

LEMMA Processes ==
  /\ NoScripts \in Overlay /\ \A p \in Documents : NoScripts[p] = None
  /\ NewProcess \in Process
  /\ \A e \in Process : /\ e # None /\ e.documents \in Overlay /\ e.plays \in Overlay
                        /\ e.revision \in Nat /\ e.applied \in Nat /\ e.running \in BOOLEAN
<1>1. NoScripts \in Overlay /\ \A p \in Documents : NoScripts[p] = None
  BY DEF NoScripts, Overlay
<1>2. NewProcess \in Process
  BY <1>1 DEF NewProcess, Process
<1>3. ASSUME NEW e \in Process
      PROVE  /\ e # None /\ e.documents \in Overlay /\ e.plays \in Overlay
             /\ e.revision \in Nat /\ e.applied \in Nat /\ e.running \in BOOLEAN
  BY NoProcess DEF Process
<1>. QED  BY <1>1, <1>2, <1>3

LEMMA PlainOf ==
  ASSUME NEW kind \in Waits, NEW rev \in Nat
  PROVE  /\ Plain(kind, rev) \in Request /\ Plain(kind, rev).mine
         /\ Plain(kind, rev).kind = kind /\ Plain(kind, rev).revision = rev
         /\ Plain(kind, rev).base = None
BY DEF Plain, Request
LEMMA SnapshotOf ==
  ASSUME NEW kind \in Waits, NEW rev \in Nat, NEW p \in Documents,
         NEW text \in Scripts \cup {None}, NEW r, r = Snapshot(kind, p, text, rev)
  PROVE  /\ r \in Request /\ r.mine /\ r.kind = kind /\ r.revision = rev
         /\ r.path = p /\ r.text = text /\ r.base = None
<1>1. r = [kind |-> kind, path |-> p, old |-> None, text |-> text, base |-> None,
           revision |-> rev, mine |-> TRUE]
  BY DEF Snapshot, Plain
<1>. QED  BY <1>1 DEF Request

-------------------------------------------------------------------------------
(* The window writes the mailbox only.                                     *)

LEMMA MailKept ==
  ASSUME NEW b, Mailed(b)
  PROVE  /\ \A x : /\ Mailed([b EXCEPT !.control = x]) /\ Mailed([b EXCEPT !.cursor = x])
                   /\ [b EXCEPT !.control = x].sources = b.sources
                   /\ [b EXCEPT !.cursor = x].sources = b.sources
         /\ \A p \in Documents, text \in Scripts \cup {None} : Mailed([b EXCEPT !.sources[p] = text])
         /\ \A command : Mailed(Preempt(b, command)) /\ Mailed(Intend(b, command))
         /\ \A p \in Documents, text \in Scripts : Mailed(Pushed(b, p, text))
         /\ docs \in [Documents -> Scripts] => Mailed(AllSources(b))
<1>1. \A x : /\ Mailed([b EXCEPT !.control = x]) /\ Mailed([b EXCEPT !.cursor = x])
             /\ [b EXCEPT !.control = x].sources = b.sources
             /\ [b EXCEPT !.cursor = x].sources = b.sources
  BY DEF Mailed
<1>2. ASSUME NEW p \in Documents, NEW text \in Scripts \cup {None} PROVE Mailed([b EXCEPT !.sources[p] = text])
  <2>1. [b.sources EXCEPT ![p] = text] \in Overlay
    BY DEF Mailed, Overlay
  <2>. QED  BY <2>1 DEF Mailed
<1>3. Mailed(Emptied)
  BY Processes DEF Emptied, Mailed
<1>4. ASSUME NEW command PROVE Mailed(Preempt(b, command)) /\ Mailed(Intend(b, command))
  <2>1. Mailed(Preempt(b, command))
    BY DEF Preempt, Mailed
  <2>2. Mailed(Intend(b, command))
    BY <1>1 DEF Intend
  <2>. QED  BY <2>1, <2>2
<1>5. ASSUME NEW p \in Documents, NEW text \in Scripts PROVE Mailed(Pushed(b, p, text))
  <2>1. [b.sources EXCEPT ![p] = text] \in Overlay
    BY DEF Mailed, Overlay
  <2>2. Mailed([b EXCEPT !.sources = [b.sources EXCEPT ![p] = text]])
    BY <2>1 DEF Mailed
  <2>. QED  BY <1>3, <2>2 DEF Pushed
<1>6. ASSUME docs \in [Documents -> Scripts] PROVE Mailed(AllSources(b))
  <2>1. Held \in Overlay
    BY <1>6 DEF Held, Overlay
  <2>. QED  BY <1>3, <2>1 DEF AllSources, Mailed
<1>. QED  BY <1>1, <1>2, <1>4, <1>5, <1>6

LEMMA WindowInv ==
  ASSUME Inv, UNCHANGED <<worker, link, shown>>, docs' \in [Documents -> Scripts], Mailed(box')
  PROVE  Inv'
<1>1. Typed'
  BY DEF Inv, Typed, link
<1>2. Linked'
  BY DEF Inv, Linked, OneRequest, NoneMine, link
<1>3. Placed'
  BY DEF Inv, Placed, ShownIsCurrent, link
<1>. QED  BY <1>1, <1>2, <1>3 DEF Inv

LEMMA WriterInv == ASSUME Inv, Writer \/ Debounce PROVE Inv'
<1>1. docs \in [Documents -> Scripts] /\ Mailed(box)
  BY DEF Inv, Typed
<1>2. UNCHANGED <<worker, link, shown>>
  BY DEF Writer, Debounce, Edit, Debounced, LeaveBlock, CloseTab, OpenTab, PassOn,
         Toggle, RunBlock, SetCursor, SetVariable, Click
<1>3. docs' \in [Documents -> Scripts]
  BY <1>1 DEF Writer, Debounce, Edit, Debounced, LeaveBlock, CloseTab, OpenTab, PassOn,
              Toggle, RunBlock, SetCursor, SetVariable, Click
<1>4. Mailed(box')
  <2>1. CASE \E p \in Documents : Debounced(p) \/ LeaveBlock(p) \/ OpenTab(p)
    <3>1. PICK p \in Documents : PassOn(p)
      BY <2>1 DEF Debounced, LeaveBlock, OpenTab
    <3>2. docs[p] \in Scripts /\ box' = Pushed(box, p, docs[p])
      BY <1>1, <3>1 DEF PassOn
    <3>. QED  BY <1>1, <3>2, MailKept
  <2>2. CASE Toggle
    <3>1. Mailed(AllSources(box))
      BY <1>1, MailKept
    <3>2. Mailed(Intend(AllSources(box), "Start")) /\ Mailed(Preempt(box, "Stop"))
      BY <1>1, <3>1, MailKept
    <3>. QED  BY <2>2, <3>1, <3>2 DEF Toggle, Click
  <2>3. CASE RunBlock
    <3>1. Mailed(AllSources(box))
      BY <1>1, MailKept
    <3>2. Mailed(Intend(AllSources(box), "Start"))
      BY <3>1, MailKept
    <3>3. /\ Mailed([AllSources(box) EXCEPT !.cursor = TRUE])
          /\ Mailed([Intend(AllSources(box), "Start") EXCEPT !.cursor = TRUE])
      BY <3>1, <3>2, MailKept
    <3>. QED  BY <2>3, <3>1, <3>3 DEF RunBlock, Click
  <2>4. CASE SetCursor \/ SetVariable
    <3>1. Mailed([box EXCEPT !.cursor = TRUE]) /\ Mailed(Intend(box, "SetVariable"))
      BY <1>1, MailKept
    <3>. QED  BY <2>4, <3>1 DEF SetCursor, SetVariable, Click
  <2>5. CASE \/ \E p \in Documents, text \in Scripts, block \in BOOLEAN : Edit(p, text, block)
             \/ \E p \in Documents : CloseTab(p)
    BY <1>1, <2>5 DEF Edit, CloseTab
  <2>. QED  BY <2>1, <2>2, <2>3, <2>4, <2>5 DEF Writer, Debounce
<1>. QED  BY <1>2, <1>3, <1>4, WindowInv

-------------------------------------------------------------------------------
(* Requests and their end.                                                 *)

(* The mailbox and the window change in ways that do not matter here.      *)
Kept == docs' \in [Documents -> Scripts] /\ Mailed(box')

LEMMA GoneInv ==
  ASSUME Inv, Kept, Gone, worker' \in WorkerType, worker'.at = "idle",
         shown' \in ShownType, shown'.position = None
  PROVE  Inv'
<1>1. Typed'
  BY DEF Kept, Gone, Typed
<1>2. Linked'
  BY DEF Gone, Linked
<1>3. Placed'
  BY DEF Gone, Placed, ShownIsCurrent
<1>. QED  BY <1>1, <1>2, <1>3 DEF Inv

LEMMA FailInv == ASSUME Inv, Kept, Fail PROVE Inv'
<1>1. worker' \in WorkerType /\ worker'.at = "idle"
  BY DEF Inv, Typed, Fail, GoTo, WorkerType
<1>2. shown' \in ShownType /\ shown'.position = None
  BY DEF Inv, Typed, Fail, ShownType
<1>. QED  BY <1>1, <1>2, GoneInv DEF Fail

(* No request is in progress.                                              *)
Free(toEngine, toEditor) ==
  /\ NoneMine(toEngine) /\ NoneMine(toEditor)
  /\ \A i \in 1..Len(toEngine) : toEngine[i].kind = "variable"

LEMMA IdleIsFree ==
  ASSUME Inv, worker.at = "idle"
  PROVE  Free(wire, answers)
<1>1. CASE engine = None
  BY <1>1 DEF Inv, Linked, Free, NoneMine
<1>2. CASE engine # None
  BY <1>2 DEF Inv, Linked, OneRequest, Free, NoneMine
<1>. QED  BY <1>1, <1>2

LEMMA AskOne ==
  ASSUME wire \in Seq(Request), NEW r \in Request, r.mine, Ask(r), Free(wire, answers'),
         worker'.at # "idle", Asked(r, engine', worker')
  PROVE  OneRequest' /\ wire' \in Seq(Request)
<1>1. /\ wire' \in Seq(Request) /\ Len(wire') = Len(wire) + 1 /\ wire'[Len(wire) + 1] = r
      /\ \A i \in 1..Len(wire) : wire'[i] = wire[i]
  BY AppendOf DEF Ask
<1>2. ASSUME NEW i \in 1..Len(wire')
      PROVE  IF wire'[i].mine THEN i = Len(wire') /\ Asked(wire'[i], engine', worker')
             ELSE wire'[i].kind = "variable"
  <2>1. i \in 1..Len(wire) \/ i = Len(wire')
    BY <1>1
  <2>. QED  BY <1>1, <2>1 DEF Free, NoneMine
<1>3. \A i \in 1..Len(answers') : ~answers'[i].mine
  BY DEF Free, NoneMine
<1>. QED  BY <1>1, <1>2, <1>3 DEF OneRequest

LEMMA FreeOne ==
  ASSUME Free(wire', answers')
  PROVE  OneRequest'
BY DEF Free, NoneMine, OneRequest

LEMMA RestInv ==
  ASSUME Inv, Kept, UNCHANGED <<link, shown>>, worker.at = "idle",
         worker' \in WorkerType, worker'.at = "idle", engine # None => worker' = worker
  PROVE  Inv'
<1>1. Typed'
  BY DEF Inv, Typed, Kept, link
<1>2. Free(wire', answers')
  BY IdleIsFree DEF link
<1>3. engine' = engine /\ OneRequest'
  BY <1>2, FreeOne DEF link
<1>4. Linked'
  BY <1>3 DEF Inv, Linked, link
<1>5. Placed'
  BY DEF Inv, Placed, ShownIsCurrent, link, Steady
<1>. QED  BY <1>1, <1>4, <1>5 DEF Inv

LEMMA AskedInv ==
  ASSUME Inv, Kept, engine' \in Process, NEW r \in Request, r.mine, Ask(r),
         answers' \in Seq(Answer), Free(wire, answers'), published' \in Nat \cup {None},
         worker' \in WorkerType, worker'.at # "idle", Asked(r, engine', worker'),
         Steady(worker') => Agrees(engine', worker'), shown' \in ShownType, Placed'
  PROVE  Inv'
<1>1. wire \in Seq(Request)
  BY DEF Inv, Typed
<1>2. OneRequest' /\ wire' \in Seq(Request)
  BY <1>1, AskOne
<1>3. engine' # None
  BY Processes
<1>. QED  BY <1>2, <1>3 DEF Inv, Typed, Linked, Kept

LEMMA WorkerFields ==
  ASSUME NEW w \in WorkerType
  PROVE  /\ w.at \in Waits \cup {"idle"} /\ w.known \in Overlay
         /\ w.todo \in SUBSET Documents /\ w.revision \in Nat
         /\ \A at \in Waits \cup {"idle"} :
              /\ [w EXCEPT !.at = at] \in WorkerType /\ [w EXCEPT !.at = at].at = at
              /\ [w EXCEPT !.at = at].known = w.known /\ [w EXCEPT !.at = at].todo = w.todo
              /\ [w EXCEPT !.at = at].revision = w.revision
BY DEF WorkerType
LEMMA WaitsIn == {"launch", "resend", "start", "source", "cursor", "variable"} = Waits
BY DEF Waits

(* A request that changes no text: a variable, or the cursor.              *)
LEMMA AskPlain ==
  ASSUME Inv, Kept, worker.at = "idle", engine # None, UNCHANGED <<answers, engine, published, shown>>,
         NEW kind \in {"variable", "cursor"}, Ask(Plain(kind, worker.revision)), GoTo(kind)
  PROVE  Inv'
<1>. DEFINE r == Plain(kind, worker.revision)
<1>1. worker \in WorkerType /\ kind \in Waits /\ kind # "idle" /\ engine \in Process
      /\ published \in Nat \cup {None} /\ shown \in ShownType /\ answers \in Seq(Answer)
  BY WaitsIn DEF Inv, Typed
<1>2. /\ worker' \in WorkerType /\ worker'.at = kind /\ worker'.known = worker.known
      /\ worker'.revision = worker.revision /\ worker'.todo = worker.todo
  BY <1>1, WorkerFields DEF GoTo
<1>3. r \in Request /\ r.mine /\ r.kind = kind /\ r.revision = worker.revision
  BY <1>1, PlainOf, WorkerFields
<1>4. Agrees(engine, worker) /\ shown.life = "Running" /\ shown.revision = worker.revision
  BY DEF Inv, Linked, Placed, Steady
<1>5. Agrees(engine', worker')
  BY <1>2, <1>4 DEF Agrees
<1>6. Asked(r, engine', worker')
  BY <1>2, <1>3 DEF Asked
<1>7. Placed'
  BY <1>2, <1>4 DEF Inv, Placed, ShownIsCurrent, Steady
<1>8. Free(wire, answers')
  BY IdleIsFree
<1>. HIDE DEF r
<1>9. Ask(r)
  BY DEF r
<1>. QED  BY <1>1, <1>2, <1>3, <1>5, <1>6, <1>7, <1>8, <1>9, AskedInv

LEMMA LaunchInv ==
  ASSUME Inv, Kept, worker.at = "idle", engine = None, UNCHANGED <<answers, published>>,
         shown' = [shown EXCEPT !.life = "Starting"], engine' = NewProcess, Ask(Plain("launch", 0)),
         worker' = [worker EXCEPT !.at = "launch", !.todo = Known(worker.known)]
  PROVE  Inv'
<1>1. worker \in WorkerType /\ shown \in ShownType /\ answers \in Seq(Answer)
      /\ published \in Nat \cup {None}
  BY DEF Inv, Typed
<1>2. /\ worker' \in WorkerType /\ worker'.at = "launch" /\ worker'.known = worker.known
      /\ worker'.todo = Known(worker.known) /\ worker'.revision \in Nat
  BY <1>1, WaitsIn DEF WorkerType, Known
<1>3. Lacks(NewProcess, worker', worker'.todo)
  <2>1. ~NewProcess.running /\ NewProcess.revision = 0 /\ NewProcess.documents = NoScripts
    BY DEF NewProcess
  <2>. QED  BY <1>2, <2>1, Processes DEF Lacks, Known
<1>4. Plain("launch", 0) \in Request /\ Plain("launch", 0).mine /\ Plain("launch", 0).kind = "launch"
  BY PlainOf, WaitsIn
<1>5. Asked(Plain("launch", 0), engine', worker')
  BY <1>2, <1>3, <1>4 DEF Asked
<1>6. shown' \in ShownType /\ shown'.position = None
  BY <1>1 DEF ShownType, Inv, Placed
<1>7. Placed'
  BY <1>2, <1>6 DEF Placed, ShownIsCurrent, Steady
<1>8. Free(wire, answers') /\ ~Steady(worker') /\ engine' \in Process
  BY <1>2, IdleIsFree, Processes DEF Steady
<1>. QED  BY <1>1, <1>2, <1>4, <1>5, <1>6, <1>7, <1>8, AskedInv

(* A text is sent as it is, or as a patch of the one the engine has.       *)
LEMMA SendInv ==
  ASSUME Inv, Kept, worker.at = "idle", engine # None, UNCHANGED <<answers, engine, published, shown>>,
         NEW p \in Documents, NEW text \in Scripts, Send(p, text)
  PROVE  Inv'
<1>. DEFINE rev == worker.revision + 1
            old == worker.known[p]
            snapshot == Snapshot("source", p, text, rev)
            patch == [snapshot EXCEPT !.old = old, !.base = worker.revision]
<1>1. worker \in WorkerType /\ engine \in Process /\ shown \in ShownType
      /\ published \in Nat \cup {None} /\ answers \in Seq(Answer)
  BY DEF Inv, Typed
<1>2. worker.known \in Overlay /\ worker.revision \in Nat /\ rev \in Nat
      /\ old \in Scripts \cup {None}
  BY <1>1, WorkerFields DEF Overlay
<1>3. /\ worker' \in WorkerType /\ worker'.at = "source" /\ worker'.revision = rev
      /\ worker'.known = [worker.known EXCEPT ![p] = text]
  <2>1. worker' = [worker EXCEPT !.known = [worker.known EXCEPT ![p] = text],
                                 !.revision = rev, !.at = "source"]
    BY <1>1 DEF Send, Keep, WorkerType
  <2>2. [worker.known EXCEPT ![p] = text] \in Overlay
    BY <1>2 DEF Overlay
  <2>. QED  BY <1>1, <1>2, <2>1, <2>2, WaitsIn DEF WorkerType
<1>4. Agrees(engine, worker) /\ shown.life = "Running"
  BY DEF Inv, Linked, Placed, Steady
<1>5. PICK r \in {snapshot, patch} : Ask(r) /\ (r = patch => old # None \/ r = snapshot)
  BY DEF Send
<1>6. /\ snapshot \in Request /\ snapshot.mine /\ snapshot.kind = "source"
      /\ snapshot.revision = rev /\ snapshot.path = p /\ snapshot.text = text
      /\ snapshot.base = None
  BY <1>2, SnapshotOf, WaitsIn
<1>. HIDE DEF snapshot
<1>7. /\ patch \in Request /\ patch.mine /\ patch.kind = "source"
      /\ patch.revision = rev /\ patch.path = p /\ patch.text = text
      /\ patch.base = worker.revision /\ patch.old = old
  BY <1>2, <1>6 DEF Request
<1>. HIDE DEF patch
<1>8. /\ r \in Request /\ r.mine /\ r.kind = "source" /\ r.revision = rev /\ r.path = p
      /\ r.text = text
      /\ r.base # None => r.base = worker.revision /\ r.old = old /\ old # None
  BY <1>5, <1>6, <1>7
<1>9. Changes(r, engine, worker')
  <2>1. engine.running /\ engine.documents = worker.known /\ engine.revision = worker.revision
    BY <1>4 DEF Agrees
  <2>2. worker'.known[p] = text
        /\ \A q \in Documents \ {p} : worker'.known[q] = worker.known[q]
    BY <1>2, <1>3 DEF Overlay
  <2>. QED  BY <1>2, <1>3, <1>8, <2>1, <2>2 DEF Changes
<1>10. Asked(r, engine', worker')
  BY <1>3, <1>8, <1>9 DEF Asked
<1>11. Placed'
  BY <1>3, <1>4 DEF Inv, Placed, ShownIsCurrent, Steady
<1>12. Free(wire, answers') /\ ~Steady(worker')
  BY <1>3, IdleIsFree DEF Steady
<1>. QED  BY <1>1, <1>3, <1>5, <1>8, <1>10, <1>11, <1>12, AskedInv

LEMMA HandleInv == ASSUME Inv, Handle PROVE Inv'
<1>1. docs \in [Documents -> Scripts] /\ Mailed(box) /\ worker \in WorkerType /\ shown \in ShownType
  BY DEF Inv, Typed
<1>2. worker.at = "idle" /\ UNCHANGED window
  BY DEF Handle, HandleStop, HandleFail, HandleVariable, HandleStart, HandleSource,
     HandleCursor, NextSource
<1>3. docs' = docs
  BY <1>2 DEF window
<1>4. ASSUME NEW command, Pops(command) PROVE Kept
  BY <1>1, <1>3, <1>4, MailKept DEF Pops, Kept
<1>5. CASE HandleStop
  BY <1>1, <1>2, <1>4, <1>5, GoneInv DEF HandleStop, ShownType
<1>6. CASE HandleFail
  BY <1>4, <1>6, FailInv DEF HandleFail
<1>7. CASE HandleVariable
  <2>1. Kept /\ UNCHANGED <<answers, engine, published, shown>>
    BY <1>4, <1>7 DEF HandleVariable
  <2>2. CASE engine = None
    <3>1. worker' = worker /\ UNCHANGED <<link, shown>>
      BY <1>7, <2>1, <2>2 DEF HandleVariable, link
    <3>. QED  BY <1>1, <1>2, <2>1, <3>1, RestInv
  <2>3. CASE engine # None
    BY <1>2, <1>7, <2>1, <2>3, AskPlain DEF HandleVariable
  <2>. QED  BY <2>2, <2>3
<1>8. CASE HandleStart
  <2>1. Kept
    BY <1>4, <1>8 DEF HandleStart
  <2>2. CASE engine # None
    BY <1>1, <1>2, <1>8, <2>1, <2>2, RestInv DEF HandleStart
  <2>3. CASE engine = None /\ ~Fail
    BY <1>2, <1>8, <2>1, <2>3, LaunchInv DEF HandleStart
  <2>4. CASE Fail
    BY <2>1, <2>4, FailInv
  <2>. QED  BY <2>2, <2>3, <2>4
<1>9. CASE HandleSource
  <2>. DEFINE p == First(box.sources)
              text == box.sources[p]
  <2>1. p \in Documents /\ text \in Scripts
    <3>1. box.sources \in Overlay /\ Known(box.sources) # {}
      BY <1>1, <1>9 DEF HandleSource, NextSource, Mailed
    <3>2. p \in Known(box.sources)
      BY <3>1 DEF First
    <3>. QED  BY <3>1, <3>2 DEF Known, Overlay
  <2>2. Kept
    <3>1. box' = [box EXCEPT !.sources[p] = None]
      BY <1>9 DEF HandleSource
    <3>. QED  BY <1>1, <1>3, <2>1, <3>1, MailKept DEF Kept
  <2>3. UNCHANGED <<answers, engine, published, shown>> /\ TakeSource(p, text)
    BY <1>9 DEF HandleSource
  <2>. HIDE DEF p, text
  <2>4. CASE engine = None \/ worker.known[p] = text
    <3>1. worker' = Keep(p, text) /\ UNCHANGED <<link, shown>>
      BY <2>3, <2>4 DEF TakeSource, link
    <3>2. worker' \in WorkerType /\ worker'.at = "idle"
      <4>1. [worker.known EXCEPT ![p] = text] \in Overlay
        BY <1>1, <2>1 DEF WorkerType, Overlay
      <4>2. worker' = [worker EXCEPT !.known = [worker.known EXCEPT ![p] = text]]
        BY <3>1 DEF Keep
      <4>. QED  BY <1>1, <1>2, <4>1, <4>2 DEF WorkerType
    <3>3. worker.known[p] = text => worker' = worker
      BY <1>1, <3>1 DEF Keep, WorkerType, Overlay
    <3>. QED  BY <1>2, <2>2, <2>4, <3>1, <3>2, <3>3, RestInv
  <2>5. CASE ~(engine = None \/ worker.known[p] = text)
    BY <1>2, <2>1, <2>2, <2>3, <2>5, SendInv DEF TakeSource
  <2>. QED  BY <2>4, <2>5
<1>10. CASE HandleCursor
  <2>1. Kept /\ UNCHANGED <<answers, engine, published, shown>>
    BY <1>1, <1>3, <1>10, MailKept DEF HandleCursor, Kept
  <2>2. CASE UNCHANGED <<wire, worker>>
    <3>1. UNCHANGED <<link, shown>>
      BY <2>1, <2>2 DEF link
    <3>. QED  BY <1>1, <1>2, <2>1, <2>2, <3>1, RestInv
  <2>3. CASE engine # None /\ Ask(Plain("cursor", worker.revision)) /\ GoTo("cursor")
    BY <1>2, <2>1, <2>3, AskPlain
  <2>. QED  BY <1>10, <2>2, <2>3 DEF HandleCursor
<1>. QED  BY <1>5, <1>6, <1>7, <1>8, <1>9, <1>10 DEF Handle

-------------------------------------------------------------------------------
(* Answers.                                                                *)

(* The answer to the request in progress is the last message there is.     *)
LEMMA AnswerOne ==
  ASSUME Inv, worker.at \in Waits, answers # << >>, Head(answers).mine
  PROVE  /\ engine # None /\ wire = << >> /\ Tail(answers) = << >>
         /\ Heard(Head(answers), engine, worker)
<1>1. answers \in Seq(Answer) /\ engine # None
  BY DEF Inv, Typed, Linked
<1>2. Head(answers) = answers[1] /\ Len(answers) \in Nat \ {0}
  BY <1>1, TailOf
<1>3. 1 = Len(answers) /\ wire = << >> /\ Heard(answers[1], engine, worker)
  <2>1. 1 \in 1..Len(answers) /\ answers[1].mine
    BY <1>2
  <2>2. OneRequest
    BY <1>1 DEF Inv, Linked
  <2>. QED  BY <2>1, <2>2 DEF OneRequest
<1>4. Tail(answers) = << >>
  <2>1. Tail(answers) \in Seq(Answer) /\ Len(Tail(answers)) = Len(answers) - 1
    BY <1>1, TailOf
  <2>2. Len(Tail(answers)) = 0
    BY <1>3, <2>1
  <2>. QED  BY <2>1, <2>2, EmptySeq
<1>. QED  BY <1>1, <1>2, <1>3, <1>4

LEMMA NothingLeft == Free(<< >>, << >>) /\ << >> \in Seq(Answer) /\ << >> \in Seq(Request)
BY DEF Free, NoneMine

(* The thread has its answer and asks nothing more.                        *)
LEMMA DoneInv ==
  ASSUME Inv, UNCHANGED <<window, box, engine, published>>, engine # None,
         wire' \in Seq(Request), answers' \in Seq(Answer), Free(wire', answers'),
         Agrees(engine, worker), GoTo("idle"), shown' \in ShownType,
         shown'.life = "Running", shown'.revision = worker.revision,
         shown'.position \in {None, worker.revision}
  PROVE  Inv'
<1>1. worker \in WorkerType /\ docs \in [Documents -> Scripts] /\ Mailed(box)
      /\ engine \in Process \cup {None} /\ published \in Nat \cup {None}
  BY DEF Inv, Typed
<1>2. /\ worker' \in WorkerType /\ worker'.at = "idle" /\ worker'.known = worker.known
      /\ worker'.revision = worker.revision
  BY <1>1, WorkerFields DEF GoTo
<1>3. Typed'
  BY <1>1, <1>2 DEF Typed, window
<1>4. OneRequest' /\ Agrees(engine', worker')
  BY <1>2, FreeOne DEF Agrees
<1>5. Linked'
  BY <1>4 DEF Linked
<1>6. Placed'
  BY <1>2 DEF Placed, ShownIsCurrent, Steady
<1>. QED  BY <1>3, <1>5, <1>6 DEF Inv

(* The next text of a new engine, or the start of the game when it has all. *)
LEMMA ResendInv ==
  ASSUME Inv, UNCHANGED <<window, box, engine, published, shown>>, engine # None,
         Free(wire, answers'), answers' \in Seq(Answer),
         worker.at \in {"launch", "resend"}, Lacks(engine, worker, worker.todo),
         Resend(worker.todo)
  PROVE  Inv'
<1>1. worker \in WorkerType /\ docs \in [Documents -> Scripts] /\ Mailed(box) /\ shown \in ShownType
      /\ engine \in Process /\ published \in Nat \cup {None} /\ shown.position = None
  BY DEF Inv, Typed, Placed
<1>2. Kept
  BY <1>1 DEF Kept, window
<1>3. worker.revision \in Nat /\ worker.known \in Overlay /\ worker.todo \in SUBSET Documents
      /\ engine.revision \in Nat
  BY <1>1, WorkerFields, Processes
<1>4. CASE worker.todo = {}
  <2>. DEFINE r == Plain("start", worker.revision)
  <2>1. Ask(r) /\ GoTo("start")
    BY <1>4 DEF Resend
  <2>2. /\ worker' \in WorkerType /\ worker'.at = "start" /\ worker'.known = worker.known
        /\ worker'.revision = worker.revision
    BY <1>1, <2>1, WorkerFields, WaitsIn DEF GoTo
  <2>3. r \in Request /\ r.mine /\ r.kind = "start" /\ r.revision = worker.revision
    BY <1>3, PlainOf, WaitsIn
  <2>. HIDE DEF r
  <2>4. Asked(r, engine', worker') /\ ~Steady(worker')
    BY <1>4, <2>2, <2>3 DEF Asked, Lacks, Steady
  <2>5. Placed'
    BY <1>1, <2>2 DEF Placed, ShownIsCurrent, Steady
  <2>. QED  BY <1>1, <1>2, <2>1, <2>2, <2>3, <2>4, <2>5, AskedInv
<1>5. CASE worker.todo # {}
  <2>. DEFINE p == CHOOSE q \in worker.todo : TRUE
              r == Snapshot("resend", p, worker.known[p], worker.revision + 1)
  <2>1. p \in worker.todo /\ p \in Documents /\ worker.known[p] \in Scripts \cup {None}
    BY <1>3, <1>5 DEF Overlay
  <2>2. Ask(r) /\ worker' = [worker EXCEPT !.at = "resend", !.todo = worker.todo \ {p},
                                           !.revision = worker.revision + 1]
    BY <1>5 DEF Resend
  <2>. HIDE DEF p
  <2>3. /\ worker' \in WorkerType /\ worker'.at = "resend" /\ worker'.known = worker.known
        /\ worker'.todo = worker.todo \ {p} /\ worker'.revision = worker.revision + 1
    <3>1. worker.todo \ {p} \in SUBSET Documents /\ worker.revision + 1 \in Nat
      BY <1>3
    <3>2. "resend" \in Waits \cup {"idle"}
      BY DEF Waits
    <3>. QED  BY <1>1, <2>2, <3>1, <3>2 DEF WorkerType
  <2>4. /\ r \in Request /\ r.mine /\ r.kind = "resend" /\ r.revision = worker.revision + 1
        /\ r.path = p /\ r.text = worker.known[p] /\ r.base = None
    <3>1. worker.revision + 1 \in Nat /\ "resend" \in Waits
      BY <1>3 DEF Waits
    <3>. HIDE DEF r
    <3>2. r = Snapshot("resend", p, worker.known[p], worker.revision + 1)
      BY DEF r
    <3>. QED  BY <2>1, <3>1, <3>2, SnapshotOf
  <2>. HIDE DEF r
  <2>5. Resends(r, engine, worker')
    <3>1. worker'.todo \cup {p} = worker.todo
      BY <2>1, <2>3
    <3>. QED  BY <1>3, <2>1, <2>3, <2>4, <3>1 DEF Resends, Lacks
  <2>6. Asked(r, engine', worker') /\ ~Steady(worker')
    BY <2>3, <2>4, <2>5 DEF Asked, Steady
  <2>7. Placed'
    BY <1>1, <2>3 DEF Placed, ShownIsCurrent, Steady
  <2>. QED  BY <1>1, <1>2, <2>2, <2>3, <2>4, <2>6, <2>7, AskedInv
<1>. QED  BY <1>4, <1>5

(* The game runs; the cursor may be asked for at once.                     *)
LEMMA RunsInv ==
  ASSUME Inv, UNCHANGED <<window, box, engine, published>>, engine # None,
         wire = << >>, answers' = << >>, worker.at = "start", Agrees(engine, worker), PreviewRuns
  PROVE  Inv'
<1>1. worker \in WorkerType /\ docs \in [Documents -> Scripts] /\ Mailed(box)
      /\ engine \in Process /\ published \in Nat \cup {None}
  BY DEF Inv, Typed
<1>2. worker.revision \in Nat
  BY <1>1, WorkerFields
<1>3. /\ shown' \in ShownType /\ shown'.life = "Running" /\ shown'.revision = worker.revision
      /\ shown'.position = None
  BY <1>2 DEF PreviewRuns, ShownType
<1>4. CASE UNCHANGED wire /\ GoTo("idle")
  BY <1>3, <1>4, NothingLeft, DoneInv
<1>5. CASE Ask(Plain("cursor", worker.revision)) /\ GoTo("cursor")
  <2>. DEFINE r == Plain("cursor", worker.revision)
  <2>1. /\ worker' \in WorkerType /\ worker'.at = "cursor" /\ worker'.known = worker.known
        /\ worker'.revision = worker.revision
    BY <1>1, <1>5, WorkerFields, WaitsIn DEF GoTo
  <2>2. r \in Request /\ r.mine /\ r.kind = "cursor" /\ r.revision = worker.revision /\ Ask(r)
    BY <1>2, <1>5, PlainOf, WaitsIn
  <2>. HIDE DEF r
  <2>3. Asked(r, engine', worker') /\ Agrees(engine', worker')
    BY <2>1, <2>2 DEF Asked, Agrees
  <2>4. Placed'
    BY <1>3, <2>1 DEF Placed, ShownIsCurrent, Steady
  <2>5. Kept
    BY <1>1 DEF Kept, window
  <2>6. Free(wire, answers') /\ answers' \in Seq(Answer)
    BY NothingLeft
  <2>. QED  BY <1>1, <1>3, <2>1, <2>2, <2>3, <2>4, <2>5, <2>6, AskedInv
<1>. QED  BY <1>4, <1>5 DEF PreviewRuns

LEMMA RefuseInv ==
  ASSUME Inv, UNCHANGED <<window, box>>, worker.at \in Waits,
         NEW rest \in Seq(Answer), Refuse(rest)
  PROVE  Inv'
<1>1. docs \in [Documents -> Scripts] /\ Mailed(box) /\ wire \in Seq(Request)
  BY DEF Inv, Typed
<1>2. Kept
  BY <1>1 DEF Kept, window
<1>3. CASE Fail
  BY <1>2, <1>3, FailInv
<1>4. CASE /\ worker.at = "variable" /\ GoTo("idle")
           /\ wire' = NotMine(wire) /\ answers' = NotMine(rest)
           /\ UNCHANGED <<engine, published, shown>>
  <2>1. engine # None /\ Agrees(engine, worker) /\ shown \in ShownType /\ shown.life = "Running"
        /\ shown.revision = worker.revision /\ shown.position \in {None, worker.revision}
    BY <1>4 DEF Inv, Typed, Linked, Placed, Steady, ShownIsCurrent, Waits
  <2>2. \A i \in 1..Len(wire) : wire[i].kind = "variable"
    BY <1>4, <2>1 DEF Inv, Linked, OneRequest, Asked
  <2>3. wire' \in Seq(Request) /\ answers' \in Seq(Answer) /\ Free(wire', answers')
    BY <1>1, <1>4, <2>2, GivenUp DEF Free
  <2>. QED  BY <1>4, <2>1, <2>3, DoneInv
<1>. QED  BY <1>3, <1>4 DEF Refuse

LEMMA AnsweredInv == ASSUME Inv, Answered PROVE Inv'
<1>1. UNCHANGED <<window, box>> /\ worker.at \in Waits /\ answers # << >> /\ worker.at # "idle"
  BY DEF Answered, Waits
<1>2. answers \in Seq(Answer) /\ worker \in WorkerType /\ shown \in ShownType
  BY DEF Inv, Typed
<1>3. Tail(answers) \in Seq(Answer)
  BY <1>1, <1>2, TailOf
<1>4. CASE Refuse(Tail(answers))
  BY <1>1, <1>3, <1>4, RefuseInv
<1>5. CASE Accepts(Head(answers)) /\ Accept(Head(answers)) /\ answers' = Tail(answers)
  <2>. DEFINE a == Head(answers)
  <2>1. a.mine /\ (a.ok \/ worker.at = "cursor") /\ Accept(a) /\ answers' = Tail(answers)
    BY <1>5 DEF Accepts
  <2>2. engine # None /\ wire = << >> /\ answers' = << >> /\ Heard(a, engine, worker)
    BY <1>1, <2>1, AnswerOne
  <2>. HIDE DEF a
  <2>3. UNCHANGED <<engine, published>>
    BY <2>1 DEF Accept
  <2>4. Free(wire, answers') /\ answers' \in Seq(Answer) /\ wire \in Seq(Request)
    BY <2>2, NothingLeft
  <2>5. CASE worker.at \in {"launch", "resend"}
    <3>1. Resend(worker.todo) /\ UNCHANGED shown
      BY <2>1, <2>5 DEF Accept
    <3>. QED  BY <1>1, <2>2, <2>3, <2>4, <2>5, <3>1, ResendInv DEF Heard
  <2>6. CASE worker.at = "start"
    <3>1. PreviewRuns /\ a.ok
      BY <2>1, <2>6 DEF Accept
    <3>. QED  BY <1>1, <2>2, <2>3, <2>6, <3>1, RunsInv DEF Heard
  <2>7. CASE worker.at = "source"
    <3>1. Reloaded
      BY <2>1, <2>7 DEF Accept
    <3>2. Agrees(engine, worker) /\ shown.life = "Running"
      BY <2>2, <2>7 DEF Heard, Inv, Placed
    <3>3. shown' \in ShownType /\ shown'.life = "Running" /\ shown'.revision = worker.revision
          /\ shown'.position = None
      BY <1>2, <3>1, <3>2, WorkerFields DEF Reloaded, ShownType
    <3>. QED  BY <1>1, <2>2, <2>3, <2>4, <3>1, <3>2, <3>3, DoneInv DEF Reloaded
  <2>8. CASE worker.at \in {"cursor", "variable"}
    <3>1. Agrees(engine, worker) /\ shown.life = "Running" /\ shown.revision = worker.revision
          /\ shown.position \in {None, worker.revision}
      BY <2>2, <2>8 DEF Inv, Linked, Placed, Steady, ShownIsCurrent
    <3>2. GoTo("idle") /\ UNCHANGED wire
          /\ \/ shown' = shown \/ shown' = [shown EXCEPT !.position = worker.revision]
             \/ shown' = [shown EXCEPT !.position = shown.position]
      BY <2>1, <2>8 DEF Accept, Sought
    <3>3. shown' \in ShownType /\ shown'.life = "Running" /\ shown'.revision = worker.revision
          /\ shown'.position \in {None, worker.revision}
      BY <1>2, <3>1, <3>2, WorkerFields DEF ShownType
    <3>. QED  BY <1>1, <2>2, <2>3, <2>4, <3>1, <3>2, <3>3, DoneInv
  <2>. QED  BY <1>1, <2>5, <2>6, <2>7, <2>8 DEF Waits
<1>. QED  BY <1>4, <1>5 DEF Answered

-------------------------------------------------------------------------------
(* The end of a request without an answer, and what the engine says itself. *)

LEMMA GiveUpInv == ASSUME Inv, GiveUp PROVE Inv'
BY NothingLeft, RefuseInv DEF GiveUp

LEMMA PollInv == ASSUME Inv, Poll PROVE Inv'
<1>1. docs \in [Documents -> Scripts] /\ Mailed(box) /\ worker \in WorkerType /\ shown \in ShownType
      /\ UNCHANGED <<window, box>>
  BY DEF Inv, Typed, Poll
<1>2. Kept
  BY <1>1 DEF Kept, window
<1>3. CASE Fail
  BY <1>2, <1>3, FailInv
<1>4. CASE /\ TakePublished /\ published' = None /\ UNCHANGED <<worker, wire, answers, engine>>
  <2>1. /\ shown' \in ShownType /\ shown'.life = shown.life /\ shown'.revision = shown.revision
        /\ shown'.position \in {shown.position, worker.revision}
    BY <1>1, <1>4, WorkerFields DEF TakePublished, ShownType
  <2>2. engine # None /\ worker.at = "idle"
    BY DEF Poll
  <2>3. shown.life = "Running" /\ shown.revision = worker.revision
    BY <2>2 DEF Inv, Placed, Steady
  <2>4. Placed'
    BY <1>4, <2>1, <2>2, <2>3 DEF Inv, Placed, ShownIsCurrent, Steady
  <2>5. Typed'
    BY <1>2, <1>4, <2>1 DEF Inv, Typed, Kept
  <2>6. Linked'
    BY <1>4 DEF Inv, Linked, OneRequest, NoneMine
  <2>. QED  BY <2>4, <2>5, <2>6 DEF Inv
<1>. QED  BY <1>3, <1>4 DEF Poll

LEMMA PublishInv == ASSUME Inv, Publish PROVE Inv'
<1>1. UNCHANGED <<docs, box, worker, wire, answers, engine, shown>>
  BY DEF Publish, window
<1>2. published' \in Nat
  BY Processes DEF Publish, Inv, Typed
<1>3. Typed'
  BY <1>1, <1>2 DEF Inv, Typed
<1>4. Linked'
  BY <1>1 DEF Inv, Linked, OneRequest, NoneMine
<1>5. Placed'
  BY <1>1 DEF Inv, Placed, ShownIsCurrent
<1>. QED  BY <1>3, <1>4, <1>5 DEF Inv

(* A dead engine has what it had.                                          *)
LEMMA DiesInv == ASSUME Inv, Dies PROVE Inv'
<1>1. UNCHANGED <<docs, box, worker, wire, answers, shown, published>>
  BY DEF Dies, window
<1>2. engine \in Process /\ engine' = [engine EXCEPT !.live = FALSE]
  BY DEF Dies, Inv, Typed
<1>3. /\ engine' \in Process /\ engine'.running = engine.running
      /\ engine'.documents = engine.documents /\ engine'.revision = engine.revision
      /\ engine'.plays = engine.plays /\ engine'.applied = engine.applied
  BY <1>2 DEF Process
<1>4. engine # None /\ engine' # None
  BY <1>2, <1>3, Processes
<1>5. /\ \A w : Agrees(engine', w) <=> Agrees(engine, w)
      /\ \A w, missing : Lacks(engine', w, missing) <=> Lacks(engine, w, missing)
  BY <1>3 DEF Agrees, Lacks
<1>6. /\ \A r, w : Asked(r, engine, w) => Asked(r, engine', w)
      /\ \A a, w : Heard(a, engine, w) => Heard(a, engine', w)
  BY <1>3, <1>5 DEF Asked, Resends, Changes, Heard
<1>7. Typed'
  BY <1>1, <1>3 DEF Inv, Typed
<1>8. OneRequest
  BY <1>4 DEF Inv, Linked
<1>9. OneRequest'
  BY <1>1, <1>6, <1>8 DEF OneRequest, NoneMine
<1>10. Steady(worker') => Agrees(engine', worker')
  BY <1>1, <1>4, <1>5 DEF Inv, Linked
<1>11. Linked'
  BY <1>4, <1>9, <1>10 DEF Linked
<1>12. Placed'
  BY <1>1, <1>4 DEF Inv, Placed, ShownIsCurrent
<1>. QED  BY <1>7, <1>11, <1>12 DEF Inv

-------------------------------------------------------------------------------
(* The engine answers.                                                     *)

(* The game is built from the texts again, unless one does not compile.    *)
LEMMA ReloadOf ==
  ASSUME NEW m \in Process, NEW n, n = Reload(m)
  PROVE  /\ n \in Process /\ n.documents = m.documents /\ n.revision = m.revision
         /\ n.running = m.running
         /\ m.running /\ Compiles(m.documents) => n.plays = m.documents /\ n.applied = m.revision
<1>1. CASE m.running /\ Compiles(m.documents)
  <2>1. n = [m EXCEPT !.applied = m.revision, !.plays = m.documents]
    BY <1>1 DEF Reload
  <2>. QED  BY <2>1, Processes DEF Process
<1>2. CASE ~(m.running /\ Compiles(m.documents))
  BY <1>2 DEF Reload
<1>. QED  BY <1>1, <1>2

(* The answer to the request in progress takes its place.                  *)
LEMMA ServedInv ==
  ASSUME Inv, UNCHANGED <<window, box, worker, published, shown>>, engine # None,
         Head(wire).mine, wire # << >>, wire' = Tail(wire), engine' \in Process,
         NEW a \in Answer, answers' = Append(answers, a), Heard(a, engine', worker),
         Steady(worker) => Agrees(engine', worker)
  PROVE  Inv'
<1>1. wire \in Seq(Request) /\ answers \in Seq(Answer) /\ OneRequest
  BY DEF Inv, Typed, Linked
<1>2. Len(wire) = 1 /\ worker.at # "idle"
  <2>1. 1 \in 1..Len(wire) /\ wire[1].mine
    BY <1>1, TailOf
  <2>. QED  BY <2>1, <1>1 DEF OneRequest, NoneMine
<1>3. wire' = << >>
  <2>1. Tail(wire) \in Seq(Request) /\ Len(Tail(wire)) = Len(wire) - 1
    BY <1>1, TailOf
  <2>2. Len(Tail(wire)) = 0
    BY <1>2, <2>1
  <2>. QED  BY <2>1, <2>2, EmptySeq
<1>4. /\ answers' \in Seq(Answer) /\ Len(answers') = Len(answers) + 1
      /\ answers'[Len(answers) + 1] = a /\ \A i \in 1..Len(answers) : answers'[i] = answers[i]
  BY <1>1, AppendOf
<1>5. \A i \in 1..Len(answers) : ~answers[i].mine
  BY <1>1 DEF OneRequest
<1>6. ASSUME NEW i \in 1..Len(answers'), answers'[i].mine
      PROVE  i = Len(answers') /\ wire' = << >> /\ Heard(answers'[i], engine', worker')
  <2>1. i \in 1..Len(answers) \/ i = Len(answers')
    BY <1>1, <1>4
  <2>2. i = Len(answers')
    BY <1>4, <1>5, <1>6, <2>1
  <2>. QED  BY <1>3, <1>4, <2>2
<1>7. OneRequest'
  <2>1. \A i \in 1..Len(wire') : FALSE
    BY <1>3
  <2>. QED  BY <1>2, <1>6, <2>1 DEF OneRequest
<1>8. Typed'
  BY <1>3, <1>4, NothingLeft DEF Inv, Typed, window
<1>9. engine' # None
  BY Processes
<1>10. Linked'
  BY <1>7, <1>9 DEF Linked
<1>11. Placed'
  BY <1>9 DEF Inv, Placed, ShownIsCurrent
<1>. QED  BY <1>8, <1>10, <1>11 DEF Inv

(* What was given up is answered too; nobody waits for it.                 *)
LEMMA ForgottenInv ==
  ASSUME Inv, UNCHANGED <<window, box, worker, published, shown, engine>>, engine # None,
         ~Head(wire).mine, wire # << >>, wire' = Tail(wire),
         NEW a \in Answer, answers' = Append(answers, a), ~a.mine
  PROVE  Inv'
<1>1. wire \in Seq(Request) /\ answers \in Seq(Answer) /\ OneRequest
  BY DEF Inv, Typed, Linked
<1>2. /\ wire' \in Seq(Request) /\ Len(wire') = Len(wire) - 1 /\ Len(wire) \in Nat \ {0}
      /\ \A i \in 1..Len(wire') : wire'[i] = wire[i + 1] /\ i + 1 \in 1..Len(wire)
  BY <1>1, TailOf
<1>3. /\ answers' \in Seq(Answer) /\ Len(answers') = Len(answers) + 1
      /\ answers'[Len(answers) + 1] = a /\ \A i \in 1..Len(answers) : answers'[i] = answers[i]
  BY <1>1, AppendOf
<1>4. \A i \in 1..Len(answers) : ~answers[i].mine
  BY <1>1 DEF OneRequest
<1>5. ASSUME NEW i \in 1..Len(answers') PROVE ~answers'[i].mine
  <2>1. i \in 1..Len(answers) \/ i = Len(answers) + 1
    BY <1>1, <1>3
  <2>. QED  BY <1>3, <1>4, <2>1
<1>6. ASSUME NEW i \in 1..Len(wire')
      PROVE  IF wire'[i].mine THEN i = Len(wire') /\ Asked(wire'[i], engine', worker')
             ELSE wire'[i].kind = "variable"
  <2>1. wire'[i] = wire[i + 1] /\ i + 1 \in 1..Len(wire)
    BY <1>2
  <2>2. IF wire[i + 1].mine THEN i + 1 = Len(wire) /\ Asked(wire[i + 1], engine, worker)
        ELSE wire[i + 1].kind = "variable"
    BY <1>1, <2>1 DEF OneRequest
  <2>3. i \in Nat /\ Len(wire) \in Nat /\ Len(wire') = Len(wire) - 1
    <3>1. Len(wire) \in Nat /\ Len(wire') = Len(wire) - 1
      BY <1>2
    <3>. QED  BY <3>1
  <2>4. wire[i + 1].mine => i + 1 = Len(wire) /\ Asked(wire[i + 1], engine, worker)
    BY <2>2
  <2>5. i + 1 = Len(wire) => i = Len(wire')
    <3>1. \A k \in Nat, m \in Nat : k + 1 = m => k = m - 1
      OBVIOUS
    <3>. QED  BY <2>3, <3>1, Zenon
  <2>6. engine' = engine /\ worker' = worker
    OBVIOUS
  <2>7. ~wire[i + 1].mine => wire[i + 1].kind = "variable"
    BY <2>2
  <2>. HIDE DEF Asked
  <2>. QED  BY <2>1, <2>4, <2>5, <2>6, <2>7
<1>7. worker.at = "idle" => NoneMine(wire')
  BY <1>1, <1>2 DEF OneRequest, NoneMine
<1>8. OneRequest'
  BY <1>5, <1>6, <1>7 DEF OneRequest, NoneMine
<1>9. Typed'
  BY <1>2, <1>3 DEF Inv, Typed, window
<1>10. Linked'
  BY <1>8 DEF Inv, Linked
<1>11. Placed'
  BY DEF Inv, Placed, ShownIsCurrent
<1>. QED  BY <1>9, <1>10, <1>11 DEF Inv

(* A text, whole or as a patch of the one the engine has.                  *)
LEMMA StoresInv ==
  ASSUME Inv, UNCHANGED <<window, box, worker, published, shown>>, engine # None,
         wire # << >>, wire' = Tail(wire), NEW r, r = Head(wire), r.mine,
         r.kind \in {"resend", "source"}, Stores(r, r.text), Say(TRUE, FALSE, r.mine)
  PROVE  Inv'
<1>1. /\ engine \in Process /\ worker \in WorkerType /\ r \in Request
      /\ r.text \in Scripts \cup {None} /\ r.revision \in Nat /\ r.mine \in BOOLEAN
  <2>1. engine \in Process /\ worker \in WorkerType /\ r \in Request
    BY TailOf DEF Inv, Typed
  <2>. QED  BY <2>1 DEF Request
<1>2. Asked(r, engine, worker)
  <2>1. 1 \in 1..Len(wire) /\ wire[1] = r /\ OneRequest
    BY TailOf DEF Inv, Typed, Linked
  <2>. QED  BY <2>1 DEF OneRequest
<1>3. r.path \in Documents /\ r.revision = worker.revision
  BY <1>2 DEF Asked, Resends, Changes
<1>4. /\ engine' \in Process /\ engine'.documents = [engine.documents EXCEPT ![r.path] = r.text]
      /\ engine'.revision = worker.revision /\ engine'.running = engine.running
      /\ engine.running /\ Compiles(engine'.documents) =>
           engine'.plays = engine'.documents /\ engine'.applied = worker.revision
  <2>. DEFINE texts == [engine.documents EXCEPT ![r.path] = r.text]
              m == [engine EXCEPT !.documents = texts, !.revision = r.revision]
  <2>1. engine' = Reload(m)
    BY DEF Stores
  <2>2. texts \in Overlay
    BY <1>1, <1>3, Processes DEF Overlay
  <2>. HIDE DEF texts
  <2>3. /\ m \in Process /\ m.documents = texts /\ m.revision = worker.revision
        /\ m.running = engine.running
    BY <1>1, <1>3, <2>2 DEF Process
  <2>. HIDE DEF m
  <2>4. /\ engine' \in Process /\ engine'.documents = texts
        /\ engine'.revision = worker.revision /\ engine'.running = engine.running
        /\ engine.running /\ Compiles(texts) =>
             engine'.plays = texts /\ engine'.applied = worker.revision
    BY <2>1, <2>3, ReloadOf
  <2>. QED  BY <2>4 DEF texts
<1>5. engine.documents \in Overlay /\ worker.known \in Overlay /\ worker.revision \in Nat
  BY <1>1, Processes, WorkerFields
<1>. DEFINE a == [ok |-> TRUE, stale |-> FALSE, mine |-> r.mine]
<1>6. a \in Answer /\ answers' = Append(answers, a) /\ ~a.stale
  BY <1>1 DEF Answer, Say
<1>. HIDE DEF a
<1>7. CASE r.kind = "resend"
  <2>1. worker.at = "resend" /\ Resends(r, engine, worker)
    BY <1>2, <1>7 DEF Asked
  <2>2. Lacks(engine', worker, worker.todo)
    BY <1>1, <1>4, <1>5, <2>1 DEF Lacks, Resends, Overlay
  <2>3. Heard(a, engine', worker) /\ ~Steady(worker)
    BY <1>6, <2>1, <2>2 DEF Heard, Steady
  <2>. QED  BY <1>4, <1>6, <2>3, ServedInv
<1>8. CASE r.kind = "source"
  <2>1. worker.at = "source" /\ Changes(r, engine, worker)
    BY <1>2, <1>8 DEF Asked
  <2>2. engine'.documents = worker.known
    <3>1. \A q \in Documents : engine'.documents[q] = worker.known[q]
      BY <1>1, <1>4, <1>5, <2>1 DEF Changes, Overlay
    <3>. QED  BY <1>4, <1>5, <3>1 DEF Overlay
  <2>3. Agrees(engine', worker)
    BY <1>4, <2>1, <2>2 DEF Agrees, Changes
  <2>4. Heard(a, engine', worker)
    BY <1>6, <2>1, <2>3 DEF Heard
  <2>. QED  BY <1>4, <1>6, <2>3, <2>4, ServedInv
<1>. QED  BY <1>7, <1>8

LEMMA StartedInv ==
  ASSUME Inv, UNCHANGED <<window, box, worker, published, shown>>, engine # None,
         wire # << >>, wire' = Tail(wire), NEW r, r = Head(wire), r.mine,
         r.kind = "start", StartPreview(r)
  PROVE  Inv'
<1>1. engine \in Process /\ worker \in WorkerType /\ r \in Request /\ r.mine \in BOOLEAN
  <2>1. engine \in Process /\ worker \in WorkerType /\ r \in Request
    BY TailOf DEF Inv, Typed
  <2>. QED  BY <2>1 DEF Request
<1>2. Asked(r, engine, worker)
  <2>1. 1 \in 1..Len(wire) /\ wire[1] = r /\ OneRequest
    BY TailOf DEF Inv, Typed, Linked
  <2>. QED  BY <2>1 DEF OneRequest
<1>3. worker.at = "start" /\ r.revision = worker.revision /\ Lacks(engine, worker, {})
  BY <1>2 DEF Asked
<1>4. engine.documents \in Overlay /\ worker.known \in Overlay /\ worker.revision \in Nat
  BY <1>1, Processes, WorkerFields
<1>5. engine.documents = worker.known
  BY <1>3, <1>4 DEF Lacks, Overlay
<1>6. ~Steady(worker)
  BY <1>3 DEF Steady
<1>7. CASE Compiles(engine.documents)
  <2>. DEFINE m == [engine EXCEPT !.running = TRUE, !.revision = r.revision]
              a == [ok |-> TRUE, stale |-> FALSE, mine |-> r.mine]
  <2>1. engine' = Reload(m) /\ answers' = Append(answers, a)
    BY <1>7 DEF StartPreview, Say
  <2>2. /\ m \in Process /\ m.running /\ m.revision = worker.revision
        /\ m.documents = engine.documents
    BY <1>1, <1>3, <1>4 DEF Process
  <2>3. a \in Answer /\ ~a.stale
    BY <1>1 DEF Answer
  <2>. HIDE DEF m, a
  <2>4. engine' = [m EXCEPT !.applied = m.revision, !.plays = m.documents]
    BY <1>7, <2>1, <2>2 DEF Reload
  <2>5. /\ engine' \in Process /\ engine'.running /\ engine'.documents = worker.known
        /\ engine'.revision = worker.revision /\ engine'.plays = worker.known
        /\ engine'.applied = worker.revision
    BY <1>4, <1>5, <2>2, <2>4 DEF Process
  <2>6. Heard(a, engine', worker)
    BY <1>3, <2>3, <2>5 DEF Heard, Agrees
  <2>. QED  BY <1>6, <2>1, <2>3, <2>5, <2>6, ServedInv
<1>8. CASE ~Compiles(engine.documents)
  <2>. DEFINE a == [ok |-> FALSE, stale |-> FALSE, mine |-> r.mine]
  <2>1. engine' = engine /\ answers' = Append(answers, a)
    BY <1>8 DEF StartPreview, Say
  <2>2. a \in Answer /\ ~a.stale /\ ~a.ok
    BY <1>1 DEF Answer
  <2>. HIDE DEF a
  <2>3. Heard(a, engine', worker)
    BY <1>3, <2>2 DEF Heard
  <2>. QED  BY <1>1, <1>6, <2>1, <2>2, <2>3, ServedInv
<1>. QED  BY <1>7, <1>8

(* Requests that change nothing in the engine.                             *)
LEMMA LooksInv ==
  ASSUME Inv, UNCHANGED <<window, box, worker, published, shown, engine>>, engine # None,
         wire # << >>, wire' = Tail(wire), NEW r, r = Head(wire), r.mine,
         r.kind \in {"launch", "variable", "cursor"}, NEW ok \in BOOLEAN, Say(ok, FALSE, r.mine)
  PROVE  Inv'
<1>1. engine \in Process /\ r.mine \in BOOLEAN
  <2>1. engine \in Process /\ r \in Request
    BY TailOf DEF Inv, Typed
  <2>. QED  BY <2>1 DEF Request
<1>2. Asked(r, engine, worker) /\ (Steady(worker) => Agrees(engine, worker))
  <2>1. 1 \in 1..Len(wire) /\ wire[1] = r /\ OneRequest
    BY TailOf DEF Inv, Typed, Linked
  <2>. QED  BY <2>1 DEF OneRequest, Inv, Linked
<1>. DEFINE a == [ok |-> ok, stale |-> FALSE, mine |-> r.mine]
<1>3. a \in Answer /\ answers' = Append(answers, a) /\ ~a.stale
  BY <1>1 DEF Answer, Say
<1>. HIDE DEF a
<1>4. Heard(a, engine', worker)
  BY <1>2, <1>3 DEF Heard, Asked
<1>. QED  BY <1>1, <1>2, <1>3, <1>4, ServedInv

LEMMA ServeInv == ASSUME Inv, Serve PROVE Inv'
<1>. DEFINE r == Head(wire)
<1>1. /\ engine # None /\ wire # << >> /\ wire' = Tail(wire)
      /\ UNCHANGED <<window, box, worker, published, shown>>
  BY DEF Serve
<1>2. r \in Request /\ 1 \in 1..Len(wire) /\ wire[1] = r /\ OneRequest
  BY <1>1, TailOf DEF Inv, Typed, Linked
<1>3. \/ r.kind \in {"launch", "variable"} /\ UNCHANGED engine /\ Say(TRUE, FALSE, r.mine)
      \/ r.kind \in {"resend", "source"} /\ r.base = None /\ CommitSnapshot(r)
      \/ r.kind = "source" /\ r.base # None /\ ApplyPatch(r)
      \/ r.kind = "start" /\ StartPreview(r)
      \/ r.kind = "cursor" /\ Seek(r)
  BY DEF Serve
<1>. HIDE DEF r
<1>4. CASE ~r.mine
  <2>1. r.kind = "variable"
    BY <1>2, <1>4 DEF OneRequest
  <2>2. UNCHANGED engine /\ Say(TRUE, FALSE, r.mine)
    BY <1>3, <2>1
  <2>. DEFINE a == [ok |-> TRUE, stale |-> FALSE, mine |-> r.mine]
  <2>3. a \in Answer /\ ~a.mine /\ answers' = Append(answers, a)
    BY <1>2, <1>4, <2>2 DEF Answer, Request, Say
  <2>. HIDE DEF a
  <2>4. ~Head(wire).mine
    BY <1>4 DEF r
  <2>. QED  BY <1>1, <2>2, <2>3, <2>4, ForgottenInv
<1>5. CASE r.mine
  <2>1. Asked(r, engine, worker) /\ r = Head(wire)
    BY <1>2, <1>5 DEF OneRequest, r
  <2>2. engine \in Process /\ worker \in WorkerType /\ engine.revision \in Nat
        /\ worker.revision \in Nat
    BY <1>1, Processes, WorkerFields DEF Inv, Typed
  <2>3. CASE r.kind \in {"launch", "variable"} /\ UNCHANGED engine /\ Say(TRUE, FALSE, r.mine)
    BY <1>1, <1>5, <2>1, <2>3, LooksInv
  <2>4. CASE r.kind \in {"resend", "source"} /\ r.base = None /\ CommitSnapshot(r)
    <3>1. r.revision > engine.revision
      BY <2>1, <2>2, <2>4 DEF Asked, Resends, Changes
    <3>2. Stores(r, r.text) /\ Say(TRUE, FALSE, r.mine)
      BY <2>4, <3>1 DEF CommitSnapshot
    <3>. QED  BY <1>1, <1>5, <2>1, <2>4, <3>2, StoresInv
  <2>5. CASE r.kind = "source" /\ r.base # None /\ ApplyPatch(r)
    <3>1. r.base = engine.revision /\ engine.documents[r.path] # None
          /\ engine.documents[r.path] = r.old
      BY <2>1, <2>5 DEF Asked, Changes
    <3>2. Stores(r, r.text) /\ Say(TRUE, FALSE, r.mine)
      BY <2>5, <3>1 DEF ApplyPatch
    <3>. QED  BY <1>1, <1>5, <2>1, <2>5, <3>2, StoresInv
  <2>6. CASE r.kind = "start" /\ StartPreview(r)
    BY <1>1, <1>5, <2>1, <2>6, StartedInv
  <2>7. CASE r.kind = "cursor" /\ Seek(r)
    <3>1. worker.at = "cursor" /\ r.revision = worker.revision
      BY <2>1, <2>7 DEF Asked
    <3>2. r.revision = engine.revision
      BY <1>1, <3>1 DEF Inv, Linked, Steady, Agrees
    <3>3. UNCHANGED engine /\ \E ok \in BOOLEAN : Say(ok, FALSE, r.mine)
      BY <2>7, <3>2 DEF Seek
    <3>. QED  BY <1>1, <1>5, <2>1, <2>7, <3>3, LooksInv
  <2>. QED  BY <1>3, <2>3, <2>4, <2>5, <2>6, <2>7
<1>. QED  BY <1>4, <1>5

-------------------------------------------------------------------------------
LEMMA InitInv == ASSUME PreviewInit PROVE Inv
<1>1. worker \in WorkerType /\ shown \in ShownType /\ Mailed(box)
  BY Processes DEF PreviewInit, WorkerType, ShownType, Mailed
<1>2. Typed
  BY <1>1 DEF PreviewInit, Typed
<1>3. Linked /\ Placed
  BY DEF PreviewInit, Linked, Placed, ShownIsCurrent
<1>. QED  BY <1>2, <1>3 DEF Inv

LEMMA NextInv == ASSUME Inv, [PreviewNext]_preview PROVE Inv'
<1>1. CASE Writer \/ Debounce
  BY <1>1, WriterInv
<1>2. CASE Thread
  BY <1>2, HandleInv, AnsweredInv DEF Thread
<1>3. CASE GiveUp
  BY <1>3, GiveUpInv
<1>4. CASE Poll
  BY <1>4, PollInv
<1>5. CASE Serve
  BY <1>5, ServeInv
<1>6. CASE Publish
  BY <1>6, PublishInv
<1>7. CASE Dies
  BY <1>7, DiesInv
<1>8. CASE UNCHANGED preview
  <2>1. UNCHANGED <<worker, link, shown>> /\ docs' = docs /\ box' = box
    BY <1>8 DEF preview, window
  <2>. QED  BY <2>1, WindowInv DEF Inv, Typed
<1>. QED  BY <1>1, <1>2, <1>3, <1>4, <1>5, <1>6, <1>7, <1>8 DEF PreviewNext

LEMMA InvHolds == PreviewSpec => []Inv
BY InitInv, NextInv, PTL DEF PreviewSpec

(* No answer that is waited for is stale, and between two requests editor  *)
(* and engine have the same texts under the same revision (apply_snapshot  *)
(* of the control thread, commit_snapshot and apply_patch of the engine):  *)
(* for any documents, texts and edits, and whenever the engine dies, is    *)
(* slow or is started again.                                               *)
THEOREM PreviewAgrees == PreviewSpec => []Synced
<1>1. ASSUME Inv PROVE Synced
  <2>1. CASE engine = None
    <3>1. answers = << >> /\ ~Attended
      BY <1>1, <2>1 DEF Inv, Linked, Attended
    <3>. QED  BY <3>1 DEF Synced
  <2>2. CASE engine # None
    <3>1. OneRequest /\ answers \in Seq(Answer)
      BY <1>1, <2>2 DEF Inv, Typed, Linked
    <3>2. \A i \in DOMAIN answers : answers[i].mine => ~answers[i].stale
      BY <3>1 DEF OneRequest, Heard
    <3>3. Attended => Agrees(engine, worker)
      BY <1>1, <2>2 DEF Inv, Linked, Steady, Attended
    <3>. QED  BY <3>2, <3>3 DEF Synced, Agrees
  <2>. QED  BY <2>1, <2>2
<1>. QED  BY <1>1, InvHolds, PTL

(* A place marked in the editor was reported for the texts the engine got  *)
(* last, and the preview is running: what changes the revision also takes  *)
(* the place back (sync_cursor, poll_position and take_published_position). *)
THEOREM PlaceIsCurrent == PreviewSpec => []ShownIsCurrent
<1>1. Inv => ShownIsCurrent
  BY DEF Inv, Placed
<1>. QED  BY <1>1, InvHolds, PTL

-------------------------------------------------------------------------------
(* A process follows the files or an editor; what the other half promises  *)
(* it keeps by resting (mode.hot_reload is off in a preview).              *)
THEOREM LiveKeepsBoth == LiveSpec => Spec /\ PreviewSpec
<1>1. LiveInit => Init /\ PreviewInit
  BY DEF LiveInit
<1>2. [LiveNext]_<<follows, watched, preview>> => [Next]_<<project, changes, game>>
  BY DEF LiveNext, watched
<1>3. [LiveNext]_<<follows, watched, preview>> => [PreviewNext]_preview
  BY DEF LiveNext
<1>. QED  BY <1>1, <1>2, <1>3, PTL DEF LiveSpec, Spec, PreviewSpec

(* A running game plays the newest project that can be built, and an editor *)
(* beside it knows what it plays and shows where it is.                    *)
THEOREM LiveSourcesHold == LiveSpec => [](PlaysProject /\ Synced /\ ShownIsCurrent)
BY LiveKeepsBoth, SettlesOnProject, PreviewAgrees, PlaceIsCurrent, PTL
================================================================================
