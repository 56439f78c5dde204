# Verification of Keine

Keine is a visual novel engine in Rust on Bevy: it compiles scripts of three
source languages into one `Program`, runs it on one `State`, and keeps what the
player saves. This directory holds TLA+ modules that model the runtime's core
logic, TLC configurations that check them on small instances, and proofs that
TLAPS checks for every instance.

Paths below are relative to the repository.

## 1. The system

| Part | State it keeps | Operations | Hard behaviour |
|---|---|---|---|
| script core (`crates/core/src/model`, `runtime/step.rs`) | `State`: position, return frames, dialogue, menu, input, presentations, variables, backlog, read marks | one step per action; `advance`, `select_choice`, `end_game`, `restore_saved`, `restore_backlog` | a long legal history reaches a state no test built; endless scripts |
| driver and tick (`src/runtime/script/driver.rs`, `src/runtime/tick.rs`) | continuation checkpoint, typewriter clock | `resume`, `resume_for_tooling`, `tick` | clicks, auto, skip, timers and videos all ask for the next step |
| stage input and dialogs (`src/ui/stage`, `src/ui/overlays`, `src/ui/screens/save`, `src/runtime/host.rs`) | which scope owns the input | choices, messages, slots, rollback, return to the title | stale menus, operations during a presentation |
| title (`src/ui/screens/title.rs`) | phase of the return transition | start, continue | an exit or frame between the phases |
| save slots (`src/storage/save.rs`, `crates/loader/src/adapter/store.rs`) | slot files, checkpoint | save, load, delete, quick save on exit | a state that cannot be serialised, a crash, another build of the script |
| backup and recovery (`src/storage/backup.rs`, `persistence.rs`, `src/storage.rs`) | `saves`, `saves.importing`, `saves.previous` | import, recover, migrate, `write_atomically` | failure or power loss at every file operation |
| profile, read history, gallery, settings (`src/storage`) | what was last written, a deadline | delayed write, flush on exit | import and exit racing the delay |
| thumbnails (`src/storage/save/preview.rs`) | queue, generation per slot | enqueue, write | late result, full queue |
| hot reload, seek (`src/runtime/script/reload.rs`, `src/runtime/preview/seek.rs`) | pending changes, build in progress | poll, apply, restart | a build overtaken by a change |
| window and pacing (`src/runtime/platform.rs`, `bootstrap.rs`) | activity | classify, sleep, wake | sleeping while the script is due |
| video and audio (`src/scene`, `src/runtime/audio.rs`) | decoder threads, queues | play, stop, finish | completion in any frame, bounded queues |
| assets and rendering (`src/scene`, `src/render`) | handles, materials | load, draw | loading gate |
| loader and adapters (`crates/loader`) | none | parse, compile | none: pure |
| expressions, text, animation (`crates/core/src/runtime`) | none | pure functions | numeric edges |
| authoring protocol (`crates/authoring`, `src/runtime/authoring.rs`) | pending commands | commands, snapshots over a pipe | a process that dies |
| editor (`crates/editor`) | documents, recovery drafts, trash, preview worker | edit, save, recover, move, preview | external modification, background writers |
| publisher, migration, CLI, benchmarks, media | none | one-shot tools | directory swap of a release |

How they interact: the frame loop calls `tick`, which calls `resume` on the
`State`; UI handlers mutate the same `State` between frames and call `resume`
themselves; the driver keeps a checkpoint in front of an action whose
presentation a save cannot hold; saves take the live state or that checkpoint;
`persistence::prepare` recovers the save directory before anything is loaded.
The editor talks to an engine process over a pipe.

What makes each correct: the script core never runs past something the player
has to answer and never hangs; a position lies inside its program; rollback and
load give a game that goes on; a load brings back what the save took, up to a
stated list; the save directory changes
as a whole; background writers write the newest value; an editor never loses a
draft. The hazards list of `PROJECT.json` names each at its line.

## 2. Modules

| Module | Models |
|---|---|
| `ScriptCore` | pure operators: `State`, the actions of a program, the operations a host calls |
| `ScriptEngine` | EXTENDS `ScriptCore`; the process around one `State`: frames, resumes, player, slots, reload, exit, crash |
| `MCScript` | programs and bounds for TLC |
| `ScriptEngineProofs` | inductive invariant of the checkpoint, theorems |
| `ScriptStateProofs` | EXTENDS `ScriptEngineProofs`; inductive invariant of the State, the slots and the return, theorems |
| `SaveSet` | abstract: one save set, replaced as a whole |
| `SaveTransaction` | the file operations; implements `SaveSet` |
| `MCSave` | backups and legacy sets for TLC |
| `SaveTransactionProofs` | types, the committed name, durability and the refinement of `SaveSet`, theorems |
| `SavePreview` | thumbnails: main thread, renderer, encoder thread, loading tasks |
| `SavePreviewProofs` | pictures on the disk and on the screens, the one directory and types, theorems |
| `DelayedWriters` | profile, read history, gallery and settings: the writer of one store |
| `DelayedWritersProofs` | the kept original and the exit, theorems |
| `EditorDocument` | one source file in the editor, its recovery draft and its background writes |
| `EditorDocumentProofs` | the closed document and the draft of the open one, theorems |
| `HotReload` | the sources of a project, watcher, change counter, worker and frame of a running game |
| `HotReloadProofs` | what a settled game plays, theorems |
| `OpenScripts` | the documents an editor has open: constants and sizes |
| `AuthoringPreview` | EXTENDS `OpenScripts`; the editor's mailbox, its control thread and the engine process |
| `LiveSources` | EXTENDS `HotReload` and `AuthoringPreview`: both ways a running game follows its sources |
| `AuthoringPreviewProofs` | EXTENDS `LiveSources`, `HotReloadProofs`; what editor and engine agree on, and that the composition keeps both halves, theorems |

### ScriptCore and ScriptEngine

`state` is `GameState`, with the fields control depends on: `scene` and
`cursor` (the cursor is the index of the next action), `stack`
(`scene_stack`), `ended`, `dialogue`, `previous`, `menu`, `input`, `message`,
`waiting` (`WaitForAdvance`), `shell` (a host command asking for the title),
`vars`, `backlog`, `read`. Texts, pictures and sounds are left out.

What an action shows is a *slot* with a status: `off`, `on` (runs, nobody
waits), `block` (runs, the script waits), `loop` (stays until something stops
it). Sets of slots say what the code does with the fields behind one:
`Transient` are those `persistence_safety` reports, `KeptByEnd` those `end_game`
does not reset, `InSnapshot` and `KeptByRollback` those a backlog entry carries
or `restore_backlog` leaves, `HoldSlots` those visible after settling. The
instances use them like this: `video` for `PlayVideo`, `camera` for a move or shake
of the camera, `wait` for `Wait`, `curtain` for the curtain, `mask` for a stage
mask, `parallax` for the mouse parallax, `place` for the background's transform
(`bg_transform`) and `background` for its animation. The last three are in
`KeptByEnd`, since `end_game` resets none of them (`step.rs`, `end_game`); the mask
is `InSnapshot` and `Transient`: a backlog entry carries it in memory, and the codec
skips it (`stage_masks` of `state.rs`).

An expression is what evaluating it can do: it holds, does not hold, or fails.
Labels are resolved to indices as the compiler does.

`resume` runs many actions inside one call. The model takes them one at a time
(`StepAction`, `StepPop`, `StepFallOff`, `StepLimit`, `StepRefused`), with
`run` holding what is left of the call; between two of them only a crash may
come, because the code is single-threaded there. Every other action is one
handler of the host, whole: `Tick` is `tick` with its order (presentations, then
pending resume, then skip, then click, `-notend` and auto), `BackToTitle`
contains its quick save, `Exit` contains `quick_save_on_exit` and the next
launch, `Reload` contains the restart of the preview run.

`Commands` says which player operations an instance exercises. It bounds the
state space of a run; the proofs hold for every set.

### SaveTransaction

`fs` is what a running process sees of the three directories; `durable` the
views a power loss may leave; `pc` the next file operation. Each operation that
can fail or be interrupted is an action: the copies, the two renames and each
`sync`. `MayFail` names the operations allowed to return an error; an error at
launch ends the process, one at run time gives a notice and the game goes on.

The file system is external and assumed as follows. Directory operations are
journalled in order: a power loss leaves a prefix of those since the last
`fsync`, and any `fsync` flushes the journal. The bytes of a file that was not
synchronised survive or are torn. `remove_dir_all` may stop with any subset of
the files left. The temporary file of `write_atomically` is part of `job`.
Thumbnails are left out. The migration of a legacy directory goes through the
same steps; which legacy set an installation has, if any, is chosen in `Init`
from `Olds` and never changes (`Kept`).

### SavePreview

The main thread (`main`, with the next file operation of its handler), the
renderer (`captures`), the queue and the encoder thread (`worker`) each take
their own steps; a crash may come between any two. The lock of
`SavePreviewCoordinator` is held by the worker from the check of the generation
to the rename (`Locked`), and a save, a deletion or an import waits for it
(`LockFree`). An image is the number of the save it shows, a directory a record
of states, pictures and temporary files. `quick` and `cards` are what the title
and the save screen show and the tasks that load it; `quick.overtaken` and
`quick.late` are history, they mark a load of the title that a save, a clearing or
an import overtook, and a picture such a load delivered. The generations start anew
with each process. The rename that installs an imported directory may fail; the
directory set aside is then put back (`Undo`).

### DelayedWriters

No writer reads what another one writes, so the module follows one `store`,
chosen in `Init`. `memory` is the field of the State (or the settings),
`saved` and `clock` the writer's resource; `changed` is Bevy's change flag of
`GameState`. Time passes in half seconds per frame, from none to more than
every delay. `broken` and `copies` are an unreadable file and the recovery links made
of it; 100 recovery names become `MaxCopies`. A directory that is imported
brings a new file and no damage.

### EditorDocument

`doc` is the open document, `jobs` the background writes prepared for it,
`worker` the one that holds the writer's lock. The epoch is not a number: a job
whose epoch was overtaken before it ran does nothing and leaves `jobs`; one that
is running loses its `fresh` mark and removes what it wrote. Handlers of the
window that touch several files are steps of `ui`. Contents are texts; a document is
dirty when it differs from its base.

### HotReload, AuthoringPreview, LiveSources

`HotReload`: a change is `unseen` until the operating system reports it, then in
the watcher's set, then counted, then in a worker that reads one file after the
other; a frame installs its build when nothing was counted meanwhile. `Change`
is the writer's own editor. The module starts with a Program built from the
files.

`AuthoringPreview`: `box` is `PendingCommands` with its order (control before
sources, a start after them, the cursor last) and its budget; `worker` the
control thread, in at most one request; `wire` and `answers` the stream. `mine`
marks what belongs to the request in progress: the code compares request
identifiers, so an answer to a request it gave up is not taken. A snapshot sent
in chunks is one request, since nothing else is sent between them. The engine
keeps `documents` over the project's files, with their revision (`revision`),
the revision the game was built from (`applied`), and the texts it plays.

`docs` are the texts in memory, `panels` what their panels do: a text was passed on
(`open`), waits for the debounce (`due`), is being typed into as a block (`typing`,
no debounce until `LeaveBlock`), or has no panel and is `kept` because it is dirty or
`closed`. `CloseTab` ends a debounce, `OpenTab` passes the text on again. Texts are
taken up to their layout, since a save formats its document without telling the
preview, and what lies on the disk under a closed document is taken to compile.

`LiveSources` composes both: a process follows the files or an editor, never
both (`mode.hot_reload` is off in a preview).

### Faults behind a constant

Some constants switch on a behaviour the code has and a property does not
survive. The runs say which value they use:

| Constant | TRUE means | Value |
|---|---|---|
| `Overlap` (`SavePreview`) | an import may start while a thumbnail is on its way | FALSE; TRUE in `ImportPreview` |
| `Hurried` (`DelayedWriters`) | the script may change the State between an import and its writing back; a value or a count that equals the last one written is taken for clean | FALSE |
| `Racing` (`EditorDocument`) | another program writes between `save`'s comparison and its rename, and is overwritten | FALSE |
| `HiddenEdits` (`EditorDocument`) | a tab is closed within 350 ms of an edit; its timer ends with it, and the draft is older than the document | FALSE |
| `SpawnFails` (`HotReload`) | starting a worker thread may fail | TRUE |
| `MayFail` | file operations that may report an error | see the cfg files |

No document of the repository speaks about `Hurried`, `Racing` or `HiddenEdits`, so they are observations rather than findings.

## 3. Runs

| Run | Question | Result |
|---|---|---|
| `ScriptFlow` | does every interleaving of clicks, auto, skip, frames, rollback, title and hot reload keep positions, backlog and read marks right, and start a new game fresh? | holds |
| `ScriptSaves` | is what two slots hold complete, resumable and available while presentations run, across crashes and launches of another build? | holds |
| `ScriptWaits` | does a waiting script come back to the player? | holds |
| `SaveAtomic` | do the file operations implement one save set replaced as a whole, in a new installation and with a legacy set? | holds |
| `SavePreview` | does each picture belong to the save it stands beside, on the disk and on the screens, whatever the two threads do? | holds |
| `DelayedWriters` | is what the player changed written in the end and at an exit, and is a file that could not be read ever destroyed? | holds |
| `EditorDocument` | does the recovery draft follow the document, and does closing end? | holds |
| `LiveSources` | does a running game play the newest sources that can be built, and does the editor show where it is? | holds |
| `ScriptParallax` | can a game always be saved? | violated |
| `ScriptExit` | is the quick save written only while a game is played? | violated |
| `SaveOrphan` | is the save set atomic when the sync after the first rename fails? | violated |
| `ImportPreview` | does the picture still belong to its save when an import meets the encoder? | violated |

Properties:

* `NoStepPastYield`, `YieldOwned`: a resume under an open menu, input, message
  or presentation does nothing; when no resume runs, someone owns the next step.
* `PositionsValid`, `AttachedProgram`: cursors and frames lie inside their
  program, in the state, the backlog, the checkpoint and the slots; another
  build's position never becomes the running one.
* `RollbackShowsLine`, `BacklogTop`: what a rollback gives; the newest entry is
  the line on the stage.
* `ReadMeansShown`: only a line that was shown in full becomes read.
* `NewGameFresh`: a game started from the title differs from one on a fresh launch
  by the profile and by what `end_game` leaves on the stage, which the runs
  include (`background` and `place`), and by nothing else.
* `CheckpointReplays`, `SaveAvailable`, `SaveLossless`, `SavesResume`: the
  checkpoint stands in front of the presentation it stands for; there is always
  something to save; what is loaded goes on. `SaveLossless` is the round trip: what
  a slot receives, loaded by a later process of the same build, is the live State
  or the checkpoint again, position, frames, presentations, variables and backlog.
  The codec drops, and the property excepts, the loading policy (its comment says
  the script replays it; a load goes on behind that action), a pending command to
  the shell, session variables, read lines (which the profile holds) and, inside
  the backlog, presentations a slot cannot hold.
* `ReachesPlayer`, `ResumeEnds`, `ReturnCompletes`, `VideoHandsOver`: liveness.
* `Transactional`: the refinement of `SaveSet`. `CommittedName`: while the game
  runs, `saves.previous` is never the only set. `ReportedIsDurable`: a success
  that was reported survives a power loss.
* `PictureMatches`, `CardMatches`, `ContinueMatches`: a thumbnail is of the save
  it stands beside, in the directory, on the save screen and beside Continue. Beside
  Continue there is one exception, and `ContinueMatches` says it is the only one: a
  load that began before the quick save was replaced and is polled after it
  (`quick.late`). It happens: the title is left before the picture is decoded, the
  player saves, and the next visit of the title polls the old result
  (`title.rs`, `hydrate_quick_save_preview`). Without the exception TLC shows it.
  `NoResurrection`: a slot without save and picture gets no picture from the
  worker. `OneDirectory`: between two commands no set is left aside.
  `CommandEnds`: no command waits for ever for the worker's lock, and an exit
  ends.
* `ExitKeeps`: after an exit the file is what the game knew. `EventuallyWritten`:
  a change is written although others follow it and writes fail.
  `OriginalKept`: an unreadable file stays in its place or under a recovery name.
* `DraftFollows`: at rest the draft is the document's. `ClosedIsStill`: no job of
  a closed document touches the draft. `Completes`: an edit reaches its draft.
  Closing the window repeats its write while the writer types during it; every
  round ends although writes fail, and the first one without an edit closes.
* `PlaysProject`, `SavedIsPlayed`: what is installed at rest, and in the end, is
  what the files hold. `Synced`: editor and engine agree on texts and revisions
  between two requests, so no answer is stale. `ShownIsCurrent`: a position that
  is shown belongs to the texts the engine got last; the writer's may be newer
  during a debounce. `Delivered`: the engine has the text of a document in the end
  if the preview runs on and the document's panel stays open outside its blocks.
  It promises nothing for other documents, and the code loses their edits: the
  debounce belongs to the panel and ends when the tab is closed within it
  (`panel/construction.rs`, on change), and it is not started while a block is typed
  into. A text that was not passed on reaches a running preview only when the tab is
  opened again, when the document is edited again or with the next start.

### Findings

* **ScriptExit.** `quick_save_on_exit` checks `ended`, which a finished script
  sets only after the cover phase of the return. An exit in that phase replaces
  the quick save by the position behind the script's last action.
* **ScriptParallax.** `end_game` leaves the mouse parallax, which
  `persistence_safety` counts, so a later game is not exact and has no checkpoint.
* **SaveOrphan.** `import_bytes` returns on a failed `sync_directory` between
  its two renames without undoing the first. The next slot write creates a
  small `saves`, and the next recovery deletes the complete `saves.previous`.

* **ImportPreview.** `import_bytes` does not take the lock of the generations and
  `invalidate_all` comes after it. A worker that passed its check before writes
  into the imported directory. Worse, it creates `saves/` again between the two
  renames: the second one fails, so does the undo, whose result is ignored,
  and the old set is left under `saves.previous`, which the next recovery
  deletes (`OneDirectory` fails in the same instance).

`SaveAtomic` therefore leaves `asidesync` and `undo` out of `MayFail`: every
other operation may fail there. `SavePreview` starts an import only while the
encoder has nothing to do.

Smaller observations, where no document says otherwise: the picture of an older
quick save may be shown beside Continue (`ContinueMatches`); `end_game` leaves the
transform and the animation of the background to the next game; an edit is lost to a
running preview when its tab closes within the debounce, and a save's formatting is
never passed on; the control thread never
forgets a document that was closed or renamed, and sends it with every start; a
`.shou` file outside `scripts/` ends the preview, since the engine refuses its
path; a seek while the present text does not compile is dropped; when the
directory synchronisation of a save fails, the card keeps its old picture
although the slot holds the new save; an import drops the declared defaults of
shared variables until the next launch; a hot reload in place drops the read
marks; a source saved between the build of the first Program and the start of
the watcher is not noticed until the next change.

### Bounds

* `MaxForward` is 6 in `ScriptFlow` and `ScriptSaves`, 4 elsewhere (1024 in the code). The
  programs come to a yield within it, except for their loops, which never do: both
  sides of the limit are exercised.
* `BacklogCapacity` is 2 in `ScriptFlow` and `ScriptSaves`, 1 elsewhere, while a session says more
  lines than that: entries are dropped.
* Two programs in `ScriptFlow` and `ScriptSaves`, the second of them shorter and
  without the scene `side`, so positions of one are outside the other.
* Two slots, the quick save and a manual one; two variables, one of them a
  session variable; two values.
* `SaveAtomic`: two file names, two versions, two backups (one of them without
  one of the files), a legacy set. `MaxUnsynced` bounds the number of views in
  the journal *when a change begins*; a change may add to it. Mixtures need two
  files, stale data two versions, and both ways an import can differ from the
  current set are present. `Olds` holds both kinds of installation.
* `SavePreview`: the quick save and one card, three commands (save twice and
  delete or import between them), a queue of one (2 in the code): a full queue and a job
  in the worker behind a capture need three saves.
* `DelayedWriters`: three values, lines and so many pictures that a set can
  change to another one of the same size; three damages and two recovery names,
  so the names run out.
* `EditorDocument`: three texts (base, draft, another program's) and four
  changes.
* `LiveSources`: two files with an old, a new and a broken text and four
  changes, so that a change meets the reading of each file; two documents, a
  text that counts double and one that does not compile, a budget of three,
  two edits and two clicks (closing a tab counts as one). The documents begin with
  the same text (`RunSpec`); edits make them differ. The runs of this module may stop: the writer may
  cease, so deadlock is not checked there.
* The state spaces are finite without state constraints.

### Fairness

`FairSpec` assumes weak fairness of what the frame loop does: `Step`,
`FramePasses` (a frame in which the clocks of presentations and the typewriter
end), `DispatchShell`, `VideoEnds` for each video slot, `ReturnCover` and
`ReturnReveal`. The code runs them every frame (`tick` and `animate_return_to_title` are systems of
the update schedule; `classify_runtime_activity` keeps frames coming while
`needs_resume` holds), and every timed presentation has a finite duration.
`VideoEnds` assumes that a backend reports the end or the failure of a video.
Nothing is assumed of the player: no click, choice or input has to come.
`FairSpec` does not assume that a script makes progress by itself; `ResumeEnds`
shows that the forward limit gives that.

`SavePreview`: a handler runs on, the encoder takes the next job, the renderer
answers a screenshot, a loading task ends. `DelayedWriters`: time passes in
frames, because `PersistenceWake` ends the sleep of the window when a delay is
over (`update_write_deadline`); a disk that is asked again and again takes a
write, without which nothing could be promised. `EditorDocument`: background
jobs run, a handler ends, and the timer ends in some pause between two handlers
(strong fairness, as handlers exclude it while they run). `HotReload`: changes
are reported, frames come, the worker reads on, and a thread can be started now
and then (strong fairness of `Started`). `AuthoringPreview`: timers end, the
thread takes what waits and hears what comes, a live engine answers; nothing
is assumed of the writer, who may stay in a block, of time-outs or of the life of the engine.
A writer who saves more quickly than a build reads would keep `HotReload` from
ever installing one; `SavedIsPlayed` therefore speaks of a writer who stops.

## 4. Proofs

Every invariant and every action property of the passing runs is proved for all
values of the constants; what stays with TLC is liveness (see the end of this
section). The table lists the theorems that state a property of a run, with what
they assume beyond the named assumptions of the modules.

| Property | Theorem | Assumes |
|---|---|---|
| `CheckpointReplays` | `CheckpointAlwaysReplays` | |
| `TypeOK` (`ScriptEngine`), `PositionsValid`, `AttachedProgram` | `EngineTyped`, `PositionsAlwaysValid`, `ProgramStaysAttached` | |
| `NoStepPastYield`, `ReadMeansShown` | `NothingPassesAYield`, `ReadTextWasShown` | |
| `YieldOwned`, `SavesResume`, `SaveLossless`, `NewGameFresh` | `YieldsAreOwned`, `LoadedGamesGoOn`, `SavesLoseNothing`, `NewGamesAreFresh` | `EveryProgramStarts` |
| `RollbackShowsLine` | `RollbacksShowTheirLine` | `RollbackReleases` |
| `BacklogTop` | `BacklogLeads` | `NoExit` |
| `SaveAvailable` | `SavesAreAvailable` | `EveryProgramStarts`, `LeftoversAreSaved`, `NoReload` |
| `TypeOK` (`SaveTransaction`) | `TypeCorrect` | |
| `CommittedName`, `ReportedIsDurable`, `Transactional` | `CommittedNameHolds`, `ReportedIsDurableHolds`, `TransactionalHolds` | `asidesync`, `undo` not in `MayFail` |
| `TypeOK` (`SavePreview`) | `PreviewTyped` | |
| `PictureMatches`, `NoResurrection`, `OneDirectory` | `PicturesMatch`, `NothingResurrected`, `OneSaveDirectory` | `~Overlap` |
| `CardMatches`, `ContinueMatches` | `CardsMatch`, `ContinuesMatch` | `~Overlap`, `dirsync` not in `MayFail` |
| `TypeOK` (`DelayedWriters`), `OriginalKept` | `WritersTyped`, `OriginalIsKept` | |
| `ExitKeeps` | `ExitsKeep` | `~Hurried` |
| `ClosedIsStill` | `ClosedStaysStill` | |
| `DraftFollows` | `DraftsFollow` | `~HiddenEdits` |
| `PlaysProject` | `SettlesOnProject` | |
| `Synced`, `ShownIsCurrent` | `PreviewAgrees`, `PlaceIsCurrent` | |
| all three of `LiveSources` | `LiveSourcesHold` | |

Besides, `AlwaysAttached` (no resume runs a game that is over), `EditorTyped`
and `RunsValidProgram` (the game never runs a mixture a build would refuse) are
proved, and `LiveKeepsBoth`: the composed `LiveSpec` implies both of its parts.

### The script

`CheckpointReplays` is not inductive. A checkpoint is taken in front of an
action, and the step that follows may fail, yield or be a resume by the preview
tooling, which takes no checkpoint and still finds one of the program before.
`CheckpointInv` (`ScriptEngineProofs`) adds that (a) the state, the checkpoint and
the slots have the shape their operators need (`Shaped`), (b) while a tooling run
is in progress the checkpoint belongs to another program, (c) a resume runs only
in a game that is not over. The lemmas `...Keeps` say which fields an operator of
`ScriptCore` leaves alone, `...Yields` that an action either makes nothing
transient run or is one that `Introduces` names. Every action of `Next` then
follows one of four patterns: it begins a resume (`BeginInv`), leaves the game
alone (`IdleInv`), resets the checkpoint (`ResetInv`) or finishes a resume
(`FinishInv`).

`EngineInv` (`ScriptStateProofs`) is the joint invariant of the rest. None of the
properties is inductive alone: a cursor is typed by the program it points into,
a rollback makes a State of a backlog entry, a load of a slot, a boundary of the
State. So every State there is, running, kept as the checkpoint or lying in a
slot, is `Sound`:

* `Standing`, `Logged`: cursor and frames lie inside its program; every backlog
  entry stands right behind the action that says its line (`Recorded`). The
  latter is why a rollback needs no repair and shows the line it was asked for.
* `Shows`: a presentation runs only if some action of the program starts it, and
  holds the script only if some action waits for it. It carries the hypotheses
  about what a program presents through all operations.
* `Offers`: a menu's labels lie in the scene that is played.
* `Rests`: a game that is over, or has not begun, holds nothing of a session.

A slot holds besides only what is still playing and has no diagnostic
(`Storable`), and `PhaseInv` says when a resume and a return to the title exclude
each other, and that a resume that has started runs on a stage that waits for
nobody: `NoStepPastYield` follows from it, because only its first step may
find something unanswered. The operations of `ScriptCore` keep `Sound`
(lemmas `...Sound`), and the host's actions follow the patterns above again.
`AvailInv` adds for `SaveAvailable` that a State that cannot be written has a
checkpoint, and that what lies in a slot can be written again.

What the hypotheses mean, and why the code needs them:

* `EveryProgramStarts`: each program has an entry scene. Without one, a title
  screen starts a game that has no scene and no owner.
* `RollbackReleases`: nothing that `restore_backlog` leaves alone ever holds the
  script. It leaves the mouse parallax, whose action does not yield
  (`step.rs`, `ConfigureSceneMouseParallax`).
* `LeftoversAreSaved`: what a rollback restores or leaves, and what an end
  leaves, can be serialised. A parallax or a sprite sequence that runs across a
  rollback makes a State that is not exact and has no boundary.
* `NoReload`: the restart of a hot reload enters the scene without a boundary, so
  a scene that starts with a transient presentation cannot be saved until the
  next yield. It says that the process does not watch its sources: the feature
  `hot-reload` is not built in, or the mode asks for none (`bootstrap.rs`).
* `NoExit`: an exit during the fade-out of a finished game stores a line that
  was already advanced, under a backlog that has moved on (`ScriptExit`). A load of
  that slot shows an older line than the newest entry.

### Save files

`TypeOK` of `SaveTransaction` with the two facts that relate the pc to the job and
to the directories it works on is inductive as it stands. `CommitInv` says that
outside the steps between the renames (`Swapping`) and a launch that has not
recovered yet (`Recovering`) the committed name exists or there is nothing aside.

`SwapInv` adds what a power loss may do. In every view it may leave, the
directories the player can see have reached the disk with all their files
(`JournalSettled`), because a copy is synchronised before it is renamed; so what
such a view reads like does not depend on torn bytes (`AfterReads`). The incoming
directory is the new set file by file (`IncomingHolds`), each step of the swap
finds the directories it works on (`SwapHolds`), and after the commit, or once a
success was reported, all views read the same (`OneVisible`): this is
`ReportedIsDurable`. A step is either `Quiet`, every view it adds reads as the
present one, or it `Replaces` one set by another as a whole. `Transactional` is
the step simulation on top of it: the initial states show what the installation
came with (`PromiseInit`), and each step is one of `SaveSet` or changes nothing
it shows (`PromiseStep`). The run `SaveOrphan` shows why `asidesync` has to
succeed.

### Thumbnails

`Belongs` is the common strengthening for the directory. No job is younger than
its slot (`Aged`), so a slot whose generation was raised has no current job
(`SlotInvalidated`). A current job is for the save that lies in its slot, and the
main thread is not between the invalidation of that slot and the end of its
command (`Valid`). A worker under the lock holds a current job
(`LockedCurrent`), because the main thread needs the lock to invalidate. So a
picture lands beside its own save (`WrittenPicture`), and an import finds nothing
on its way (`Importing`).

The screens follow the directory a command leaves or puts back, whichever name
it has at the moment (`Kept`). What is shown or on its way to a screen is for the
save in that directory, or the save is gone (`CardsFit`, `TitleFits`; the latter
leaves out a picture that came `late` and what an `overtaken` load has read). Every step
only removes saves (`Lasts`), except for the command that stores one, which forgets
its card in the same handler, and the import, after which all cards are
forgotten (`Replaced`). A command that shows no picture beside Continue marks the load that
runs as overtaken (`Overtaking`). A failed directory synchronisation ends the handler before the card
is forgotten: hence the hypothesis.

### Delayed writers

`OriginalKept` is inductive with the types: whatever replaces an unreadable file
has linked it before (`LandsKeeps`). For `ExitKeeps`, `Knows` says what the
comparison with the value written last is worth: that value is the file's, or
the State itself came from the file in an import. The read history is compared by
its size only, which suffices while a process only adds to it. (`Hurried` covers the
import, after which it may shrink; a hot reload in place also empties it,
`seek.rs`, and then a set that grew to the old size again is taken for clean. The
writers are modelled without hot reload.)

### Editor documents

A closed document has no job, no running worker and no unfinished handler
(`Still`), because the last epoch waits for the writer's lock. `Drafting` adds that
the jobs of an epoch are all of the document as it is (`Epoch`), that a worker of
an epoch before leaves either a clean document or another job to come (`Stale`),
and that a removal runs only when the document is clean and nothing fresh is
under way (`Cleaning`).

### Hot reload and preview

`PlaysProject` speaks of the moments at rest only. Its strengthening says what
holds while something is under way: unless a change is unseen, reported or
counted, every file the worker has read is as it was read, and the Program is
the project's unless a worker is about to bring it or the project cannot be
built.

`Synced` speaks of the moments between two requests. `Inv`
(`AuthoringPreviewProofs`) follows the one request in progress. There is at most
one message that anybody waits for, and it is the last on its way, there
(`Asked`) or back (`Heard`); messages of requests that were given up are of the
one kind that survives a refusal, a variable, and change nothing (`OneRequest`).
While it is on its way, `Asked` says what the engine lacks: all texts not sent
since the start (`Lacks`), the one the request brings (`Resends`), or, in a game
that runs, exactly the text of this revision, whose predecessor has the revision
and the text a patch names (`Changes`). So a patch is never laid over another
text and no request is refused as stale. When it has been served, editor and
engine agree (`Agrees`), which the control thread keeps as long as it is
`Steady`. `Placed` adds that whatever raises the editor's revision takes back
the place it shows. An engine that dies keeps its texts, so nothing depends on
when it does.

### Assumptions on constants

Each module names its own: sets that are disjoint or contained in each other,
bounds that are natural numbers, programs whose labels lie inside their scenes
(the compiler resolves them) and, several times, that a model value such as `None`
is not a record or function it stands beside (`Absent`, `NoValue`, `NoRun`,
`NoProcess`): an `Option` of the code is not one of its values. TLC evaluates all
of them in the runs.

### Only model-checked

* Liveness, which the prover cannot reach: `ReachesPlayer`, `ResumeEnds`,
  `ReturnCompletes`, `VideoHandsOver`, `CommandEnds`, `EventuallyWritten`,
  `Completes`, `SavedIsPlayed`, `Delivered`.
* The four violations: a counterexample needs no proof.
* `PreviewType`, of which `Typed` in `AuthoringPreviewProofs` proves all but the
  queue of control commands: `Intend` filters it with `SelectSeq`, which is
  recursive, and nothing the theorems state depends on it.

## 5. Not modelled, and the plan

Not modelled inside the parts that are: `RetractDialogue` and `Intro`, text
character by character, audio and vocals, the values of expressions, the arithmetic
of tweens. They do not change which action runs next, except for
`RetractDialogue`, which waits like any presentation.

Not modelled inside the newer parts: byte formats and their limits, the codecs
of what is kept beside the slots, audition of audio and performance samples of
the preview, the values of its variables, the cursor file of an external
editor, the files around the editor's documents (moves, trash, the editor's own
state, builds).

Not modelled at all: decoding and mixing of video and audio, asset loading and
rendering, parsers and compilers of the three source languages (pure functions
over text, by far the largest part of the code), migration, publishing and the
command line tools, benchmarks and packaging. `classify_runtime_activity`
decides from some forty flags of the screens whether frames come; the fairness of
the runs takes its result as given.

What would come next: `FileOps` (moves and trash with the references to what is
moved), the directory swap of the publisher, the bounded queues of the video
decoder, and the typewriter's arithmetic as pure operators.

Proofs to come go with those modules. Of what is modelled now, the hypotheses
`NoExit` and `NoReload` could be narrowed to the moments that hurt: an exit in the
cover phase, and a reload into a scene that starts with a transient presentation.
