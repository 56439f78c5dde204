---------------------------- MODULE HotReloadProofs ----------------------------
(***************************************************************************)
(* The game that watches its sources settles on what the files hold, for   *)
(* every set of files and texts.                                           *)
(***************************************************************************)
EXTENDS HotReload, TLAPS

OnItsWay == unseen \/ reported \/ pending

(* What PlaysProject rests on: a file the worker read too early, and a     *)
(* Program that is behind, each have something on its way that will start  *)
(* another build.                                                          *)
FreshReads ==
  running # Nil =>
    \A f \in Files : running[f] \in {Nil, project[f]} \/ OnItsWay
KnownBehind ==
  Valid(project) => program = project \/ OnItsWay \/ running # Nil
ReloadInv == TypeOK /\ FreshReads /\ KnownBehind

-------------------------------------------------------------------------------
LEMMA ReloadInit == Init => ReloadInv
<1>. SUFFICES ASSUME Init PROVE ReloadInv
  OBVIOUS
<1>0. 0 \in 0..MaxChanges
  BY Workers
<1>1. TypeOK
  BY <1>0 DEF Init, TypeOK
<1>2. FreshReads /\ KnownBehind
  BY DEF Init, FreshReads, KnownBehind
<1>. QED  BY <1>1, <1>2 DEF ReloadInv

(* The worker's result when it has read every file.                        *)
LEMMA ReadAll ==
  ASSUME TypeOK, Finished
  PROVE  /\ running \in Sources
         /\ FreshReads => running = project \/ OnItsWay
<1>1. running \in Reading /\ project \in Sources
  BY DEF TypeOK, Finished, Reading
<1>2. \A f \in Files : running[f] \in Contents
  BY <1>1 DEF Finished, Reading
<1>3. running \in Sources
  BY <1>1, <1>2 DEF Sources, Reading
<1>4. ASSUME FreshReads, ~OnItsWay PROVE running = project
  <2>1. \A f \in Files : running[f] = project[f]
    BY <1>4 DEF FreshReads, Finished
  <2>. QED  BY <1>1, <1>3, <2>1 DEF Sources
<1>. QED  BY <1>3, <1>4

LEMMA FrameStep == ASSUME ReloadInv, Frame PROVE ReloadInv'
<1>1. TypeOK /\ FreshReads /\ KnownBehind
  BY DEF ReloadInv
<1>2. reported' = FALSE /\ project' = project /\ unseen' = unseen /\ changes' = changes
  BY DEF Frame
<1>3. Install /\ Start
  BY DEF Frame
<1>4. program' \in Sources
  BY <1>1, <1>3, ReadAll DEF Install, TypeOK
<1>5. Nothing \in Reading /\ \A f \in Files : Nothing[f] = Nil
  BY DEF Nothing, Reading
<1>6. CASE /\ running # Nil /\ ~Finished /\ running' = running /\ pending' = Counts
  <2>1. program' = program
    BY <1>3, <1>6 DEF Install
  <2>2. OnItsWay' <=> OnItsWay
    BY <1>1, <1>2, <1>6 DEF OnItsWay, Counts, TypeOK
  <2>3. TypeOK'
    BY <1>1, <1>2, <1>4, <1>6 DEF TypeOK, Counts
  <2>. QED  BY <1>1, <1>2, <1>6, <2>1, <2>2, <2>3 DEF ReloadInv, FreshReads, KnownBehind
<1>7. CASE Counts /\ running' = Nothing /\ pending' = FALSE
  <2>1. Nothing # Nil
    BY <1>5, Unread
  <2>2. TypeOK'
    BY <1>1, <1>2, <1>4, <1>5, <1>7 DEF TypeOK
  <2>3. FreshReads'
    BY <1>5, <1>7 DEF FreshReads
  <2>4. KnownBehind'
    BY <1>7, <2>1 DEF KnownBehind
  <2>. QED  BY <2>2, <2>3, <2>4 DEF ReloadInv
<1>8. CASE Counts /\ SpawnFails /\ running' = Nil /\ pending' = TRUE
  BY <1>1, <1>2, <1>4, <1>8 DEF ReloadInv, TypeOK, FreshReads, KnownBehind, OnItsWay
<1>9. CASE (running = Nil \/ Finished) /\ ~Counts /\ running' = Nil /\ pending' = FALSE
  <2>1. TypeOK' /\ FreshReads'
    BY <1>1, <1>2, <1>4, <1>9 DEF TypeOK, FreshReads
  <2>2. OnItsWay => OnItsWay'
    BY <1>2, <1>9 DEF OnItsWay, Counts
  <2>3. CASE Finished
    <3>1. running = project \/ OnItsWay
      BY <1>1, <2>3, ReadAll
    <3>. QED  BY <1>2, <1>3, <1>9, <2>1, <2>2, <2>3, <3>1
              DEF ReloadInv, KnownBehind, Install
  <2>4. CASE ~Finished
    <3>1. running = Nil /\ program' = program
      BY <1>3, <1>9, <2>4 DEF Install
    <3>. QED  BY <1>1, <1>2, <2>1, <2>2, <3>1 DEF ReloadInv, KnownBehind
  <2>. QED  BY <2>3, <2>4
<1>. QED  BY <1>3, <1>6, <1>7, <1>8, <1>9 DEF Start

LEMMA ReloadStep == ReloadInv /\ [Next]_<<project, changes, game>> => ReloadInv'
<1>. SUFFICES ASSUME ReloadInv, [Next]_<<project, changes, game>> PROVE ReloadInv'
  OBVIOUS
<1>1. TypeOK /\ FreshReads /\ KnownBehind
  BY DEF ReloadInv
<1>2. CASE Report
  BY <1>1, <1>2 DEF Report, ReloadInv, TypeOK, FreshReads, KnownBehind, OnItsWay
<1>3. CASE Frame
  BY <1>3, FrameStep
<1>4. ASSUME NEW f \in Files, ReadFile(f) PROVE ReloadInv'
  <2>1. /\ running # Nil /\ running' = [running EXCEPT ![f] = project[f]]
        /\ UNCHANGED <<project, changes, unseen, reported, pending, program>>
    BY <1>4 DEF ReadFile
  <2>2. running \in Reading /\ project \in Sources
    BY <1>1, <2>1 DEF TypeOK, Reading
  <2>3. /\ running' \in Reading
        /\ \A g \in Files : running'[g] = IF g = f THEN project[f] ELSE running[g]
    BY <2>1, <2>2 DEF Reading, Sources
  <2>4. TypeOK'
    BY <1>1, <2>1, <2>3 DEF TypeOK, Reading
  <2>5. OnItsWay' <=> OnItsWay
    BY <2>1 DEF OnItsWay
  <2>6. FreshReads'
    BY <1>1, <2>1, <2>3, <2>5 DEF FreshReads
  <2>7. KnownBehind'
    BY <2>3, Unread DEF KnownBehind
  <2>. QED  BY <2>4, <2>6, <2>7 DEF ReloadInv
<1>5. ASSUME NEW f \in Files, NEW text \in Contents, Change(f, text) PROVE ReloadInv'
  <2>1. /\ project' = [project EXCEPT ![f] = text] /\ unseen' = TRUE
        /\ changes < MaxChanges /\ changes' = changes + 1
        /\ UNCHANGED <<reported, pending, running, program>>
    BY <1>5 DEF Change
  <2>2. project' \in Sources
    BY <1>1, <2>1 DEF TypeOK, Sources
  <2>3. changes' \in 0..MaxChanges
    BY <1>1, <2>1, Workers DEF TypeOK
  <2>. QED  BY <1>1, <2>1, <2>2, <2>3 DEF ReloadInv, TypeOK, FreshReads, KnownBehind, OnItsWay
<1>6. CASE UNCHANGED <<project, changes, game>>
  BY <1>1, <1>6 DEF game, ReloadInv, TypeOK, FreshReads, KnownBehind, OnItsWay
<1>. QED  BY <1>2, <1>3, <1>4, <1>5, <1>6 DEF Next, Game

(* When nothing is on its way the game plays what the files hold, unless a *)
(* file cannot be built: no interleaving of saves, reports, reads and      *)
(* frames loses the last change or leaves a build of half of it.           *)
THEOREM SettlesOnProject == Spec => []PlaysProject
<1>1. ReloadInv => PlaysProject
  BY DEF ReloadInv, KnownBehind, PlaysProject, Settled, OnItsWay
<1>. QED  BY <1>1, ReloadInit, ReloadStep, PTL DEF Spec

-------------------------------------------------------------------------------
(* The Program that runs was accepted by a build: a broken file leaves the *)
(* last valid Program (take_completed_reload, apply_hot_reload).           *)
THEOREM RunsValidProgram == Spec => []Valid(program)
<1>1. Init => Valid(program)
  BY DEF Init
<1>2. Valid(program) /\ [Next]_<<project, changes, game>> => Valid(program)'
  <2>. SUFFICES ASSUME Valid(program), [Next]_<<project, changes, game>>
                PROVE  Valid(program')
    BY DEF Valid
  <2>1. CASE Frame
    BY <2>1 DEF Frame, Install
  <2>2. CASE program' = program
    BY <2>2
  <2>. QED
    BY <2>1, <2>2 DEF Next, Game, Report, ReadFile, Change, game
<1>. QED  BY <1>1, <1>2, PTL DEF Spec
===============================================================================
