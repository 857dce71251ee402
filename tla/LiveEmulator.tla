----------------------------- MODULE LiveEmulator -----------------------------
(* The embedded emulator that shows the level being edited: the window       *)
(* (lm-native/src/live_emulator.rs), its synchronisation by the frame loop   *)
(* (lm-native/src/application.rs), the worker thread, and the backend        *)
(* process that drives the core (lm-libretro/src/main.rs).                   *)
(*                                                                           *)
(* A frame synchronises the session with the document, shows its window, and *)
(* then handles what the user does; the worker runs beside it and answers    *)
(* each command with one event.  Events that are no errors change nothing    *)
(* here and are left out, so the event channel is a number of errors; a      *)
(* worker that died is seen when the channel is found disconnected.  A       *)
(* session that is stopped keeps nothing: its channels go with it.  The      *)
(* player's own keys are left out: once it is in a level the game stays.     *)
(*                                                                           *)
(* The content of a document is the number of its last change to anything    *)
(* else than sprites and, for each level, of the last one to its sprites.    *)
EXTENDS Integers, Sequences

CONSTANTS Levels,        \* the levels
          FirstLevel,    \* the one a document opens at: 105
          MenuLevel,     \* the one with the menu-colour fix: 0C7
          MaxChanges,    \* bound on the changes and documents together
          MaxInputs,     \* bound on what the user does
          MaxFaults,     \* bound on the failures of the backend
          MaxQueue,      \* frames and users wait while there are more commands
          MaxErrors      \* bound on the errors that wait: the game stops there

ASSUME BoundAssumption == {MaxChanges, MaxInputs, MaxFaults, MaxQueue, MaxErrors} \subseteq Nat

VARIABLES
  doc, mode, revision, content,     \* the document, what is edited of it
  changes,                          \* the numbers given away so far
  phase,                            \* of the frame
  running, source, reasons, pause,  \* RunningSession, source_level, _revision
  commands, errors,                 \* the channels to and from the worker
  alive, emulating,                 \* the worker
  backend,                          \* the backend process, and its game
  inputs, faults,                   \* what the user did, how often it failed
  origin, trust, hurried       \* history, see the properties

application == <<doc, mode, revision, content, changes>>
session == <<running, source, reasons, pause>>
channels == <<commands, errors>>
worker == <<alive, emulating>>
history == <<origin, trust, hurried>>
vars == <<application, phase, session, channels, worker, backend, inputs, faults, history>>

None == -1
NoLevel == "none"
Overworld == "overworld"                \* any mode but that of a level
LevelZero == "L000"                     \* requested when no level is

ASSUME LevelAssumption == /\ {FirstLevel, MenuLevel} \subseteq Levels
                          /\ {NoLevel, Overworld, LevelZero} \cap Levels = {}

Changes == 0..MaxChanges
Content == [base : Changes, sprites : [Levels -> Changes]]
NoRom == [base |-> None, sprites |-> [l \in Levels |-> None]]

\* The reasons of the window that the system sets are one: focus.
Reasons == {"Manual", "EditorMode", "Focus"}
PauseMode(rs) == IF rs \ {"Focus"} # {} THEN "hard"
                 ELSE IF rs # {} THEN "soft" ELSE "running"

Places == {"title", "intro", "overworld", "transition", "level"}

Initialize(l, c, o) == [op |-> "initialize", level |-> l, rom |-> c, overworld |-> o]
ReloadRom(c) == [op |-> "reload", rom |-> c]
LoadLevel(l) == [op |-> "load", level |-> l]
ReloadSprites(l, c) == [op |-> "sprites", level |-> l, rom |-> c]
SetPauseMode(m) == [op |-> "pause", mode |-> m]
StepFrame == [op |-> "step"]

LevelContent(c, l) == <<c.base, c.sprites[l]>>

InLevel == doc # None /\ mode \in Levels

(* Backend, and what the game does: the ROM it runs, sprite_overlays,        *)
(* pending_sprite_overlay, boot_to_overworld, requested_level,               *)
(* reached_overworld; where the game is, in which level, with which sprites. *)
NewBackend ==
  [rom |-> NoRom, overlay |-> [l \in Levels |-> None], pending |-> NoLevel,
   overworld |-> FALSE, requested |-> NoLevel, reached |-> FALSE,
   place |-> "title", entered |-> NoLevel, shown |-> None]

Init ==
  /\ doc = 0 /\ mode = FirstLevel /\ revision = 0 /\ changes = 0
  /\ content = [base |-> 0, sprites |-> [l \in Levels |-> 0]]
  /\ phase = "sync"
  /\ running = FALSE
  /\ source = [level |-> NoLevel, revision |-> 0]
  /\ reasons = {} /\ pause = "running"
  /\ commands = <<>> /\ errors = 0
  /\ alive = FALSE /\ emulating = TRUE
  /\ backend = NewBackend
  /\ inputs = 0 /\ faults = 0
  /\ origin = None /\ trust = "good" /\ hurried = FALSE

Queued(more) == IF alive THEN commands \o more ELSE commands

Input == inputs < MaxInputs /\ inputs' = inputs + 1
InputIfPaused == IF reasons' = reasons THEN UNCHANGED inputs ELSE Input

\* The reasons change, the aggregate is sent if they do, and then the rest.
SetReasons(rs, more) ==
  /\ reasons' = rs
  /\ pause' = IF rs = reasons THEN pause ELSE PauseMode(rs)
  /\ commands' = Queued((IF rs = reasons THEN <<>>
                         ELSE <<SetPauseMode(PauseMode(rs))>>) \o more)

With(reason, on) == IF on THEN reasons \cup {reason} ELSE reasons \ {reason}

(* LiveEmulator::stop: the worker gets Stop or a disconnected channel, which *)
(* it treats alike.                                                          *)
Stopped ==
  /\ running' = FALSE
  /\ source' = [level |-> NoLevel, revision |-> 0]
  /\ reasons' = {} /\ pause' = "running"
  /\ commands' = <<>> /\ errors' = 0
  /\ alive' = FALSE /\ emulating' = TRUE
  /\ backend' = NewBackend
  /\ hurried' = FALSE
-----------------------------------------------------------------------------
(* The frame first synchronises the session with the document on screen.     *)
Synchronizes == /\ phase = "sync"
                /\ phase' = "show"
                /\ Len(commands) < MaxQueue
                /\ UNCHANGED <<application, faults>>

SyncNothing ==
  /\ Synchronizes
  /\ ~running
  /\ UNCHANGED <<session, channels, worker, backend, inputs, history>>

\* retain_for_open_project
SyncLeaves ==
  /\ Synchronizes
  /\ running /\ ~InLevel
  /\ Stopped
  /\ UNCHANGED <<inputs, origin, trust>>

\* The integrated-emulator option: stop on a change of level.
SyncStops ==
  /\ Synchronizes
  /\ running /\ InLevel
  /\ source.level # mode
  /\ Stopped
  /\ UNCHANGED <<inputs, origin, trust>>

\* Mutant: the session outlives the level.
SyncSendsAnywhere(more) ==
  /\ Synchronizes
  /\ running /\ doc # None
  /\ \E playing \in BOOLEAN : SetReasons(With("EditorMode", ~playing), more)
  /\ InputIfPaused
  /\ UNCHANGED <<running, errors, worker, backend, hurried>>

SyncSends(more) ==
  /\ Synchronizes
  /\ running /\ InLevel
  /\ \E playing \in BOOLEAN : SetReasons(With("EditorMode", ~playing), more)
  /\ InputIfPaused
  /\ UNCHANGED <<running, errors, worker, backend, hurried>>

ReloadSnapshot ==
  /\ source.revision # revision
  /\ alive
  /\ SyncSends(<<ReloadRom(content), LoadLevel(mode)>>)
  /\ source' = [level |-> mode, revision |-> revision]
  /\ origin' = doc
  /\ trust' = "good"

SwitchLevel ==
  /\ source.revision = revision
  /\ source.level # mode
  /\ alive
  /\ SyncSends(<<LoadLevel(mode)>>)
  /\ source' = [level |-> mode, revision |-> revision]
  /\ UNCHANGED <<origin, trust>>

\* There is nothing to send, or nobody to send it to.
SyncKeeps ==
  /\ ~alive \/ source = [level |-> mode, revision |-> revision]
  /\ SyncSends(<<>>)
  /\ UNCHANGED <<source, origin, trust>>
-----------------------------------------------------------------------------
(* Then the window: every event that is there is polled, and one error makes *)
(* the source untrustworthy.                                                 *)
Shows == phase = "show" /\ phase' = "sync"

\* Mutant: an error is only shown.
PollErrorsOnly == /\ errors' = 0
                  /\ trust' = IF errors # 0 /\ trust = "good" THEN "error" ELSE trust
                  /\ source' = source

Poll == /\ errors' = 0
        /\ trust' = IF errors # 0 /\ trust = "good" THEN "error" ELSE trust
        /\ source' = [source EXCEPT !.revision = @ - errors]

ShowNothing ==
  /\ Shows
  /\ ~running
  /\ UNCHANGED <<application, session, channels, worker, backend, inputs, faults, history>>

\* The worker is gone: its channel is disconnected.
ShowGone ==
  /\ Shows
  /\ running /\ ~alive
  /\ Poll
  /\ running' = FALSE
  /\ UNCHANGED <<application, reasons, pause, commands, worker, backend, inputs,
                 faults, origin, hurried>>

\* The window follows the focus, and then the buttons.
Show ==
  /\ Shows
  /\ running /\ alive
  /\ Poll
  /\ \E focused \in BOOLEAN : SetReasons(With("Focus", ~focused), <<>>)
  /\ InputIfPaused
  /\ UNCHANGED <<application, running, worker, backend, faults, origin, hurried>>

ShowManualPause ==
  /\ Shows
  /\ running /\ alive
  /\ Poll
  /\ SetReasons(With("Manual", "Manual" \notin reasons), <<>>)
  /\ Input
  /\ UNCHANGED <<application, running, worker, backend, faults, origin, hurried>>

\* EmulatorSessionState::step_frame; the button leaves the shown pause as it is.
ShowStep ==
  /\ Shows
  /\ running /\ alive
  /\ pause # "running"
  /\ Poll
  /\ Input
  /\ reasons' = reasons \cup {"Manual"}
  /\ commands' = Queued((IF "Manual" \in reasons THEN <<>>
                         ELSE <<SetPauseMode("hard")>>) \o <<StepFrame>>)
  /\ UNCHANGED <<application, running, pause, worker, backend, faults, origin,
                 hurried>>
-----------------------------------------------------------------------------
(* Then what the user does, any number of things before the next frame.      *)
Edits == phase = "sync" /\ Input /\ UNCHANGED <<phase, faults>>

\* begin_live_emulator_test: a running session is stopped first.
Start ==
  /\ Edits
  /\ doc # None
  /\ running' = TRUE
  /\ source' = [level |-> IF InLevel THEN mode ELSE LevelZero, revision |-> revision]
  /\ reasons' = {}
  /\ pause' = "running"
  /\ commands' = <<Initialize(source'.level, content, ~InLevel)>>
  /\ errors' = 0
  /\ alive' = TRUE
  /\ emulating' = TRUE
  /\ backend' = NewBackend
  /\ origin' = doc /\ trust' = "good" /\ hurried' = FALSE
  /\ UNCHANGED application

Stop ==
  /\ Edits
  /\ running
  /\ Stopped
  /\ UNCHANGED <<application, origin, trust>>

\* The toolbar's pause and frame advance.
ToggleManualPause ==
  /\ Edits
  /\ running
  /\ Len(commands) < MaxQueue
  /\ SetReasons(With("Manual", "Manual" \notin reasons), <<>>)
  /\ UNCHANGED <<application, running, source, errors, worker, backend, history>>

AdvanceFrame ==
  /\ Edits
  /\ running
  /\ Len(commands) < MaxQueue
  /\ SetReasons(With("Manual", TRUE), <<StepFrame>>)
  /\ UNCHANGED <<application, running, source, errors, worker, backend, history>>

\* A committed change, an undo or a redo: another revision.
Commit ==
  /\ Edits
  /\ doc # None
  /\ changes < MaxChanges
  /\ changes' = changes + 1
  /\ revision' = revision + 1
  /\ content' = [content EXCEPT !.base = changes']
  /\ UNCHANGED <<doc, mode, session, channels, worker, backend, history>>

(* reload_sprite_snapshot: the revision is adopted whatever the one before,  *)
(* so what was not sent before, or is no sprite, is never sent.              *)
SendSprites(patched) ==
  /\ commands' = Queued(<<ReloadSprites(mode, content')>>)
  /\ source' = [source EXCEPT !.revision = revision']
  /\ trust' = IF \/ source.revision = revision /\ ~patched
                 \/ trust \in {"hidden", "skipped"}
              THEN trust
              ELSE IF trust = "error" THEN "hidden" ELSE "skipped"

(* A commit from the level editor that changes only its sprites: a session   *)
(* on that level takes them without a reload.  That is decided before the    *)
(* menu-colour fix, if it is on and not yet in the ROM, adds its writes to   *)
(* the game's code to the commit of one level (patched).                     *)
CommitSprites(patched) ==
  /\ Edits
  /\ InLevel
  /\ patched => mode = MenuLevel
  /\ Len(commands) < MaxQueue
  /\ changes < MaxChanges
  /\ changes' = changes + 1
  /\ revision' = revision + 1
  /\ content' = [content EXCEPT !.sprites[mode] = changes',
                               !.base = IF patched THEN changes' ELSE @]
  /\ IF running /\ alive /\ source.level = mode
     THEN SendSprites(patched) ELSE UNCHANGED <<commands, source, trust>>
  /\ UNCHANGED <<doc, mode, running, reasons, pause, errors, worker, backend,
                 origin, hurried>>

SetMode(m) ==
  /\ Edits
  /\ doc # None
  /\ mode' = m
  /\ UNCHANGED <<doc, revision, content, changes, session, channels, worker,
                 backend, history>>

\* install_project, of another document
Open ==
  /\ Edits
  /\ changes < MaxChanges
  /\ changes' = changes + 1
  /\ doc' = changes'
  /\ mode' = FirstLevel
  /\ revision' = 0
  /\ content' = [base |-> changes', sprites |-> [l \in Levels |-> changes']]
  /\ UNCHANGED <<session, channels, worker, backend, history>>

Close ==
  /\ Edits
  /\ doc # None
  /\ doc' = None
  /\ UNCHANGED <<mode, revision, content, changes, session, channels, worker,
                 backend, history>>
-----------------------------------------------------------------------------
(* The worker takes one command at a time and waits for its event; the       *)
(* backend executes it, or fails and answers with an error.                  *)
Takes(op) == /\ alive
             /\ commands # <<>>
             /\ Head(commands).op = op
             /\ commands' = Tail(commands)
             /\ UNCHANGED <<application, phase, session, alive, inputs, origin, trust>>

Succeeds == UNCHANGED <<errors, faults>>
Fails == errors' = errors + 1 /\ faults < MaxFaults /\ faults' = faults + 1

(* load_rom keeps the requested level and boot_to_overworld.  The old game   *)
(* is unloaded before the core rejects the new one.                          *)
Unloaded == [backend EXCEPT !.rom = NoRom,
                            !.overlay = [l \in Levels |-> None],
                            !.pending = NoLevel,
                            !.place = "title", !.entered = NoLevel, !.shown = None]

Loaded(c) == [Unloaded EXCEPT !.rom = c, !.reached = FALSE]

ExecuteInitialize ==
  /\ Takes("initialize")
  /\ \/ /\ backend' = [Loaded(Head(commands).rom) EXCEPT
                         !.overworld = Head(commands).overworld,
                         !.requested = Head(commands).level]
        /\ hurried' = FALSE
        /\ Succeeds
     \/ /\ backend' = Unloaded
        /\ UNCHANGED hurried
        /\ Fails
  /\ UNCHANGED emulating

ExecuteReload ==
  /\ Takes("reload")
  /\ \/ /\ backend' = Loaded(Head(commands).rom)
        /\ hurried' = FALSE
        /\ Succeeds
     \/ /\ backend' = Unloaded
        /\ UNCHANGED hurried
        /\ Fails
  /\ UNCHANGED emulating

Entering(b, l) == [b EXCEPT !.requested = NoLevel, !.place = "transition",
                            !.entered = l]

\* Where request_level writes the level at once.
CanInject == \/ backend.place = "overworld"
             \/ backend.place \in {"intro", "level"} /\ backend.reached

\* Mutant: the sprites of an earlier reload are not kept for the level.
RequestedPlainly(l) == [backend EXCEPT !.requested = l, !.pending = NoLevel]

Requested(l) ==
  [backend EXCEPT !.requested = l,
                  !.pending = IF backend.overlay[l] # None THEN l ELSE NoLevel]

ExecuteLoadLevel ==
  /\ Takes("load")
  /\ LET l == Head(commands).level IN
     \/ /\ backend' = IF backend.rom # NoRom /\ CanInject
                      THEN Entering(Requested(l), l) ELSE Requested(l)
        /\ hurried' = FALSE
        /\ Succeeds
     \/ /\ backend' = [backend EXCEPT !.requested = l, !.pending = NoLevel]
        /\ UNCHANGED hurried
        /\ Fails
  /\ UNCHANGED emulating

(* hot_reload_sprite_snapshot: the game reads the new sprites at once, if it *)
(* is in the level; the newer ROM is put aside as latest_rom, which nothing  *)
(* reads.                                                                    *)
ExecuteReloadSprites ==
  /\ Takes("sprites")
  /\ LET l == Head(commands).level
         version == Head(commands).rom.sprites[l]
         here == backend.place = "level" IN
     \/ /\ backend.rom # NoRom
        /\ backend' = [backend EXCEPT !.overlay[l] = version,
                                      !.pending = NoLevel,
                                      !.reached = TRUE,
                                      !.shown = IF here THEN version ELSE @]
        /\ hurried' = (hurried \/ ~here \/ backend.entered # l)
        /\ Succeeds
     \/ /\ backend.rom # NoRom
        /\ UNCHANGED <<backend, hurried>>
        /\ Fails
     \/ /\ backend.rom = NoRom
        /\ errors' = errors + 1
        /\ UNCHANGED <<backend, hurried, faults>>
  /\ UNCHANGED emulating

\* Mutant: the worker goes on through a soft pause.
ExecuteHardPause ==
  /\ Takes("pause")
  /\ emulating' = (Head(commands).mode # "hard")
  /\ UNCHANGED <<errors, faults, backend, hurried>>

ExecutePause ==
  /\ Takes("pause")
  /\ emulating' = (Head(commands).mode = "running")
  /\ UNCHANGED <<errors, faults, backend, hurried>>

(* run_frame, and prepare_selected_level_boot before it.  A step stands for  *)
(* all the frames the game spends in one place.  The title and the intro are *)
(* passed by the keys the backend presses while a level is requested and the *)
(* overworld was never reached.                                              *)
Boots == backend.requested # NoLevel /\ ~backend.reached

Boot ==
  \/ /\ backend.place = "title"
     /\ backend' = IF Boots THEN [backend EXCEPT !.place = "intro"] ELSE backend
  \/ /\ backend.place = "intro"
     /\ backend' = IF Boots THEN [backend EXCEPT !.place = "overworld"] ELSE backend

ReachOverworld ==
  /\ backend.place = "overworld"
  /\ LET b == [backend EXCEPT !.reached = TRUE] IN
     backend' = IF b.requested = NoLevel \/ b.overworld THEN b
                ELSE Entering(b, b.requested)

ReachLevel ==
  /\ backend.place = "transition"
  /\ LET l == backend.entered
         overlaid == backend.pending = l IN
     backend' = [backend EXCEPT
                   !.place = "level",
                   !.shown = IF overlaid THEN backend.overlay[l]
                             ELSE backend.rom.sprites[l],
                   !.pending = IF overlaid THEN NoLevel ELSE @]

RunLevel == backend.place = "level" /\ UNCHANGED backend

RunFrame ==
  \/ /\ backend.rom # NoRom
     /\ Boot \/ ReachOverworld \/ ReachLevel \/ RunLevel
     /\ UNCHANGED errors
  \/ /\ backend.rom = NoRom
     /\ errors' = errors + 1
     /\ UNCHANGED backend

ExecuteStep ==
  /\ Takes("step")
  /\ RunFrame
  /\ UNCHANGED <<emulating, faults, hurried>>

\* While it is not paused the worker steps when no command came in time.
Tick ==
  /\ alive /\ emulating
  /\ commands = <<>>
  /\ errors < MaxErrors
  /\ RunFrame
  /\ UNCHANGED <<application, phase, session, commands, worker, inputs, faults,
                 history>>

\* The backend dies, or its pipes break; the worker ends with it.
Die ==
  /\ alive
  /\ faults < MaxFaults
  /\ faults' = faults + 1
  /\ alive' = FALSE
  /\ commands' = <<>>
  /\ UNCHANGED <<application, phase, session, errors, emulating, backend, inputs,
                 history>>

Synchronize == \/ SyncNothing
               \/ SyncLeaves
               \/ SyncStops
               \/ ReloadSnapshot
               \/ SwitchLevel
               \/ SyncKeeps

ShowWindow == \/ ShowNothing
              \/ ShowGone
              \/ Show
              \/ ShowManualPause
              \/ ShowStep

EditDocument == \/ Start
                \/ Stop
                \/ ToggleManualPause
                \/ AdvanceFrame
                \/ Commit
                \/ \E patched \in BOOLEAN : CommitSprites(patched)
                \/ \E m \in Levels \cup {Overworld} : SetMode(m)
                \/ Open
                \/ Close

Execute == \/ ExecuteInitialize
           \/ ExecuteReload
           \/ ExecuteLoadLevel
           \/ ExecuteReloadSprites
           \/ ExecutePause
           \/ ExecuteStep

Next == \/ Synchronize
        \/ ShowWindow
        \/ EditDocument
        \/ Execute
        \/ Tick
        \/ Die

(* Frames follow one another, the worker takes the commands that wait, and   *)
(* the game runs while it is not paused.                                     *)
Spec == /\ Init /\ [][Next]_vars
        /\ WF_vars(Synchronize)
        /\ WF_vars(ShowWindow)
        /\ WF_vars(Execute)
        /\ WF_vars(Tick)
-----------------------------------------------------------------------------
Command ==
  [op : {"initialize"}, level : Levels \cup {LevelZero}, rom : Content, overworld : BOOLEAN]
    \cup [op : {"reload"}, rom : Content]
    \cup [op : {"load"}, level : Levels]
    \cup [op : {"sprites"}, level : Levels, rom : Content]
    \cup [op : {"pause"}, mode : {"running", "soft", "hard"}]
    \cup [op : {"step"}]

Backend ==
  [rom : Content \cup {NoRom}, overlay : [Levels -> Changes \cup {None}],
   pending : Levels \cup {NoLevel}, overworld : BOOLEAN,
   requested : Levels \cup {NoLevel, LevelZero}, reached : BOOLEAN, place : Places,
   entered : Levels \cup {NoLevel}, shown : Changes \cup {None}]

TypeOK ==
  /\ doc \in Changes \cup {None}
  /\ mode \in Levels \cup {Overworld}
  /\ revision \in Changes /\ changes \in Changes
  /\ content \in Content
  /\ phase \in {"sync", "show"}
  /\ running \in BOOLEAN
  /\ source \in [level : Levels \cup {NoLevel, LevelZero}, revision : Int]
  /\ reasons \subseteq Reasons
  /\ pause \in {"running", "soft", "hard"}
  /\ commands \in Seq(Command)
  /\ errors \in Nat
  /\ inputs \in 0..MaxInputs /\ faults \in 0..MaxFaults
  /\ {alive, emulating} \subseteq BOOLEAN
  /\ backend \in Backend
  /\ origin \in Changes \cup {None}
  /\ trust \in {"good", "error", "hidden", "skipped"}
  /\ hurried \in BOOLEAN

Quiet == running /\ alive /\ commands = <<>> /\ errors = 0

Synchronized == InLevel /\ source = [level |-> mode, revision |-> revision]

(* The pause that was last sent is the aggregate of the reasons, so a worker *)
(* that has taken its commands emulates exactly when no reason is left: a    *)
(* pause is neither lost nor overtaken by a frame, a step or a reload.       *)
PauseIsObeyed == Quiet => (emulating <=> reasons = {})

(* Once nothing is under way, the game in the selected level shows what is   *)
(* committed of it, also after any number of sprite reloads, switches and    *)
(* errors - with three exceptions: the source was of another document        *)
(* (origin); a sprite reload hid an error, a missed reload or the writes of  *)
(* the menu-colour fix (trust); or sprites were reloaded outside their level *)
(* (hurried).                                                                *)
ShowsCommitted ==
  /\ Quiet /\ Synchronized
  /\ origin = doc /\ trust \in {"good", "error"} /\ ~hurried
  /\ backend.place = "level" /\ backend.entered = mode
  => <<backend.rom.base, backend.shown>> = LevelContent(content, mode)

\* What the game reads when it enters a level again.
Carried(l) == <<backend.rom.base,
                IF backend.overlay[l] # None THEN backend.overlay[l]
                ELSE backend.rom.sprites[l]>>

(* Every commit reaches the running core, whatever fails on the way: the     *)
(* session ends, or the backend holds what is committed of the level on      *)
(* screen - unless the source was of another document, or a sprite reload    *)
(* hid an error, a missed reload or the writes of the menu-colour fix.       *)
CommitIsDelivered ==
  running /\ InLevel
    ~> \/ ~running \/ ~InLevel
       \/ origin # doc \/ trust \in {"hidden", "skipped"}
       \/ Carried(mode) = LevelContent(content, mode)

=============================================================================
