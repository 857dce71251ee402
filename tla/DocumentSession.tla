--------------------------- MODULE DocumentSession --------------------------
(* The life of the open document: AppState of crates/lm-app (project, path,  *)
(* revision, the pending save and the pending open) driven by the native     *)
(* shell of crates/lm-native (file selector, confirmation window, the two    *)
(* file workers of FileWorkers).                                             *)
(*                                                                           *)
(* A definition named a mutant is the one after it with a plausible mistake: *)
(* no action uses it; the properties are tried against it.                   *)
(*                                                                           *)
(* Every action but those of the workers runs on the user interface thread,  *)
(* one at a time: a command, a click, or the completion of a worker that a   *)
(* frame polls.  No window blocks the others, so any of them may come next.  *)
(* The history of a project is UndoHistory; here an edit, an undo and a redo *)
(* alike are a change of its bytes.                                          *)
EXTENDS FileWorkers

CONSTANTS NoProject, NoPath, NoRequest,
          MaxSaves, MaxOpens, MaxRevision    \* bounds on requests and changes

ASSUME SessionAssumption ==
  /\ NoPath \notin Path
  /\ MaxSaves \in Nat /\ MaxOpens \in Nat /\ MaxRevision \in Nat

VARIABLES project,       \* the open project, or NoProject
          documentPath,
          revision,      \* project_revision: changes since it was installed
          pendingSave, saves,    \* the save in flight, and how many were begun
          pendingOpen, opens,    \* likewise for opens and reloads
          picker,        \* the request a file selector is open for, or 0
          requestedPath, \* the recent file a command asked for
          confirmation,  \* the question on screen
          saveThen,      \* what to do once the save in flight is done
          running        \* the application has not quit

appVars == <<project, documentPath, revision, pendingSave, saves, pendingOpen,
             opens>>
shellVars == <<picker, requestedPath, confirmation, saveThen, running>>
vars == <<workerVars, appVars, shellVars>>

Confirmations == {"open", "reload", "close", "quit"}

(* original_file_bytes is the baseline of is_modified; "lastSaved" and       *)
(* "request" are history fields: the bytes that last reached the file (or    *)
(* came from it) for this document, and the request that installed it.       *)
Projects == [rom : Image, baseline : Image,
             lastSaved : Image, request : 0..MaxOpens]

ASSUME ProjectAssumption == NoProject \notin Projects

(* History fields: "document" is the request that installed the project a    *)
(* save was taken from, "seen" the project as it was when the user asked.    *)
SaveRequests == [id : 1..MaxSaves, bytes : Image, document : 0..MaxOpens]
OpenRequests == [id : 1..MaxOpens, revision : 0..MaxRevision,
                 allowModified : BOOLEAN, seen : Image \cup {NoProject}]

IsOpen == project # NoProject
IsModified == IsOpen /\ project.rom # project.baseline

Opened(image, request) ==
  [rom |-> image, baseline |-> image, lastSaved |-> image, request |-> request]

\* A ROM named on the command line is open from the start (load_rom_at).
Init ==
  /\ disk \in [Path -> Image \cup {Absent}]
  /\ saver = Idle /\ loader = Idle
  /\ \/ project = NoProject /\ documentPath = NoPath
     \/ \E path \in Path : /\ disk[path] # Absent
                           /\ project = Opened(disk[path], 0)
                           /\ documentPath = path
  /\ revision = 0
  /\ pendingSave = NoRequest /\ saves = 0
  /\ pendingOpen = NoRequest /\ opens = 0
  /\ picker = 0 /\ requestedPath = NoPath
  /\ confirmation = "none" /\ saveThen = "none" /\ running = TRUE

-----------------------------------------------------------------------------
(* RomLoader::start for a request just begun; a loader that is busy, or no   *)
(* thread to be had, cancels it.                                             *)
LoadOrCancel(request, path) ==
  \/ /\ loader = Idle
     /\ \E silent \in BOOLEAN : loader' = NewLoad(request.id, path, silent)
     /\ pendingOpen' = request
  \/ /\ pendingOpen' = NoRequest
     /\ UNCHANGED loader

(* The ChooseRom effect: a requested recent file is loaded at once, otherwise *)
(* a file selector opens unless one is open already.                         *)
ChooseRom(request, wanted) ==
  \/ /\ wanted # NoPath
     /\ LoadOrCancel(request, wanted)
     /\ UNCHANGED picker
  \/ /\ wanted = NoPath
     /\ picker' = IF picker = 0 THEN request.id ELSE picker
     /\ pendingOpen' = IF picker = 0 THEN request ELSE NoRequest
     /\ UNCHANGED loader

(* begin_open; its effect is carried out at once. *)
BeginOpen(rev, seen, wanted) ==
  /\ pendingOpen = NoRequest
  /\ opens < MaxOpens
  /\ opens' = opens + 1
  /\ requestedPath' = NoPath
  /\ ChooseRom([id |-> opens + 1, revision |-> rev, allowModified |-> FALSE,
                seen |-> seen], wanted)

(* begin_reload and the LoadRomAt effect. *)
BeginReload(allowModified, image, path) ==
  /\ pendingOpen = NoRequest
  /\ opens < MaxOpens
  /\ path # NoPath
  /\ opens' = opens + 1
  /\ LoadOrCancel([id |-> opens + 1, revision |-> revision,
                   allowModified |-> allowModified, seen |-> image], path)
  /\ UNCHANGED <<picker, requestedPath>>

openVars == <<pendingOpen, opens, picker, requestedPath, loader>>

KeepProject(proj, path) ==
  /\ project' = proj
  /\ documentPath' = path
  /\ UNCHANGED revision

IsPendingOpen(id) == pendingOpen # NoRequest /\ pendingOpen.id = id
IsPendingSave(id) == pendingSave # NoRequest /\ pendingSave.id = id

\* Mutant: cancel_open leaves the request pending.
CancelNoOpen(id) == UNCHANGED pendingOpen

\* cancel_open
CancelOpen(id) ==
  pendingOpen' = IF IsPendingOpen(id) THEN NoRequest ELSE pendingOpen

\* Mutant: save_failed leaves the request pending.
ReleaseNoSave(id) == UNCHANGED pendingSave

\* save_failed and cancel_save, by take_pending_save
ReleaseSave(id) ==
  pendingSave' = IF IsPendingSave(id) THEN NoRequest ELSE pendingSave

\* install_project
Install(proj, path) ==
  /\ project' = proj
  /\ documentPath' = path
  /\ revision' = 0
  /\ pendingSave' = NoRequest
  /\ pendingOpen' = NoRequest

\* Mutant: discard_and_close leaves the save pending.
CloseKeepingSave ==
  /\ project' = NoProject
  /\ documentPath' = NoPath
  /\ revision' = 0
  /\ UNCHANGED pendingSave

\* discard_and_close
CloseProject ==
  /\ project' = NoProject
  /\ documentPath' = NoPath
  /\ revision' = 0
  /\ pendingSave' = NoRequest

(* What a confirmation stands for, done once the user discards the changes   *)
(* or the save the user chose instead has completed, on the project and path *)
(* it finds then.  A reload is refused outside the level view; views are not *)
(* modelled, so it may always be refused.                                    *)
Proceed(action, proj, path, save) ==
  \/ /\ action = "open"
     /\ CloseProject
     /\ BeginOpen(0, NoProject, requestedPath)
     /\ UNCHANGED running
  \/ /\ action = "open"
     /\ pendingOpen # NoRequest \/ opens = MaxOpens
     /\ KeepProject(proj, path)
     /\ pendingSave' = save
     /\ UNCHANGED <<openVars, running>>
  \/ /\ action = "reload"
     /\ KeepProject(proj, path)
     /\ pendingSave' = save
     /\ BeginReload(TRUE, proj.rom, path) \/ UNCHANGED openVars
     /\ UNCHANGED running
  \/ /\ action \in {"close", "quit"}
     /\ CloseProject
     /\ pendingOpen' = NoRequest
     /\ running' = (action # "quit")
     /\ UNCHANGED <<opens, picker, requestedPath, loader>>

-----------------------------------------------------------------------------
(* Commands.  A refused command shows an error and changes nothing, except   *)
(* that a refused open of a recent file forgets the file.                    *)
OpenCommand(recent) ==
  LET wanted == IF recent = NoPath THEN requestedPath ELSE recent
  IN /\ \/ /\ pendingSave = NoRequest
           /\ ~IsModified
           /\ BeginOpen(revision, IF IsOpen THEN project.rom ELSE NoProject, wanted)
           /\ UNCHANGED confirmation
        \/ /\ pendingSave = NoRequest
           /\ IsModified
           /\ confirmation' = "open"
           /\ requestedPath' = wanted
           /\ UNCHANGED <<pendingOpen, opens, picker, loader>>
        \/ /\ \/ pendingSave # NoRequest
              \/ ~IsModified /\ (pendingOpen # NoRequest \/ opens = MaxOpens)
           /\ recent # NoPath
           /\ requestedPath' = NoPath
           /\ UNCHANGED <<pendingOpen, opens, picker, loader, confirmation>>
     /\ UNCHANGED <<disk, saver, project, documentPath, revision, pendingSave,
                    saves, saveThen, running>>

Reload ==
  /\ pendingSave = NoRequest
  /\ pendingOpen = NoRequest
  /\ IsOpen
  /\ \/ /\ IsModified
        /\ confirmation' = "reload"
        /\ UNCHANGED openVars
     \/ /\ ~IsModified
        /\ BeginReload(FALSE, project.rom, documentPath)
        /\ UNCHANGED confirmation
  /\ UNCHANGED <<disk, saver, project, documentPath, revision, pendingSave,
                 saves, saveThen, running>>

CloseCommand(action) ==
  /\ pendingSave = NoRequest
  /\ pendingOpen = NoRequest
  /\ \/ /\ IsModified
        /\ confirmation' = action
        /\ UNCHANGED <<project, documentPath, revision, pendingSave, running>>
        /\ UNCHANGED openVars
     \/ /\ ~IsModified
        /\ Proceed(action, project, documentPath, pendingSave)
        /\ UNCHANGED confirmation
  /\ UNCHANGED <<disk, saver, saves, saveThen>>

(* Any committed write or mutation, an undo or a redo. *)
Change(image) ==
  /\ IsOpen
  /\ image # project.rom
  /\ revision < MaxRevision
  /\ project' = [project EXCEPT !.rom = image]
  /\ revision' = revision + 1
  /\ UNCHANGED <<workerVars, documentPath, pendingSave, saves, pendingOpen,
                 opens, shellVars>>

(* load_recovery: the unsaved bytes of an earlier session. *)
Recover(image, base) ==
  /\ ~IsOpen
  /\ image # base
  /\ Install([rom |-> image, baseline |-> base, lastSaved |-> base, request |-> 0],
             NoPath)
  /\ UNCHANGED <<workerVars, saves, opens, shellVars>>

-----------------------------------------------------------------------------
\* Mutant: a save that could not start keeps its intention.
PersistKeepingFollowUp(path, adopts, followUp) ==
  \/ /\ saver = Idle
     /\ saver' = NewSave(saves + 1, path, project.rom, adopts)
     /\ pendingSave' = [id |-> saves + 1, bytes |-> project.rom,
                        document |-> project.request]
     /\ saveThen' = followUp
  \/ /\ saveThen' = followUp
     /\ UNCHANGED <<saver, pendingSave>>

(* PersistRomAt, or a chosen destination: start_persistence, which releases  *)
(* the request when the worker is still busy with an earlier one or no       *)
(* thread can be had.                                                        *)
Persist(path, adopts, followUp) ==
  \/ /\ saver = Idle
     /\ saver' = NewSave(saves + 1, path, project.rom, adopts)
     /\ pendingSave' = [id |-> saves + 1, bytes |-> project.rom,
                        document |-> project.request]
     /\ saveThen' = followUp
  \/ /\ saveThen' = "none"
     /\ UNCHANGED <<saver, pendingSave>>

CanSave == pendingSave = NoRequest /\ IsOpen /\ saves < MaxSaves

(* begin_save and its effect.  The destination selector blocks the thread;   *)
(* leaving it, or a destination that is no file, releases the request too.   *)
BeginSave(saveAs, followUp) ==
  /\ CanSave
  /\ saves' = saves + 1
  /\ \/ /\ ~saveAs /\ documentPath # NoPath
        /\ Persist(documentPath, FALSE, followUp)
     \/ /\ saveAs \/ documentPath = NoPath
        /\ \E path \in Path : Persist(path, TRUE, followUp)

Save(saveAs) ==
  /\ BeginSave(saveAs, saveThen)
  /\ UNCHANGED <<disk, loader, project, documentPath, revision, pendingOpen,
                 opens, picker, requestedPath, confirmation, running>>

-----------------------------------------------------------------------------
(* The three buttons of the confirmation window. *)
SaveFirst ==
  /\ confirmation # "none"
  /\ confirmation' = "none"
  /\ \/ BeginSave(FALSE, confirmation)
     \/ /\ ~CanSave
        /\ saveThen' = "none"
        /\ UNCHANGED <<saver, pendingSave, saves>>
  /\ UNCHANGED <<disk, loader, project, documentPath, revision, pendingOpen,
                 opens, picker, requestedPath, running>>

CancelConfirmation ==
  /\ confirmation # "none"
  /\ confirmation' = "none"
  /\ requestedPath' = IF confirmation = "open" THEN NoPath ELSE requestedPath
  /\ UNCHANGED <<workerVars, appVars, picker, saveThen, running>>

Discard ==
  /\ confirmation # "none"
  /\ confirmation' = "none"
  /\ Proceed(confirmation, project, documentPath, pendingSave)
  /\ UNCHANGED <<disk, saver, saves, saveThen>>

-----------------------------------------------------------------------------
(* poll_rom_picker: the selector was answered. *)
PickFile(path) ==
  /\ picker # 0
  /\ picker' = 0
  /\ \/ /\ loader = Idle
        /\ \E silent \in BOOLEAN : loader' = NewLoad(picker, path, silent)
        /\ UNCHANGED pendingOpen
     \/ /\ CancelOpen(picker)
        /\ UNCHANGED loader
  /\ UNCHANGED <<disk, saver, project, documentPath, revision, pendingSave,
                 saves, opens, requestedPath, confirmation, saveThen, running>>

PickNothing ==
  /\ picker # 0
  /\ picker' = 0
  /\ CancelOpen(picker)
  /\ UNCHANGED <<workerVars, project, documentPath, revision, pendingSave,
                 saves, opens, requestedPath, confirmation, saveThen, running>>

\* Mutant: the revision is not compared.
ContextUnmodified == pendingOpen.allowModified \/ ~IsModified

(* validate_open_request, its revision and modification checks. *)
ContextUnchanged ==
  /\ pendingOpen.revision = revision
  /\ pendingOpen.allowModified \/ ~IsModified

(* complete_prepared_open: installed, refused because the context changed,   *)
(* or ignored because nobody waits for this request any more.                *)
FinishLoad ==
  /\ loader.phase = "prepared"
  /\ loader' = Idle
  /\ \/ /\ IsPendingOpen(loader.id)
        /\ ContextUnchanged
        /\ Install(Opened(loader.prepared, loader.id), loader.path)
     \/ /\ IsPendingOpen(loader.id)
        /\ ~ContextUnchanged
        /\ pendingOpen' = NoRequest
        /\ UNCHANGED <<project, documentPath, revision, pendingSave>>
     \/ /\ ~IsPendingOpen(loader.id)
        /\ UNCHANGED <<project, documentPath, revision, pendingSave, pendingOpen>>
  /\ UNCHANGED <<disk, saver, saves, opens, shellVars>>

FailLoad ==
  /\ loader.phase = "failed"
  /\ loader' = Idle
  /\ CancelOpen(loader.id)
  /\ UNCHANGED <<disk, saver, project, documentPath, revision, pendingSave,
                 saves, opens, shellVars>>

AskForHeader ==
  /\ loader.phase = "headerless"
  /\ loader' = [loader EXCEPT !.phase = "prompting"]
  /\ UNCHANGED <<disk, saver, appVars, shellVars>>

AcceptHeader ==
  /\ loader.phase = "prompting"
  /\ loader' = [loader EXCEPT !.phase = "checking"]
  /\ UNCHANGED <<disk, saver, appVars, shellVars>>

\* Also an approved header whose worker could not be started.
RejectHeader ==
  /\ loader.phase = "prompting"
  /\ loader' = Idle
  /\ CancelOpen(loader.id)
  /\ UNCHANGED <<disk, saver, project, documentPath, revision, pendingSave,
                 saves, opens, shellVars>>

-----------------------------------------------------------------------------
\* Mutant: newer edits are not noticed.
NeverStale == FALSE

(* finish_save: the project holds other bytes than the ones written.         *)
IsStale == project.rom # saver.bytes

AdoptedPath == IF saver.adopts THEN saver.path ELSE documentPath

(* A completed write is acknowledged; what the user wanted to do after the   *)
(* save follows in the same step.  A stale snapshot leaves the project dirty *)
(* and ends the intention; a request nobody waits for is an error.           *)
FinishSave ==
  /\ saver.phase = "written"
  /\ saver' = Idle
  /\ saveThen' = "none"
  /\ \/ /\ IsPendingSave(saver.id)
        /\ ~IsStale
        /\ LET saved == [project EXCEPT !.baseline = project.rom,
                                        !.lastSaved = saver.bytes]
           IN \/ /\ saveThen = "none"
                 /\ KeepProject(saved, AdoptedPath)
                 /\ pendingSave' = NoRequest
                 /\ UNCHANGED <<openVars, running>>
              \/ Proceed(saveThen, saved, AdoptedPath, NoRequest)
     \/ /\ IsPendingSave(saver.id)
        /\ IsStale
        /\ KeepProject([project EXCEPT !.lastSaved = saver.bytes], AdoptedPath)
        /\ pendingSave' = NoRequest
        /\ UNCHANGED <<openVars, running>>
     \/ /\ ~IsPendingSave(saver.id)
        /\ UNCHANGED <<project, documentPath, revision, pendingSave, openVars, running>>
  /\ UNCHANGED <<disk, saves, confirmation>>

FailSave ==
  /\ saver.phase = "failed"
  /\ saver' = Idle
  /\ saveThen' = "none"
  /\ ReleaseSave(saver.id)
  /\ UNCHANGED <<disk, loader, project, documentPath, revision, saves,
                 pendingOpen, opens, picker, requestedPath, confirmation, running>>

-----------------------------------------------------------------------------
(* A command, and in the same step what the effects it returns make the      *)
(* program do.                                                               *)
Command ==
  \/ \E recent \in Path \cup {NoPath} : OpenCommand(recent)
  \/ Reload
  \/ \E action \in {"close", "quit"} : CloseCommand(action)
  \/ \E image \in Image : Change(image)
  \/ \E image, base \in Image : Recover(image, base)
  \/ \E saveAs \in BOOLEAN : Save(saveAs)

Click ==
  \/ SaveFirst
  \/ CancelConfirmation
  \/ Discard
  \/ \E path \in Path : PickFile(path)
  \/ PickNothing
  \/ AcceptHeader
  \/ RejectHeader

\* What a frame of the user interface polls.
PollSaver == FinishSave \/ FailSave
PollLoader == FinishLoad \/ FailLoad \/ AskForHeader

\* Quitting ends the process and its workers with it.
Next ==
  /\ running
  /\ \/ Command
     \/ Click
     \/ PollSaver
     \/ PollLoader
     \/ WorkerStep /\ UNCHANGED <<appVars, shellVars>>

(* The workers run, and the user interface polls them (each asks for another *)
(* frame while it has a job).  Nothing makes the user answer a question.     *)
Fairness ==
  /\ WF_vars(running /\ SaverStep /\ UNCHANGED <<appVars, shellVars>>)
  /\ WF_vars(running /\ LoaderStep /\ UNCHANGED <<appVars, shellVars>>)
  /\ WF_vars(running /\ PollSaver)
  /\ WF_vars(running /\ PollLoader)

Spec == Init /\ [][Next]_vars
FairSpec == Spec /\ Fairness
-----------------------------------------------------------------------------
TypeOK ==
  /\ FilesTypeOK
  /\ project \in Projects \cup {NoProject}
  /\ documentPath \in Path \cup {NoPath}
  /\ IsOpen \/ documentPath = NoPath
  /\ revision \in 0..MaxRevision
  /\ pendingSave \in SaveRequests \cup {NoRequest}
  /\ saves \in 0..MaxSaves
  /\ pendingOpen \in OpenRequests \cup {NoRequest}
  /\ opens \in 0..MaxOpens
  /\ picker \in 0..MaxOpens
  /\ requestedPath \in Path \cup {NoPath}
  /\ confirmation \in Confirmations \cup {"none"}
  /\ saveThen \in Confirmations \cup {"none"}
  /\ running \in BOOLEAN

(* A save nobody serves would never be answered, and would make every later  *)
(* save, open, close and quit an error.  Whatever was cancelled, discarded   *)
(* or replaced meanwhile, the pending save is the one the worker has.        *)
PendingSaveIsServed ==
  pendingSave # NoRequest =>
    /\ saver # Idle
    /\ saver.id = pendingSave.id
    /\ saver.bytes = pendingSave.bytes

(* No open cancels a save, and the acknowledgement names no document: taken  *)
(* for the document that replaced its own it would mark that one saved and   *)
(* move it to the other's path.                                              *)
PendingSaveIsOfThisDocument ==
  pendingSave # NoRequest =>
    /\ IsOpen
    /\ project.request = pendingSave.document
    /\ saver.adopts \/ saver.path = documentPath

(* Likewise for an open: a file selector or the loader still has it.         *)
PendingOpenIsServed ==
  pendingOpen # NoRequest =>
    \/ picker = pendingOpen.id
    \/ loader # Idle /\ loader.id = pendingOpen.id

(* "Save, then close" closes after its own save or not at all: an intention  *)
(* that outlived its save would close or replace a document after some later *)
(* plain save.                                                               *)
FollowUpHasItsSave == saveThen # "none" => saver # Idle

-----------------------------------------------------------------------------
Leaves == IsOpen /\ (project' = NoProject \/ project'.request # project.request)

(* Unsaved changes leave the screen only by a click on Discard, by a reload  *)
(* the user allowed to drop exactly them, or once they reached the file.     *)
NoSilentLoss ==
  [][Leaves /\ IsModified =>
       \/ confirmation # "none" /\ confirmation' = "none"
       \/ pendingOpen # NoRequest /\ pendingOpen.allowModified
            /\ pendingOpen.seen = project.rom
       \/ saver # Idle /\ saver.phase = "written" /\ saver.bytes = project.rom]_vars

(* An open or reload replaces the document only as it was when the user      *)
(* asked: an edit made while the file was chosen, read or given a header     *)
(* refuses the completion, also an edit that was undone again.               *)
OpensOnlyWhatWasSeen ==
  [][Leaves /\ project' # NoProject =>
       pendingOpen.seen = project.rom /\ pendingOpen.revision = revision]_vars

(* The project is called saved only when the bytes it holds at that moment   *)
(* are the ones a worker has just written.                                   *)
SavedMeansWritten ==
  [][IsOpen /\ project' # NoProject /\ project'.request = project.request
       /\ project'.baseline # project.baseline =>
       saver.phase = "written" /\ project'.baseline = saver.bytes
         /\ project.rom = saver.bytes]_vars

(* Every save is answered: written, failed, refused, or its document left.   *)
SaveIsAnswered ==
  \A id \in 1..MaxSaves : IsPendingSave(id) ~> ~IsPendingSave(id)

(* Every open is answered unless the user leaves a selector or the question  *)
(* about the header open.                                                    *)
OpenIsAnswered ==
  \A id \in 1..MaxOpens :
    IsPendingOpen(id) ~> \/ ~IsPendingOpen(id)
                         \/ picker = id
                         \/ loader.phase = "prompting" /\ loader.id = id

-----------------------------------------------------------------------------
(* lm-native/src/rom_loader.rs tests that an "approved_header_addition_      *)
(* refuses_to_overwrite_a_changed_rom".  Nothing keeps a save from writing   *)
(* between the comparison and the replacement.                               *)
HeaderReplacesOnlyItsOriginal ==
  [][loader.phase = "replacing" /\ loader'.phase = "prepared" =>
       disk[loader.path] = loader.original]_vars
=============================================================================
