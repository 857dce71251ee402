------------------------ MODULE DocumentSession_proofs ------------------------
(* Proofs about DocumentSession for any files, images and bounds.            *)
(*                                                                           *)
(* The argument: a request is begun only while none is pending, together     *)
(* with the worker or selector that serves it, and whatever frees that one   *)
(* releases the request in the same step; every step that replaces the       *)
(* document releases both.  Until then the revision only grows, so an open   *)
(* whose revision still is the document's was asked for these very bytes.    *)
EXTENDS DocumentSession, TLAPS

\* What the loader has read, at the steps that use it.
LoaderHasRead ==
  /\ loader.phase = "prepared" => loader.prepared \in Image
  /\ loader.phase \in {"headerless", "prompting", "checking", "replacing"} =>
       loader.original \in Plain

\* Requests are numbered in the order they were begun.
Numbered ==
  /\ loader # Idle => loader.id \in 1..opens
  /\ picker \in 0..opens
  /\ IsOpen => project.request \in 0..opens
  /\ pendingOpen # NoRequest =>
       /\ pendingOpen.id \in 1..opens
       /\ IsOpen => project.request # pendingOpen.id

\* The revision an open was asked at tells whether the bytes are the same.
SeenIfUnchanged ==
  pendingOpen # NoRequest /\ IsOpen =>
    /\ pendingOpen.revision <= revision
    /\ pendingOpen.revision = revision => pendingOpen.seen = project.rom

OpenInv == /\ LoaderHasRead
           /\ Numbered
           /\ SeenIfUnchanged
           /\ PendingOpenIsServed

SaveInv == /\ PendingSaveIsServed
           /\ PendingSaveIsOfThisDocument
           /\ FollowUpHasItsSave

IInv == TypeOK /\ OpenInv /\ SaveInv

USE FileAssumption, SessionAssumption, ProjectAssumption

-----------------------------------------------------------------------------
(* Beginning a request.                                                      *)

\* A request that was just begun is served, or cancelled again.
LEMMA LoadOrCancelServes ==
  ASSUME TypeOK, OpenInv, pendingOpen = NoRequest,
         NEW request \in OpenRequests, NEW path \in Path,
         request.id = opens + 1, LoadOrCancel(request, path), opens' = opens + 1
  PROVE  /\ pendingOpen' \in {request, NoRequest}
         /\ loader' \in LoadJob \cup {Idle}
         /\ LoaderHasRead'
         /\ loader' # Idle => loader'.id \in 1..opens'
         /\ pendingOpen' # NoRequest => loader' # Idle /\ loader'.id = request.id
<1> USE DEF TypeOK, FilesTypeOK, OpenInv, LoaderHasRead, Numbered, OpenRequests,
           LoadJob, LoadPhases, Idle, NewLoad
<1>1. CASE /\ loader = Idle
           /\ \E silent \in BOOLEAN : loader' = NewLoad(request.id, path, silent)
           /\ pendingOpen' = request
  BY <1>1
<1>2. CASE pendingOpen' = NoRequest /\ UNCHANGED loader
  BY <1>2
<1>3. QED
  BY <1>1, <1>2 DEF LoadOrCancel

LEMMA BeginOpenServes ==
  ASSUME TypeOK, OpenInv,
         NEW rev \in 0..MaxRevision, NEW seen \in Image \cup {NoProject},
         NEW wanted \in Path \cup {NoPath}, BeginOpen(rev, seen, wanted)
  PROVE  /\ loader' \in LoadJob \cup {Idle}
         /\ opens' = opens + 1 /\ opens' \in 0..MaxOpens
         /\ picker' \in 0..opens'
         /\ requestedPath' = NoPath
         /\ pendingOpen' \in OpenRequests \cup {NoRequest}
         /\ LoaderHasRead'
         /\ loader' # Idle => loader'.id \in 1..opens'
         /\ PendingOpenIsServed'
         /\ pendingOpen' # NoRequest =>
              /\ pendingOpen'.id = opens'
              /\ pendingOpen'.revision = rev
              /\ pendingOpen'.seen = seen
<1> DEFINE request == [id |-> opens + 1, revision |-> rev, allowModified |-> FALSE,
                       seen |-> seen]
<1>1. /\ request \in OpenRequests /\ request.id = opens + 1
      /\ request.revision = rev /\ request.seen = seen
      /\ pendingOpen = NoRequest /\ opens' = opens + 1 /\ opens' \in 0..MaxOpens
      /\ requestedPath' = NoPath
      /\ ChooseRom(request, wanted)
  BY DEF BeginOpen, TypeOK, OpenRequests
<1> HIDE DEF request
<1>2. CASE wanted # NoPath /\ LoadOrCancel(request, wanted) /\ UNCHANGED picker
  <2>1. wanted \in Path
    BY <1>2
  <2>2. /\ pendingOpen' \in {request, NoRequest}
        /\ loader' \in LoadJob \cup {Idle}
        /\ LoaderHasRead'
        /\ loader' # Idle => loader'.id \in 1..opens'
        /\ pendingOpen' # NoRequest => loader' # Idle /\ loader'.id = request.id
    BY <1>1, <1>2, <2>1, LoadOrCancelServes
  <2>3. QED
    BY <1>1, <1>2, <2>2
       DEF PendingOpenIsServed, OpenInv, Numbered, TypeOK
<1>3. CASE /\ wanted = NoPath
           /\ picker' = IF picker = 0 THEN request.id ELSE picker
           /\ pendingOpen' = IF picker = 0 THEN request ELSE NoRequest
           /\ UNCHANGED loader
  BY <1>1, <1>3 DEF PendingOpenIsServed, OpenInv, Numbered, TypeOK, FilesTypeOK,
       LoaderHasRead, OpenRequests
<1>4. QED
  BY <1>1, <1>2, <1>3 DEF ChooseRom

LEMMA BeginReloadServes ==
  ASSUME TypeOK, OpenInv,
         NEW allowed \in BOOLEAN, NEW image \in Image,
         NEW path \in Path \cup {NoPath}, BeginReload(allowed, image, path)
  PROVE  /\ loader' \in LoadJob \cup {Idle}
         /\ opens' = opens + 1 /\ opens' \in 0..MaxOpens
         /\ picker' = picker
         /\ requestedPath' = requestedPath
         /\ pendingOpen' \in OpenRequests \cup {NoRequest}
         /\ LoaderHasRead'
         /\ loader' # Idle => loader'.id \in 1..opens'
         /\ PendingOpenIsServed'
         /\ pendingOpen' # NoRequest =>
              /\ pendingOpen'.id = opens'
              /\ pendingOpen'.revision = revision
              /\ pendingOpen'.seen = image
<1> DEFINE request == [id |-> opens + 1, revision |-> revision,
                       allowModified |-> allowed, seen |-> image]
<1>1. /\ request \in OpenRequests /\ request.id = opens + 1
      /\ request.revision = revision /\ request.seen = image
      /\ pendingOpen = NoRequest /\ opens' = opens + 1 /\ opens' \in 0..MaxOpens
      /\ path \in Path
      /\ UNCHANGED <<picker, requestedPath>>
      /\ LoadOrCancel(request, path)
  BY DEF BeginReload, TypeOK, OpenRequests
<1> HIDE DEF request
<1>2. /\ pendingOpen' \in {request, NoRequest}
      /\ loader' \in LoadJob \cup {Idle}
      /\ LoaderHasRead'
      /\ loader' # Idle => loader'.id \in 1..opens'
      /\ pendingOpen' # NoRequest => loader' # Idle /\ loader'.id = request.id
  BY <1>1, LoadOrCancelServes
<1>3. QED
  BY <1>1, <1>2 DEF PendingOpenIsServed, TypeOK

-----------------------------------------------------------------------------
(* What a confirmation stands for.                                           *)

\* What a proceeding step is given: the document, perhaps just saved.
Continues(proj, path) ==
  /\ proj \in Projects \cup {NoProject}
  /\ proj # NoProject <=> IsOpen
  /\ IsOpen => proj.rom = project.rom /\ proj.request = project.request
  /\ path \in Path \cup {NoPath}
  /\ path # NoPath => IsOpen

LEMMA ProceedKeepsOpen ==
  ASSUME TypeOK, OpenInv, NEW action \in Confirmations,
         NEW proj, NEW path, NEW save \in SaveRequests \cup {NoRequest},
         Continues(proj, path), Proceed(action, proj, path, save)
  PROVE  /\ project' \in Projects \cup {NoProject}
         /\ documentPath' \in Path \cup {NoPath}
         /\ project' # NoProject \/ documentPath' = NoPath
         /\ revision' \in 0..MaxRevision
         /\ pendingOpen' \in OpenRequests \cup {NoRequest}
         /\ opens' \in 0..MaxOpens
         /\ picker' \in 0..MaxOpens
         /\ requestedPath' \in Path \cup {NoPath}
         /\ running' \in BOOLEAN
         /\ loader' \in LoadJob \cup {Idle}
         /\ OpenInv'
         /\ \/ project' = NoProject /\ pendingSave' = NoRequest
            \/ project' = proj /\ documentPath' = path /\ pendingSave' = save
<1> USE DEF Confirmations
<1>1. CASE /\ action = "open"
           /\ CloseProject
           /\ BeginOpen(0, NoProject, requestedPath)
           /\ UNCHANGED running
  <2>1. 0 \in 0..MaxRevision /\ requestedPath \in Path \cup {NoPath}
    BY DEF TypeOK
  <2>2. BeginOpen(0, NoProject, requestedPath)
    BY <1>1
  <2>3. /\ loader' \in LoadJob \cup {Idle}
        /\ opens' = opens + 1 /\ opens' \in 0..MaxOpens
        /\ picker' \in 0..opens'
        /\ requestedPath' = NoPath
        /\ pendingOpen' \in OpenRequests \cup {NoRequest}
        /\ LoaderHasRead'
        /\ loader' # Idle => loader'.id \in 1..opens'
        /\ PendingOpenIsServed'
        /\ pendingOpen' # NoRequest => pendingOpen'.id = opens'
    BY <2>1, <2>2, BeginOpenServes
  <2>4. QED
    BY <1>1, <2>1, <2>3 DEF CloseProject, OpenInv, Numbered, SeenIfUnchanged,
         IsOpen, TypeOK
<1>2. CASE /\ action \in {"open", "reload"}
           /\ KeepProject(proj, path)
           /\ pendingSave' = save
           /\ UNCHANGED <<openVars, running>>
  BY <1>2 DEF KeepProject, openVars, Continues, TypeOK, FilesTypeOK, OpenInv,
       LoaderHasRead, Numbered, SeenIfUnchanged, PendingOpenIsServed, IsOpen
<1>3. CASE /\ action = "reload"
           /\ KeepProject(proj, path)
           /\ pendingSave' = save
           /\ BeginReload(TRUE, proj.rom, path)
           /\ UNCHANGED running
  <2>1. path # NoPath
    BY <1>3 DEF BeginReload
  <2>2. IsOpen /\ proj.rom \in Image /\ path \in Path \cup {NoPath}
    BY <2>1 DEF Continues, Projects
  <2>3. /\ loader' \in LoadJob \cup {Idle}
        /\ opens' = opens + 1 /\ opens' \in 0..MaxOpens
        /\ picker' = picker
        /\ requestedPath' = requestedPath
        /\ pendingOpen' \in OpenRequests \cup {NoRequest}
        /\ LoaderHasRead'
        /\ loader' # Idle => loader'.id \in 1..opens'
        /\ PendingOpenIsServed'
        /\ pendingOpen' # NoRequest =>
             /\ pendingOpen'.id = opens'
             /\ pendingOpen'.revision = revision
             /\ pendingOpen'.seen = proj.rom
    BY <1>3, <2>2, BeginReloadServes
  <2>4. /\ project' = proj /\ documentPath' = path /\ revision' = revision
        /\ revision \in 0..MaxRevision /\ opens \in 0..MaxOpens
        /\ picker \in 0..opens /\ requestedPath \in Path \cup {NoPath}
        /\ running' \in BOOLEAN
        /\ proj # NoProject /\ proj.request \in 0..opens
    BY <1>3, <2>2 DEF KeepProject, TypeOK, OpenInv, Numbered, Continues
  <2>5. Numbered' /\ SeenIfUnchanged'
    BY <2>2, <2>3, <2>4 DEF Numbered, SeenIfUnchanged, IsOpen
  <2>6. QED
    BY <1>3, <2>2, <2>3, <2>4, <2>5 DEF OpenInv, Continues
<1>4. CASE /\ action \in {"close", "quit"}
           /\ CloseProject
           /\ pendingOpen' = NoRequest
           /\ running' = (action # "quit")
           /\ UNCHANGED <<opens, picker, requestedPath, loader>>
  BY <1>4 DEF CloseProject, TypeOK, FilesTypeOK, OpenInv,
       LoaderHasRead, Numbered, SeenIfUnchanged, PendingOpenIsServed, IsOpen
<1>5. QED
  BY <1>1, <1>2, <1>3, <1>4 DEF Proceed
-----------------------------------------------------------------------------
(* The commands.                                                             *)

LEMMA OpenCommandKeeps ==
  ASSUME IInv, NEW recent \in Path \cup {NoPath}, OpenCommand(recent)
  PROVE  IInv'
<1> DEFINE wanted == IF recent = NoPath THEN requestedPath ELSE recent
           seen == IF IsOpen THEN project.rom ELSE NoProject
<1>1. /\ wanted \in Path \cup {NoPath}
      /\ seen \in Image \cup {NoProject}
      /\ revision \in 0..MaxRevision
  BY DEF IInv, TypeOK, IsOpen, Projects
<1>2. UNCHANGED <<disk, saver, project, documentPath, revision, pendingSave,
                  saves, saveThen, running>>
  BY DEF OpenCommand
<1>3. CASE BeginOpen(revision, seen, wanted) /\ UNCHANGED confirmation
  <2>1. /\ loader' \in LoadJob \cup {Idle}
        /\ opens' = opens + 1 /\ opens' \in 0..MaxOpens
        /\ picker' \in 0..opens'
        /\ requestedPath' = NoPath
        /\ pendingOpen' \in OpenRequests \cup {NoRequest}
        /\ LoaderHasRead'
        /\ loader' # Idle => loader'.id \in 1..opens'
        /\ PendingOpenIsServed'
        /\ pendingOpen' # NoRequest =>
             /\ pendingOpen'.id = opens'
             /\ pendingOpen'.revision = revision
             /\ pendingOpen'.seen = seen
    <3> HIDE DEF wanted, seen
    <3>1. QED
      BY <1>1, <1>3, BeginOpenServes DEF IInv
  <2>2. OpenInv'
    BY <1>2, <2>1 DEF OpenInv, Numbered, SeenIfUnchanged, IsOpen, IInv, TypeOK
  <2>3. TypeOK'
    BY <1>2, <1>3, <2>1 DEF IInv, TypeOK, FilesTypeOK, IsOpen
  <2>4. QED
    BY <1>2, <2>2, <2>3 DEF IInv, SaveInv, PendingSaveIsServed, IsOpen,
         PendingSaveIsOfThisDocument, FollowUpHasItsSave
<1>4. CASE /\ UNCHANGED <<pendingOpen, opens, picker, loader>>
           /\ requestedPath' \in {wanted, NoPath}
           /\ confirmation' \in {"open", confirmation}
  BY <1>1, <1>2, <1>4 DEF IInv, TypeOK, FilesTypeOK, IsOpen, OpenInv, SaveInv,
       LoaderHasRead, Numbered, SeenIfUnchanged, PendingOpenIsServed,
       PendingSaveIsServed, PendingSaveIsOfThisDocument, FollowUpHasItsSave,
       Confirmations
<1>5. QED
  BY <1>1, <1>3, <1>4 DEF OpenCommand

LEMMA ReloadKeeps == IInv /\ Reload => IInv'
<1> SUFFICES ASSUME IInv, Reload
             PROVE  IInv'
  OBVIOUS
<1>1. /\ IsOpen /\ project.rom \in Image /\ documentPath \in Path \cup {NoPath}
      /\ UNCHANGED <<disk, saver, project, documentPath, revision, pendingSave,
                     saves, saveThen, running>>
  BY DEF Reload, IInv, TypeOK, IsOpen, Projects
<1>2. CASE BeginReload(FALSE, project.rom, documentPath) /\ UNCHANGED confirmation
  <2>1. /\ loader' \in LoadJob \cup {Idle}
        /\ opens' = opens + 1 /\ opens' \in 0..MaxOpens
        /\ picker' = picker
        /\ requestedPath' = requestedPath
        /\ pendingOpen' \in OpenRequests \cup {NoRequest}
        /\ LoaderHasRead'
        /\ loader' # Idle => loader'.id \in 1..opens'
        /\ PendingOpenIsServed'
        /\ pendingOpen' # NoRequest =>
             /\ pendingOpen'.id = opens'
             /\ pendingOpen'.revision = revision
             /\ pendingOpen'.seen = project.rom
    BY <1>1, <1>2, BeginReloadServes DEF IInv
  <2>2. OpenInv'
    BY <1>1, <2>1 DEF OpenInv, Numbered, SeenIfUnchanged, IsOpen, IInv, TypeOK
  <2>3. TypeOK'
    BY <1>1, <1>2, <2>1 DEF IInv, TypeOK, FilesTypeOK, IsOpen
  <2>4. QED
    BY <1>1, <2>2, <2>3 DEF IInv, SaveInv, PendingSaveIsServed, IsOpen,
         PendingSaveIsOfThisDocument, FollowUpHasItsSave
<1>3. CASE confirmation' = "reload" /\ UNCHANGED openVars
  BY <1>1, <1>3 DEF IInv, TypeOK, FilesTypeOK, IsOpen, OpenInv, SaveInv, openVars,
       LoaderHasRead, Numbered, SeenIfUnchanged, PendingOpenIsServed,
       PendingSaveIsServed, PendingSaveIsOfThisDocument, FollowUpHasItsSave,
       Confirmations
<1>4. QED
  BY <1>2, <1>3 DEF Reload

\* A confirmed close, quit, open or reload, while nothing else changes.
LEMMA ProceedKeeps ==
  ASSUME IInv, NEW action \in Confirmations,
         Proceed(action, project, documentPath, pendingSave),
         confirmation' \in {confirmation, "none"},
         UNCHANGED <<disk, saver, saves, saveThen>>
  PROVE  IInv'
<1>1. Continues(project, documentPath) /\ pendingSave \in SaveRequests \cup {NoRequest}
  BY DEF Continues, IInv, TypeOK, IsOpen
<1>2. /\ project' \in Projects \cup {NoProject}
      /\ documentPath' \in Path \cup {NoPath}
      /\ project' # NoProject \/ documentPath' = NoPath
      /\ revision' \in 0..MaxRevision
      /\ pendingOpen' \in OpenRequests \cup {NoRequest}
      /\ opens' \in 0..MaxOpens
      /\ picker' \in 0..MaxOpens
      /\ requestedPath' \in Path \cup {NoPath}
      /\ running' \in BOOLEAN
      /\ loader' \in LoadJob \cup {Idle}
      /\ OpenInv'
      /\ \/ project' = NoProject /\ pendingSave' = NoRequest
         \/ UNCHANGED <<project, documentPath, pendingSave>>
  BY <1>1, ProceedKeepsOpen DEF IInv
<1>3. TypeOK'
  BY <1>2 DEF IInv, TypeOK, FilesTypeOK, IsOpen
<1>4. SaveInv'
  BY <1>2 DEF IInv, SaveInv, PendingSaveIsServed, IsOpen,
       PendingSaveIsOfThisDocument, FollowUpHasItsSave
<1>5. QED
  BY <1>2, <1>3, <1>4 DEF IInv

LEMMA CloseCommandKeeps ==
  ASSUME IInv, NEW action \in {"close", "quit"}, CloseCommand(action)
  PROVE  IInv'
<1>1. CASE /\ confirmation' = action
           /\ UNCHANGED <<project, documentPath, revision, pendingSave, running>>
           /\ UNCHANGED openVars
  BY <1>1 DEF CloseCommand, IInv, TypeOK, FilesTypeOK, IsOpen, OpenInv, SaveInv,
       openVars, LoaderHasRead, Numbered, SeenIfUnchanged, PendingOpenIsServed,
       PendingSaveIsServed, PendingSaveIsOfThisDocument, FollowUpHasItsSave,
       Confirmations
<1>2. CASE /\ Proceed(action, project, documentPath, pendingSave)
           /\ UNCHANGED confirmation
  BY <1>2, ProceedKeeps DEF CloseCommand, Confirmations
<1>3. QED
  BY <1>1, <1>2 DEF CloseCommand

LEMMA ChangeKeeps ==
  ASSUME IInv, NEW image \in Image, Change(image)
  PROVE  IInv'
<1>1. /\ project' = [project EXCEPT !.rom = image]
      /\ project' \in Projects
      /\ project'.rom = image /\ project'.request = project.request
      /\ IsOpen /\ IsOpen'
      /\ revision' = revision + 1 /\ revision' \in 0..MaxRevision
      /\ UNCHANGED <<workerVars, documentPath, pendingSave, saves, pendingOpen,
                     opens, shellVars>>
  BY DEF Change, IInv, TypeOK, IsOpen, Projects
<1>2. TypeOK'
  BY <1>1 DEF IInv, TypeOK, FilesTypeOK, workerVars, shellVars
<1>3. OpenInv'
  BY <1>1 DEF IInv, TypeOK, OpenRequests, OpenInv, LoaderHasRead, Numbered,
       SeenIfUnchanged, PendingOpenIsServed, workerVars, shellVars
<1>4. SaveInv'
  BY <1>1 DEF IInv, SaveInv, PendingSaveIsServed, PendingSaveIsOfThisDocument,
       FollowUpHasItsSave, workerVars, shellVars
<1>5. QED
  BY <1>2, <1>3, <1>4 DEF IInv

LEMMA RecoverKeeps ==
  ASSUME IInv, NEW image \in Image, NEW base \in Image, Recover(image, base)
  PROVE  IInv'
<1>1. /\ project' = [rom |-> image, baseline |-> base, lastSaved |-> base,
                     request |-> 0]
      /\ project' \in Projects /\ project'.request = 0 /\ IsOpen'
      /\ documentPath' = NoPath /\ revision' = 0
      /\ pendingSave' = NoRequest /\ pendingOpen' = NoRequest
      /\ UNCHANGED <<workerVars, saves, opens, shellVars>>
  BY DEF Recover, Install, IInv, TypeOK, IsOpen, Projects
<1>2. TypeOK'
  BY <1>1 DEF IInv, TypeOK, FilesTypeOK, workerVars, shellVars
<1>3. OpenInv'
  BY <1>1 DEF IInv, TypeOK, OpenInv, LoaderHasRead, Numbered,
       SeenIfUnchanged, PendingOpenIsServed, workerVars, shellVars
<1>4. SaveInv'
  BY <1>1 DEF IInv, SaveInv, PendingSaveIsServed, PendingSaveIsOfThisDocument,
       FollowUpHasItsSave, workerVars, shellVars
<1>5. QED
  BY <1>2, <1>3, <1>4 DEF IInv

\* Begun while no save is pending, a save has an idle worker or is released.
LEMMA PersistServes ==
  ASSUME IInv, pendingSave = NoRequest, IsOpen,
         NEW path \in Path, NEW adopts \in BOOLEAN,
         NEW followUp \in Confirmations \cup {"none"},
         adopts \/ path = documentPath,
         Persist(path, adopts, followUp), saves < MaxSaves, saves' = saves + 1,
         UNCHANGED <<project, documentPath>>
  PROVE  /\ saver' \in SaveJob \cup {Idle}
         /\ pendingSave' \in SaveRequests \cup {NoRequest}
         /\ saves' \in 0..MaxSaves
         /\ saveThen' \in Confirmations \cup {"none"}
         /\ SaveInv'
<1> USE DEF IInv, TypeOK, FilesTypeOK, SaveInv, PendingSaveIsServed, IsOpen,
       PendingSaveIsOfThisDocument, FollowUpHasItsSave, Projects, SaveRequests,
       SaveJob, NewSave, Idle
<1>1. CASE /\ saver = Idle
           /\ saver' = NewSave(saves + 1, path, project.rom, adopts)
           /\ pendingSave' = [id |-> saves + 1, bytes |-> project.rom,
                              document |-> project.request]
           /\ saveThen' = followUp
  BY <1>1
<1>2. CASE saveThen' = "none" /\ UNCHANGED <<saver, pendingSave>>
  BY <1>2
<1>3. QED
  BY <1>1, <1>2 DEF Persist

LEMMA BeginSaveServes ==
  ASSUME IInv, NEW saveAs \in BOOLEAN,
         NEW followUp \in Confirmations \cup {"none"},
         BeginSave(saveAs, followUp), UNCHANGED <<project, documentPath>>
  PROVE  /\ saver' \in SaveJob \cup {Idle}
         /\ pendingSave' \in SaveRequests \cup {NoRequest}
         /\ saves' \in 0..MaxSaves
         /\ saveThen' \in Confirmations \cup {"none"}
         /\ SaveInv'
<1>1. /\ pendingSave = NoRequest /\ IsOpen /\ saves < MaxSaves /\ saves' = saves + 1
  BY DEF BeginSave, CanSave
<1>2. CASE /\ ~saveAs /\ documentPath # NoPath
           /\ Persist(documentPath, FALSE, followUp)
  BY <1>1, <1>2, PersistServes DEF IInv, TypeOK
<1>3. CASE /\ saveAs \/ documentPath = NoPath
           /\ \E path \in Path : Persist(path, TRUE, followUp)
  BY <1>1, <1>3, PersistServes
<1>4. QED
  BY <1>2, <1>3 DEF BeginSave

\* Whatever leaves the document and the open alone.
LEMMA OpenUntouched ==
  ASSUME IInv, UNCHANGED <<disk, loader, project, documentPath, revision,
                           pendingOpen, opens, picker, requestedPath, running>>,
         saver' \in SaveJob \cup {Idle},
         pendingSave' \in SaveRequests \cup {NoRequest}, saves' \in 0..MaxSaves,
         saveThen' \in Confirmations \cup {"none"},
         confirmation' \in Confirmations \cup {"none"}, SaveInv'
  PROVE  IInv'
BY DEF IInv, TypeOK, FilesTypeOK, IsOpen, OpenInv, LoaderHasRead, Numbered,
       SeenIfUnchanged, PendingOpenIsServed

LEMMA SaveKeeps ==
  ASSUME IInv, NEW saveAs \in BOOLEAN, Save(saveAs)
  PROVE  IInv'
<1>1. saveThen \in Confirmations \cup {"none"} /\ confirmation \in Confirmations \cup {"none"}
  BY DEF IInv, TypeOK
<1>2. QED
  BY <1>1, BeginSaveServes, OpenUntouched DEF Save
-----------------------------------------------------------------------------
(* The clicks.                                                               *)

LEMMA SaveFirstKeeps == IInv /\ SaveFirst => IInv'
<1> SUFFICES ASSUME IInv, SaveFirst
             PROVE  IInv'
  OBVIOUS
<1>1. confirmation \in Confirmations
  BY DEF IInv, TypeOK, SaveFirst
<1>2. CASE BeginSave(FALSE, confirmation)
  BY <1>1, <1>2, BeginSaveServes, OpenUntouched DEF SaveFirst
<1>3. CASE saveThen' = "none" /\ UNCHANGED <<saver, pendingSave, saves>>
  <2>1. SaveInv'
    BY <1>3 DEF SaveFirst, IInv, SaveInv, PendingSaveIsServed, IsOpen,
         PendingSaveIsOfThisDocument, FollowUpHasItsSave
  <2>2. QED
    BY <1>3, <2>1, OpenUntouched DEF SaveFirst, IInv, TypeOK, FilesTypeOK
<1>4. QED
  BY <1>2, <1>3 DEF SaveFirst

LEMMA CancelConfirmationKeeps == IInv /\ CancelConfirmation => IInv'
BY DEF CancelConfirmation, workerVars, appVars, IInv, TypeOK, FilesTypeOK, IsOpen,
       OpenInv, LoaderHasRead, Numbered, SeenIfUnchanged, PendingOpenIsServed,
       SaveInv, PendingSaveIsServed, PendingSaveIsOfThisDocument, FollowUpHasItsSave

LEMMA DiscardKeeps == IInv /\ Discard => IInv'
BY ProceedKeeps DEF Discard, IInv, TypeOK

\* Whatever leaves the document and the save alone.
LEMMA SaveUntouched ==
  ASSUME IInv, UNCHANGED <<disk, saver, project, documentPath, revision, pendingSave,
                           saves, opens, requestedPath, confirmation, saveThen,
                           running>>,
         loader' \in LoadJob \cup {Idle}, picker' \in {picker, 0},
         pendingOpen' \in {pendingOpen, NoRequest}, LoaderHasRead',
         loader' # Idle => loader'.id \in 1..opens, PendingOpenIsServed'
  PROVE  IInv'
<1>1. TypeOK'
  BY DEF IInv, TypeOK, FilesTypeOK, IsOpen
<1>2. OpenInv'
  BY DEF IInv, TypeOK, IsOpen, OpenInv, Numbered, SeenIfUnchanged
<1>3. SaveInv'
  BY DEF IInv, SaveInv, PendingSaveIsServed, PendingSaveIsOfThisDocument, IsOpen,
       FollowUpHasItsSave
<1>4. QED
  BY <1>1, <1>2, <1>3 DEF IInv

LEMMA PickFileKeeps ==
  ASSUME IInv, NEW path \in Path, PickFile(path)
  PROVE  IInv'
<1> USE DEF IInv, TypeOK, FilesTypeOK, OpenInv, LoaderHasRead, Numbered,
           PendingOpenIsServed, LoadJob, LoadPhases, Idle, OpenRequests
<1>1. CASE /\ loader = Idle
           /\ \E silent \in BOOLEAN : loader' = NewLoad(picker, path, silent)
           /\ UNCHANGED pendingOpen
  <2>1. /\ loader' \in LoadJob \cup {Idle}
        /\ LoaderHasRead'
        /\ loader' # Idle /\ loader'.id = picker
    BY <1>1 DEF PickFile, NewLoad
  <2>2. PendingOpenIsServed'
    BY <1>1, <2>1 DEF PickFile
  <2>3. loader'.id \in 1..opens
    BY <2>1 DEF PickFile
  <2>4. QED
    BY <1>1, <2>1, <2>2, <2>3, SaveUntouched DEF PickFile
<1>2. CASE CancelOpen(picker) /\ UNCHANGED loader
  BY <1>2, SaveUntouched DEF PickFile, CancelOpen, IsPendingOpen
<1>3. QED
  BY <1>1, <1>2 DEF PickFile

LEMMA PickNothingKeeps == IInv /\ PickNothing => IInv'
BY SaveUntouched DEF PickNothing, CancelOpen, IsPendingOpen, workerVars, IInv, TypeOK,
   FilesTypeOK, OpenInv, LoaderHasRead, Numbered, PendingOpenIsServed, OpenRequests

-----------------------------------------------------------------------------
(* The loader and its questions.                                             *)

LEMMA LoaderLeaves ==
  ASSUME IInv, \/ AskForHeader \/ AcceptHeader \/ RejectHeader \/ FailLoad
  PROVE  IInv'
<1> USE DEF IInv, TypeOK, FilesTypeOK, OpenInv, LoaderHasRead, Numbered,
           PendingOpenIsServed, LoadJob, LoadPhases, Idle
<1>1. CASE AskForHeader
  BY <1>1, SaveUntouched DEF AskForHeader, appVars, shellVars
<1>2. CASE AcceptHeader
  BY <1>2, SaveUntouched DEF AcceptHeader, appVars, shellVars
<1>3. CASE RejectHeader
  BY <1>3, SaveUntouched DEF RejectHeader, CancelOpen, IsPendingOpen, shellVars
<1>4. CASE FailLoad
  BY <1>4, SaveUntouched DEF FailLoad, CancelOpen, IsPendingOpen, shellVars
<1>5. QED
  BY <1>1, <1>2, <1>3, <1>4

LEMMA FinishLoadKeeps == IInv /\ FinishLoad => IInv'
<1> SUFFICES ASSUME IInv, FinishLoad
             PROVE  IInv'
  OBVIOUS
<1>1. loader # Idle /\ loader \in LoadJob /\ loader' = Idle
      /\ loader.prepared \in Image /\ loader.id \in 1..opens /\ loader.path \in Path
      /\ UNCHANGED <<disk, saver, saves, opens, shellVars>>
  BY DEF FinishLoad, IInv, TypeOK, FilesTypeOK, OpenInv, LoaderHasRead, Numbered,
       LoadJob, Idle
<1>2. CASE Install(Opened(loader.prepared, loader.id), loader.path)
  <2>1. /\ project' \in Projects /\ project'.request = loader.id /\ IsOpen'
        /\ documentPath' \in Path /\ revision' = 0
        /\ pendingSave' = NoRequest /\ pendingOpen' = NoRequest
    BY <1>1, <1>2 DEF Install, Opened, Projects, IInv, TypeOK, IsOpen
  <2>2. TypeOK'
    BY <1>1, <2>1 DEF IInv, TypeOK, FilesTypeOK, shellVars
  <2>3. OpenInv'
    BY <1>1, <2>1 DEF IInv, TypeOK, OpenInv, LoaderHasRead, Numbered, Idle,
         SeenIfUnchanged, PendingOpenIsServed, shellVars
  <2>4. SaveInv'
    BY <1>1, <2>1 DEF IInv, SaveInv, PendingSaveIsServed, shellVars,
         PendingSaveIsOfThisDocument, FollowUpHasItsSave
  <2>5. QED
    BY <2>2, <2>3, <2>4 DEF IInv
<1>3. CASE /\ \/ IsPendingOpen(loader.id) /\ pendingOpen' = NoRequest
              \/ ~IsPendingOpen(loader.id) /\ UNCHANGED pendingOpen
           /\ UNCHANGED <<project, documentPath, revision, pendingSave>>
  <2>1. LoaderHasRead' /\ loader' \in LoadJob \cup {Idle}
    BY <1>1 DEF LoaderHasRead, Idle
  <2>2. PendingOpenIsServed'
    BY <1>1, <1>3 DEF IInv, OpenInv, PendingOpenIsServed, IsPendingOpen, shellVars
  <2>3. QED
    BY <1>1, <1>3, <2>1, <2>2, SaveUntouched DEF shellVars
<1>4. QED
  BY <1>2, <1>3 DEF FinishLoad

-----------------------------------------------------------------------------
(* The saver.                                                                *)

LEMMA FailSaveKeeps == IInv /\ FailSave => IInv'
<1> SUFFICES ASSUME IInv, FailSave
             PROVE  IInv'
  OBVIOUS
<1>1. SaveInv'
  BY DEF FailSave, ReleaseSave, IsPendingSave, IInv, SaveInv, PendingSaveIsServed,
       PendingSaveIsOfThisDocument, FollowUpHasItsSave
<1>2. QED
  BY <1>1, OpenUntouched DEF FailSave, ReleaseSave, IInv, TypeOK, FilesTypeOK

\* No request is pending after a completed save, whoever asked for it.
LEMMA NothingPendingKeeps ==
  ASSUME IInv, saver' = Idle, saveThen' = "none", pendingSave' = NoRequest,
         UNCHANGED <<disk, saves, confirmation>>,
         project' \in Projects \cup {NoProject},
         documentPath' \in Path \cup {NoPath},
         project' # NoProject \/ documentPath' = NoPath,
         revision' \in 0..MaxRevision,
         pendingOpen' \in OpenRequests \cup {NoRequest}, opens' \in 0..MaxOpens,
         picker' \in 0..MaxOpens, requestedPath' \in Path \cup {NoPath},
         running' \in BOOLEAN, loader' \in LoadJob \cup {Idle}, OpenInv'
  PROVE  IInv'
BY DEF IInv, TypeOK, FilesTypeOK, IsOpen, SaveInv, PendingSaveIsServed,
       PendingSaveIsOfThisDocument, FollowUpHasItsSave

LEMMA FinishSaveKeeps == IInv /\ FinishSave => IInv'
<1> SUFFICES ASSUME IInv, FinishSave
             PROVE  IInv'
  OBVIOUS
<1> DEFINE saved == [project EXCEPT !.baseline = project.rom,
                                    !.lastSaved = saver.bytes]
           stale == [project EXCEPT !.lastSaved = saver.bytes]
<1>1. /\ saver.phase = "written" /\ saver \in SaveJob
      /\ saver.path \in Path /\ saver.bytes \in Image
      /\ saver' = Idle /\ saveThen' = "none"
      /\ UNCHANGED <<disk, saves, confirmation>>
  BY DEF FinishSave, IInv, TypeOK, FilesTypeOK, SaveJob, Idle
<1>2. ASSUME IsPendingSave(saver.id)
      PROVE  /\ IsOpen /\ Continues(saved, AdoptedPath) /\ Continues(stale, AdoptedPath)
  <2>1. IsOpen /\ project \in Projects
    BY <1>2 DEF IsPendingSave, IInv, SaveInv, PendingSaveIsOfThisDocument, TypeOK, IsOpen
  <2>2. AdoptedPath \in Path \cup {NoPath}
    BY <1>1 DEF AdoptedPath, IInv, TypeOK
  <2>3. /\ saved \in Projects /\ saved.rom = project.rom
        /\ saved.request = project.request
        /\ stale \in Projects /\ stale.rom = project.rom
        /\ stale.request = project.request
    BY <1>1, <2>1 DEF Projects
  <2>4. QED
    BY <2>1, <2>2, <2>3 DEF Continues
<1>3. ASSUME NEW proj, IsOpen, Continues(proj, AdoptedPath),
             KeepProject(proj, AdoptedPath), pendingSave' = NoRequest,
             UNCHANGED <<openVars, running>>
      PROVE  IInv'
  <2>1. OpenInv'
    BY <1>3 DEF Continues, KeepProject, openVars, IInv, TypeOK, OpenInv,
         LoaderHasRead, Numbered, SeenIfUnchanged, PendingOpenIsServed, IsOpen
  <2>2. QED
    BY <1>1, <1>3, <2>1, NothingPendingKeeps
       DEF Continues, KeepProject, openVars, IInv, TypeOK, FilesTypeOK, IsOpen
<1>4. CASE IsPendingSave(saver.id) /\ ~IsStale
  <2>1. CASE Proceed(saveThen, saved, AdoptedPath, NoRequest)
    <3>1. saveThen \in Confirmations
      BY <2>1 DEF IInv, TypeOK, Proceed, Confirmations
    <3>2. /\ project' \in Projects \cup {NoProject}
          /\ documentPath' \in Path \cup {NoPath}
          /\ project' # NoProject \/ documentPath' = NoPath
          /\ revision' \in 0..MaxRevision
          /\ pendingOpen' \in OpenRequests \cup {NoRequest}
          /\ opens' \in 0..MaxOpens
          /\ picker' \in 0..MaxOpens
          /\ requestedPath' \in Path \cup {NoPath}
          /\ running' \in BOOLEAN
          /\ loader' \in LoadJob \cup {Idle}
          /\ OpenInv'
          /\ pendingSave' = NoRequest
      <4> HIDE DEF saved, stale
      <4>1. QED
        BY <1>2, <1>4, <2>1, <3>1, ProceedKeepsOpen DEF IInv
    <3>3. QED
      BY <1>1, <3>2, NothingPendingKeeps
  <2>2. CASE /\ KeepProject(saved, AdoptedPath)
             /\ pendingSave' = NoRequest
             /\ UNCHANGED <<openVars, running>>
    <3> HIDE DEF saved, stale
    <3>1. QED
      BY <1>2, <1>3, <1>4, <2>2
  <2>3. QED
    BY <1>4, <2>1, <2>2 DEF FinishSave
<1>5. CASE IsPendingSave(saver.id) /\ IsStale
  <2>1. /\ KeepProject(stale, AdoptedPath)
        /\ pendingSave' = NoRequest
        /\ UNCHANGED <<openVars, running>>
    BY <1>5 DEF FinishSave
  <2> HIDE DEF saved, stale
  <2>2. QED
    BY <1>2, <1>3, <1>5, <2>1
<1>6. CASE ~IsPendingSave(saver.id)
  <2>1. /\ pendingSave = NoRequest
        /\ UNCHANGED <<project, documentPath, revision, pendingSave, openVars, running>>
    BY <1>1, <1>6 DEF FinishSave, IsPendingSave, IInv, SaveInv, PendingSaveIsServed
  <2>2. OpenInv'
    BY <2>1 DEF openVars, IInv, OpenInv, LoaderHasRead, Numbered, IsOpen,
         SeenIfUnchanged, PendingOpenIsServed
  <2>3. QED
    BY <1>1, <2>1, <2>2, NothingPendingKeeps DEF openVars, IInv, TypeOK,
       FilesTypeOK, IsOpen
<1>7. QED
  BY <1>4, <1>5, <1>6

-----------------------------------------------------------------------------
(* The workers.                                                              *)

\* A working thread goes on with the job it has.
JobsGoOn ==
  /\ disk' \in [Path -> Image \cup {Absent}]
  /\ saver' \in SaveJob \cup {Idle}
  /\ saver' = Idle <=> saver = Idle
  /\ saver # Idle => /\ saver'.id = saver.id
                     /\ saver'.path = saver.path
                     /\ saver'.bytes = saver.bytes
                     /\ saver'.adopts = saver.adopts
  /\ loader' \in LoadJob \cup {Idle}
  /\ loader' = Idle <=> loader = Idle
  /\ loader # Idle => loader'.id = loader.id
  /\ LoaderHasRead'

LEMMA WorkersGoOn == TypeOK /\ LoaderHasRead /\ WorkerStep => JobsGoOn
<1> SUFFICES ASSUME TypeOK, LoaderHasRead, WorkerStep
             PROVE  JobsGoOn
  OBVIOUS
<1> USE DEF TypeOK, FilesTypeOK, LoaderHasRead, JobsGoOn, SaveJob, LoadJob, LoadPhases,
           Idle
<1>1. CASE SaverWrites
  BY <1>1 DEF SaverWrites
<1>2. CASE SaverFails
  BY <1>2 DEF SaverFails
<1>3. CASE LoaderReads
  <2>1. /\ loader \in LoadJob /\ disk[loader.path] \in Image
        /\ UNCHANGED <<disk, saver>>
    BY <1>3 DEF LoaderReads
  <2>2. /\ loader' \in LoadJob /\ loader'.id = loader.id /\ LoaderHasRead'
    BY <1>3, <2>1 DEF LoaderReads
  <2>3. QED
    BY <2>1, <2>2
<1>4. CASE LoaderRechecks
  BY <1>4 DEF LoaderRechecks
<1>5. CASE LoaderAddsHeader
  <2>1. /\ loader \in LoadJob /\ WithHeader(loader.original) \in Image
        /\ UNCHANGED saver
    BY <1>5 DEF LoaderAddsHeader
  <2>2. /\ loader' \in LoadJob /\ loader'.id = loader.id /\ LoaderHasRead'
    BY <1>5, <2>1 DEF LoaderAddsHeader
  <2>3. disk' \in [Path -> Image \cup {Absent}]
    BY <1>5, <2>1 DEF LoaderAddsHeader
  <2>4. QED
    BY <2>1, <2>2, <2>3
<1>6. CASE LoaderFails
  BY <1>6 DEF LoaderFails
<1>7. QED
  BY <1>1, <1>2, <1>3, <1>4, <1>5, <1>6 DEF WorkerStep

LEMMA WorkerKeeps == IInv /\ WorkerStep /\ UNCHANGED <<appVars, shellVars>> => IInv'
<1> SUFFICES ASSUME IInv, WorkerStep, UNCHANGED <<appVars, shellVars>>
             PROVE  IInv'
  OBVIOUS
<1>1. JobsGoOn
  BY WorkersGoOn DEF IInv, OpenInv
<1>2. TypeOK'
  BY <1>1 DEF JobsGoOn, IInv, TypeOK, FilesTypeOK, IsOpen, appVars, shellVars
<1>3. OpenInv'
  BY <1>1 DEF JobsGoOn, IInv, OpenInv, Numbered, SeenIfUnchanged,
       PendingOpenIsServed, IsOpen, appVars, shellVars
<1>4. SaveInv'
  BY <1>1 DEF JobsGoOn, IInv, SaveInv, PendingSaveIsServed, IsOpen, appVars,
       shellVars, PendingSaveIsOfThisDocument, FollowUpHasItsSave
<1>5. QED
  BY <1>2, <1>3, <1>4 DEF IInv

-----------------------------------------------------------------------------
LEMMA InitInvariant == Init => IInv
<1> SUFFICES ASSUME Init
             PROVE  IInv
  OBVIOUS
<1>1. project \in Projects \cup {NoProject} /\ (IsOpen \/ documentPath = NoPath)
  BY DEF Init, Opened, Projects, IsOpen
<1>2. QED
  BY <1>1 DEF Init, Opened, IInv, TypeOK, FilesTypeOK, OpenInv, LoaderHasRead, Numbered,
       SeenIfUnchanged, PendingOpenIsServed, SaveInv, PendingSaveIsServed, Idle,
       PendingSaveIsOfThisDocument, FollowUpHasItsSave, IsOpen

LEMMA NextInvariant == IInv /\ [Next]_vars => IInv'
<1> SUFFICES ASSUME IInv, [Next]_vars
             PROVE  IInv'
  OBVIOUS
<1>1. CASE Command
  BY <1>1, OpenCommandKeeps, ReloadKeeps, CloseCommandKeeps, ChangeKeeps,
     RecoverKeeps, SaveKeeps DEF Command
<1>2. CASE Click
  BY <1>2, SaveFirstKeeps, CancelConfirmationKeeps, DiscardKeeps, PickFileKeeps,
     PickNothingKeeps, LoaderLeaves DEF Click
<1>3. CASE PollSaver
  BY <1>3, FinishSaveKeeps, FailSaveKeeps DEF PollSaver
<1>4. CASE PollLoader
  BY <1>4, FinishLoadKeeps, LoaderLeaves DEF PollLoader
<1>5. CASE WorkerStep /\ UNCHANGED <<appVars, shellVars>>
  BY <1>5, WorkerKeeps
<1>6. CASE UNCHANGED vars
  BY <1>6 DEF vars, workerVars, appVars, shellVars, IInv, TypeOK, FilesTypeOK, OpenInv,
       LoaderHasRead, Numbered, SeenIfUnchanged, PendingOpenIsServed, SaveInv,
       PendingSaveIsServed, PendingSaveIsOfThisDocument, FollowUpHasItsSave, IsOpen
<1>7. QED
  BY <1>1, <1>2, <1>3, <1>4, <1>5, <1>6 DEF Next

(* The inductive invariant holds in every reachable state of the document    *)
(* protocol, whatever the order of commands, clicks and completions.         *)
THEOREM Invariant == Spec => []IInv
BY InitInvariant, NextInvariant, PTL DEF Spec

(* The document, the requests and both workers keep their types.             *)
THEOREM TypeCorrect == Spec => []TypeOK
<1>1. IInv => TypeOK
  BY DEF IInv
<1>2. QED
  BY <1>1, Invariant, PTL

(* take_pending_save finds a request nobody waits for only when none is      *)
(* pending: a pending save always has the worker that will answer it.        *)
THEOREM SaveIsServed == Spec => []PendingSaveIsServed
<1>1. IInv => PendingSaveIsServed
  BY DEF IInv, SaveInv
<1>2. QED
  BY <1>1, Invariant, PTL

(* finish_save marks the document saved that the bytes were taken from, and  *)
(* gives it the path they were written to.                                   *)
THEOREM SaveIsOfThisDocument == Spec => []PendingSaveIsOfThisDocument
<1>1. IInv => PendingSaveIsOfThisDocument
  BY DEF IInv, SaveInv
<1>2. QED
  BY <1>1, Invariant, PTL

(* A pending open always has the file selector or the loader that answers it.*)
THEOREM OpenIsServed == Spec => []PendingOpenIsServed
<1>1. IInv => PendingOpenIsServed
  BY DEF IInv, OpenInv
<1>2. QED
  BY <1>1, Invariant, PTL

(* What the user wanted after a save is forgotten with that save.            *)
THEOREM FollowUpIsOfItsSave == Spec => []FollowUpHasItsSave
<1>1. IInv => FollowUpHasItsSave
  BY DEF IInv, SaveInv
<1>2. QED
  BY <1>1, Invariant, PTL

-----------------------------------------------------------------------------
(* What replaces the document.                                               *)

\* Proceeding leaves the document as it is or closes it.
LEMMA ProceedLeaves ==
  ASSUME NEW action, NEW proj, NEW path, NEW save, Proceed(action, proj, path, save)
  PROVE  project' \in {proj, NoProject}
BY DEF Proceed, KeepProject, CloseProject

LEMMA FinishLoadReplaces ==
  ASSUME IInv, IsOpen, FinishLoad, project' # project
  PROVE  /\ pendingOpen.seen = project.rom /\ pendingOpen.revision = revision
         /\ pendingOpen # NoRequest
         /\ pendingOpen.allowModified \/ ~IsModified
         /\ project' # NoProject /\ project'.request # project.request
<1>1. /\ IsPendingOpen(loader.id) /\ ContextUnchanged
      /\ project' = Opened(loader.prepared, loader.id)
  BY DEF FinishLoad, Install
<1>2. /\ pendingOpen # NoRequest /\ pendingOpen.id = loader.id
      /\ pendingOpen.revision = revision
      /\ pendingOpen.allowModified \/ ~IsModified
  BY <1>1 DEF IsPendingOpen, ContextUnchanged
<1>3. loader.prepared \in Image /\ loader.id \in 0..MaxOpens
  BY <1>2 DEF FinishLoad, IInv, TypeOK, OpenInv, LoaderHasRead, OpenRequests
<1>4. /\ project' \in Projects /\ project'.request = loader.id
  BY <1>1, <1>3 DEF Opened, Projects
<1>5. QED
  BY <1>2, <1>4 DEF IInv, OpenInv, SeenIfUnchanged, Numbered, IsOpen

\* What a completed save does to the document it was taken from.
LEMMA FinishSaveReplaces ==
  ASSUME IInv, IsOpen, FinishSave, project' # project
  PROVE  /\ saver.phase = "written" /\ saver # Idle
         /\ \/ project.rom = saver.bytes
            \/ project' # NoProject /\ project'.baseline = project.baseline
         /\ project' # NoProject =>
              /\ project'.request = project.request
              /\ project'.baseline \in {project.baseline, project.rom}
<1> DEFINE saved == [project EXCEPT !.baseline = project.rom,
                                    !.lastSaved = saver.bytes]
           stale == [project EXCEPT !.lastSaved = saver.bytes]
<1>1. project \in Projects /\ saver.phase = "written" /\ saver # Idle
      /\ saver.bytes \in Image
  BY DEF IInv, TypeOK, FilesTypeOK, IsOpen, FinishSave, SaveJob, Idle
<1>2. /\ saved.request = project.request /\ saved.baseline = project.rom
      /\ stale.request = project.request /\ stale.baseline = project.baseline
      /\ stale \in Projects
  BY <1>1 DEF Projects
<1> HIDE DEF saved, stale
<1>3. \/ IsPendingSave(saver.id) /\ ~IsStale /\ project' \in {saved, NoProject}
      \/ IsPendingSave(saver.id) /\ IsStale /\ project' = stale
  BY ProceedLeaves DEF FinishSave, KeepProject, saved, stale
<1>4. QED
  BY <1>1, <1>2, <1>3 DEF IsStale

LEMMA CommandLeaves ==
  ASSUME IInv, IsOpen, IsModified, Command
  PROVE  project' # NoProject /\ project'.request = project.request
         /\ project'.baseline = project.baseline
<1> USE DEF IsOpen
<1>1. CASE \E image \in Image : Change(image)
  BY <1>1 DEF Change, IInv, TypeOK, Projects
<1>2. CASE \E saveAs \in BOOLEAN : Save(saveAs)
  BY <1>2 DEF Save
<1>3. QED
  BY <1>1, <1>2 DEF Command, OpenCommand, Reload, CloseCommand, Recover

LEMMA CommandChanges ==
  ASSUME IInv, IsOpen, Command, project' # NoProject
  PROVE  project'.request = project.request /\ project'.baseline = project.baseline
<1> USE DEF IsOpen
<1>1. CASE \E image \in Image : Change(image)
  BY <1>1 DEF Change, IInv, TypeOK, Projects
<1>2. CASE \E action \in {"close", "quit"} : CloseCommand(action)
  BY <1>2, ProceedLeaves DEF CloseCommand
<1>3. QED
  BY <1>1, <1>2 DEF Command, OpenCommand, Reload, Recover, Save

\* Nothing but these steps touches the document.
LEMMA OthersKeepDocument ==
  ASSUME \/ SaveFirst \/ CancelConfirmation
         \/ \E path \in Path : PickFile(path)
         \/ PickNothing \/ AcceptHeader \/ RejectHeader \/ FailSave \/ FailLoad
         \/ AskForHeader
         \/ WorkerStep /\ UNCHANGED <<appVars, shellVars>>
         \/ UNCHANGED vars
  PROVE  project' = project
BY DEF SaveFirst, CancelConfirmation, PickFile, PickNothing, AcceptHeader, RejectHeader,
       FailSave, FailLoad, AskForHeader, appVars, vars

\* A step is a command, a discarded confirmation, a completion, or one of those.
LEMMA Steps ==
  ASSUME [Next]_vars, project' # project
  PROVE  Command \/ Discard \/ FinishSave \/ FinishLoad
BY OthersKeepDocument DEF Next, Click, PollSaver, PollLoader

(* No unsaved change leaves the screen without a click on Discard, an allowed*)
(* reload or the completed save of exactly these bytes (request_close,       *)
(* validate_open_request, finish_save).                                      *)
THEOREM NothingIsLost == Spec => NoSilentLoss
<1>1. ASSUME IInv, [Next]_vars, Leaves, IsModified
      PROVE  \/ confirmation # "none" /\ confirmation' = "none"
             \/ pendingOpen # NoRequest /\ pendingOpen.allowModified
                  /\ pendingOpen.seen = project.rom
             \/ saver # Idle /\ saver.phase = "written" /\ saver.bytes = project.rom
  <2>1. IsOpen /\ project' # project
    BY <1>1 DEF Leaves, IsOpen
  <2>2. CASE Command
    BY <1>1, <2>1, <2>2, CommandLeaves DEF Leaves
  <2>3. CASE Discard
    BY <2>3 DEF Discard
  <2>4. CASE FinishSave
    BY <1>1, <2>1, <2>4, FinishSaveReplaces DEF Leaves
  <2>5. CASE FinishLoad
    BY <1>1, <2>1, <2>5, FinishLoadReplaces
  <2>6. QED
    BY <1>1, <2>1, <2>2, <2>3, <2>4, <2>5, Steps
<1>2. IInv /\ [Next]_vars =>
        [Leaves /\ IsModified =>
           \/ confirmation # "none" /\ confirmation' = "none"
           \/ pendingOpen # NoRequest /\ pendingOpen.allowModified
                /\ pendingOpen.seen = project.rom
           \/ saver # Idle /\ saver.phase = "written" /\ saver.bytes = project.rom]_vars
  BY <1>1
<1>3. QED
  BY <1>2, Invariant, PTL DEF Spec, NoSilentLoss

(* complete_prepared_open replaces only the document the user saw: the bytes *)
(* and the revision it had when the open was asked for.                      *)
THEOREM OpensWhatWasSeen == Spec => OpensOnlyWhatWasSeen
<1>1. ASSUME IInv, [Next]_vars, Leaves, project' # NoProject
      PROVE  pendingOpen.seen = project.rom /\ pendingOpen.revision = revision
  <2>1. IsOpen /\ project' # project /\ project'.request # project.request
    BY <1>1 DEF Leaves
  <2>2. CASE Command
    BY <1>1, <2>1, <2>2, CommandChanges
  <2>3. CASE Discard
    BY <1>1, <2>1, <2>3, ProceedLeaves DEF Discard
  <2>4. CASE FinishSave
    BY <1>1, <2>1, <2>4, FinishSaveReplaces
  <2>5. CASE FinishLoad
    BY <1>1, <2>1, <2>5, FinishLoadReplaces
  <2>6. QED
    BY <1>1, <2>1, <2>2, <2>3, <2>4, <2>5, Steps
<1>2. IInv /\ [Next]_vars =>
        [Leaves /\ project' # NoProject =>
           pendingOpen.seen = project.rom /\ pendingOpen.revision = revision]_vars
  BY <1>1
<1>3. QED
  BY <1>2, Invariant, PTL DEF Spec, OpensOnlyWhatWasSeen

(* finish_save moves the baseline of is_modified only to bytes a worker has  *)
(* just written and the project still holds.                                 *)
THEOREM SavedIsWritten == Spec => SavedMeansWritten
<1>1. ASSUME IInv, [Next]_vars, IsOpen, project' # NoProject,
             project'.request = project.request,
             project'.baseline # project.baseline
      PROVE  /\ saver.phase = "written" /\ project'.baseline = saver.bytes
             /\ project.rom = saver.bytes
  <2>1. project' # project
    BY <1>1
  <2>2. CASE Command
    BY <1>1, <2>2, CommandChanges
  <2>3. CASE Discard
    BY <1>1, <2>1, <2>3, ProceedLeaves DEF Discard
  <2>4. CASE FinishSave
    BY <1>1, <2>1, <2>4, FinishSaveReplaces
  <2>5. CASE FinishLoad
    BY <1>1, <2>1, <2>5, FinishLoadReplaces
  <2>6. QED
    BY <1>1, <2>1, <2>2, <2>3, <2>4, <2>5, Steps
<1>2. IInv /\ [Next]_vars =>
        [IsOpen /\ project' # NoProject /\ project'.request = project.request
         /\ project'.baseline # project.baseline =>
           saver.phase = "written" /\ project'.baseline = saver.bytes
             /\ project.rom = saver.bytes]_vars
  BY <1>1
<1>3. QED
  BY <1>2, Invariant, PTL DEF Spec, SavedMeansWritten
=============================================================================
