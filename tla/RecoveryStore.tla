---------------------------- MODULE RecoveryStore ---------------------------
(* The crash-recovery records of lm-native/src/recovery_store.rs.  At the    *)
(* end of every frame the store compares the revision of the document with   *)
(* the one it queued last, and hands a snapshot, or the order to clear the   *)
(* record, to its worker over a channel of one place.  The records that      *)
(* earlier sessions left behind are offered one after the other, to be       *)
(* recovered into an unnamed document or discarded.                          *)
(*                                                                           *)
(* A session is one run of the program, with a record of its own; it may     *)
(* crash between any two steps.  Several may have crashed before the first   *)
(* one modelled, which is the only process while it runs.  A frame has at    *)
(* most one event, and its synchronisation comes last.                       *)
(*                                                                           *)
(* What a document holds is a number: each change makes bytes that never     *)
(* were before, or goes back to the saved ones.                              *)
EXTENDS Integers, Sequences, FiniteSets

CONSTANTS Earlier,       \* sessions that ended before, perhaps at one time
          MaxSessions,   \* bound on the runs of the program
          MaxChanges,    \* bound on the bytes the user makes
          MaxRevision,   \* bound on the revisions of one document
          MaxPending,    \* MAX_PENDING_RECORDS: more are not offered
          DiskFails      \* whether a file operation may fail

ASSUME RecoveryAssumption ==
  /\ MaxSessions \in Nat \ {0}
  /\ MaxChanges \in Nat
  /\ Earlier \in 0..MaxSessions /\ Earlier <= MaxChanges
  /\ MaxRevision \in Nat
  /\ MaxPending \in Nat
  /\ DiskFails \in BOOLEAN

VARIABLES running,         \* whether the program runs, and how it ended
          session,         \* which session this is; its record has the number
          records,         \* the bytes in each record, or Nothing
          document,        \* the document on screen
          drawing,         \* a frame had its event, not yet its last call
          pending,         \* the records offered to the user, and their bytes
          channel,         \* the command in the channel, or Idle
          working,         \* the command the worker executes, or Idle
          failed,          \* the kinds of command with an unread error
          queuedRevision,  \* queued_revision, or None
          clearQueued,     \* clear_queued
          changes,         \* history: how many states the user has made
          base,            \* history: and had before this document
          queuedContent,   \* history: the bytes of the last write queued
          found,           \* history: what the records held at the start
          answered,        \* history: the records the user decided about since
          reported         \* history: whether an error was shown since

disk == <<records, found>>
store == <<pending, channel, working, failed, queuedRevision, clearQueued,
           queuedContent, answered, reported>>
vars == <<running, session, disk, document, base, drawing, store, changes>>

Nothing == 0    \* no bytes: the numbers of the user's states start at 1
None == -1      \* no revision

Sessions == 1..MaxSessions

\* What a record encodes: the user's bytes.  Saved bytes, revision and level
\* are left out, and only what differs from the saved bytes is encoded.
Contents == 1..MaxChanges

Revisions == 0..MaxRevision

Idle == [kind |-> "idle", of |-> 0]
Write(content) == [kind |-> "write", of |-> content]
ClearCurrent == [kind |-> "clear", of |-> session]
RemovePending(path) == [kind |-> "remove", of |-> path]

Closed == [status |-> "none", revision |-> 0, content |-> Nothing,
           named |-> FALSE]

\* A store before enable_paths has read anything.
FreshStore(offered) ==
  /\ pending' = offered
  /\ channel' = Idle /\ working' = Idle
  /\ failed' = {}
  /\ queuedRevision' = None /\ clearQueued' = FALSE
  /\ queuedContent' = Nothing
  /\ answered' = {}
  /\ reported' = FALSE

(* Each of the earlier sessions may have left a record. *)
Init ==
  /\ running = "crashed" /\ session = Earlier
  /\ records \in {r \in [Sessions -> 0..Earlier] :
                    \A s \in Sessions : r[s] \in {s, Nothing}}
  /\ found = records
  /\ document = Closed
  /\ drawing = FALSE
  /\ pending = <<>>
  /\ channel = Idle /\ working = Idle
  /\ failed = {}
  /\ queuedRevision = None /\ clearQueued = FALSE
  /\ changes = Earlier /\ base = Earlier
  /\ queuedContent = Nothing
  /\ answered = {}
  /\ reported = FALSE

-----------------------------------------------------------------------------
(* The events of a frame that the store sees through the document. *)

\* A document that is new on screen has revision 0.
Show(next) == /\ document' = next
              /\ base' = IF next.revision = 0 THEN changes ELSE base

Event(next) ==
  /\ running = "on"
  /\ ~drawing
  /\ drawing' = TRUE
  /\ Show(next)
  /\ UNCHANGED <<running, session, disk>>

(* A file is opened, or reloaded over unsaved changes the user gave up.  Only *)
(* a document with a path can be reloaded.                                    *)
Load ==
  /\ document.status = "dirty" => document.named
  /\ Event([status |-> "clean", revision |-> 0, content |-> Nothing,
            named |-> TRUE])
  /\ UNCHANGED <<store, changes>>

Change ==
  /\ document.status # "none"
  /\ document.revision < MaxRevision
  /\ changes < MaxChanges
  /\ changes' = changes + 1
  /\ Event([document EXCEPT !.status = "dirty", !.content = changes + 1,
                            !.revision = @ + 1])
  /\ UNCHANGED store

ChangeBack ==
  /\ document.status = "dirty"
  /\ document.revision < MaxRevision
  /\ Event([document EXCEPT !.status = "clean", !.content = Nothing,
                            !.revision = @ + 1])
  /\ UNCHANGED <<store, changes>>

(* A save is acknowledged, and nothing was changed since. *)
Saved ==
  /\ document.status = "dirty"
  /\ Event([document EXCEPT !.status = "clean", !.content = Nothing,
                            !.named = TRUE])
  /\ UNCHANGED <<store, changes>>

Close ==
  /\ document.status # "none"
  /\ Event(Closed)
  /\ UNCHANGED <<store, changes>>

\* Mutant: a failed write stays queued.
PolledRevisionKept == queuedRevision

(* poll_results: an error forgets what was queued, so that the next frame     *)
(* queues it again.                                                           *)
PolledRevision == IF "write" \in failed THEN None ELSE queuedRevision
PolledClear == clearQueued /\ "remove" \notin failed
PolledError == reported \/ failed # {}

\* remove_pending_record refused the record, or only the lock beside it.
RemovalFails(path) ==
  UNCHANGED records \/ records' = [records EXCEPT ![path] = Nothing]

\* Mutant: a removal that finds the channel full is dropped.
QueueClearOrDrop(path) ==
  /\ failed' = {}
  /\ queuedRevision' = PolledRevision
  /\ clearQueued' = PolledClear
  /\ reported' = PolledError
  /\ channel' = IF channel = Idle THEN RemovePending(path) ELSE channel
  /\ UNCHANGED records

(* queue_clear: the worker removes the record, or this thread does when the   *)
(* channel is full.                                                           *)
QueueClear(path) ==
  /\ failed' = {}
  /\ queuedRevision' = PolledRevision
  /\ clearQueued' = PolledClear
  /\ \/ /\ channel = Idle
        /\ channel' = RemovePending(path)
        /\ reported' = PolledError
        /\ UNCHANGED records
     \/ /\ channel # Idle
        /\ \/ /\ records' = [records EXCEPT ![path] = Nothing]
              /\ reported' = PolledError
           \/ DiskFails /\ RemovalFails(path) /\ reported' = TRUE
        /\ UNCHANGED channel

\* Mutant: the record offered last is removed.
AnswerOfLast(next) ==
  /\ running = "on"
  /\ ~drawing
  /\ drawing' = TRUE
  /\ pending # <<>>
  /\ Show(next)
  /\ pending' = Tail(pending)
  /\ QueueClear(pending[Len(pending)].path)
  /\ answered' = answered \cup {Head(pending).path}
  /\ UNCHANGED <<running, session, found, working, queuedContent, changes>>

(* The user decides about the record offered first. *)
Answer(next) ==
  /\ running = "on"
  /\ ~drawing
  /\ drawing' = TRUE
  /\ pending # <<>>
  /\ Show(next)
  /\ pending' = Tail(pending)
  /\ QueueClear(Head(pending).path)
  /\ answered' = answered \cup {Head(pending).path}
  /\ UNCHANGED <<running, session, found, working, queuedContent, changes>>

(* load_recovery succeeded, and complete_pending_recovery follows at once.  A *)
(* record it refuses stays offered.                                           *)
Recover ==
  /\ document.status = "none"
  /\ Answer([status |-> "dirty", revision |-> 0,
             content |-> Head(pending).content, named |-> FALSE])

DiscardPending == Answer(document)

-----------------------------------------------------------------------------
Skip(revision, clear) ==
  /\ queuedRevision' = revision
  /\ clearQueued' = clear
  /\ UNCHANGED <<channel, queuedContent>>

Queue(command, revision) ==
  /\ channel = Idle
  /\ channel' = command
  /\ queuedRevision' = revision
  /\ clearQueued' = (revision = None)
  /\ queuedContent' = IF revision = None THEN queuedContent
                      ELSE document.content

\* Mutant: the revision is marked before the channel has taken the command.
SynchronizeMarkingFirst ==
  /\ running = "on"
  /\ drawing' = FALSE
  /\ failed' = {}
  /\ reported' = PolledError
  /\ IF \/ pending # <<>>
        \/ document.status = "dirty" /\ PolledRevision = document.revision
        \/ document.status # "dirty" /\ PolledClear
       THEN Skip(PolledRevision, PolledClear)
     ELSE IF channel # Idle
       THEN IF document.status = "dirty" THEN Skip(document.revision, FALSE)
                                         ELSE Skip(None, TRUE)
     ELSE IF document.status = "dirty"
       THEN Queue(Write(document.content), document.revision)
     ELSE Queue(ClearCurrent, None)
  /\ UNCHANGED <<running, session, disk, document, base, pending, working,
                 answered, changes>>

(* synchronize_project, the last call of every frame.  A command that finds   *)
(* the channel full is dropped and tried again in the next frame.             *)
SynchronizeProject ==
  /\ running = "on"
  /\ drawing' = FALSE
  /\ failed' = {}
  /\ reported' = PolledError
  /\ IF \/ pending # <<>>
        \/ document.status = "dirty" /\ PolledRevision = document.revision
        \/ document.status # "dirty" /\ PolledClear
        \/ channel # Idle
       THEN Skip(PolledRevision, PolledClear)
     ELSE IF document.status = "dirty"
       THEN Queue(Write(document.content), document.revision)
     ELSE Queue(ClearCurrent, None)
  /\ UNCHANGED <<running, session, disk, document, base, pending, working,
                 answered, changes>>

-----------------------------------------------------------------------------
(* The worker thread. *)

TakeCommand ==
  /\ running \in {"on", "leaving"}
  /\ working = Idle
  /\ channel # Idle
  /\ working' = channel
  /\ channel' = Idle
  /\ UNCHANGED <<running, session, disk, document, base, drawing, pending,
                 failed, queuedRevision, clearQueued, queuedContent, answered,
                 reported, changes>>

Executed ==
  /\ running \in {"on", "leaving"}
  /\ working # Idle
  /\ working' = Idle
  /\ UNCHANGED <<running, session, found, document, base, drawing, pending,
                 channel, queuedRevision, clearQueued, queuedContent,
                 answered, reported, changes>>

(* write_record renames a synchronised file over the record. *)
WriteRecord ==
  /\ working.kind = "write"
  /\ Executed
  /\ records' = [records EXCEPT ![session] = working.of]
  /\ UNCHANGED failed

RemoveRecord ==
  /\ working.kind \in {"clear", "remove"}
  /\ Executed
  /\ records' = [records EXCEPT ![working.of] = Nothing]
  /\ UNCHANGED failed

(* A failing write leaves the record as it was; so does a failing removal,    *)
(* unless it is the lock of a pending record that cannot be removed.          *)
CommandFails ==
  /\ DiskFails
  /\ Executed
  /\ IF working.kind = "remove" THEN RemovalFails(working.of)
                                ELSE UNCHANGED records
  /\ failed' = failed \cup
                 {IF working.kind = "write" THEN "write" ELSE "remove"}

-----------------------------------------------------------------------------
(* A normal exit, with no document open: the store is dropped, and waits for  *)
(* its worker to finish what is queued.                                       *)
Leave ==
  /\ running = "on"
  /\ ~drawing
  /\ document.status = "none"
  /\ running' = "leaving"
  /\ UNCHANGED <<session, disk, document, base, drawing, store, changes>>

Left ==
  /\ running = "leaving"
  /\ channel = Idle /\ working = Idle
  /\ running' = "closed"
  /\ UNCHANGED <<session, disk, document, base, drawing, store, changes>>

Crash ==
  /\ running \in {"on", "leaving"}
  /\ running' = "crashed"
  /\ UNCHANGED <<session, disk, document, base, drawing, store, changes>>

(* A record that cannot be read stays where it is and is not offered; nor is  *)
(* any when the directory holds too many.                                     *)
Stored == {s \in Sessions : records[s] # Nothing}

Offers(readable) ==
  LET offered == IF Cardinality(Stored) <= MaxPending THEN readable ELSE {}
  IN  {p \in [1..Cardinality(offered) ->
                 {[path |-> s, content |-> records[s]] : s \in offered}] :
         \A i, j \in DOMAIN p : p[i] = p[j] => i = j}

Start ==
  /\ running \in {"closed", "crashed"}
  /\ session < MaxSessions
  /\ running' = "on"
  /\ session' = session + 1
  /\ Show(Closed)
  /\ drawing' = FALSE
  /\ \E readable \in {Stored} \cup (IF DiskFails THEN SUBSET Stored ELSE {}) :
       \E offered \in Offers(readable) : FreshStore(offered)
  /\ found' = records
  /\ UNCHANGED <<records, changes>>

Worker == TakeCommand \/ WriteRecord \/ RemoveRecord \/ CommandFails

Next ==
  \/ Load
  \/ Change
  \/ ChangeBack
  \/ Saved
  \/ Close
  \/ Recover
  \/ DiscardPending
  \/ SynchronizeProject
  \/ TakeCommand
  \/ WriteRecord
  \/ RemoveRecord
  \/ CommandFails
  \/ Leave
  \/ Left
  \/ Crash
  \/ Start

Spec == Init /\ [][Next]_vars

(* The worker's thread runs, and frames are drawn. *)
FairSpec ==
  /\ Spec
  /\ WF_vars(SynchronizeProject)
  /\ WF_vars(Worker)
-----------------------------------------------------------------------------
Commands ==
  [kind : {"write"}, of : Contents] \cup [kind : {"clear", "remove"}, of : Sessions]
    \cup {Idle}

Documents ==
  {d \in [status : {"none", "clean", "dirty"}, revision : Revisions,
          content : Contents \cup {Nothing}, named : BOOLEAN] :
     d.status = "dirty" <=> d.content # Nothing}

TypeOK ==
  /\ running \in {"on", "leaving", "closed", "crashed"}
  /\ session \in 0..MaxSessions
  /\ running \in {"on", "leaving"} => session \in Sessions
  /\ records \in [Sessions -> Contents \cup {Nothing}]
  /\ found \in [Sessions -> Contents \cup {Nothing}]
  /\ document \in Documents
  /\ drawing \in BOOLEAN
  /\ pending \in Seq([path : Sessions, content : Contents])
  /\ channel \in Commands /\ working \in Commands
  /\ failed \subseteq {"write", "remove"}
  /\ queuedRevision \in Revisions \cup {None}
  /\ clearQueued \in BOOLEAN
  /\ changes \in 0..MaxChanges /\ base \in 0..changes
  /\ queuedContent \in Contents \cup {Nothing}
  /\ answered \subseteq Sessions
  /\ reported \in BOOLEAN

\* What the record holds once the worker has executed a command on it.
After(command, content) ==
  CASE command.kind = "write" -> command.of
    [] command.kind = "clear" -> Nothing
    [] OTHER -> content

\* What this session's record holds once the worker has caught up.
Upcoming == After(channel, After(working, records[session]))

(* The two marks that keep a frame from queueing again are never wrong about  *)
(* the record: unless an error waits to be read, the worker is about to       *)
(* leave there what was queued last, or nothing.                              *)
MarksAreTrue ==
  running \in {"on", "leaving"} =>
    /\ queuedRevision # None /\ "write" \notin failed => Upcoming = queuedContent
    /\ clearQueued /\ "remove" \notin failed => Upcoming = Nothing

(* A session changes the record of an earlier one only by removing it, and    *)
(* only after the user has recovered or discarded that very record.           *)
KeptUntilAnswered ==
  \A s \in 1..(session - 1) :
    \/ records[s] = found[s]
    \/ records[s] = Nothing /\ s \in answered

(* What is offered is what the record holds, and is not yet decided. *)
OfferIsCurrent ==
  running = "on" =>
    \A i \in DOMAIN pending : /\ records[pending[i].path] = pending[i].content
                              /\ pending[i].path \notin answered

(* A record the user decided about goes away, or an error is shown: its       *)
(* removal is done or on its way, whatever else fills the channel, and none   *)
(* is forgotten when the program exits right after.                           *)
AnsweredIsRemoved ==
  \A s \in answered : \/ records[s] = Nothing
                      \/ RemovePending(s) \in {channel, working}
                      \/ "remove" \in failed \/ reported

Unsaved(content) == /\ running = "on"
                    /\ document.status = "dirty"
                    /\ document.content = content

\* The queued write has this revision, but is of an earlier document.
Mistaken == /\ queuedRevision = document.revision
            /\ queuedContent # document.content
            /\ queuedContent <= base

(* While frames are drawn, unsaved bytes that stay on screen reach the record *)
(* or an error is reported; unless other records wait for an answer, or the   *)
(* revision is taken for one of an earlier document.                          *)
UnsavedIsRecorded ==
  \A c \in Contents :
    Unsaved(c) ~> \/ ~Unsaved(c)
                  \/ records[session] = c
                  \/ failed # {}
                  \/ pending # <<>>
                  \/ Mistaken

CaughtUp == /\ running = "on"
            /\ channel = Idle /\ working = Idle
            /\ failed = {}

(* docs/IMPLEMENTATION_NOTES.md:3049: "Every new dirty application revision   *)
(* captures both the exact accepted physical save baseline and the exact      *)
(* current physical ROM".  A revision is a number that starts again with      *)
(* every document, and a clear that finds the channel full leaves the queued  *)
(* number of the document before.                                             *)
QueuedRevisionIsCaptured ==
  CaughtUp /\ document.status = "dirty" /\ queuedRevision = document.revision =>
    records[session] = document.content

=============================================================================
