---------------------------- MODULE VersionInstall ---------------------------
(* Installing an update beside the running version and selecting what        *)
(* lm-launcher starts: lm-update/src/lib.rs, the functions behind the update *)
(* dialog (lm-native/src/update_dialog.rs: stage_offer, install_offer) and   *)
(* lm-launcher/src/main.rs.                                                  *)
(*                                                                           *)
(* An install root holds one directory for each version and two selector     *)
(* files, LMCURRENT1 (current) and LMCURRENT1.previous (previous); a         *)
(* selector names a directory and the digest of its executable.  One step is *)
(* one call of the file system.  Each may fail, and the process may die      *)
(* between any two.  One staging folder, one install root and one updating   *)
(* process are modelled.  Someone else may change an executable, but not     *)
(* while an operation is at work.                                            *)
(*                                                                           *)
(* A definition named a mutant is the one after it with a plausible mistake: *)
(* nothing uses it; the properties are tried against it.                     *)
EXTENDS Integers

CONSTANTS MaxVersion,   \* bound on the versions, which are ordered
          Entries,      \* the files that every bundle must hold
          Native        \* the one that is started: lm-native

ASSUME BundleAssumption == MaxVersion \in Nat \ {0} /\ Native \in Entries

VARIABLES
  running,          \* the version of the program that runs
  staged, ready,    \* the archives in the staging folder; the offer staged
  made, file,       \* the version directories, and their files
  current, previous, new,   \* the selector files, LMCURRENT1.new the third
  pc,               \* the next call of the operation at work
  target,           \* the version it installs; none for a rollback
  contents,         \* the selector it publishes
  former, outcome   \* history: the selectors at its start; how it ended

dialog == <<running, staged, ready>>
directories == <<made, file>>
selectors == <<current, previous, new>>
operation == <<pc, target, contents, former, outcome>>
vars == <<dialog, directories, selectors, operation>>

Version == 1..MaxVersion
None == 0

\* Other bytes at a path than the ones that were published are "altered".
FileState == {"none", "torn", "whole", "altered"}

Selector == [version : Version, digest : FileState \ {"none"}]
NoSelector == [version |-> None, digest |-> "none"]
Empty == [version |-> None, digest |-> "torn"]      \* created, not yet written

Steps == {"idle", "staging", "extracting", "inspecting", "purging",
          "clearing", "creating", "writing", "checking", "unlinking",
          "keeping", "selecting", "returning", "discarding", "resolving"}

Digest(v) == file[v][Native]

(* decode_selector: the executable is there and its digest is the one        *)
(* recorded.  resolve_current applies it to LMCURRENT1.                      *)
Resolves(s) == /\ s \in Selector
               /\ s.version \in made
               /\ Digest(s.version) = s.digest

Init ==
  /\ running \in Version
  /\ staged = [v \in Version |-> "none"]
  /\ ready = None
  /\ made \in {{}, {running}}
  /\ file = [v \in Version |->
               [e \in Entries |-> IF v \in made THEN "whole" ELSE "none"]]
  /\ current = IF made = {} THEN NoSelector
               ELSE [version |-> running, digest |-> "whole"]
  /\ previous = NoSelector
  /\ new = NoSelector
  /\ pc = "idle" /\ target = None /\ contents = NoSelector
  /\ former = [current |-> current, previous |-> previous]
  /\ outcome = "none"

GoTo(step) == pc' = step /\ UNCHANGED <<target, contents, former, outcome>>

End(result) == /\ pc' = "idle"
               /\ outcome' = result
               /\ UNCHANGED <<target, contents, former>>

Begin(step, v, s) == /\ pc = "idle"
                     /\ pc' = step
                     /\ target' = v
                     /\ contents' = s
                     /\ former' = [current |-> current, previous |-> previous]
                     /\ outcome' = "none"

\* An operation that is refused at once changes nothing.
Refused(v) == /\ pc = "idle"
              /\ target' = v
              /\ outcome' = "failed"
              /\ former' = [current |-> current, previous |-> previous]
              /\ UNCHANGED <<pc, contents>>
-----------------------------------------------------------------------------
(* stage_archive_reader: an offer is newer than the running version          *)
(* (verify_offer), and its archive is copied into a file that did not exist. *)
StageArchive(v) ==
  /\ ready = None
  /\ v > running
  /\ staged[v] = "none"
  /\ Begin("staging", v, NoSelector)
  /\ staged' = [staged EXCEPT ![v] = "torn"]
  /\ UNCHANGED <<running, ready, directories, selectors>>

StageDone ==
  /\ pc = "staging"
  /\ staged' = [staged EXCEPT ![target] = "whole"]
  /\ ready' = target
  /\ End("none")
  /\ UNCHANGED <<running, directories, selectors>>

\* The copy is removed, if the file system allows it.
StageFails ==
  /\ pc = "staging"
  /\ staged' \in {staged, [staged EXCEPT ![target] = "none"]}
  /\ End("failed")
  /\ UNCHANGED <<running, ready, directories, selectors>>

\* "Keep staged only", or another manifest is chosen.
KeepStaged ==
  /\ pc = "idle"
  /\ ready # None
  /\ ready' = None
  /\ UNCHANGED <<running, staged, directories, selectors, operation>>

(* install_offer: extract_staged_archive makes a directory of its own.       *)
InstallOffer ==
  /\ ready # None
  /\ ready \notin made
  /\ Begin("extracting", ready, NoSelector)
  /\ made' = made \cup {ready}
  /\ UNCHANGED <<file, dialog, selectors>>

\* create_dir failed: the version is there already, or nothing can be made.
InstallRefused ==
  /\ ready # None
  /\ Refused(ready)
  /\ UNCHANGED <<dialog, directories, selectors>>

ExtractEntry(e) ==
  /\ pc = "extracting"
  /\ \/ /\ \A d \in Entries : file[target][d] # "torn"
        /\ file[target][e] = "none"
        /\ file' = [file EXCEPT ![target][e] = "torn"]
     \/ /\ file[target][e] = "torn"
        /\ file' = [file EXCEPT ![target][e] = "whole"]
  /\ UNCHANGED <<made, dialog, selectors, operation>>

\* Mutant: the archive ends and the required entries are not looked for.
ExtractDoneEarly ==
  /\ pc = "extracting"
  /\ file[target][Native] = "whole"
  /\ GoTo("inspecting")
  /\ UNCHANGED <<dialog, directories, selectors>>

ExtractDone ==
  /\ pc = "extracting"
  /\ \A e \in Entries : file[target][e] = "whole"
  /\ GoTo("inspecting")
  /\ UNCHANGED <<dialog, directories, selectors>>

ExtractFails ==
  /\ pc = "extracting"
  /\ GoTo("purging")
  /\ UNCHANGED <<dialog, directories, selectors>>

(* remove_dir_all: the files go one at a time, and errors are ignored.       *)
PurgeEntry(e) ==
  /\ pc = "purging"
  /\ file[target][e] # "none"
  /\ file' = [file EXCEPT ![target][e] = "none"]
  /\ UNCHANGED <<made, dialog, selectors, operation>>

PurgeEnds ==
  /\ pc = "purging"
  /\ \/ /\ \A e \in Entries : file[target][e] = "none"
        /\ made' = made \ {target}
     \/ UNCHANGED made
  /\ End("failed")
  /\ UNCHANGED <<file, dialog, selectors>>

(* activate_version reads the digest of the executable it is to select. *)
ActivateVersion ==
  /\ pc = "inspecting"
  /\ contents' = [version |-> target, digest |-> Digest(target)]
  /\ pc' = "clearing"
  /\ UNCHANGED <<target, former, outcome, dialog, directories, selectors>>

ActivateFails ==
  /\ pc = "inspecting"
  /\ GoTo("purging")
  /\ UNCHANGED <<dialog, directories, selectors>>

\* rollback_current: the previous selector is published again.
RollbackCurrent ==
  /\ Resolves(previous)
  /\ Begin("clearing", None, previous)
  /\ UNCHANGED <<dialog, directories, selectors>>

RollbackRefused ==
  /\ Refused(None)
  /\ UNCHANGED <<dialog, directories, selectors>>
-----------------------------------------------------------------------------
(* publish_selector, call by call.  An error ends it; install_offer then     *)
(* removes the directory, a rollback leaves everything as it is.             *)
PublishError == IF target = None THEN End("failed") ELSE GoTo("purging")

ClearStale ==
  /\ pc = "clearing"
  /\ new' \in {new, NoSelector}
  /\ GoTo("creating")
  /\ UNCHANGED <<current, previous, dialog, directories>>

CreateNew ==
  /\ pc = "creating"
  /\ new = NoSelector
  /\ new' = Empty
  /\ GoTo("writing")
  /\ UNCHANGED <<current, previous, dialog, directories>>

CreateFails ==
  /\ pc = "creating"
  /\ PublishError
  /\ UNCHANGED <<dialog, directories, selectors>>

WriteNew ==
  /\ pc = "writing"
  /\ new' = contents
  /\ GoTo("checking")
  /\ UNCHANGED <<current, previous, dialog, directories>>

WriteFails ==
  /\ pc = "writing"
  /\ new' \in {new, NoSelector}
  /\ PublishError
  /\ UNCHANGED <<current, previous, dialog, directories>>

\* Mutant: a selection is replaced whether or not it resolves.
CheckExisting ==
  /\ pc = "checking"
  /\ IF current = NoSelector THEN GoTo("selecting") ELSE GoTo("unlinking")
  /\ UNCHANGED <<dialog, directories, selectors>>

\* The existing selection must resolve before it is kept for a rollback.
CheckCurrent ==
  /\ pc = "checking"
  /\ \/ current = NoSelector /\ GoTo("selecting")
     \/ Resolves(current) /\ GoTo("unlinking")
  /\ UNCHANGED <<dialog, directories, selectors>>

CheckFails ==
  /\ pc = "checking"
  /\ current # NoSelector
  /\ PublishError
  /\ UNCHANGED <<dialog, directories, selectors>>

UnlinkPrevious ==
  /\ pc = "unlinking"
  /\ previous' \in {previous, NoSelector}
  /\ GoTo("keeping")
  /\ UNCHANGED <<current, new, dialog, directories>>

\* Mutant: the current selector is removed, and not kept as the previous one.
KeepNothing ==
  /\ pc = "keeping"
  /\ current' = NoSelector
  /\ GoTo("selecting")
  /\ UNCHANGED <<previous, new, dialog, directories>>

KeepCurrent ==
  /\ pc = "keeping"
  /\ previous' = current
  /\ current' = NoSelector
  /\ GoTo("selecting")
  /\ UNCHANGED <<new, dialog, directories>>

KeepFails ==
  /\ pc = "keeping"
  /\ PublishError
  /\ UNCHANGED <<dialog, directories, selectors>>

SelectNew ==
  /\ pc = "selecting"
  /\ current' = new
  /\ new' = NoSelector
  /\ pc' = IF target = None THEN "idle" ELSE "resolving"
  /\ outcome' = "ok"
  /\ UNCHANGED <<target, contents, former, previous, dialog, directories>>

SelectFails ==
  /\ pc = "selecting"
  /\ GoTo("returning")
  /\ UNCHANGED <<dialog, directories, selectors>>

\* The former selector is renamed back, if the file system allows it.
ReturnFormer ==
  /\ pc = "returning"
  /\ \/ /\ previous # NoSelector /\ current = NoSelector
        /\ current' = previous
        /\ previous' = NoSelector
     \/ UNCHANGED <<current, previous>>
  /\ GoTo("discarding")
  /\ UNCHANGED <<new, dialog, directories>>

DiscardNew ==
  /\ pc = "discarding"
  /\ new' \in {new, NoSelector}
  /\ PublishError
  /\ UNCHANGED <<current, previous, dialog, directories>>

\* install_offer reads the new selection back.  If that fails the offer stays.
ResolveInstalled ==
  /\ pc = "resolving"
  /\ \/ Resolves(current) /\ ready' = None
     \/ UNCHANGED ready
  /\ pc' = "idle"
  /\ UNCHANGED <<target, contents, former, outcome, running, staged,
                 directories, selectors>>
-----------------------------------------------------------------------------
(* launch_from: the program is started again, and is what current names. *)
Launch ==
  /\ pc = "idle"
  /\ Resolves(current)
  /\ running' = current.version
  /\ ready' = None
  /\ UNCHANGED <<staged, directories, selectors, operation>>

\* The process dies; what is on the disk stays.
Crash ==
  /\ pc # "idle"
  /\ ready' = None
  /\ End("none")
  /\ UNCHANGED <<running, staged, directories, selectors>>

\* Someone else changes or removes an executable.
Damage(v) ==
  /\ pc = "idle"
  /\ v \in made
  /\ Digest(v) = "whole"
  /\ \E damaged \in {"none", "altered"} :
       file' = [file EXCEPT ![v][Native] = damaged]
  /\ UNCHANGED <<made, dialog, selectors, operation>>

Stage == (\E v \in Version : StageArchive(v)) \/ StageDone \/ StageFails \/ KeepStaged

Install == \/ InstallOffer
           \/ InstallRefused
           \/ \E e \in Entries : ExtractEntry(e) \/ PurgeEntry(e)
           \/ ExtractDone
           \/ ExtractFails
           \/ PurgeEnds
           \/ ActivateVersion
           \/ ActivateFails
           \/ ResolveInstalled

Rollback == RollbackCurrent \/ RollbackRefused

Publish == \/ ClearStale
           \/ CreateNew
           \/ CreateFails
           \/ WriteNew
           \/ WriteFails
           \/ CheckCurrent
           \/ CheckFails
           \/ UnlinkPrevious
           \/ KeepCurrent
           \/ KeepFails
           \/ SelectNew
           \/ SelectFails
           \/ ReturnFormer
           \/ DiscardNew

Environment == Launch \/ Crash \/ \E v \in Version : Damage(v)

Next == Stage \/ Install \/ Rollback \/ Publish \/ Environment

Spec == Init /\ [][Next]_vars
-----------------------------------------------------------------------------
TypeOK ==
  /\ running \in Version
  /\ staged \in [Version -> {"none", "torn", "whole"}]
  /\ ready \in {None} \cup Version
  /\ made \subseteq Version
  /\ file \in [Version -> [Entries -> FileState]]
  /\ {current, previous} \subseteq Selector \cup {NoSelector}
  /\ new \in Selector \cup {NoSelector, Empty}
  /\ pc \in Steps
  /\ target \in {None} \cup Version
  /\ contents \in Selector \cup {NoSelector}
  /\ former \in [current : Selector \cup {NoSelector},
                 previous : Selector \cup {NoSelector}]
  /\ outcome \in {"none", "ok", "failed"}

(* Whatever failed and wherever a process died, a selector names a version   *)
(* that was extracted to its end: all its files are there, but for an        *)
(* executable that someone else changed.  No cleanup of a failed             *)
(* installation reaches a version that is selected or kept for a rollback.   *)
Complete(v) == /\ v \in made
               /\ \A e \in Entries \ {Native} : file[v][e] = "whole"

SelectedIsComplete ==
  \A s \in {current, previous} \ {NoSelector} : Complete(s.version)

(* No step of an installation or a rollback takes away the last selector     *)
(* that resolves: from any state a crash leaves, the launcher starts a       *)
(* version, or rollback_current can be called.  Only damage to an            *)
(* executable can end that.                                                  *)
Startable == \E s \in {current, previous} : Resolves(s)

NeverStranded ==
  [][Startable => Startable' \/ \E v \in Version : Damage(v)]_vars

(* "The previous selected version remains available for rollback": when a    *)
(* selector was published, current is that one and previous the one that was *)
(* current before; where there was none, the one kept before stays.          *)
RollbackReturns ==
  outcome = "ok" =>
    /\ current = contents
    /\ previous = IF former.current = NoSelector THEN former.previous
                  ELSE former.current

(* An activation or a rollback that returns an error selects nothing new:    *)
(* current is the former one; or, when also the rename back failed, that one *)
(* is at previous, where the next publication looks; or there was none and   *)
(* the one kept for a rollback is current again.                             *)
SelectionKept ==
  \/ /\ current = former.current
     /\ previous \in {former.previous, NoSelector}
  \/ /\ current = NoSelector
     /\ previous = former.current
  \/ /\ former.current = NoSelector
     /\ current = former.previous
     /\ previous = NoSelector

FailureKeepsSelection == pc = "idle" /\ outcome = "failed" => SelectionKept

(* lm-update/src/lib.rs:29 says that activate_version "Atomically selects a  *)
(* complete installed version": once a version is selected, one is selected  *)
(* whenever no operation is at work.  A crash between the two renames leaves *)
(* no current selector, and the launcher starts nothing.                     *)
SelectionIsAtomic ==
  pc = "idle" /\ former.current # NoSelector => current # NoSelector
=============================================================================
