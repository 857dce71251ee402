--------------------------- MODULE FilePublication --------------------------
(* One call that replaces several files as a whole, of                       *)
(* lm-app/src/file_persistence.rs: replace_or_create_group (a ROM with its   *)
(* restore archive and sidecars, a set of graphics files) and                *)
(* replace_existing_pair (an object or sprite library and its descriptions). *)
(* A group of one existing file takes the steps of replace_with_backup, the  *)
(* fallback of replace_existing.                                             *)
(*                                                                           *)
(* Every new file is staged, every original is moved to a backup, the staged *)
(* files are renamed into place and the backups are removed.  One step is    *)
(* one call of the file system, and each may fail.  A crash stops the call   *)
(* between two steps, so what an invariant says of the files holds after a   *)
(* crash.  No other program touches the files.                               *)
(*                                                                           *)
(* A definition named a mutant is the one after it with a plausible mistake: *)
(* nothing uses it; the properties are tried against it.                     *)
EXTENDS Integers

CONSTANT MaxDocs    \* bound on the documents of a group

ASSUME GroupAssumption == MaxDocs \in Nat

VARIABLES kind,       \* which of the two functions was called
          size,       \* with how many documents, in the order 1..size
          original,   \* the documents whose destination existed
          file,       \* what is at each destination
          backedUp,   \* the documents whose original is at its backup path
          phase, at,  \* the loop the call is in, and its document
          refused,    \* the rollback steps the file system refused
          report      \* what the call returned

inputs == <<kind, size, original>>
vars == <<inputs, file, backedUp, phase, at, refused, report>>

Phases == {"staging", "backing", "unbacking", "publishing", "removing",
           "restoring", "cleaning", "finished"}

\* "unrestored" is the error that names a backup path.
Reports == {"none", "ok", "failed", "unrestored"}

Doc == 1..size

Refusals == {"remove", "restore"} \X Doc

Before == [i \in Doc |-> IF i \in original THEN "old" ELSE "absent"]

\* The empty group is refused, and a pair has two existing files.
Init ==
  /\ \/ /\ kind = "group"
        /\ size \in 1..MaxDocs
        /\ original \in SUBSET Doc
     \/ /\ kind = "pair"
        /\ size = 2
        /\ original = Doc
  /\ file = Before
  /\ backedUp = {} /\ refused = {}
  /\ phase = "staging" /\ at = 1
  /\ report = "none"

Finish(result) == /\ phase' = "finished"
                  /\ report' = result
                  /\ UNCHANGED at

\* The next document of this loop, or the first one of the next loop.
Advance(next) == /\ at' = IF at < size THEN at + 1 ELSE 1
                 /\ phase' = IF at < size THEN phase ELSE next
                 /\ UNCHANGED report

-----------------------------------------------------------------------------
(* Private staging files are synchronised before any destination changes. *)
StageAll ==
  /\ phase = "staging"
  /\ phase' = "backing"
  /\ UNCHANGED <<inputs, file, backedUp, at, refused, report>>

StageFails ==
  /\ phase = "staging"
  /\ Finish("failed")
  /\ UNCHANGED <<inputs, file, backedUp, refused>>

BackUp ==
  /\ phase = "backing"
  /\ \/ /\ at \in original
        /\ file' = [file EXCEPT ![at] = "absent"]
        /\ backedUp' = backedUp \cup {at}
     \/ /\ at \notin original
        /\ UNCHANGED <<file, backedUp>>
  /\ Advance("publishing")
  /\ UNCHANGED <<inputs, refused>>

BackUpFails ==
  /\ phase = "backing"
  /\ at \in original
  /\ phase' = "unbacking"
  /\ at' = at - 1
  /\ UNCHANGED <<inputs, file, backedUp, refused, report>>

\* Mutant: the backup goes as soon as its document is published.
PublishAndClean ==
  /\ phase = "publishing"
  /\ file' = [file EXCEPT ![at] = "new"]
  /\ backedUp' = backedUp \ {at}
  /\ Advance("cleaning")
  /\ UNCHANGED <<inputs, refused>>

Publish ==
  /\ phase = "publishing"
  /\ file' = [file EXCEPT ![at] = "new"]
  /\ Advance("cleaning")
  /\ UNCHANGED <<inputs, backedUp, refused>>

\* Mutant: only the documents published so far are put back.
PublishFailsForRest ==
  /\ phase = "publishing"
  /\ phase' = "restoring"
  /\ at' = at - 1
  /\ UNCHANGED <<inputs, file, backedUp, refused, report>>

PublishFails ==
  /\ phase = "publishing"
  /\ phase' = "removing"
  /\ at' = at - 1
  /\ UNCHANGED <<inputs, file, backedUp, refused, report>>

(* remove_if_same_file takes the published documents back, in reverse.  Its  *)
(* errors are ignored.                                                       *)
Remove ==
  /\ phase = "removing"
  /\ at > 0
  /\ \/ /\ file' = [file EXCEPT ![at] = "absent"]
        /\ UNCHANGED refused
     \/ /\ refused' = refused \cup {<<"remove", at>>}
        /\ UNCHANGED file
  /\ at' = at - 1
  /\ UNCHANGED <<inputs, backedUp, phase, report>>

(* A backup that cannot be removed is left: the documents are saved. *)
Clean ==
  /\ phase = "cleaning"
  /\ backedUp' \in {backedUp, backedUp \ {at}}
  /\ IF at < size THEN Advance("cleaning") ELSE Finish("ok")
  /\ UNCHANGED <<inputs, file, refused>>

-----------------------------------------------------------------------------
PutBack == /\ file' = [file EXCEPT ![at] = "old"]
           /\ backedUp' = backedUp \ {at}
           /\ UNCHANGED refused

StaysAway == /\ refused' = refused \cup {<<"restore", at>>}
             /\ UNCHANGED <<file, backedUp>>

(* A backup failed.  The group renames the earlier ones back in reverse and  *)
(* ignores errors.                                                           *)
UnBack ==
  /\ kind = "group"
  /\ phase = "unbacking"
  /\ at > 0
  /\ \/ at \in backedUp /\ PutBack
     \/ at \in backedUp /\ StaysAway
     \/ at \notin backedUp /\ UNCHANGED <<file, backedUp, refused>>
  /\ at' = at - 1
  /\ UNCHANGED <<inputs, phase, report>>

\* Mutant: an error of the restoration is ignored here too.
UnBackPairSilently ==
  /\ kind = "pair"
  /\ phase = "unbacking"
  /\ at > 0
  /\ PutBack \/ StaysAway
  /\ Finish("failed")
  /\ UNCHANGED inputs

(* The pair has at most its first original to rename back. *)
UnBackPair ==
  /\ kind = "pair"
  /\ phase = "unbacking"
  /\ at > 0
  /\ \/ PutBack /\ Finish("failed")
     \/ StaysAway /\ Finish("unrestored")
  /\ UNCHANGED inputs

(* The published files were removed: the group renames every original back   *)
(* in reverse, rollback_pair the first one first.                            *)
BeginRestore ==
  /\ phase = "removing"
  /\ at = 0
  /\ phase' = "restoring"
  /\ at' = IF kind = "group" THEN size ELSE 1
  /\ UNCHANGED <<inputs, file, backedUp, refused, report>>

Restore ==
  /\ kind = "group"
  /\ phase = "restoring"
  /\ at > 0
  /\ \/ at \in original /\ PutBack
     \/ at \notin original /\ UNCHANGED <<file, backedUp, refused>>
  /\ at' = at - 1
  /\ UNCHANGED <<inputs, phase, report>>

\* The group gives up at the first original that cannot be restored.
RestoreFails ==
  /\ kind = "group"
  /\ phase = "restoring"
  /\ at > 0
  /\ at \in original
  /\ StaysAway
  /\ Finish("unrestored")
  /\ UNCHANGED inputs

RolledBack ==
  /\ phase \in {"unbacking", "restoring"}
  /\ at = 0
  /\ Finish("failed")
  /\ UNCHANGED <<inputs, file, backedUp, refused>>

\* Mutant: the pair too gives up at the first original.
RestorePairToRefusal ==
  /\ kind = "pair"
  /\ phase = "restoring"
  /\ \/ PutBack /\ (IF at = 1 THEN Advance("restoring") ELSE Finish("failed"))
     \/ StaysAway /\ Finish("unrestored")
  /\ UNCHANGED inputs

(* The pair tries both whatever happens to the first. *)
RestorePair ==
  /\ kind = "pair"
  /\ phase = "restoring"
  /\ PutBack \/ StaysAway
  /\ IF at = 1 THEN Advance("restoring")
     ELSE Finish(IF \E i \in Doc : <<"restore", i>> \in refused'
                   THEN "unrestored" ELSE "failed")
  /\ UNCHANGED inputs

Next ==
  \/ StageAll
  \/ StageFails
  \/ BackUp
  \/ BackUpFails
  \/ UnBack
  \/ UnBackPair
  \/ Publish
  \/ PublishFails
  \/ Remove
  \/ BeginRestore
  \/ Restore
  \/ RestoreFails
  \/ RolledBack
  \/ RestorePair
  \/ Clean

Spec == Init /\ [][Next]_vars
-----------------------------------------------------------------------------
TypeOK ==
  /\ kind \in {"group", "pair"}
  /\ size \in 1..MaxDocs \cup {2}
  /\ original \subseteq Doc
  /\ file \in [Doc -> {"absent", "old", "new"}]
  /\ backedUp \subseteq original
  /\ phase \in Phases
  /\ at \in 0..size
  /\ refused \subseteq Refusals
  /\ report \in Reports
  /\ report = "none" <=> phase # "finished"

(* Whichever steps fail and wherever the process dies, no original is lost   *)
(* before the whole group is in place: each one is at its destination or at  *)
(* its backup path.                                                          *)
OriginalsSurvive ==
  \/ \A i \in Doc : file[i] = "new"
  \/ \A i \in original : file[i] = "old" \/ i \in backedUp

(* A call that returns Ok has replaced every document; a call that returns   *)
(* an error has replaced none, created none and left no backup, unless the   *)
(* file system also refused a step of the rollback.                          *)
AllOrNothing ==
  /\ report = "ok" => \A i \in Doc : file[i] = "new"
  /\ report \in {"failed", "unrestored"} /\ refused = {} =>
       file = Before /\ backedUp = {}

Restored ==
  report \in {"failed", "unrestored"} =>
    \A i \in original : file[i] = "old" \/ <<"restore", i>> \in refused

(* A failed replacement of a pair "restores both original files whenever the *)
(* filesystem permits it" (file_persistence.rs:599), whichever step failed:  *)
(* an original still away is one whose own return was refused.               *)
PairRestored == kind = "pair" => Restored

(* An error that names no backup path leaves both originals of a pair in     *)
(* place; and where a file of a group is away after such an error, the call  *)
(* has left nothing new behind.                                              *)
AwayIsReported ==
  report = "failed" =>
    \/ \A i \in original : file[i] = "old"
    \/ kind = "group" /\ \A i \in Doc : file[i] # "new"

=============================================================================
