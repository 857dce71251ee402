------------------------- MODULE VersionInstall_proofs ------------------------
(* Proofs about VersionInstall for any number of versions and any bundle.    *)
(*                                                                           *)
(* The argument: the version an installation works on is none of the ones    *)
(* that were selected when it began (InstallOffer makes a new directory), so *)
(* neither its extraction nor the removal of its directory touches them; and *)
(* in every step of publish_selector each of them is where Kept says.        *)
EXTENDS VersionInstall, TLAPS

Publishing == {"clearing", "creating", "writing", "checking", "unlinking",
               "keeping", "selecting", "returning", "discarding"}
Building == {"extracting", "inspecting", "purging"}
AtWork == {"staging"} \cup Building \cup Publishing

\* No operation at work has ended, and what it works on is known.
Begun ==
  /\ pc \in AtWork => outcome = "none"
  /\ pc = "resolving" => outcome = "ok"
  /\ pc \in Building \cup {"staging", "resolving"} => target \in Version

\* The version at work is none that was selected when the operation began.
Separate ==
  pc \in Building \cup Publishing /\ target # None =>
    /\ target \in made
    /\ target # former.current.version
    /\ target # former.previous.version

\* A version is selected only after it was extracted.
Extracted ==
  pc \in Publishing \cup {"inspecting"} /\ target # None =>
    \A e \in Entries : file[target][e] = "whole"

\* What is published resolves: the new version or the former previous one.
Publishable ==
  pc \in Publishing =>
    /\ Resolves(contents)
    /\ Complete(contents.version)

Written ==
  pc \in {"checking", "unlinking", "keeping", "selecting"} => new = contents

\* Where the former selectors are in each step.
Kept ==
  /\ pc \in {"staging", "extracting", "inspecting", "clearing", "creating",
             "writing", "checking", "unlinking"} =>
       current = former.current /\ previous = former.previous
  /\ pc = "keeping" =>
       current = former.current /\ previous \in {former.previous, NoSelector}
  /\ pc \in {"unlinking", "keeping"} => Resolves(current)
  /\ pc \in {"selecting", "returning"} =>
       /\ current = NoSelector
       /\ previous = IF former.current = NoSelector THEN former.previous
                     ELSE former.current
  /\ pc \in {"discarding", "purging"} => SelectionKept

IInv == /\ TypeOK
        /\ Begun
        /\ Separate
        /\ Extracted
        /\ Publishable
        /\ Written
        /\ Kept
        /\ SelectedIsComplete
        /\ RollbackReturns
        /\ FailureKeepsSelection

USE DEF dialog, directories, selectors, operation
USE DEF GoTo, End, Begin, Refused, PublishError
USE BundleAssumption

\* Staging an archive touches no version and no selector.
LEMMA StageStep == IInv /\ Stage => IInv'
<1> SUFFICES ASSUME IInv, Stage
             PROVE  IInv'
  OBVIOUS
<1> USE DEF AtWork, Building, Publishing, Version, Selector, NoSelector, Empty,
           None, FileState, Steps, Digest, Resolves, Complete, SelectionKept
<1>1. CASE \E v \in Version : StageArchive(v)
  BY <1>1 DEF StageArchive, IInv, TypeOK, Begun, Separate, Extracted,
         Publishable, Written, Kept, SelectedIsComplete, RollbackReturns,
         FailureKeepsSelection
<1>2. CASE StageDone
  BY <1>2 DEF StageDone, IInv, TypeOK, Begun, Separate, Extracted,
         Publishable, Written, Kept, SelectedIsComplete, RollbackReturns,
         FailureKeepsSelection
<1>3. CASE StageFails
  BY <1>3 DEF StageFails, IInv, TypeOK, Begun, Separate, Extracted,
         Publishable, Written, Kept, SelectedIsComplete, RollbackReturns,
         FailureKeepsSelection
<1>4. CASE KeepStaged
  BY <1>4 DEF KeepStaged, IInv, TypeOK, Begun, Separate, Extracted,
         Publishable, Written, Kept, SelectedIsComplete, RollbackReturns,
         FailureKeepsSelection
<1>5. QED
  BY <1>1, <1>2, <1>3, <1>4 DEF Stage

\* An installation makes a directory of its own and removes no other.
LEMMA InstallStep == IInv /\ Install => IInv'
<1> SUFFICES ASSUME IInv, Install
             PROVE  IInv'
  OBVIOUS
<1> USE DEF AtWork, Building, Publishing, Version, Selector, NoSelector, Empty,
           None, FileState, Steps, Digest, Resolves, Complete, SelectionKept
<1>1. CASE InstallOffer
  <2>1. TypeOK'
    BY <1>1 DEF InstallOffer, IInv, TypeOK, Begun, Written, Extracted,
           Publishable
  <2>2. Begun'
    BY <1>1 DEF InstallOffer, IInv, Begun, TypeOK
  <2>3. Separate'
    BY <1>1 DEF InstallOffer, IInv, Separate, TypeOK, Begun,
           SelectedIsComplete
  <2>4. Extracted'
    BY <1>1 DEF InstallOffer, IInv, Extracted, TypeOK, Begun
  <2>5. Publishable'
    BY <1>1 DEF InstallOffer, IInv, Publishable, TypeOK, Begun, Separate,
           Extracted, SelectedIsComplete
  <2>6. Written'
    BY <1>1 DEF InstallOffer, IInv, Written
  <2>7. Kept'
    BY <1>1 DEF InstallOffer, IInv, Kept, TypeOK, Begun, Written
  <2>8. SelectedIsComplete'
    BY <1>1 DEF InstallOffer, IInv, SelectedIsComplete, TypeOK, Begun,
           Separate, Kept, Publishable, Written
  <2>9. RollbackReturns'
    BY <1>1 DEF InstallOffer, IInv, RollbackReturns, Begun, Kept, Written
  <2>10. FailureKeepsSelection'
    BY <1>1 DEF InstallOffer, IInv, FailureKeepsSelection, Begun, Kept
  <2>11. QED
    BY <2>1, <2>2, <2>3, <2>4, <2>5, <2>6, <2>7, <2>8, <2>9, <2>10 DEF IInv
<1>2. CASE InstallRefused
  BY <1>2 DEF InstallRefused, IInv, TypeOK, Begun, Separate, Extracted,
         Publishable, Written, Kept, SelectedIsComplete, RollbackReturns,
         FailureKeepsSelection
<1>3. CASE \E e \in Entries : ExtractEntry(e)
  <2>1. TypeOK'
    <3>1. PICK e \in Entries : ExtractEntry(e)
      BY <1>3
    <3>2. target \in Version
      BY <3>1 DEF ExtractEntry, IInv, Begun
    <3>3. PICK x \in FileState : file' = [file EXCEPT ![target][e] = x]
      BY <3>1 DEF ExtractEntry
    <3>4. file[target] \in [Entries -> FileState]
      BY <3>2 DEF IInv, TypeOK
    <3>5. file' \in [Version -> [Entries -> FileState]]
      BY <3>2, <3>3, <3>4 DEF IInv, TypeOK
    <3>6. QED
      BY <3>1, <3>5 DEF ExtractEntry, IInv, TypeOK
  <2>2. Begun'
    BY <1>3 DEF ExtractEntry, IInv, Begun, TypeOK
  <2>3. Separate'
    BY <1>3 DEF ExtractEntry, IInv, Separate, TypeOK, Begun,
           SelectedIsComplete
  <2>4. Extracted'
    BY <1>3 DEF ExtractEntry, IInv, Extracted, TypeOK, Begun
  <2>5. Publishable'
    BY <1>3 DEF ExtractEntry, IInv, Publishable, TypeOK, Begun, Separate,
           Extracted, SelectedIsComplete
  <2>6. Written'
    BY <1>3 DEF ExtractEntry, IInv, Written
  <2>7. Kept'
    BY <1>3 DEF ExtractEntry, IInv, Kept, TypeOK, Begun, Written
  <2>8. SelectedIsComplete'
    BY <1>3 DEF ExtractEntry, IInv, SelectedIsComplete, TypeOK, Begun,
           Separate, Kept, Publishable, Written
  <2>9. RollbackReturns'
    BY <1>3 DEF ExtractEntry, IInv, RollbackReturns, Begun, Kept, Written
  <2>10. FailureKeepsSelection'
    BY <1>3 DEF ExtractEntry, IInv, FailureKeepsSelection, Begun, Kept
  <2>11. QED
    BY <2>1, <2>2, <2>3, <2>4, <2>5, <2>6, <2>7, <2>8, <2>9, <2>10 DEF IInv
<1>4. CASE \E e \in Entries : PurgeEntry(e)
  <2>1. TypeOK'
    BY <1>4 DEF PurgeEntry, IInv, TypeOK, Begun, Written, Extracted,
           Publishable
  <2>2. Begun'
    BY <1>4 DEF PurgeEntry, IInv, Begun, TypeOK
  <2>3. Separate'
    BY <1>4 DEF PurgeEntry, IInv, Separate, TypeOK, Begun, SelectedIsComplete
  <2>4. Extracted'
    BY <1>4 DEF PurgeEntry, IInv, Extracted, TypeOK, Begun
  <2>5. Publishable'
    BY <1>4 DEF PurgeEntry, IInv, Publishable, TypeOK, Begun, Separate,
           Extracted, SelectedIsComplete
  <2>6. Written'
    BY <1>4 DEF PurgeEntry, IInv, Written
  <2>7. Kept'
    BY <1>4 DEF PurgeEntry, IInv, Kept, TypeOK, Begun, Written
  <2>8. SelectedIsComplete'
    BY <1>4 DEF PurgeEntry, IInv, SelectedIsComplete, TypeOK, Begun, Separate,
           Kept, Publishable, Written
  <2>9. RollbackReturns'
    BY <1>4 DEF PurgeEntry, IInv, RollbackReturns, Begun, Kept, Written
  <2>10. FailureKeepsSelection'
    BY <1>4 DEF PurgeEntry, IInv, FailureKeepsSelection, Begun, Kept
  <2>11. QED
    BY <2>1, <2>2, <2>3, <2>4, <2>5, <2>6, <2>7, <2>8, <2>9, <2>10 DEF IInv
<1>5. CASE ExtractDone
  BY <1>5 DEF ExtractDone, IInv, TypeOK, Begun, Separate, Extracted,
         Publishable, Written, Kept, SelectedIsComplete, RollbackReturns,
         FailureKeepsSelection
<1>6. CASE ExtractFails
  BY <1>6 DEF ExtractFails, IInv, TypeOK, Begun, Separate, Extracted,
         Publishable, Written, Kept, SelectedIsComplete, RollbackReturns,
         FailureKeepsSelection
<1>7. CASE PurgeEnds
  <2>1. TypeOK'
    <3>1. made' \subseteq Version
      BY <1>7 DEF PurgeEnds, IInv, TypeOK
    <3>2. QED
      BY <1>7, <3>1 DEF PurgeEnds, IInv, TypeOK
  <2>2. Begun'
    BY <1>7 DEF PurgeEnds, IInv, Begun, TypeOK
  <2>3. Separate'
    BY <1>7 DEF PurgeEnds, IInv, Separate, TypeOK, Begun, SelectedIsComplete
  <2>4. Extracted'
    BY <1>7 DEF PurgeEnds, IInv, Extracted, TypeOK, Begun
  <2>5. Publishable'
    BY <1>7 DEF PurgeEnds, IInv, Publishable, TypeOK, Begun, Separate,
           Extracted, SelectedIsComplete
  <2>6. Written'
    BY <1>7 DEF PurgeEnds, IInv, Written
  <2>7. Kept'
    BY <1>7 DEF PurgeEnds, IInv, Kept, TypeOK, Begun, Written
  <2>8. SelectedIsComplete'
    BY <1>7 DEF PurgeEnds, IInv, SelectedIsComplete, TypeOK, Begun, Separate,
           Kept, Publishable, Written
  <2>9. RollbackReturns'
    BY <1>7 DEF PurgeEnds, IInv, RollbackReturns, Begun, Kept, Written
  <2>10. FailureKeepsSelection'
    BY <1>7 DEF PurgeEnds, IInv, FailureKeepsSelection, Begun, Kept
  <2>11. QED
    BY <2>1, <2>2, <2>3, <2>4, <2>5, <2>6, <2>7, <2>8, <2>9, <2>10 DEF IInv
<1>8. CASE ActivateVersion
  <2>1. TypeOK'
    BY <1>8 DEF ActivateVersion, IInv, TypeOK, Begun, Written, Extracted,
           Publishable
  <2>2. Begun'
    BY <1>8 DEF ActivateVersion, IInv, Begun, TypeOK
  <2>3. Separate'
    BY <1>8 DEF ActivateVersion, IInv, Separate, TypeOK, Begun,
           SelectedIsComplete
  <2>4. Extracted'
    BY <1>8 DEF ActivateVersion, IInv, Extracted, TypeOK, Begun
  <2>5. Publishable'
    BY <1>8 DEF ActivateVersion, IInv, Publishable, TypeOK, Begun, Separate,
           Extracted, SelectedIsComplete
  <2>6. Written'
    BY <1>8 DEF ActivateVersion, IInv, Written
  <2>7. Kept'
    BY <1>8 DEF ActivateVersion, IInv, Kept, TypeOK, Begun, Written
  <2>8. SelectedIsComplete'
    BY <1>8 DEF ActivateVersion, IInv, SelectedIsComplete, TypeOK, Begun,
           Separate, Kept, Publishable, Written
  <2>9. RollbackReturns'
    BY <1>8 DEF ActivateVersion, IInv, RollbackReturns, Begun, Kept, Written
  <2>10. FailureKeepsSelection'
    BY <1>8 DEF ActivateVersion, IInv, FailureKeepsSelection, Begun, Kept
  <2>11. QED
    BY <2>1, <2>2, <2>3, <2>4, <2>5, <2>6, <2>7, <2>8, <2>9, <2>10 DEF IInv
<1>9. CASE ActivateFails
  BY <1>9 DEF ActivateFails, IInv, TypeOK, Begun, Separate, Extracted,
         Publishable, Written, Kept, SelectedIsComplete, RollbackReturns,
         FailureKeepsSelection
<1>10. CASE ResolveInstalled
  BY <1>10 DEF ResolveInstalled, IInv, TypeOK, Begun, Separate, Extracted,
         Publishable, Written, Kept, SelectedIsComplete, RollbackReturns,
         FailureKeepsSelection
<1>11. QED
  BY <1>1, <1>2, <1>3, <1>4, <1>5, <1>6, <1>7, <1>8, <1>9, <1>10 DEF Install

\* A rollback publishes the former previous selector, which resolves.
LEMMA RollbackStep == IInv /\ Rollback => IInv'
<1> SUFFICES ASSUME IInv, Rollback
             PROVE  IInv'
  OBVIOUS
<1> USE DEF AtWork, Building, Publishing, Version, Selector, NoSelector, Empty,
           None, FileState, Steps, Digest, Resolves, Complete, SelectionKept
<1>1. CASE RollbackCurrent
  <2>1. TypeOK'
    BY <1>1 DEF RollbackCurrent, IInv, TypeOK, Begun, Written, Extracted,
           Publishable
  <2>2. Begun'
    BY <1>1 DEF RollbackCurrent, IInv, Begun, TypeOK
  <2>3. Separate'
    BY <1>1 DEF RollbackCurrent, IInv, Separate, TypeOK, Begun,
           SelectedIsComplete
  <2>4. Extracted'
    BY <1>1 DEF RollbackCurrent, IInv, Extracted, TypeOK, Begun
  <2>5. Publishable'
    BY <1>1 DEF RollbackCurrent, IInv, Publishable, TypeOK, Begun, Separate,
           Extracted, SelectedIsComplete
  <2>6. Written'
    BY <1>1 DEF RollbackCurrent, IInv, Written
  <2>7. Kept'
    BY <1>1 DEF RollbackCurrent, IInv, Kept, TypeOK, Begun, Written
  <2>8. SelectedIsComplete'
    BY <1>1 DEF RollbackCurrent, IInv, SelectedIsComplete, TypeOK, Begun,
           Separate, Kept, Publishable, Written
  <2>9. RollbackReturns'
    BY <1>1 DEF RollbackCurrent, IInv, RollbackReturns, Begun, Kept, Written
  <2>10. FailureKeepsSelection'
    BY <1>1 DEF RollbackCurrent, IInv, FailureKeepsSelection, Begun, Kept
  <2>11. QED
    BY <2>1, <2>2, <2>3, <2>4, <2>5, <2>6, <2>7, <2>8, <2>9, <2>10 DEF IInv
<1>2. CASE RollbackRefused
  BY <1>2 DEF RollbackRefused, IInv, TypeOK, Begun, Separate, Extracted,
         Publishable, Written, Kept, SelectedIsComplete, RollbackReturns,
         FailureKeepsSelection
<1>3. QED
  BY <1>1, <1>2 DEF Rollback

\* The steps of publish_selector: Kept follows both former selectors.
LEMMA PublishStep == IInv /\ Publish => IInv'
<1> SUFFICES ASSUME IInv, Publish
             PROVE  IInv'
  OBVIOUS
<1> USE DEF AtWork, Building, Publishing, Version, Selector, NoSelector, Empty,
           None, FileState, Steps, Digest, Resolves, Complete, SelectionKept
<1>1. CASE ClearStale
  BY <1>1 DEF ClearStale, IInv, TypeOK, Begun, Separate, Extracted,
         Publishable, Written, Kept, SelectedIsComplete, RollbackReturns,
         FailureKeepsSelection
<1>2. CASE CreateNew
  BY <1>2 DEF CreateNew, IInv, TypeOK, Begun, Separate, Extracted,
         Publishable, Written, Kept, SelectedIsComplete, RollbackReturns,
         FailureKeepsSelection
<1>3. CASE CreateFails
  BY <1>3 DEF CreateFails, IInv, TypeOK, Begun, Separate, Extracted,
         Publishable, Written, Kept, SelectedIsComplete, RollbackReturns,
         FailureKeepsSelection
<1>4. CASE WriteNew
  BY <1>4 DEF WriteNew, IInv, TypeOK, Begun, Separate, Extracted, Publishable,
         Written, Kept, SelectedIsComplete, RollbackReturns,
         FailureKeepsSelection
<1>5. CASE WriteFails
  BY <1>5 DEF WriteFails, IInv, TypeOK, Begun, Separate, Extracted,
         Publishable, Written, Kept, SelectedIsComplete, RollbackReturns,
         FailureKeepsSelection
<1>6. CASE CheckCurrent
  BY <1>6 DEF CheckCurrent, IInv, TypeOK, Begun, Separate, Extracted,
         Publishable, Written, Kept, SelectedIsComplete, RollbackReturns,
         FailureKeepsSelection
<1>7. CASE CheckFails
  BY <1>7 DEF CheckFails, IInv, TypeOK, Begun, Separate, Extracted,
         Publishable, Written, Kept, SelectedIsComplete, RollbackReturns,
         FailureKeepsSelection
<1>8. CASE UnlinkPrevious
  <2>1. TypeOK'
    BY <1>8 DEF UnlinkPrevious, IInv, TypeOK, Begun, Written, Extracted,
           Publishable
  <2>2. Begun'
    BY <1>8 DEF UnlinkPrevious, IInv, Begun, TypeOK
  <2>3. Separate'
    BY <1>8 DEF UnlinkPrevious, IInv, Separate, TypeOK, Begun,
           SelectedIsComplete
  <2>4. Extracted'
    BY <1>8 DEF UnlinkPrevious, IInv, Extracted, TypeOK, Begun
  <2>5. Publishable'
    BY <1>8 DEF UnlinkPrevious, IInv, Publishable, TypeOK, Begun, Separate,
           Extracted, SelectedIsComplete
  <2>6. Written'
    BY <1>8 DEF UnlinkPrevious, IInv, Written
  <2>7. Kept'
    BY <1>8 DEF UnlinkPrevious, IInv, Kept, TypeOK, Begun, Written
  <2>8. SelectedIsComplete'
    BY <1>8 DEF UnlinkPrevious, IInv, SelectedIsComplete, TypeOK, Begun,
           Separate, Kept, Publishable, Written
  <2>9. RollbackReturns'
    BY <1>8 DEF UnlinkPrevious, IInv, RollbackReturns, Begun, Kept, Written
  <2>10. FailureKeepsSelection'
    BY <1>8 DEF UnlinkPrevious, IInv, FailureKeepsSelection, Begun, Kept
  <2>11. QED
    BY <2>1, <2>2, <2>3, <2>4, <2>5, <2>6, <2>7, <2>8, <2>9, <2>10 DEF IInv
<1>9. CASE KeepCurrent
  <2>1. TypeOK'
    BY <1>9 DEF KeepCurrent, IInv, TypeOK, Begun, Written, Extracted,
           Publishable
  <2>2. Begun'
    BY <1>9 DEF KeepCurrent, IInv, Begun, TypeOK
  <2>3. Separate'
    BY <1>9 DEF KeepCurrent, IInv, Separate, TypeOK, Begun, SelectedIsComplete
  <2>4. Extracted'
    BY <1>9 DEF KeepCurrent, IInv, Extracted, TypeOK, Begun
  <2>5. Publishable'
    BY <1>9 DEF KeepCurrent, IInv, Publishable, TypeOK, Begun, Separate,
           Extracted, SelectedIsComplete
  <2>6. Written'
    BY <1>9 DEF KeepCurrent, IInv, Written
  <2>7. Kept'
    BY <1>9 DEF KeepCurrent, IInv, Kept, TypeOK, Begun, Written
  <2>8. SelectedIsComplete'
    BY <1>9 DEF KeepCurrent, IInv, SelectedIsComplete, TypeOK, Begun,
           Separate, Kept, Publishable, Written
  <2>9. RollbackReturns'
    BY <1>9 DEF KeepCurrent, IInv, RollbackReturns, Begun, Kept, Written
  <2>10. FailureKeepsSelection'
    BY <1>9 DEF KeepCurrent, IInv, FailureKeepsSelection, Begun, Kept
  <2>11. QED
    BY <2>1, <2>2, <2>3, <2>4, <2>5, <2>6, <2>7, <2>8, <2>9, <2>10 DEF IInv
<1>10. CASE KeepFails
  BY <1>10 DEF KeepFails, IInv, TypeOK, Begun, Separate, Extracted,
         Publishable, Written, Kept, SelectedIsComplete, RollbackReturns,
         FailureKeepsSelection
<1>11. CASE SelectNew
  <2>1. TypeOK'
    BY <1>11 DEF SelectNew, IInv, TypeOK, Begun, Written, Extracted,
           Publishable
  <2>2. Begun'
    BY <1>11 DEF SelectNew, IInv, Begun, TypeOK
  <2>3. Separate'
    BY <1>11 DEF SelectNew, IInv, Separate, TypeOK, Begun, SelectedIsComplete
  <2>4. Extracted'
    BY <1>11 DEF SelectNew, IInv, Extracted, TypeOK, Begun
  <2>5. Publishable'
    BY <1>11 DEF SelectNew, IInv, Publishable, TypeOK, Begun, Separate,
           Extracted, SelectedIsComplete
  <2>6. Written'
    BY <1>11 DEF SelectNew, IInv, Written
  <2>7. Kept'
    BY <1>11 DEF SelectNew, IInv, Kept, TypeOK, Begun, Written
  <2>8. SelectedIsComplete'
    BY <1>11 DEF SelectNew, IInv, SelectedIsComplete, TypeOK, Begun, Separate,
           Kept, Publishable, Written
  <2>9. RollbackReturns'
    BY <1>11 DEF SelectNew, IInv, RollbackReturns, Begun, Kept, Written
  <2>10. FailureKeepsSelection'
    BY <1>11 DEF SelectNew, IInv, FailureKeepsSelection, Begun, Kept
  <2>11. QED
    BY <2>1, <2>2, <2>3, <2>4, <2>5, <2>6, <2>7, <2>8, <2>9, <2>10 DEF IInv
<1>12. CASE SelectFails
  BY <1>12 DEF SelectFails, IInv, TypeOK, Begun, Separate, Extracted,
         Publishable, Written, Kept, SelectedIsComplete, RollbackReturns,
         FailureKeepsSelection
<1>13. CASE ReturnFormer
  <2>1. TypeOK'
    BY <1>13 DEF ReturnFormer, IInv, TypeOK, Begun, Written, Extracted,
           Publishable
  <2>2. Begun'
    BY <1>13 DEF ReturnFormer, IInv, Begun, TypeOK
  <2>3. Separate'
    BY <1>13 DEF ReturnFormer, IInv, Separate, TypeOK, Begun,
           SelectedIsComplete
  <2>4. Extracted'
    BY <1>13 DEF ReturnFormer, IInv, Extracted, TypeOK, Begun
  <2>5. Publishable'
    BY <1>13 DEF ReturnFormer, IInv, Publishable, TypeOK, Begun, Separate,
           Extracted, SelectedIsComplete
  <2>6. Written'
    BY <1>13 DEF ReturnFormer, IInv, Written
  <2>7. Kept'
    BY <1>13 DEF ReturnFormer, IInv, Kept, TypeOK, Begun, Written
  <2>8. SelectedIsComplete'
    BY <1>13 DEF ReturnFormer, IInv, SelectedIsComplete, TypeOK, Begun,
           Separate, Kept, Publishable, Written
  <2>9. RollbackReturns'
    BY <1>13 DEF ReturnFormer, IInv, RollbackReturns, Begun, Kept, Written
  <2>10. FailureKeepsSelection'
    BY <1>13 DEF ReturnFormer, IInv, FailureKeepsSelection, Begun, Kept
  <2>11. QED
    BY <2>1, <2>2, <2>3, <2>4, <2>5, <2>6, <2>7, <2>8, <2>9, <2>10 DEF IInv
<1>14. CASE DiscardNew
  BY <1>14 DEF DiscardNew, IInv, TypeOK, Begun, Separate, Extracted,
         Publishable, Written, Kept, SelectedIsComplete, RollbackReturns,
         FailureKeepsSelection
<1>15. QED
  BY <1>1, <1>2, <1>3, <1>4, <1>5, <1>6, <1>7, <1>8, <1>9, <1>10, <1>11,
     <1>12, <1>13, <1>14 DEF Publish

\* The launcher, the death of the process and damage to an executable.
LEMMA EnvironmentStep == IInv /\ Environment => IInv'
<1> SUFFICES ASSUME IInv, Environment
             PROVE  IInv'
  OBVIOUS
<1> USE DEF AtWork, Building, Publishing, Version, Selector, NoSelector, Empty,
           None, FileState, Steps, Digest, Resolves, Complete, SelectionKept
<1>1. CASE Launch
  BY <1>1 DEF Launch, IInv, TypeOK, Begun, Separate, Extracted, Publishable,
         Written, Kept, SelectedIsComplete, RollbackReturns,
         FailureKeepsSelection
<1>2. CASE Crash
  BY <1>2 DEF Crash, IInv, TypeOK, Begun, Separate, Extracted, Publishable,
         Written, Kept, SelectedIsComplete, RollbackReturns,
         FailureKeepsSelection
<1>3. CASE \E v \in Version : Damage(v)
  BY <1>3 DEF Damage, IInv, TypeOK, Begun, Separate, Extracted, Publishable,
         Written, Kept, SelectedIsComplete, RollbackReturns,
         FailureKeepsSelection
<1>4. QED
  BY <1>1, <1>2, <1>3 DEF Environment

LEMMA InitInvariant == Init => IInv
<1> SUFFICES ASSUME Init PROVE IInv
  OBVIOUS
<1> USE DEF Init, AtWork, Building, Publishing, Version, Selector, NoSelector,
           Empty, None, FileState, Steps, Digest, Resolves, Complete,
           SelectionKept
<1>1. file \in [Version -> [Entries -> FileState]]
  OBVIOUS
<1>2. TypeOK
  BY <1>1 DEF TypeOK
<1>3. SelectedIsComplete
  BY DEF SelectedIsComplete
<1>4. QED
  BY <1>2, <1>3 DEF IInv, Begun, Separate, Extracted, Publishable, Written,
                    Kept, RollbackReturns, FailureKeepsSelection

LEMMA NextInvariant == IInv /\ [Next]_vars => IInv'
<1>1. ASSUME IInv, UNCHANGED vars PROVE IInv'
  <2> USE <1>1 DEF vars, Digest, Resolves, Complete, SelectionKept
  <2>1. TypeOK' /\ Begun' /\ Separate' /\ Extracted'
    BY DEF IInv, TypeOK, Begun, Separate, Extracted
  <2>2. Publishable' /\ Written' /\ Kept'
    BY DEF IInv, Publishable, Written, Kept
  <2>3. SelectedIsComplete' /\ RollbackReturns' /\ FailureKeepsSelection'
    BY DEF IInv, SelectedIsComplete, RollbackReturns, FailureKeepsSelection
  <2>4. QED
    BY <2>1, <2>2, <2>3 DEF IInv
<1>2. QED
  BY <1>1, StageStep, InstallStep, RollbackStep, PublishStep, EnvironmentStep
     DEF Next

THEOREM Invariant == Spec => []IInv
  BY InitInvariant, NextInvariant, PTL DEF Spec

\* The types of the updater's state: staging folder, directories, selectors.
THEOREM TypeCorrect == Spec => []TypeOK
<1>1. IInv => TypeOK
  BY DEF IInv
<1>2. QED
  BY <1>1, Invariant, PTL

(* For any number of versions: a selector names a version that was extracted *)
(* to its end, whatever failed and wherever a process died.                  *)
THEOREM SelectedComplete == Spec => []SelectedIsComplete
<1>1. IInv => SelectedIsComplete
  BY DEF IInv
<1>2. QED
  BY <1>1, Invariant, PTL

(* The version that was selected before a publication is the previous one    *)
(* after it.                                                                 *)
THEOREM RollbackAvailable == Spec => []RollbackReturns
<1>1. IInv => RollbackReturns
  BY DEF IInv
<1>2. QED
  BY <1>1, Invariant, PTL

\* A failed activation or rollback selects nothing new.
THEOREM FailureIsClean == Spec => []FailureKeepsSelection
<1>1. IInv => FailureKeepsSelection
  BY DEF IInv
<1>2. QED
  BY <1>1, Invariant, PTL

\* A step other than damage leaves a selected version as it is.
LEMMA SelectedUntouched ==
  ASSUME IInv, Next, ~ \E v \in Version : Damage(v),
         NEW s \in {current, previous}, Resolves(s)
  PROVE  s.version \in made' /\ file'[s.version] = file[s.version]
<1> USE DEF Version, None, NoSelector, Resolves, Selector, Building, Publishing
<1>1. CASE UNCHANGED <<made, file>>
  BY <1>1
<1>2. CASE InstallOffer
  BY <1>2 DEF InstallOffer
<1>3. CASE \E e \in Entries : ExtractEntry(e) \/ PurgeEntry(e)
  <2>1. s.version # target
    BY <1>3 DEF ExtractEntry, PurgeEntry, IInv, Begun, Separate, Kept,
                SelectionKept
  <2>2. QED
    BY <1>3, <2>1 DEF ExtractEntry, PurgeEntry, IInv, TypeOK
<1>4. CASE PurgeEnds
  <2>1. s.version # target
    BY <1>4 DEF PurgeEnds, IInv, Begun, Separate, Kept, SelectionKept
  <2>2. QED
    BY <1>4, <2>1 DEF PurgeEnds
<1>5. Stage \/ Rollback \/ Publish \/ Environment => UNCHANGED <<made, file>>
  BY DEF Stage, StageArchive, StageDone, StageFails, KeepStaged, Rollback,
         RollbackCurrent, RollbackRefused, Publish, ClearStale, CreateNew,
         CreateFails, WriteNew, WriteFails, CheckCurrent, CheckFails,
         UnlinkPrevious, KeepCurrent, KeepFails, SelectNew, SelectFails,
         ReturnFormer, DiscardNew, Environment, Launch, Crash
<1>6. QED
  BY <1>1, <1>2, <1>3, <1>4, <1>5
     DEF Next, Install, InstallRefused, ExtractDone, ExtractFails,
         ActivateVersion, ActivateFails, ResolveInstalled

LEMMA NoStepStrands ==
  IInv /\ Startable /\ Next => Startable' \/ \E v \in Version : Damage(v)
<1> SUFFICES ASSUME IInv, Startable, Next, ~ \E v \in Version : Damage(v)
             PROVE  Startable'
  OBVIOUS
<1>1. PICK s \in {current, previous} : Resolves(s)
  BY DEF Startable
<1>2. ASSUME NEW t \in {current, previous}, Resolves(t),
             t \in {current', previous'}
      PROVE  Startable'
  BY <1>2, SelectedUntouched DEF Startable, Resolves, Selector, Digest
<1>3. CASE UNCHANGED <<current, previous>>
  BY <1>1, <1>2, <1>3
<1>4. CASE UnlinkPrevious \/ KeepCurrent
  <2>1. Resolves(current) /\ current \in {current', previous'}
    BY <1>4 DEF UnlinkPrevious, KeepCurrent, IInv, Kept
  <2>2. QED
    BY <2>1, <1>2
\* The new version resolves, and nothing but damage changes that.
<1>5. CASE SelectNew
  <2>1. current' = contents /\ Resolves(contents)
    BY <1>5 DEF SelectNew, IInv, Written, Publishable, Publishing
  <2>2. UNCHANGED <<made, file>>
    BY <1>5 DEF SelectNew
  <2>3. QED
    BY <2>1, <2>2 DEF Startable, Resolves, Selector, Version, Digest
<1>6. CASE ReturnFormer
  BY <1>1, <1>2, <1>6 DEF ReturnFormer, Resolves, Selector, NoSelector, Version,
                          None
<1>7. QED
  BY <1>3, <1>4, <1>5, <1>6
     DEF Next, Stage, StageArchive, StageDone, StageFails, KeepStaged,
         Install, InstallOffer, InstallRefused, ExtractEntry, PurgeEntry,
         ExtractDone, ExtractFails, PurgeEnds, ActivateVersion, ActivateFails,
         ResolveInstalled, Rollback, RollbackCurrent, RollbackRefused, Publish,
         ClearStale, CreateNew, CreateFails, WriteNew, WriteFails,
         CheckCurrent, CheckFails, KeepFails, SelectFails, DiscardNew,
         Environment, Launch, Crash

(* For any number of versions and at any step of any operation, also one     *)
(* that fails or dies: a version can be started or rolled back to, unless    *)
(* someone damages an executable.                                            *)
THEOREM NothingStrands == Spec => NeverStranded
<1>1. IInv /\ [Next]_vars =>
        [Startable => Startable' \/ \E v \in Version : Damage(v)]_vars
  BY NoStepStrands
<1>2. QED
  BY <1>1, Invariant, PTL DEF Spec, NeverStranded
=============================================================================
