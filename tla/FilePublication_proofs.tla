------------------------ MODULE FilePublication_proofs ----------------------
(* What a call that replaces several files promises, for groups of any size. *)
(* A theorem here is about every reachable state, so also about the files a  *)
(* crash leaves.                                                             *)
EXTENDS FilePublication, TLAPS

-----------------------------------------------------------------------------
(* The inductive invariant: what each loop of the call has done so far.      *)
RemoveRefused(i) == <<"remove", i>> \in refused
RestoreRefused(i) == <<"restore", i>> \in refused

Home(i) == file[i] = "old" /\ i \notin backedUp
Away(i) == file[i] # "old" /\ i \in backedUp

Clear(i) == file[i] = "absent" \/ RemoveRefused(i)

PairOK == kind = "pair" => size = 2 /\ original = Doc

StagingOK ==
  phase = "staging" =>
    /\ at = 1
    /\ refused = {} /\ backedUp = {}
    /\ file = Before

BackingOK ==
  phase = "backing" =>
    /\ at >= 1
    /\ refused = {}
    /\ \A i \in original : IF i < at THEN Away(i) ELSE Home(i)
    /\ \A i \in Doc : file[i] # "new"
    /\ \A i \in Doc \ original : file[i] = "absent"

UnbackingOK ==
  phase = "unbacking" =>
    /\ at < size
    /\ kind = "pair" => refused = {}
    /\ \A i \in original : IF i <= at THEN Away(i)
                           ELSE Home(i) \/ (Away(i) /\ RestoreRefused(i))
    /\ \A i \in Doc : file[i] # "new"
    /\ \A i \in Doc \ original : file[i] = "absent"

PublishingOK ==
  phase = "publishing" =>
    /\ at >= 1
    /\ refused = {} /\ backedUp = original
    /\ \A i \in Doc : file[i] = IF i < at THEN "new" ELSE "absent"

RemovingOK ==
  phase = "removing" =>
    /\ backedUp = original
    /\ \A i \in Doc : ~RestoreRefused(i)
    /\ \A i \in Doc : file[i] # "old"
    /\ \A i \in Doc : i > at => Clear(i)

RestoringOK ==
  phase = "restoring" =>
    /\ \A i \in Doc \ original : Clear(i)
    /\ kind = "group" =>
         /\ \A i \in Doc : ~RestoreRefused(i)
         /\ \A i \in original : IF i <= at THEN Away(i) ELSE Home(i)
    /\ kind = "pair" =>
         /\ at >= 1
         /\ \A i \in Doc : i >= at => Away(i) /\ ~RestoreRefused(i)
         /\ \A i \in Doc : i < at => \/ Home(i) /\ ~RestoreRefused(i)
                                     \/ Away(i) /\ RestoreRefused(i)

CleaningOK ==
  phase = "cleaning" => at >= 1 /\ \A i \in Doc : file[i] = "new"

FinishedOK ==
  phase = "finished" =>
    /\ AllOrNothing
    /\ PairRestored
    /\ AwayIsReported
    /\ report = "ok" \/ \A i \in original : Home(i) \/ Away(i)

Ledger ==
  /\ PairOK
  /\ StagingOK
  /\ BackingOK
  /\ UnbackingOK
  /\ PublishingOK
  /\ RemovingOK
  /\ RestoringOK
  /\ CleaningOK
  /\ FinishedOK

IInv == TypeOK /\ Ledger

-----------------------------------------------------------------------------
(* Files with every original home and nothing else are the files before.     *)
LEMMA AllHome ==
  ASSUME NEW n \in Nat,
         NEW o \in SUBSET (1..n),
         NEW b \in SUBSET o,
         NEW f \in [1..n -> {"absent", "old", "new"}],
         \A i \in o : f[i] = "old" /\ i \notin b,
         \A i \in (1..n) \ o : f[i] = "absent"
  PROVE  /\ f = [i \in 1..n |-> IF i \in o THEN "old" ELSE "absent"]
         /\ b = {}
  OBVIOUS

(* Every state of every call satisfies the invariant.                        *)
THEOREM CallIsOrderly == Spec => []IInv
<1> USE GroupAssumption DEF Doc, inputs
<1>1. Init => IInv
  BY DEF Init, IInv, TypeOK, Ledger, PairOK, StagingOK, BackingOK,
         UnbackingOK, PublishingOK, RemovingOK, RestoringOK, CleaningOK,
         FinishedOK, Phases, Reports, Refusals, Before, RemoveRefused,
         RestoreRefused, Home, Away, Clear
<1>2. IInv /\ [Next]_vars => IInv'
  <2> SUFFICES ASSUME TypeOK, Ledger, [Next]_vars
               PROVE  TypeOK' /\ Ledger'
    BY DEF IInv
  <2>1. CASE StageAll
    <3>1. TypeOK'
      BY <2>1 DEF StageAll, TypeOK, Ledger, StagingOK, Home, Away, Phases,
                  Reports, Refusals
    <3>2. BackingOK'
      BY <2>1, <3>1 DEF StageAll, TypeOK, Ledger, PairOK, StagingOK,
                        BackingOK, Home, Away, Clear, RemoveRefused,
                        RestoreRefused, Before
    <3>3. PairOK' /\ StagingOK' /\ UnbackingOK' /\ PublishingOK' /\ RemovingOK' /\
             RestoringOK' /\ CleaningOK' /\ FinishedOK'
      BY <2>1 DEF StageAll, Ledger, PairOK, StagingOK, UnbackingOK,
                  PublishingOK, RemovingOK, RestoringOK, CleaningOK,
                  FinishedOK
    <3> QED
      BY <3>1, <3>2, <3>3 DEF Ledger
  <2>2. CASE StageFails
    <3>1. TypeOK'
      BY <2>2 DEF StageFails, Finish, TypeOK, Ledger, StagingOK, Home, Away,
                  Phases, Reports, Refusals
    <3>2. FinishedOK'
      BY <2>2, <3>1 DEF StageFails, Finish, TypeOK, Ledger, PairOK, StagingOK,
                        FinishedOK, AllOrNothing, PairRestored,
                        AwayIsReported, Restored, Home, Away, Clear,
                        RemoveRefused, RestoreRefused, Before
    <3>3. PairOK' /\ StagingOK' /\ BackingOK' /\ UnbackingOK' /\ PublishingOK' /\
             RemovingOK' /\ RestoringOK' /\ CleaningOK'
      BY <2>2 DEF StageFails, Finish, Ledger, PairOK, StagingOK, BackingOK,
                  UnbackingOK, PublishingOK, RemovingOK, RestoringOK,
                  CleaningOK
    <3> QED
      BY <3>1, <3>2, <3>3 DEF Ledger
  <2>3. CASE BackUp
    <3>1. TypeOK'
      <4>1. at \in 1..size /\ at' \in 0..size
        BY <2>3 DEF BackUp, Advance, TypeOK, Ledger, BackingOK
      <4>2. CASE at \in original
        BY <2>3, <4>1, <4>2
           DEF BackUp, Advance, TypeOK, Phases, Reports, Refusals
      <4>3. CASE at \notin original
        BY <2>3, <4>1, <4>3
           DEF BackUp, Advance, TypeOK, Phases, Reports, Refusals
      <4> QED
        BY <4>2, <4>3
    <3>2. BackingOK'
      BY <2>3, <3>1 DEF BackUp, Advance, TypeOK, Ledger, PairOK, BackingOK,
                        Home, Away, Clear, RemoveRefused, RestoreRefused
    <3>3. PublishingOK'
      <4> SUFFICES ASSUME phase' = "publishing"
                   PROVE  PublishingOK'
        BY DEF PublishingOK
      <4>1. at = size /\ at' = 1 /\ refused' = {}
        BY <2>3 DEF BackUp, Advance, TypeOK, Ledger, BackingOK
      <4>2. \A i \in original : i \in backedUp' /\ file'[i] = "absent"
        BY <2>3, <4>1 DEF BackUp, TypeOK, Ledger, BackingOK, Home, Away
      <4>3. \A i \in Doc \ original : file'[i] = "absent"
        BY <2>3 DEF BackUp, TypeOK, Ledger, BackingOK
      <4>4. original' = original /\ size' = size
        BY <2>3 DEF BackUp
      <4>5. backedUp' = original'
        BY <3>1, <4>2, <4>4 DEF TypeOK
      <4> QED
        BY <4>1, <4>2, <4>3, <4>4, <4>5 DEF PublishingOK, TypeOK
    <3>4. PairOK' /\ StagingOK' /\ UnbackingOK' /\ RemovingOK' /\ RestoringOK' /\
             CleaningOK' /\ FinishedOK'
      BY <2>3 DEF BackUp, Advance, Ledger, PairOK, StagingOK, UnbackingOK,
                  RemovingOK, RestoringOK, CleaningOK, FinishedOK
    <3> QED
      BY <3>1, <3>2, <3>3, <3>4 DEF Ledger
  <2>4. CASE BackUpFails
    <3>1. TypeOK'
      BY <2>4 DEF BackUpFails, TypeOK, Ledger, BackingOK, Home, Away, Phases,
                  Reports, Refusals
    <3>2. UnbackingOK'
      BY <2>4, <3>1 DEF BackUpFails, TypeOK, Ledger, PairOK, BackingOK,
                        UnbackingOK, Home, Away, Clear, RemoveRefused,
                        RestoreRefused
    <3>3. PairOK' /\ StagingOK' /\ BackingOK' /\ PublishingOK' /\ RemovingOK' /\
             RestoringOK' /\ CleaningOK' /\ FinishedOK'
      BY <2>4 DEF BackUpFails, Ledger, PairOK, StagingOK, BackingOK,
                  PublishingOK, RemovingOK, RestoringOK, CleaningOK,
                  FinishedOK
    <3> QED
      BY <3>1, <3>2, <3>3 DEF Ledger
  <2>5. CASE UnBack
    <3>1. TypeOK'
      <4>1. at \in 1..size /\ at' \in 0..size
        BY <2>5 DEF UnBack, TypeOK
      <4>2. CASE PutBack
        BY <2>5, <4>1, <4>2
           DEF UnBack, PutBack, TypeOK, Phases, Reports, Refusals
      <4>3. CASE StaysAway
        BY <2>5, <4>1, <4>3
           DEF UnBack, StaysAway, TypeOK, Phases, Reports, Refusals
      <4>4. CASE UNCHANGED <<file, backedUp, refused>>
        BY <2>5, <4>1, <4>4 DEF UnBack, TypeOK, Phases, Reports, Refusals
      <4> QED
        BY <2>5, <4>2, <4>3, <4>4 DEF UnBack
    <3>2. UnbackingOK'
      BY <2>5, <3>1 DEF UnBack, PutBack, StaysAway, TypeOK, Ledger, PairOK,
                        UnbackingOK, Home, Away, Clear, RemoveRefused,
                        RestoreRefused
    <3>3. PairOK' /\ StagingOK' /\ BackingOK' /\ PublishingOK' /\ RemovingOK' /\
             RestoringOK' /\ CleaningOK' /\ FinishedOK'
      BY <2>5 DEF UnBack, PutBack, StaysAway, Ledger, PairOK, StagingOK,
                  BackingOK, PublishingOK, RemovingOK, RestoringOK,
                  CleaningOK, FinishedOK
    <3> QED
      BY <3>1, <3>2, <3>3 DEF Ledger
  <2>6. CASE UnBackPair
    <3>1. TypeOK'
      <4>1. at \in 1..size /\ at' = at
        BY <2>6 DEF UnBackPair, Finish, TypeOK
      <4>2. CASE PutBack
        BY <2>6, <4>1, <4>2
           DEF UnBackPair, PutBack, Finish, TypeOK, Phases, Reports, Refusals
      <4>3. CASE StaysAway
        BY <2>6, <4>1, <4>3
           DEF UnBackPair, StaysAway, Finish, TypeOK, Phases, Reports, Refusals
      <4> QED
        BY <2>6, <4>2, <4>3 DEF UnBackPair
    <3>2. FinishedOK'
      <4>1. /\ at = 1 /\ size = 2 /\ original = Doc
            /\ refused = {}
            /\ Away(1) /\ Home(2)
        <5>1. size = 2 /\ original = Doc /\ at = 1 /\ refused = {}
          BY <2>6 DEF UnBackPair, TypeOK, Ledger, PairOK, UnbackingOK
        <5>2. \A i \in original : IF i <= at THEN Away(i)
                 ELSE Home(i) \/ (Away(i) /\ RestoreRefused(i))
          BY <2>6 DEF UnBackPair, Ledger, UnbackingOK
        <5>3. Away(1) /\ (Home(2) \/ RestoreRefused(2))
          BY <5>1, <5>2
        <5> QED
          BY <5>1, <5>3 DEF RestoreRefused
      <4>2. CASE PutBack /\ Finish("failed")
        <5>1. \A i \in original : file'[i] = "old" /\ i \notin backedUp'
          BY <4>1, <4>2 DEF PutBack, TypeOK, Home, Away
        <5>2. file' = Before' /\ backedUp' = {}
          BY <2>6, <3>1, <4>1, <5>1, AllHome DEF UnBackPair, TypeOK, Before
        <5> QED
          BY <2>6, <4>2, <5>1, <5>2
             DEF UnBackPair, Finish, FinishedOK, AllOrNothing, PairRestored,
                 AwayIsReported, Restored, Home
      <4>3. CASE StaysAway /\ Finish("unrestored")
        <5>1. /\ <<"restore", 1>> \in refused'
              /\ 1 \in backedUp' /\ file'[1] # "old"
              /\ 2 \notin backedUp' /\ file'[2] = "old"
          BY <4>1, <4>3 DEF StaysAway, Home, Away
        <5>2. \A i \in original' : i = 1 \/ i = 2
          BY <2>6, <4>1 DEF UnBackPair
        <5> QED
          BY <4>3, <5>1, <5>2
             DEF Finish, FinishedOK, AllOrNothing, PairRestored,
                 AwayIsReported, Restored, Home, Away
      <4> QED
        BY <2>6, <4>2, <4>3 DEF UnBackPair
    <3>3. PairOK' /\ StagingOK' /\ BackingOK' /\ UnbackingOK' /\ PublishingOK' /\
             RemovingOK' /\ RestoringOK' /\ CleaningOK'
      BY <2>6 DEF UnBackPair, PutBack, StaysAway, Finish, Ledger, PairOK,
                  StagingOK, BackingOK, UnbackingOK, PublishingOK, RemovingOK,
                  RestoringOK, CleaningOK
    <3> QED
      BY <3>1, <3>2, <3>3 DEF Ledger
  <2>7. CASE Publish
    <3>1. TypeOK'
      BY <2>7 DEF Publish, Advance, TypeOK, Ledger, PublishingOK, Home, Away,
                  Phases, Reports, Refusals
    <3>2. PublishingOK'
      BY <2>7, <3>1 DEF Publish, Advance, TypeOK, Ledger, PairOK,
                        PublishingOK, Home, Away, Clear, RemoveRefused,
                        RestoreRefused
    <3>3. CleaningOK'
      BY <2>7, <3>1 DEF Publish, Advance, TypeOK, Ledger, PairOK,
                        PublishingOK, CleaningOK, Home, Away, Clear,
                        RemoveRefused, RestoreRefused
    <3>4. PairOK' /\ StagingOK' /\ BackingOK' /\ UnbackingOK' /\ RemovingOK' /\
             RestoringOK' /\ FinishedOK'
      BY <2>7 DEF Publish, Advance, Ledger, PairOK, StagingOK, BackingOK,
                  UnbackingOK, RemovingOK, RestoringOK, FinishedOK
    <3> QED
      BY <3>1, <3>2, <3>3, <3>4 DEF Ledger
  <2>8. CASE PublishFails
    <3>1. TypeOK'
      BY <2>8 DEF PublishFails, TypeOK, Ledger, PublishingOK, Home, Away,
                  Phases, Reports, Refusals
    <3>2. RemovingOK'
      BY <2>8, <3>1 DEF PublishFails, TypeOK, Ledger, PairOK, PublishingOK,
                        RemovingOK, Home, Away, Clear, RemoveRefused,
                        RestoreRefused
    <3>3. PairOK' /\ StagingOK' /\ BackingOK' /\ UnbackingOK' /\ PublishingOK' /\
             RestoringOK' /\ CleaningOK' /\ FinishedOK'
      BY <2>8 DEF PublishFails, Ledger, PairOK, StagingOK, BackingOK,
                  UnbackingOK, PublishingOK, RestoringOK, CleaningOK,
                  FinishedOK
    <3> QED
      BY <3>1, <3>2, <3>3 DEF Ledger
  <2>9. CASE Remove
    <3>1. TypeOK'
      BY <2>9 DEF Remove, TypeOK, Ledger, RemovingOK, Home, Away, Phases,
                  Reports, Refusals
    <3>2. RemovingOK'
      BY <2>9, <3>1 DEF Remove, TypeOK, Ledger, PairOK, RemovingOK, Home,
                        Away, Clear, RemoveRefused, RestoreRefused
    <3>3. PairOK' /\ StagingOK' /\ BackingOK' /\ UnbackingOK' /\ PublishingOK' /\
             RestoringOK' /\ CleaningOK' /\ FinishedOK'
      BY <2>9 DEF Remove, Ledger, PairOK, StagingOK, BackingOK, UnbackingOK,
                  PublishingOK, RestoringOK, CleaningOK, FinishedOK
    <3> QED
      BY <3>1, <3>2, <3>3 DEF Ledger
  <2>10. CASE BeginRestore
    <3>1. TypeOK'
      BY <2>10 DEF BeginRestore, TypeOK, Ledger, RemovingOK, Home, Away,
                   Phases, Reports, Refusals
    <3>2. RestoringOK'
      BY <2>10, <3>1 DEF BeginRestore, TypeOK, Ledger, PairOK, RemovingOK,
                         RestoringOK, Home, Away, Clear, RemoveRefused,
                         RestoreRefused
    <3>3. PairOK' /\ StagingOK' /\ BackingOK' /\ UnbackingOK' /\ PublishingOK' /\
             RemovingOK' /\ CleaningOK' /\ FinishedOK'
      BY <2>10 DEF BeginRestore, Ledger, PairOK, StagingOK, BackingOK,
                   UnbackingOK, PublishingOK, RemovingOK, CleaningOK,
                   FinishedOK
    <3> QED
      BY <3>1, <3>2, <3>3 DEF Ledger
  <2>11. CASE Restore
    <3>1. TypeOK'
      <4>1. at \in 1..size /\ at' \in 0..size
        BY <2>11 DEF Restore, TypeOK
      <4>2. CASE PutBack
        BY <2>11, <4>1, <4>2
           DEF Restore, PutBack, TypeOK, Phases, Reports, Refusals
      <4>3. CASE UNCHANGED <<file, backedUp, refused>>
        BY <2>11, <4>1, <4>3 DEF Restore, TypeOK, Phases, Reports, Refusals
      <4> QED
        BY <2>11, <4>2, <4>3 DEF Restore
    <3>2. RestoringOK'
      BY <2>11, <3>1 DEF Restore, PutBack, TypeOK, Ledger, PairOK,
                         RestoringOK, Home, Away, Clear, RemoveRefused,
                         RestoreRefused
    <3>3. PairOK' /\ StagingOK' /\ BackingOK' /\ UnbackingOK' /\ PublishingOK' /\
             RemovingOK' /\ CleaningOK' /\ FinishedOK'
      BY <2>11 DEF Restore, PutBack, Ledger, PairOK, StagingOK, BackingOK,
                   UnbackingOK, PublishingOK, RemovingOK, CleaningOK,
                   FinishedOK
    <3> QED
      BY <3>1, <3>2, <3>3 DEF Ledger
  <2>12. CASE RestoreFails
    <3>1. TypeOK'
      BY <2>12 DEF RestoreFails, StaysAway, Finish, TypeOK, Ledger,
                   RestoringOK, Home, Away, Phases, Reports, Refusals
    <3>2. FinishedOK'
      BY <2>12, <3>1 DEF RestoreFails, StaysAway, Finish, TypeOK, Ledger,
                         PairOK, RestoringOK, FinishedOK, AllOrNothing,
                         PairRestored, AwayIsReported, Restored, Home, Away,
                         Clear, RemoveRefused, RestoreRefused, Before
    <3>3. PairOK' /\ StagingOK' /\ BackingOK' /\ UnbackingOK' /\ PublishingOK' /\
             RemovingOK' /\ RestoringOK' /\ CleaningOK'
      BY <2>12 DEF RestoreFails, StaysAway, Finish, Ledger, PairOK, StagingOK,
                   BackingOK, UnbackingOK, PublishingOK, RemovingOK,
                   RestoringOK, CleaningOK
    <3> QED
      BY <3>1, <3>2, <3>3 DEF Ledger
  <2>13. CASE RolledBack
    <3>1. TypeOK'
      BY <2>13 DEF RolledBack, Finish, TypeOK, Ledger, UnbackingOK,
                   RestoringOK, Home, Away, Phases, Reports, Refusals
    <3>2. FinishedOK'
      <4>1. /\ at = 0 /\ phase' = "finished" /\ report' = "failed"
            /\ UNCHANGED <<inputs, file, backedUp, refused>>
        BY <2>13 DEF RolledBack, Finish
      <4>2. CASE phase = "unbacking"
        <5>1. /\ kind = "pair" => refused = {}
              /\ \A i \in original :
                   Home(i) \/ (Away(i) /\ RestoreRefused(i))
              /\ \A i \in Doc : file[i] # "new"
              /\ \A i \in Doc \ original : file[i] = "absent"
          BY <4>1, <4>2 DEF Ledger, UnbackingOK, TypeOK
        <5>2. refused = {} => file = Before /\ backedUp = {}
          BY <5>1, AllHome DEF TypeOK, Before, Home, RestoreRefused
        <5> QED
          BY <4>1, <5>1, <5>2
             DEF FinishedOK, AllOrNothing, PairRestored, AwayIsReported,
                 Restored, Home, Away, RestoreRefused, Before, TypeOK, Ledger,
                 PairOK
      <4>3. CASE phase = "restoring"
        <5>1. /\ kind = "group"
              /\ \A i \in original : Home(i)
              /\ \A i \in Doc \ original : Clear(i)
          BY <4>1, <4>3 DEF Ledger, RestoringOK, TypeOK
        <5>2. refused = {} => file = Before /\ backedUp = {}
          BY <5>1, AllHome DEF TypeOK, Before, Home, Clear, RemoveRefused
        <5> QED
          BY <4>1, <5>1, <5>2
             DEF FinishedOK, AllOrNothing, PairRestored, AwayIsReported,
                 Restored, Home, Before
      <4> QED
        BY <2>13, <4>2, <4>3 DEF RolledBack
    <3>3. PairOK' /\ StagingOK' /\ BackingOK' /\ UnbackingOK' /\ PublishingOK' /\
             RemovingOK' /\ RestoringOK' /\ CleaningOK'
      BY <2>13 DEF RolledBack, Finish, Ledger, PairOK, StagingOK, BackingOK,
                   UnbackingOK, PublishingOK, RemovingOK, RestoringOK,
                   CleaningOK
    <3> QED
      BY <3>1, <3>2, <3>3 DEF Ledger
  <2>14. CASE RestorePair
    <3>1. TypeOK'
      <4>1. at \in 1..size /\ at' \in 0..size
        BY <2>14 DEF RestorePair, Finish, Advance, TypeOK, Ledger, PairOK,
                     RestoringOK
      <4>2. /\ phase' \in Phases /\ report' \in Reports
            /\ report' = "none" <=> phase' # "finished"
        BY <2>14 DEF RestorePair, Finish, Advance, TypeOK, Phases, Reports
      <4>3. CASE PutBack
        BY <2>14, <4>1, <4>2, <4>3 DEF RestorePair, PutBack, TypeOK, Refusals
      <4>4. CASE StaysAway
        BY <2>14, <4>1, <4>2, <4>4
           DEF RestorePair, StaysAway, TypeOK, Refusals, Ledger, RestoringOK
      <4> QED
        BY <2>14, <4>3, <4>4 DEF RestorePair
    <3>2. RestoringOK'
      BY <2>14, <3>1 DEF RestorePair, PutBack, StaysAway, Finish, Advance,
                         TypeOK, Ledger, PairOK, RestoringOK, Home, Away,
                         Clear, RemoveRefused, RestoreRefused
    <3>3. FinishedOK'
      <4> SUFFICES ASSUME phase' = "finished"
                   PROVE  FinishedOK'
        BY DEF FinishedOK
      <4>1. /\ at = 2 /\ size = 2 /\ original = Doc
            /\ Away(2) /\ ~RestoreRefused(2)
            /\ \/ Home(1) /\ ~RestoreRefused(1)
               \/ Away(1) /\ RestoreRefused(1)
        BY <2>14 DEF RestorePair, Advance, TypeOK, Ledger, PairOK, RestoringOK
      <4>2. /\ UNCHANGED inputs
            /\ report' = IF \E i \in Doc : <<"restore", i>> \in refused'
                           THEN "unrestored" ELSE "failed"
        BY <2>14, <4>1 DEF RestorePair, Finish
      <4>3. \A i \in original :
              \/ file'[i] = "old" /\ i \notin backedUp'
              \/ /\ file'[i] # "old" /\ i \in backedUp'
                 /\ <<"restore", i>> \in refused'
        BY <2>14, <4>1 DEF RestorePair, PutBack, StaysAway, TypeOK, Home,
                           Away, RestoreRefused
      <4>4. refused' = {} => file' = Before' /\ backedUp' = {}
        BY <3>1, <4>1, <4>2, <4>3, AllHome DEF TypeOK, Before
      <4> QED
        BY <4>1, <4>2, <4>3, <4>4
           DEF FinishedOK, AllOrNothing, PairRestored, AwayIsReported,
               Restored, Home, Away
    <3>4. PairOK' /\ StagingOK' /\ BackingOK' /\ UnbackingOK' /\ PublishingOK' /\
             RemovingOK' /\ CleaningOK'
      BY <2>14 DEF RestorePair, PutBack, StaysAway, Finish, Advance, Ledger,
                   PairOK, StagingOK, BackingOK, UnbackingOK, PublishingOK,
                   RemovingOK, CleaningOK
    <3> QED
      BY <3>1, <3>2, <3>3, <3>4 DEF Ledger
  <2>15. CASE Clean
    <3>1. TypeOK'
      BY <2>15 DEF Clean, Finish, Advance, TypeOK, Ledger, CleaningOK, Home,
                   Away, Phases, Reports, Refusals
    <3>2. CleaningOK'
      BY <2>15, <3>1 DEF Clean, Finish, Advance, TypeOK, Ledger, PairOK,
                         CleaningOK, Home, Away, Clear, RemoveRefused,
                         RestoreRefused
    <3>3. FinishedOK'
      BY <2>15, <3>1 DEF Clean, Finish, Advance, TypeOK, Ledger, PairOK,
                         CleaningOK, FinishedOK, AllOrNothing, PairRestored,
                         AwayIsReported, Restored, Home, Away, Clear,
                         RemoveRefused, RestoreRefused, Before
    <3>4. PairOK' /\ StagingOK' /\ BackingOK' /\ UnbackingOK' /\ PublishingOK' /\
             RemovingOK' /\ RestoringOK'
      BY <2>15 DEF Clean, Finish, Advance, Ledger, PairOK, StagingOK,
                   BackingOK, UnbackingOK, PublishingOK, RemovingOK,
                   RestoringOK
    <3> QED
      BY <3>1, <3>2, <3>3, <3>4 DEF Ledger
  <2>16. CASE UNCHANGED vars
    BY <2>16 DEF vars, TypeOK, Ledger, PairOK, StagingOK, BackingOK,
                 UnbackingOK, PublishingOK, RemovingOK, RestoringOK,
                 CleaningOK, FinishedOK, AllOrNothing, PairRestored,
                 AwayIsReported, Restored, Home, Away, Clear, RemoveRefused,
                 RestoreRefused, Refusals, Before
  <2> QED
    BY <2>1, <2>2, <2>3, <2>4, <2>5, <2>6, <2>7, <2>8, <2>9, <2>10, <2>11,
       <2>12, <2>13, <2>14, <2>15, <2>16 DEF Next
<1> QED
  BY <1>1, <1>2, PTL DEF Spec

-----------------------------------------------------------------------------
(* A call stays within its types: its loops never leave the documents, and   *)
(* it has returned exactly when it is finished.                              *)
THEOREM TypeCorrect == Spec => []TypeOK
<1>1. IInv => TypeOK
  BY DEF IInv
<1> QED
  BY <1>1, CallIsOrderly, PTL

(* No original is lost before the whole group is in place, for a group of    *)
(* any size, whatever fails and wherever the process dies.                   *)
THEOREM OriginalsNeverLost == Spec => []OriginalsSurvive
<1>1. IInv => OriginalsSurvive
  <2> SUFFICES ASSUME IInv
               PROVE  OriginalsSurvive
    OBVIOUS
  <2>1. CASE phase \in {"staging", "backing", "unbacking"}
    BY <2>1 DEF IInv, TypeOK, Ledger, StagingOK, BackingOK, UnbackingOK, Home,
                Away, OriginalsSurvive, Before, Doc
  <2>2. CASE phase \in {"publishing", "removing"}
    BY <2>2 DEF IInv, Ledger, PublishingOK, RemovingOK, OriginalsSurvive
  <2>3. CASE phase = "restoring"
    BY <2>3 DEF IInv, TypeOK, Ledger, PairOK, RestoringOK, Home, Away,
                OriginalsSurvive, Doc
  <2>4. CASE phase \in {"cleaning", "finished"}
    BY <2>4 DEF IInv, Ledger, CleaningOK, FinishedOK, AllOrNothing, Home, Away,
                OriginalsSurvive
  <2> QED
    BY <2>1, <2>2, <2>3, <2>4 DEF IInv, TypeOK, Phases
<1> QED
  BY <1>1, CallIsOrderly, PTL

(* A call replaces every document or none, unless a step of its rollback is  *)
(* refused too.                                                              *)
THEOREM GroupIsAtomic == Spec => []AllOrNothing
<1>1. IInv => AllOrNothing
  BY DEF IInv, TypeOK, Ledger, FinishedOK, AllOrNothing
<1> QED
  BY <1>1, CallIsOrderly, PTL

(* Of a pair, every original the file system gives back is given back.       *)
THEOREM PairIsRestored == Spec => []PairRestored
<1>1. IInv => PairRestored
  BY DEF IInv, TypeOK, Ledger, FinishedOK, PairRestored, Restored
<1> QED
  BY <1>1, CallIsOrderly, PTL

(* An error that names no backup leaves both originals of a pair in place.   *)
THEOREM AwayIsNamed == Spec => []AwayIsReported
<1>1. IInv => AwayIsReported
  BY DEF IInv, TypeOK, Ledger, FinishedOK, AwayIsReported
<1> QED
  BY <1>1, CallIsOrderly, PTL
=============================================================================
