------------------------- MODULE UndoHistory_proofs -------------------------
(* Proofs about UndoHistory, for every set of images and batches, every      *)
(* behaviour of batches that satisfies BatchLaw, and every snapshot limit.   *)
EXTENDS UndoHistory, SequenceTheorems, TLAPS

(* The inductive invariant: the two chains carry the argument, the bound and *)
(* the disabled state are inductive with them.                               *)
IInv == TypeOK /\ UndoChain /\ RedoChain /\ HistoryIsBounded /\ DisabledMeansEmpty

-----------------------------------------------------------------------------
(* How many of n entries trim_undo drops. *)
Dropped(n, limit) == IF n > limit THEN n - limit ELSE 0

LEMMA DroppedRange ==
  ASSUME NEW n \in Nat, NEW limit \in Nat
  PROVE  /\ Dropped(n, limit) \in 0..n
         /\ n - Dropped(n, limit) \in Nat
         /\ n - Dropped(n, limit) <= limit
  BY DEF Dropped

(* What trim_undo keeps: the newest entries, in their order. *)
LEMMA TrimmedKeepsNewest ==
  ASSUME NEW S, NEW stack \in Seq(S), NEW limit \in Nat,
         NEW n \in Nat, n = Len(stack)
  PROVE  /\ Trimmed(stack, limit) \in Seq(S)
         /\ Len(Trimmed(stack, limit)) = n - Dropped(n, limit)
         /\ \A i \in 1..(n - Dropped(n, limit)) :
              Trimmed(stack, limit)[i] = stack[i + Dropped(n, limit)]
<1>1. CASE n > limit
  <2> DEFINE first == n - limit + 1
  <2>1. /\ first \in Int /\ n \in Int
        /\ \A i \in first..n : stack[i] \in S
        /\ first <= n + 1
    BY <1>1
  <2>2. Trimmed(stack, limit) = SubSeq(stack, first, n)
    BY <1>1 DEF Trimmed
  <2>3. Dropped(n, limit) = first - 1 /\ Dropped(n, limit) \in Nat
    BY <1>1 DEF Dropped
  <2> HIDE DEF first
  <2>4. /\ Trimmed(stack, limit) \in Seq(S)
        /\ Len(Trimmed(stack, limit)) = IF first <= n THEN n - first + 1 ELSE 0
        /\ \A i \in 1..(n - first + 1) :
             Trimmed(stack, limit)[i] = stack[first + i - 1]
    BY <2>1, <2>2, SubSeqProperties
  <2>5. Len(Trimmed(stack, limit)) = n - Dropped(n, limit)
    BY <2>1, <2>3, <2>4
  <2>6. ASSUME NEW i \in 1..(n - Dropped(n, limit))
        PROVE  Trimmed(stack, limit)[i] = stack[i + Dropped(n, limit)]
    <3>1. i \in 1..(n - first + 1)
      BY <2>1, <2>3
    <3>2. first + i - 1 = i + Dropped(n, limit)
      BY <2>1, <2>3
    <3> QED
      BY <2>4, <3>1, <3>2
  <2> QED
    BY <2>4, <2>5, <2>6
<1>2. CASE ~(n > limit)
  <2>1. Trimmed(stack, limit) = stack /\ Dropped(n, limit) = 0
    BY <1>2 DEF Trimmed, Dropped
  <2> QED
    BY <2>1
<1> QED
  BY <1>1, <1>2

(* What popping keeps: all but the newest entry, in their order. *)
LEMMA PoppedKeepsOldest ==
  ASSUME NEW S, NEW stack \in Seq(S), stack # <<>>
  PROVE  /\ Len(stack) \in Nat \ {0}
         /\ Top(stack) \in S
         /\ Popped(stack) \in Seq(S)
         /\ Len(Popped(stack)) = Len(stack) - 1
         /\ \A i \in 1..Len(Popped(stack)) : Popped(stack)[i] = stack[i]
<1>1. Len(stack) \in Nat \ {0}
  BY EmptySeq
<1>2. /\ 1 \in Int /\ Len(stack) - 1 \in Int
      /\ \A i \in 1..(Len(stack) - 1) : stack[i] \in S
  BY <1>1
<1>3. /\ Popped(stack) \in Seq(S)
      /\ Len(Popped(stack)) =
           IF 1 <= Len(stack) - 1 THEN (Len(stack) - 1) - 1 + 1 ELSE 0
      /\ \A i \in 1..((Len(stack) - 1) - 1 + 1) : Popped(stack)[i] = stack[1 + i - 1]
  BY <1>2, SubSeqProperties DEF Popped
<1>4. Len(Popped(stack)) = Len(stack) - 1
  <2> DEFINE n == Len(stack)
  <2>1. n \in Nat /\ n >= 1 /\ Len(Popped(stack)) =
          IF 1 <= n - 1 THEN (n - 1) - 1 + 1 ELSE 0
    BY <1>1, <1>3
  <2> HIDE DEF n
  <2>2. Len(Popped(stack)) = n - 1
    BY <2>1
  <2> QED
    BY <2>2 DEF n
<1>5. ASSUME NEW i \in 1..Len(Popped(stack))
      PROVE  Popped(stack)[i] = stack[i]
  <2>1. i \in 1..((Len(stack) - 1) - 1 + 1) /\ 1 + i - 1 = i
    BY <1>1, <1>4
  <2> QED
    BY <1>3, <2>1
<1>6. Top(stack) \in S
  BY <1>1 DEF Top
<1> QED
  BY <1>1, <1>3, <1>4, <1>5, <1>6

LEMMA LimitType == \A limit \in 0..MaxSnapshotLimit :
                      /\ UndoOperationLimit(limit) \in Nat
                      /\ UndoOperationLimit(limit) <= UndoOperationLimit(MaxSnapshotLimit)
  BY LimitAssumption DEF UndoOperationLimit

-----------------------------------------------------------------------------
LEMMA InitIInv == Init => IInv
  BY LimitAssumption
  DEF Init, IInv, TypeOK, UndoChain, RedoChain, HistoryIsBounded,
      DisabledMeansEmpty, UndoOperationLimit

LEMMA NextIInv == IInv /\ [Next]_vars => IInv'
<1> SUFFICES ASSUME IInv, [Next]_vars
             PROVE  IInv'
  OBVIOUS
<1> USE LimitAssumption
<1>1. CASE Install
  BY <1>1 DEF Install, IInv, TypeOK, UndoChain, RedoChain, HistoryIsBounded,
              DisabledMeansEmpty, UndoOperationLimit
<1>2. ASSUME NEW batch \in Batch, Edit(batch)
      PROVE  IInv'
  <2> DEFINE limit == UndoOperationLimit(snapshotLimit)
             grown == Append(undo, batch)
             grownBehind == Append(behind, rom)
  <2>1. /\ limit \in Nat
        /\ limit <= UndoOperationLimit(MaxSnapshotLimit)
    BY LimitType DEF IInv, TypeOK
  <2>2. /\ grown \in Seq(Batch) /\ Len(grown) = Len(undo) + 1
        /\ grownBehind \in Seq(FileImage) /\ Len(grownBehind) = Len(undo) + 1
        /\ rom' \in FileImage
    BY <1>2, BatchLaw DEF IInv, TypeOK, UndoChain, Edit, PushBatch
  <2>3. \A i \in 1..Len(grown) :
          /\ BatchFits(grown[i], grownBehind[i])
          /\ BatchApplied(grown[i], grownBehind[i]) =
               IF i = Len(grown) THEN rom' ELSE grownBehind[i + 1]
    <3> SUFFICES ASSUME NEW i \in 1..Len(grown)
                 PROVE  /\ BatchFits(grown[i], grownBehind[i])
                        /\ BatchApplied(grown[i], grownBehind[i]) =
                             IF i = Len(grown) THEN rom' ELSE grownBehind[i + 1]
      OBVIOUS
    <3>1. CASE i = Len(grown)
      BY <3>1, <2>2, <1>2 DEF Edit, PushBatch, IInv, TypeOK, UndoChain
    <3>2. CASE i # Len(grown)
      <4>1. i \in 1..Len(undo)
        BY <3>2, <2>2 DEF IInv, TypeOK
      <4>2. grown[i] = undo[i] /\ grownBehind[i] = behind[i]
        BY <4>1 DEF IInv, TypeOK, UndoChain
      <4>3. grownBehind[i + 1] = AfterUndo(i)
        BY <4>1 DEF IInv, TypeOK, UndoChain, AfterUndo
      <4> QED
        BY <3>2, <4>1, <4>2, <4>3 DEF IInv, UndoChain
    <3> QED
      BY <3>1, <3>2
  <2>4. /\ undo' = Trimmed(grown, limit)
        /\ behind' = Trimmed(grownBehind, limit)
    BY <1>2 DEF Edit, PushBatch
  <2> HIDE DEF limit, grown, grownBehind
  <2> DEFINE n == Len(undo) + 1
             d == Dropped(n, limit)
  <2>5. n \in Nat /\ d \in 0..n /\ n - d \in Nat /\ n - d <= limit
    <3>1. n \in Nat
      BY DEF IInv, TypeOK
    <3> QED
      BY <2>1, <3>1, DroppedRange
  <2>6. /\ undo' \in Seq(Batch) /\ Len(undo') = n - d
        /\ \A i \in 1..(n - d) : undo'[i] = grown[i + d]
        /\ behind' \in Seq(FileImage) /\ Len(behind') = n - d
        /\ \A i \in 1..(n - d) : behind'[i] = grownBehind[i + d]
    <3>1. n = Len(grown) /\ n = Len(grownBehind)
      BY <2>2
    <3> HIDE DEF n
    <3>2. /\ undo' \in Seq(Batch) /\ Len(undo') = n - d
          /\ \A i \in 1..(n - d) : undo'[i] = grown[i + d]
      BY <2>1, <2>2, <2>4, <2>5, <3>1, TrimmedKeepsNewest
    <3>3. /\ behind' \in Seq(FileImage) /\ Len(behind') = n - d
          /\ \A i \in 1..(n - d) : behind'[i] = grownBehind[i + d]
      BY <2>1, <2>2, <2>4, <2>5, <3>1, TrimmedKeepsNewest
    <3> QED
      BY <3>2, <3>3
  <2>7. TypeOK'
    BY <1>2, <2>2, <2>6 DEF Edit, PushBatch, IInv, TypeOK
  <2>8. UndoChain'
    <3> HIDE DEF n, d
    <3>0. Len(grown) = n
      BY <2>2 DEF n
    <3> SUFFICES ASSUME NEW i \in 1..(n - d)
                 PROVE  /\ BatchFits(undo'[i], behind'[i])
                        /\ BatchApplied(undo'[i], behind'[i]) =
                             IF i = n - d THEN rom' ELSE behind'[i + 1]
      BY <2>6 DEF UndoChain, AfterUndo
    <3>1. /\ i + d \in 1..n /\ (i + d = n <=> i = n - d)
          /\ (i + 1) + d = (i + d) + 1
          /\ i # n - d => i + 1 \in 1..(n - d)
      BY <2>5
    <3>2. undo'[i] = grown[i + d] /\ behind'[i] = grownBehind[i + d]
      BY <2>6
    <3>3. i # n - d => behind'[i + 1] = grownBehind[(i + d) + 1]
      BY <2>6, <3>1
    <3> QED
      BY <2>3, <3>0, <3>1, <3>2, <3>3
  <2>9. RedoChain'
    BY <1>2 DEF Edit, PushBatch, RedoChain
  <2>10. HistoryIsBounded'
    <3>1. Len(redo') = 0
      BY <1>2 DEF Edit, PushBatch
    <3>2. Len(undo') <= limit /\ Len(undo') \in Nat
      BY <2>5, <2>6
    <3>3. UndoOperationLimit(MaxSnapshotLimit) \in Nat
      BY LimitType
    <3> QED
      BY <3>1, <3>2, <3>3, <2>1 DEF HistoryIsBounded
  <2>11. DisabledMeansEmpty'
    <3>1. snapshotLimit < 2 => limit = 0
      BY DEF IInv, TypeOK, UndoOperationLimit, limit
    <3>2. limit = 0 => undo' = <<>>
      <4>1. limit = 0 => Len(undo') = 0
        BY <2>5, <2>6
      <4> QED
        BY <4>1, <2>6, EmptySeq
    <3> QED
      BY <3>1, <3>2, <1>2 DEF Edit, PushBatch, DisabledMeansEmpty
  <2> QED
    BY <2>7, <2>8, <2>9, <2>10, <2>11 DEF IInv
<1>3. CASE Undo
  <2>1. /\ Len(undo) \in Nat \ {0} /\ Top(undo) \in Batch
        /\ Popped(undo) \in Seq(Batch) /\ Len(Popped(undo)) = Len(undo) - 1
        /\ \A i \in 1..Len(Popped(undo)) : Popped(undo)[i] = undo[i]
    BY <1>3, PoppedKeepsOldest DEF Undo, IInv, TypeOK
  <2>2. /\ Popped(behind) \in Seq(FileImage) /\ Len(Popped(behind)) = Len(behind) - 1
        /\ \A i \in 1..Len(Popped(behind)) : Popped(behind)[i] = behind[i]
    <3>1. behind # <<>>
      BY <2>1 DEF IInv, UndoChain
    <3> QED
      BY <3>1, PoppedKeepsOldest DEF IInv, TypeOK
  <2>3. /\ BatchFits(Top(undo), behind[Len(undo)])
        /\ BatchApplied(Top(undo), behind[Len(undo)]) = rom
        /\ behind[Len(undo)] \in FileImage
    BY <2>1 DEF IInv, TypeOK, UndoChain, AfterUndo, Top
  <2>4. rom' = behind[Len(undo)]
    BY <1>3, <2>1, <2>3, BatchLaw DEF Undo
  <2>5. TypeOK'
    BY <1>3, <2>1, <2>2, <2>3, <2>4 DEF Undo, IInv, TypeOK
  <2>6. UndoChain'
    <3> SUFFICES ASSUME NEW i \in 1..(Len(undo) - 1)
                 PROVE  /\ BatchFits(undo[i], behind[i])
                        /\ BatchApplied(undo[i], behind[i]) =
                             IF i = Len(undo) - 1 THEN rom' ELSE Popped(behind)[i + 1]
      BY <1>3, <2>1, <2>2 DEF Undo, IInv, UndoChain, AfterUndo
    <3>1. AfterUndo(i) = behind[i + 1]
      BY <2>1 DEF AfterUndo
    <3>2. i # Len(undo) - 1 => Popped(behind)[i + 1] = behind[i + 1]
      BY <2>1, <2>2 DEF IInv, UndoChain
    <3> QED
      BY <2>1, <2>4, <3>1, <3>2 DEF IInv, UndoChain
  <2>7. RedoChain'
    <3>1. /\ redo' = Append(redo, Top(undo)) /\ Len(redo') = Len(redo) + 1
          /\ ahead' = Append(ahead, rom) /\ Len(ahead') = Len(redo) + 1
      BY <1>3, <2>1 DEF Undo, IInv, TypeOK, RedoChain
    <3> SUFFICES ASSUME NEW i \in 1..(Len(redo) + 1)
                 PROVE  /\ BatchFits(redo'[i], BeforeRedo(i)')
                        /\ BatchApplied(redo'[i], BeforeRedo(i)') = ahead'[i]
      BY <3>1 DEF RedoChain
    <3>2. CASE i = Len(redo) + 1
      BY <3>1, <3>2, <2>1, <2>3, <2>4 DEF BeforeRedo, IInv, TypeOK, RedoChain
    <3>3. CASE i # Len(redo) + 1
      <4>1. i \in 1..Len(redo)
        BY <3>3 DEF IInv, TypeOK
      <4>2. redo'[i] = redo[i] /\ ahead'[i] = ahead[i]
        BY <3>1, <4>1, <2>1 DEF IInv, TypeOK, RedoChain
      <4>3. BeforeRedo(i)' = BeforeRedo(i)
        BY <3>1, <4>1 DEF BeforeRedo, IInv, TypeOK, RedoChain
      <4> QED
        BY <4>1, <4>2, <4>3 DEF IInv, RedoChain
    <3> QED
      BY <3>2, <3>3
  <2>8. HistoryIsBounded' /\ DisabledMeansEmpty'
    BY <1>3, <2>1 DEF Undo, IInv, TypeOK, HistoryIsBounded, DisabledMeansEmpty
  <2> QED
    BY <2>5, <2>6, <2>7, <2>8 DEF IInv
<1>4. CASE Redo
  <2>1. /\ Len(redo) \in Nat \ {0} /\ Top(redo) \in Batch
        /\ Popped(redo) \in Seq(Batch) /\ Len(Popped(redo)) = Len(redo) - 1
        /\ \A i \in 1..Len(Popped(redo)) : Popped(redo)[i] = redo[i]
    BY <1>4, PoppedKeepsOldest DEF Redo, IInv, TypeOK
  <2>2. /\ Popped(ahead) \in Seq(FileImage) /\ Len(Popped(ahead)) = Len(ahead) - 1
        /\ \A i \in 1..Len(Popped(ahead)) : Popped(ahead)[i] = ahead[i]
    <3>1. ahead # <<>>
      BY <2>1 DEF IInv, RedoChain
    <3> QED
      BY <3>1, PoppedKeepsOldest DEF IInv, TypeOK
  <2>3. /\ BatchFits(Top(redo), rom)
        /\ rom' = BatchApplied(Top(redo), rom)
        /\ rom' = ahead[Len(redo)]
        /\ ahead[Len(redo)] \in FileImage
    BY <1>4, <2>1 DEF Redo, IInv, TypeOK, RedoChain, BeforeRedo, Top
  <2>4. TypeOK'
    BY <1>4, <2>1, <2>2, <2>3 DEF Redo, IInv, TypeOK
  <2>5. RedoChain'
    <3> SUFFICES ASSUME NEW i \in 1..(Len(redo) - 1)
                 PROVE  /\ BatchFits(redo[i], IF i = Len(redo) - 1 THEN rom'
                                              ELSE Popped(ahead)[i + 1])
                        /\ BatchApplied(redo[i], IF i = Len(redo) - 1 THEN rom'
                                                 ELSE Popped(ahead)[i + 1]) = ahead[i]
      BY <1>4, <2>1, <2>2 DEF Redo, IInv, RedoChain, BeforeRedo
    <3>1. BeforeRedo(i) = ahead[i + 1]
      BY <2>1 DEF BeforeRedo
    <3>2. i # Len(redo) - 1 => Popped(ahead)[i + 1] = ahead[i + 1]
      BY <2>1, <2>2 DEF IInv, RedoChain
    <3> QED
      BY <2>1, <2>3, <3>1, <3>2 DEF IInv, RedoChain
  <2>6. UndoChain'
    <3>1. /\ undo' = Append(undo, Top(redo)) /\ Len(undo') = Len(undo) + 1
          /\ behind' = Append(behind, rom) /\ Len(behind') = Len(undo) + 1
      BY <1>4, <2>1 DEF Redo, IInv, TypeOK, UndoChain
    <3> SUFFICES ASSUME NEW i \in 1..(Len(undo) + 1)
                 PROVE  /\ BatchFits(undo'[i], behind'[i])
                        /\ BatchApplied(undo'[i], behind'[i]) = AfterUndo(i)'
      BY <3>1 DEF UndoChain
    <3>2. CASE i = Len(undo) + 1
      <4>1. undo'[i] = Top(redo) /\ behind'[i] = rom
        BY <3>1, <3>2, <2>1 DEF IInv, TypeOK, UndoChain
      <4>2. AfterUndo(i)' = rom'
        BY <3>1, <3>2 DEF AfterUndo
      <4> QED
        BY <4>1, <4>2, <2>3
    <3>3. CASE i # Len(undo) + 1
      <4>1. i \in 1..Len(undo)
        BY <3>3 DEF IInv, TypeOK
      <4>2. undo'[i] = undo[i] /\ behind'[i] = behind[i]
        BY <3>1, <4>1, <2>1 DEF IInv, TypeOK, UndoChain
      <4>3. AfterUndo(i)' = AfterUndo(i)
        BY <3>1, <4>1 DEF AfterUndo, IInv, TypeOK, UndoChain
      <4> QED
        BY <4>1, <4>2, <4>3 DEF IInv, UndoChain
    <3> QED
      BY <3>2, <3>3
  <2>7. HistoryIsBounded' /\ DisabledMeansEmpty'
    BY <1>4, <2>1 DEF Redo, IInv, TypeOK, HistoryIsBounded, DisabledMeansEmpty
  <2> QED
    BY <2>4, <2>5, <2>6, <2>7 DEF IInv
<1>5. ASSUME NEW limit \in 0..MaxSnapshotLimit, SetUndoSnapshotLimit(limit)
      PROVE  IInv'
  <2>1. CASE snapshotLimit < 2 \/ limit < 2
    <3>1. /\ undo' = <<>> /\ behind' = <<>> /\ redo' = <<>> /\ ahead' = <<>>
          /\ rom' = rom /\ baseline' = baseline /\ snapshotLimit' = limit
      BY <1>5, <2>1 DEF SetUndoSnapshotLimit, IInv, TypeOK
    <3>2. UndoOperationLimit(MaxSnapshotLimit) \in Nat
      BY LimitType
    <3> QED
      BY <3>1, <3>2
      DEF IInv, TypeOK, UndoChain, RedoChain, HistoryIsBounded, DisabledMeansEmpty
  <2>2. CASE ~(snapshotLimit < 2 \/ limit < 2)
    <3> DEFINE kept == UndoOperationLimit(limit)
    <3>1. kept \in Nat
      BY LimitType
    <3>2. /\ undo' = Trimmed(undo, kept) /\ behind' = Trimmed(behind, kept)
          /\ rom' = rom /\ redo' = redo /\ ahead' = ahead
          /\ baseline' = baseline /\ snapshotLimit' = limit
      BY <1>5, <2>2 DEF SetUndoSnapshotLimit, IInv, TypeOK
    <3> DEFINE n == Len(undo)
               d == Dropped(n, kept)
    <3>3. n \in Nat /\ d \in 0..n /\ n - d \in Nat
      <4>1. n \in Nat
        BY DEF IInv, TypeOK
      <4> QED
        BY <3>1, <4>1, DroppedRange
    <3>4. /\ undo' \in Seq(Batch) /\ Len(undo') = n - d
          /\ \A i \in 1..(n - d) : undo'[i] = undo[i + d]
          /\ behind' \in Seq(FileImage) /\ Len(behind') = n - d
          /\ \A i \in 1..(n - d) : behind'[i] = behind[i + d]
      <4>1. /\ undo \in Seq(Batch) /\ n = Len(undo)
            /\ behind \in Seq(FileImage) /\ n = Len(behind)
        BY DEF IInv, TypeOK, UndoChain
      <4>2. kept \in Nat /\ n \in Nat
        BY <3>1, <3>3
      <4>3. undo' = Trimmed(undo, kept) /\ behind' = Trimmed(behind, kept)
        BY <3>2
      <4> HIDE DEF kept, n
      <4>4. /\ undo' \in Seq(Batch) /\ Len(undo') = n - d
            /\ \A i \in 1..(n - d) : undo'[i] = undo[i + d]
        BY <4>1, <4>2, <4>3, TrimmedKeepsNewest
      <4>5. /\ behind' \in Seq(FileImage) /\ Len(behind') = n - d
            /\ \A i \in 1..(n - d) : behind'[i] = behind[i + d]
        BY <4>1, <4>2, <4>3, TrimmedKeepsNewest
      <4> QED
        BY <4>4, <4>5
    <3>5. UndoChain'
      <4> HIDE DEF d
      <4> SUFFICES ASSUME NEW i \in 1..(n - d)
                   PROVE  /\ BatchFits(undo'[i], behind'[i])
                          /\ BatchApplied(undo'[i], behind'[i]) =
                               IF i = n - d THEN rom ELSE behind'[i + 1]
        BY <3>2, <3>4 DEF UndoChain, AfterUndo
      <4>1. /\ i + d \in 1..n /\ (i + d = n <=> i = n - d)
            /\ (i + 1) + d = (i + d) + 1
            /\ i # n - d => i + 1 \in 1..(n - d)
        BY <3>3
      <4>2. undo'[i] = undo[i + d] /\ behind'[i] = behind[i + d]
        BY <3>4
      <4>3. i # n - d => behind'[i + 1] = behind[(i + d) + 1]
        BY <3>4, <4>1
      <4> QED
        BY <4>1, <4>2, <4>3 DEF IInv, UndoChain, AfterUndo
    <3>6. RedoChain'
      BY <3>2 DEF IInv, RedoChain, BeforeRedo
    <3>7. HistoryIsBounded'
      <4>1. Len(undo') <= Len(undo) /\ Len(undo') \in Nat /\ redo' = redo
        BY <3>2, <3>3, <3>4
      <4>2. Len(undo) \in Nat /\ Len(redo) \in Nat
        BY DEF IInv, TypeOK
      <4>3. UndoOperationLimit(MaxSnapshotLimit) \in Nat
        BY LimitType
      <4> QED
        BY <4>1, <4>2, <4>3 DEF IInv, HistoryIsBounded
    <3>8. DisabledMeansEmpty'
      BY <2>2, <3>2 DEF IInv, TypeOK, DisabledMeansEmpty
    <3>9. TypeOK'
      BY <3>2, <3>4 DEF IInv, TypeOK
    <3> QED
      BY <3>5, <3>6, <3>7, <3>8, <3>9 DEF IInv
  <2> QED
    BY <2>1, <2>2
<1>6. CASE MarkSaved
  BY <1>6
  DEF MarkSaved, IInv, TypeOK, UndoChain, RedoChain, AfterUndo, BeforeRedo,
      HistoryIsBounded, DisabledMeansEmpty
<1>7. CASE UNCHANGED vars
  BY <1>7
  DEF vars, IInv, TypeOK, UndoChain, RedoChain, AfterUndo, BeforeRedo,
      HistoryIsBounded, DisabledMeansEmpty
<1> QED
  BY <1>1, <1>2, <1>3, <1>4, <1>5, <1>6, <1>7 DEF Next

LEMMA Invariant == Spec => []IInv
  BY InitIInv, NextIInv, PTL DEF Spec

-----------------------------------------------------------------------------
(* The images, the stacks and the limit keep their types: in particular      *)
(* every image an undo or a redo installs is a valid one.                    *)
THEOREM TypeCorrect == Spec => []TypeOK
<1>1. IInv => TypeOK
  BY DEF IInv
<1> QED
  BY <1>1, Invariant, PTL

(* Whatever mixture of edits, undos, redos, limit changes, saves and opened  *)
(* projects: the undo stack of History is a chain up to the current image.   *)
THEOREM StacksAreChains == Spec => []UndoChain
<1>1. IInv => UndoChain
  BY DEF IInv
<1> QED
  BY <1>1, Invariant, PTL

(* Likewise its redo stack is a chain that starts from the current image.    *)
THEOREM RedoStackIsChain == Spec => []RedoChain
<1>1. IInv => RedoChain
  BY DEF IInv
<1> QED
  BY <1>1, Invariant, PTL

(* An undo or redo the user is offered is never refused by the comparison    *)
(* with the current bytes that Edit::apply and Edit::revert make.            *)
THEOREM OfferedAccepted == Spec => []OfferedStepsAreAccepted
<1>1. IInv => OfferedStepsAreAccepted
  <2> SUFFICES ASSUME IInv
               PROVE  OfferedStepsAreAccepted
    OBVIOUS
  <2>1. ASSUME undo # <<>>
        PROVE  BatchReverts(Top(undo), rom)
    <3>1. Len(undo) \in Nat \ {0} /\ Top(undo) \in Batch
      BY <2>1, PoppedKeepsOldest DEF IInv, TypeOK
    <3>2. /\ BatchFits(Top(undo), behind[Len(undo)])
          /\ BatchApplied(Top(undo), behind[Len(undo)]) = rom
          /\ behind[Len(undo)] \in FileImage
      BY <3>1 DEF IInv, TypeOK, UndoChain, AfterUndo, Top
    <3> QED
      BY <3>1, <3>2, BatchLaw
  <2>2. ASSUME redo # <<>>
        PROVE  BatchFits(Top(redo), rom)
    <3>1. Len(redo) \in Nat \ {0}
      BY <2>2, PoppedKeepsOldest DEF IInv, TypeOK
    <3> QED
      BY <3>1 DEF IInv, TypeOK, RedoChain, BeforeRedo, Top
  <2> QED
    BY <2>1, <2>2 DEF OfferedStepsAreAccepted
<1> QED
  BY <1>1, Invariant, PTL

(* The retained history is bounded by the largest limit, though Redo does    *)
(* not trim and a limit may be lowered while operations wait to be redone.   *)
THEOREM Bounded == Spec => []HistoryIsBounded
<1>1. IInv => HistoryIsBounded
  BY DEF IInv
<1> QED
  BY <1>1, Invariant, PTL

(* A disabled history holds nothing to undo or redo. *)
THEOREM DisabledIsEmpty == Spec => []DisabledMeansEmpty
<1>1. IInv => DisabledMeansEmpty
  BY DEF IInv
<1> QED
  BY <1>1, Invariant, PTL
-----------------------------------------------------------------------------
(* A trimmed or cleared stack is what remains of it at its newest end. *)
LEMMA SuffixesKept ==
  ASSUME NEW S, NEW stack \in Seq(S), NEW limit \in Nat
  PROVE  /\ Trimmed(stack, limit) \in Log!Suffixes(stack)
         /\ <<>> \in Log!Suffixes(stack)
<1>1. Len(stack) \in Nat
  OBVIOUS
<1>2. Trimmed(stack, limit) \in Log!Suffixes(stack)
  <2>1. CASE Len(stack) > limit
    <3>1. Len(stack) - limit + 1 \in 1..(Len(stack) + 1)
      BY <1>1, <2>1
    <3> QED
      BY <2>1, <3>1 DEF Trimmed, Log!Suffixes
  <2>2. CASE ~(Len(stack) > limit)
    <3>1. SubSeq(stack, 1, Len(stack)) = stack
      <4>1. \A i \in 1..Len(stack) : stack[i] \in S
        OBVIOUS
      <4>2. /\ SubSeq(stack, 1, Len(stack)) \in Seq(S)
            /\ Len(SubSeq(stack, 1, Len(stack))) =
                 IF 1 <= Len(stack) THEN Len(stack) - 1 + 1 ELSE 0
            /\ \A i \in 1..(Len(stack) - 1 + 1) :
                 SubSeq(stack, 1, Len(stack))[i] = stack[1 + i - 1]
        BY <1>1, <4>1, SubSeqProperties
      <4>3. Len(SubSeq(stack, 1, Len(stack))) = Len(stack)
        <5> DEFINE n == Len(stack)
        <5>1. n \in Nat /\ Len(SubSeq(stack, 1, n)) =
                              IF 1 <= n THEN n - 1 + 1 ELSE 0
          BY <1>1, <4>2
        <5> HIDE DEF n
        <5>2. Len(SubSeq(stack, 1, n)) = n
          BY <5>1
        <5> QED
          BY <5>2 DEF n
      <4>4. \A i \in 1..Len(stack) : SubSeq(stack, 1, Len(stack))[i] = stack[i]
        <5> TAKE i \in 1..Len(stack)
        <5>1. i \in 1..(Len(stack) - 1 + 1) /\ 1 + i - 1 = i
          BY <1>1
        <5> QED
          BY <4>2, <5>1
      <4> QED
        BY <4>2, <4>3, <4>4, SeqEqual
    <3>2. Trimmed(stack, limit) = stack
      BY <2>2 DEF Trimmed
    <3>3. 1 \in 1..(Len(stack) + 1)
      BY <1>1
    <3> QED
      BY <3>1, <3>2, <3>3 DEF Log!Suffixes
  <2> QED
    BY <2>1, <2>2
<1>3. <<>> \in Log!Suffixes(stack)
  <2>1. SubSeq(stack, Len(stack) + 1, Len(stack)) = <<>>
    <3>1. SubSeq(stack, Len(stack) + 1, Len(stack)) \in Seq(S)
      BY <1>1, SubSeqProperties
    <3>2. Len(SubSeq(stack, Len(stack) + 1, Len(stack))) = 0
      BY <1>1, SubSeqProperties
    <3> QED
      BY <3>1, <3>2, EmptySeq
  <2>2. Len(stack) + 1 \in 1..(Len(stack) + 1)
    BY <1>1
  <2> QED
    BY <2>1, <2>2 DEF Log!Suffixes
<1> QED
  BY <1>2, <1>3

(* Every step of the history is a step of the log, or leaves it alone. *)
LEMMA NextImplementsLog == IInv /\ [Next]_vars => [Log!Next]_(Log!vars)
<1> SUFFICES ASSUME IInv, [Next]_vars
             PROVE  [Log!Next]_(Log!vars)
  OBVIOUS
<1>0. /\ rom \in FileImage /\ behind \in Seq(FileImage) /\ ahead \in Seq(FileImage)
      /\ Len(behind) = Len(undo) /\ undo \in Seq(Batch)
      /\ Len(ahead) = Len(redo) /\ redo \in Seq(Batch)
      /\ snapshotLimit \in 0..MaxSnapshotLimit
  BY DEF IInv, TypeOK, UndoChain, RedoChain
<1>1. CASE Install
  BY <1>1 DEF Install, Log!Replace, Log!Next
<1>2. ASSUME NEW batch \in Batch, Edit(batch)
      PROVE  Log!Record
  <2>1. UndoOperationLimit(snapshotLimit) \in Nat
    BY <1>0, LimitType
  <2>2. Append(behind, rom) \in Seq(FileImage)
    BY <1>0
  <2>3. behind' \in Log!Suffixes(Append(behind, rom))
    BY <1>2, <2>1, <2>2, SuffixesKept DEF Edit, PushBatch
  <2> QED
    BY <1>0, <1>2, <2>3, BatchLaw DEF Edit, PushBatch, Log!Record
<1>3. CASE Undo
  <2>1. Len(undo) \in Nat \ {0} /\ Top(undo) \in Batch
    BY <1>0, <1>3, PoppedKeepsOldest DEF Undo
  <2>2. behind # <<>>
    BY <1>0, <2>1
  <2>3. /\ BatchFits(Top(undo), behind[Len(undo)])
        /\ BatchApplied(Top(undo), behind[Len(undo)]) = rom
        /\ behind[Len(undo)] \in FileImage
    BY <2>1 DEF IInv, TypeOK, UndoChain, AfterUndo, Top
  <2>4. rom' = behind[Len(behind)]
    BY <1>0, <1>3, <2>1, <2>3, BatchLaw DEF Undo
  <2> QED
    BY <1>3, <2>2, <2>4 DEF Undo, Popped, Log!StepBack, Log!Next
<1>4. CASE Redo
  <2>1. Len(redo) \in Nat \ {0}
    BY <1>0, <1>4, PoppedKeepsOldest DEF Redo
  <2>2. ahead # <<>>
    BY <1>0, <2>1
  <2>3. rom' = ahead[Len(ahead)]
    BY <1>0, <1>4, <2>1 DEF Redo, IInv, RedoChain, BeforeRedo, Top
  <2> QED
    BY <1>4, <2>2, <2>3 DEF Redo, Popped, Log!StepForward, Log!Next
<1>5. ASSUME NEW limit \in 0..MaxSnapshotLimit, SetUndoSnapshotLimit(limit)
      PROVE  Log!Forget
  <2>1. UndoOperationLimit(limit) \in Nat
    BY LimitType
  <2>2. behind' \in Log!Suffixes(behind)
    BY <1>0, <1>5, <2>1, SuffixesKept DEF SetUndoSnapshotLimit
  <2>3. ahead' \in {ahead, <<>>} /\ rom' = rom
    BY <1>5 DEF SetUndoSnapshotLimit
  <2> QED
    BY <2>2, <2>3 DEF Log!Forget
<1>6. CASE MarkSaved \/ UNCHANGED vars
  BY <1>6 DEF MarkSaved, vars, Log!vars
<1> QED
  BY <1>1, <1>2, <1>3, <1>4, <1>5, <1>6 DEF Next, Log!Next

(* The two stacks with their limits implement the log of an editor's undo:   *)
(* undo and redo show exactly the images that were there.                    *)
THEOREM HistoryImplementsLog == Spec => ImplementsUndoLog
<1>1. Init => Log!Init
  BY DEF Init, Log!Init
<1> QED
  BY <1>1, Invariant, NextImplementsLog, PTL DEF Spec, ImplementsUndoLog, Log!Spec
=============================================================================
