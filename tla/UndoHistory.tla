----------------------------- MODULE UndoHistory ----------------------------
(* The bounded undo history of an open project: History and Project of       *)
(* crates/lm-project and the snapshot limit of crates/lm-app/src/state.rs.   *)
(*                                                                           *)
(* A batch is one user operation.  How a batch changes an image is a         *)
(* parameter here; BatchIsReversible (BatchExecution_proofs) proves BatchLaw *)
(* of the batches of EditBatches.                                            *)
(*                                                                           *)
(* A definition named a mutant is the one after it with a plausible mistake: *)
(* no action uses it; the properties are tried against it.                   *)
EXTENDS Integers, Sequences

CONSTANTS FileImage,             \* physical ROM images
          Batch,                 \* reversible operations
          BatchFits(_, _),       \* batch.apply(image) succeeds
          BatchApplied(_, _),    \* and leaves this image
          BatchReverts(_, _),    \* batch.revert(image) succeeds
          BatchReverted(_, _),   \* and leaves this image
          DefaultSnapshotLimit,
          MaxSnapshotLimit       \* MAX_UNDO_SNAPSHOT_LIMIT

ASSUME LimitAssumption == /\ MaxSnapshotLimit \in Nat
                          /\ DefaultSnapshotLimit \in 0..MaxSnapshotLimit

ASSUME BatchLaw ==
  \A batch \in Batch, img \in FileImage :
    BatchFits(batch, img) =>
      /\ BatchApplied(batch, img) \in FileImage
      /\ BatchReverts(batch, BatchApplied(batch, img))
      /\ BatchReverted(batch, BatchApplied(batch, img)) = img

VARIABLES rom,            \* the current file bytes
          baseline,       \* RomImage::original, the last accepted save
          undo, redo,     \* the two stacks, newest last
          snapshotLimit,  \* the persisted UndoMain limit
          behind, ahead   \* history variables: the image before each undo
                          \* batch, and the image after each redo batch

vars == <<rom, baseline, undo, redo, snapshotLimit, behind, ahead>>

UndoOperationLimit(limit) == IF limit = 0 THEN 0 ELSE limit - 1

\* Mutants: the newest entries are dropped; one entry too many is kept.
TrimmedOfNewest(stack, limit) ==
  IF Len(stack) > limit THEN SubSeq(stack, 1, limit) ELSE stack

TrimmedOffByOne(stack, limit) ==
  IF Len(stack) > limit + 1
    THEN SubSeq(stack, Len(stack) - limit, Len(stack))
    ELSE stack

\* trim_undo: the oldest entries beyond the limit are drained.
Trimmed(stack, limit) ==
  IF Len(stack) > limit
    THEN SubSeq(stack, Len(stack) - limit + 1, Len(stack))
    ELSE stack

Top(stack) == stack[Len(stack)]

Popped(stack) == SubSeq(stack, 1, Len(stack) - 1)

IsModified == rom # baseline

Init ==
  /\ rom \in FileImage
  /\ baseline = rom
  /\ undo = <<>> /\ behind = <<>>
  /\ redo = <<>> /\ ahead = <<>>
  /\ snapshotLimit = DefaultSnapshotLimit

-----------------------------------------------------------------------------
(* install_project: another project, with an empty history.  A recovered     *)
(* one (load_recovery) comes with the baseline of an older save.             *)
Install ==
  /\ rom' \in FileImage
  /\ baseline' \in FileImage
  /\ undo' = <<>> /\ behind' = <<>>
  /\ redo' = <<>> /\ ahead' = <<>>
  /\ UNCHANGED snapshotLimit

\* Mutant: what could be redone before the edit can still be redone.
EditKeepingRedo(batch) ==
  /\ BatchFits(batch, rom)
  /\ BatchApplied(batch, rom) # rom
  /\ rom' = BatchApplied(batch, rom)
  /\ undo' = Trimmed(Append(undo, batch), UndoOperationLimit(snapshotLimit))
  /\ behind' = Trimmed(Append(behind, rom), UndoOperationLimit(snapshotLimit))
  /\ UNCHANGED <<baseline, snapshotLimit, redo, ahead>>

(* push_batch ends what could be redone.                                     *)
PushBatch(batch) ==
  /\ redo' = <<>>
  /\ ahead' = <<>>
  /\ undo' = Trimmed(Append(undo, batch), UndoOperationLimit(snapshotLimit))
  /\ behind' = Trimmed(Append(behind, rom), UndoOperationLimit(snapshotLimit))

(* A command commits a batch prepared from the current image.  One that      *)
(* changes nothing, or does not fit, leaves image and history alone.         *)
Edit(batch) ==
  /\ BatchFits(batch, rom)
  /\ BatchApplied(batch, rom) # rom
  /\ rom' = BatchApplied(batch, rom)
  /\ PushBatch(batch)
  /\ UNCHANGED <<baseline, snapshotLimit>>

(* A batch that no longer reverts stays on its stack and the image is left   *)
(* alone: the refused command is a stuttering step.                          *)
Undo ==
  /\ undo # <<>>
  /\ BatchReverts(Top(undo), rom)
  /\ rom' = BatchReverted(Top(undo), rom)
  /\ undo' = Popped(undo)
  /\ redo' = Append(redo, Top(undo))
  /\ behind' = Popped(behind)
  /\ ahead' = Append(ahead, rom)
  /\ UNCHANGED <<baseline, snapshotLimit>>

(* The redone batch goes back on the undo stack, which is not trimmed. *)
Redo ==
  /\ redo # <<>>
  /\ BatchFits(Top(redo), rom)
  /\ rom' = BatchApplied(Top(redo), rom)
  /\ redo' = Popped(redo)
  /\ undo' = Append(undo, Top(redo))
  /\ ahead' = Popped(ahead)
  /\ behind' = Append(behind, rom)
  /\ UNCHANGED <<baseline, snapshotLimit>>

\* Mutant: the disabled boundary is not noticed.
SetLimitTrimming(limit) ==
  /\ snapshotLimit' = limit
  /\ undo' = Trimmed(undo, UndoOperationLimit(limit))
  /\ behind' = Trimmed(behind, UndoOperationLimit(limit))
  /\ UNCHANGED <<rom, baseline, redo, ahead>>

(* set_undo_snapshot_limit: crossing the disabled boundary (0 or 1) clears   *)
(* both directions; otherwise only the undo stack is trimmed.                *)
SetUndoSnapshotLimit(limit) ==
  /\ snapshotLimit' = limit
  /\ \/ /\ snapshotLimit < 2 \/ limit < 2
        /\ undo' = <<>> /\ behind' = <<>>
        /\ redo' = <<>> /\ ahead' = <<>>
     \/ /\ snapshotLimit >= 2 /\ limit >= 2
        /\ undo' = Trimmed(undo, UndoOperationLimit(limit))
        /\ behind' = Trimmed(behind, UndoOperationLimit(limit))
        /\ UNCHANGED <<redo, ahead>>
  /\ UNCHANGED <<rom, baseline>>

(* mark_saved, once a save of exactly these bytes was acknowledged. *)
MarkSaved ==
  /\ IsModified
  /\ baseline' = rom
  /\ UNCHANGED <<rom, undo, redo, snapshotLimit, behind, ahead>>

Next ==
  \/ Install
  \/ \E batch \in Batch : Edit(batch)
  \/ Undo
  \/ Redo
  \/ \E limit \in 0..MaxSnapshotLimit : SetUndoSnapshotLimit(limit)
  \/ MarkSaved

Spec == Init /\ [][Next]_vars
-----------------------------------------------------------------------------
TypeOK ==
  /\ rom \in FileImage
  /\ baseline \in FileImage
  /\ undo \in Seq(Batch)
  /\ redo \in Seq(Batch)
  /\ snapshotLimit \in 0..MaxSnapshotLimit
  /\ behind \in Seq(FileImage)
  /\ ahead \in Seq(FileImage)

(* The image the i-th undo batch left behind, and the one the i-th redo      *)
(* batch was undone to.                                                      *)
AfterUndo(i) == IF i = Len(undo) THEN rom ELSE behind[i + 1]
BeforeRedo(i) == IF i = Len(redo) THEN rom ELSE ahead[i + 1]

(* However edits, undos, redos, limit changes and saves are mixed, each      *)
(* stack is a chain of operations from the current image: every batch still  *)
(* applies to the image before it and leaves the image after it.             *)
UndoChain ==
  /\ Len(behind) = Len(undo)
  /\ \A i \in 1..Len(undo) :
       /\ BatchFits(undo[i], behind[i])
       /\ BatchApplied(undo[i], behind[i]) = AfterUndo(i)

RedoChain ==
  /\ Len(ahead) = Len(redo)
  /\ \A i \in 1..Len(redo) :
       /\ BatchFits(redo[i], BeforeRedo(i))
       /\ BatchApplied(redo[i], BeforeRedo(i)) = ahead[i]

(* The guarded compare-and-replace of the history never refuses an undo or a *)
(* redo the user is offered (can_undo, can_redo), also across a lowered      *)
(* limit and a save.                                                         *)
OfferedStepsAreAccepted ==
  /\ undo # <<>> => BatchReverts(Top(undo), rom)
  /\ redo # <<>> => BatchFits(Top(redo), rom)

(* The two stacks together never hold more operations than the largest limit *)
(* allows, whatever order limits are changed and operations redone in.  The  *)
(* limit of the moment is no bound: redo pushes on the undo stack and does   *)
(* not trim it, after the limit was lowered too.                             *)
HistoryIsBounded ==
  Len(undo) + Len(redo) <= UndoOperationLimit(MaxSnapshotLimit)

(* With a limit of zero or one snapshot, nothing can be undone or redone: no *)
(* redo recorded before the limit fell survives it.                          *)
DisabledMeansEmpty == snapshotLimit < 2 => undo = <<>> /\ redo = <<>>

(* Undo and redo walk one line of images. *)
Log == INSTANCE UndoLog
  WITH Image <- FileImage, past <- behind, present <- rom, future <- ahead

ImplementsUndoLog == Log!Spec
=============================================================================
