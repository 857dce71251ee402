--------------------------- MODULE BatchExecution ---------------------------
(* One pass over a batch of edits: EditBatch::apply, EditBatch::revert and   *)
(* the life of a RomTransaction, an edit at a time, with the rollback each   *)
(* of them runs when an edit does not fit the image it finds.                *)
(*                                                                           *)
(* EditBatch::revert runs the inverse edits in reverse order, and undoes     *)
(* them in reverse again on failure: it is the pass over the inverse batch.  *)
EXTENDS EditBatches

CONSTANTS StartImages,  \* images a pass may find
          Batches,      \* batches a pass may be asked to run
          Strings,      \* byte strings a transaction may be given
          MaxEdits      \* bound on the edits a transaction stages

ASSUME BatchAssumption == /\ StartImages \subseteq ValidImage
                          /\ Batches \subseteq Seq(Edit)
                          /\ Strings \subseteq Seq(Cell)
                          /\ MaxEdits \in Nat

VARIABLES mode,     \* which of the three passes this is
          rom,      \* the image being changed in place
          edits,    \* the edits to run, or those a transaction has staged
          applied,  \* how many of them are applied to rom
          phase,    \* running, rolling back, done or failed
          trail     \* history variable: the images the applied edits led through

vars == <<mode, rom, edits, applied, phase, trail>>

Modes == {"apply", "revert", "transaction"}
Phases == {"running", "rolling", "done", "failed"}

Init ==
  /\ rom \in StartImages
  /\ applied = 0
  /\ phase = "running"
  /\ trail = <<rom>>
  /\ \/ /\ mode = "apply"
        /\ edits \in Batches
     \/ /\ mode = "revert"
        /\ \E batch \in Batches : edits = InvertedBatch(batch)
     \/ /\ mode = "transaction"
        /\ edits = <<>>

-----------------------------------------------------------------------------
Advance(image) ==
  /\ rom' = image
  /\ applied' = applied + 1
  /\ trail' = Append(trail, image)

(* One iteration of the loop of EditBatch::apply or ::revert. *)
RunEdit ==
  /\ phase = "running"
  /\ mode # "transaction"
  /\ applied < Len(edits)
  /\ CanApply(edits[applied + 1], rom)
  /\ Advance(Apply(edits[applied + 1], rom))
  /\ UNCHANGED <<mode, edits, phase>>

\* Mutant: the edits already applied stay.
EditDoesNotFitEndsPass ==
  /\ phase = "running"
  /\ mode # "transaction"
  /\ applied < Len(edits)
  /\ ~CanApply(edits[applied + 1], rom)
  /\ phase' = "failed"
  /\ UNCHANGED <<mode, rom, edits, applied, trail>>

\* Mutant: the edit is checked against the image the pass began with.
EditDoesNotFitAtFirst ==
  /\ phase = "running"
  /\ mode # "transaction"
  /\ applied < Len(edits)
  /\ ~CanApply(edits[applied + 1], trail[1])
  /\ phase' = "rolling"
  /\ UNCHANGED <<mode, rom, edits, applied, trail>>

EditDoesNotFit ==
  /\ phase = "running"
  /\ mode # "transaction"
  /\ applied < Len(edits)
  /\ ~CanApply(edits[applied + 1], rom)
  /\ phase' = "rolling"
  /\ UNCHANGED <<mode, rom, edits, applied, trail>>

BatchDone ==
  /\ phase = "running"
  /\ mode # "transaction"
  /\ applied = Len(edits)
  /\ phase' = "done"
  /\ UNCHANGED <<mode, rom, edits, applied, trail>>

-----------------------------------------------------------------------------
(* RomTransaction::write: the bytes found in the image become the edit's     *)
(* "before", and a write of the bytes already there stages no edit.          *)
StageWrite(offset, bytes) ==
  LET before == [k \in 1..Len(bytes) |-> rom.cells[offset + k]]
  IN /\ phase = "running"
     /\ mode = "transaction"
     /\ Len(edits) < MaxEdits
     /\ InRange(rom, offset, Len(bytes))
     /\ before # bytes
     /\ Advance(Written(rom, offset, bytes))
     /\ edits' = Append(edits, [kind |-> "bytes", offset |-> offset,
                                before |-> before, after |-> bytes])
     /\ UNCHANGED <<mode, phase>>

(* RomTransaction::append: a non-empty tail after the last logical byte. *)
StageAppend(bytes) ==
  LET offset == Len(rom.cells)
  IN /\ phase = "running"
     /\ mode = "transaction"
     /\ Len(edits) < MaxEdits
     /\ bytes # <<>>
     /\ Advance(TailReplaced(rom, offset, bytes))
     /\ edits' = Append(edits, [kind |-> "bytes", offset |-> offset,
                                before |-> <<>>, after |-> bytes])
     /\ UNCHANGED <<mode, phase>>

Commit ==
  /\ phase = "running"
  /\ mode = "transaction"
  /\ phase' = "done"
  /\ UNCHANGED <<mode, rom, edits, applied, trail>>

(* The guard is dropped before commit: a later write was refused. *)
DropTransaction ==
  /\ phase = "running"
  /\ mode = "transaction"
  /\ phase' = "rolling"
  /\ UNCHANGED <<mode, rom, edits, applied, trail>>

-----------------------------------------------------------------------------
\* Mutant: the oldest edit is rolled back first.
RollBackForward ==
  LET edit == edits[Len(trail) - applied]
  IN /\ phase = "rolling"
     /\ applied > 0
     /\ rom' = IF CanRevert(edit, rom) THEN Revert(edit, rom) ELSE rom
     /\ applied' = applied - 1
     /\ UNCHANGED <<mode, edits, phase, trail>>

(* "let _ = previous.revert(rom)": an edit that does not revert is skipped. *)
RollBackEdit ==
  /\ phase = "rolling"
  /\ applied > 0
  /\ rom' = IF CanRevert(edits[applied], rom)
              THEN Revert(edits[applied], rom)
              ELSE rom
  /\ applied' = applied - 1
  /\ UNCHANGED <<mode, edits, phase, trail>>

RolledBack ==
  /\ phase = "rolling"
  /\ applied = 0
  /\ phase' = "failed"
  /\ UNCHANGED <<mode, rom, edits, applied, trail>>

Next ==
  \/ RunEdit
  \/ EditDoesNotFit
  \/ BatchDone
  \/ \E bytes \in Strings :
        \/ \E offset \in 0..Len(rom.cells) : StageWrite(offset, bytes)
        \/ StageAppend(bytes)
  \/ Commit
  \/ DropTransaction
  \/ RollBackEdit
  \/ RolledBack

Spec == Init /\ [][Next]_vars
-----------------------------------------------------------------------------
TypeOK ==
  /\ mode \in Modes
  /\ rom \in ValidImage
  /\ edits \in Seq(Edit)
  /\ applied \in 0..Len(edits)
  /\ phase \in Phases
  /\ trail \in Seq(ValidImage)

(* A pass that fails leaves the image byte for byte as it found it, although *)
(* the rollback ignores the errors of the reverts it runs: "rolling back     *)
(* already-applied writes on failure" (history.rs, transaction.rs).          *)
FailureRestoresImage == phase = "failed" => rom = trail[1]

(* No revert of a rollback is ever refused, so none of the ignored errors    *)
(* exists: the edit to revert always finds the bytes it left behind.         *)
RollbackNeverRefused ==
  phase = "rolling" /\ applied > 0 => CanRevert(edits[applied], rom)

(* The edits a finished pass hands to the history undo it exactly: each one  *)
(* reverts the image it produced to the image it was given.                  *)
FinishedPassIsReversible ==
  phase = "done" =>
    /\ rom = trail[Len(edits) + 1]
    /\ \A i \in 1..Len(edits) :
         /\ CanRevert(edits[i], trail[i + 1])
         /\ Revert(edits[i], trail[i + 1]) = trail[i]

(* What a pass does is what its batch does: one that ends well has found     *)
(* that the batch fits and left the image ApplyBatch says, be the batch      *)
(* the one it was given, the inverse of one, or the one a transaction hands  *)
(* over; one that fails was given a batch that does not fit the image it     *)
(* found.  UndoHistory takes this for granted when it commits and undoes     *)
(* a batch in one step (EditBatch::apply and ::revert).                      *)
PassIsBatch ==
  /\ phase = "done" => /\ CanApplyBatch(edits, trail[1])
                       /\ rom = ApplyBatch(edits, trail[1])
  /\ phase = "failed" /\ mode # "transaction" => ~CanApplyBatch(edits, trail[1])
=============================================================================
