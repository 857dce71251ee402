---------------------------- MODULE EditBatches -----------------------------
(* EditBatch of crates/lm-project/src/history.rs as functions of an image:   *)
(* whether a batch applies or reverts, and what it leaves.  BatchExecution   *)
(* runs a batch edit by edit; UndoHistory takes these functions for what a   *)
(* batch does.                                                               *)
EXTENDS RomImage

(* The images a batch leads through, the one it finds first.  An edit that   *)
(* does not fit is passed over here: the batch as a whole is then refused.   *)
Images(batch, img) ==
  LET image[i \in 0..Len(batch)] ==
        IF i = 0 THEN img
        ELSE IF CanApply(batch[i], image[i - 1])
             THEN Apply(batch[i], image[i - 1])
             ELSE image[i - 1]
  IN  image

CanApplyBatch(batch, img) ==
  \A i \in 1..Len(batch) : CanApply(batch[i], Images(batch, img)[i - 1])

ApplyBatch(batch, img) == Images(batch, img)[Len(batch)]

\* EditBatch::revert runs the inverse edits in reverse order.
InvertedBatch(batch) ==
  [i \in 1..Len(batch) |-> Inverted(batch[Len(batch) + 1 - i])]

CanRevertBatch(batch, img) == CanApplyBatch(InvertedBatch(batch), img)

RevertBatch(batch, img) == ApplyBatch(InvertedBatch(batch), img)
=============================================================================
