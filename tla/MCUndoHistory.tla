--------------------------- MODULE MCUndoHistory ----------------------------
(* UndoHistory with the batches of EditBatches: every difference between two *)
(* of six images that vary in a byte, in length and in the copier header.    *)
EXTENDS UndoHistory

CONSTANTS Cell, Header, NoHeader, MinLen

R == INSTANCE EditBatches

MCImage == [header : {NoHeader} \cup Header,
            cells : {<<0>>, <<0, 0>>, <<0, 1>>}]

(* The operation that turns one image into another: the header edit, if the  *)
(* header differs, and one edit of the logical bytes, if they differ.        *)
HeaderPart(from, to) ==
  IF from.header = to.header THEN <<>>
  ELSE <<[kind |-> "header", before |-> from.header, after |-> to.header]>>

BytePart(from, to) ==
  IF from.cells = to.cells THEN <<>>
  ELSE <<[kind |-> "bytes", offset |-> 0,
          before |-> from.cells, after |-> to.cells]>>

MCBatch == {HeaderPart(from, to) \o BytePart(from, to) :
              from \in MCImage, to \in MCImage} \ {<<>>}

MCFits(batch, img) == R!CanApplyBatch(batch, img)

MCApplied(batch, img) == R!ApplyBatch(batch, img)

MCReverts(batch, img) == R!CanRevertBatch(batch, img)

MCReverted(batch, img) == R!RevertBatch(batch, img)
=============================================================================
