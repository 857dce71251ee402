-------------------------- MODULE MCBatchExecution --------------------------
(* Every image of one or two cells, with and without a copier header, and    *)
(* every batch of one or two edits over it, most of them stale: the refused  *)
(* edit is the first or the second, fixed-size or a resize.                  *)
EXTENDS BatchExecution

MCStrings == {<<>>, <<0>>, <<1>>, <<0, 1>>}

MCImages == [header : Header \cup {NoHeader},
             cells : [1..1 -> Cell] \cup [1..2 -> Cell]]

ByteEdits == [kind : {"bytes"}, offset : 0..2,
              before : MCStrings, after : MCStrings]

MCBatches ==
  {<<first>> : first \in ByteEdits \cup HeaderEdit} \cup
  {<<first, second>> : first \in ByteEdits \cup HeaderEdit, second \in ByteEdits}
=============================================================================
