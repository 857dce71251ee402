------------------------------- MODULE UndoLog ------------------------------
(* What an editor's undo promises: a line of images with a place on it.  An  *)
(* edit cuts off the future, undo and redo move one image along the line and *)
(* show exactly the image that was there, and old images may be forgotten    *)
(* from the far end of the past only.                                        *)
EXTENDS Integers, Sequences

CONSTANT Image

VARIABLES past, present, future

vars == <<past, present, future>>

Suffixes(s) == {SubSeq(s, i, Len(s)) : i \in 1..(Len(s) + 1)}

Init == /\ past = <<>>
        /\ present \in Image
        /\ future = <<>>

Record == /\ present' \in Image
          /\ past' \in Suffixes(Append(past, present))
          /\ future' = <<>>

StepBack == /\ past # <<>>
            /\ present' = past[Len(past)]
            /\ past' = SubSeq(past, 1, Len(past) - 1)
            /\ future' = Append(future, present)

StepForward == /\ future # <<>>
               /\ present' = future[Len(future)]
               /\ future' = SubSeq(future, 1, Len(future) - 1)
               /\ past' = Append(past, present)

Forget == /\ past' \in Suffixes(past)
          /\ future' \in {future, <<>>}
          /\ UNCHANGED present

\* Another document takes the place of this one.
Replace == /\ present' \in Image
           /\ past' = <<>>
           /\ future' = <<>>

Next == Record \/ StepBack \/ StepForward \/ Forget \/ Replace

Spec == Init /\ [][Next]_vars
=============================================================================
