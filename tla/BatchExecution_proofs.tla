----------------------- MODULE BatchExecution_proofs ------------------------
(* Proofs about RomImage, EditBatches and BatchExecution.  The first part is *)
(* about one edit: images of every length, with and without a header.  The   *)
(* second is about a batch of any length, as a function of the image it      *)
(* finds: what the undo history rests on.  The third is about every pass     *)
(* over a batch, fitting or stale, every image and every transaction.        *)
EXTENDS BatchExecution, SequenceTheorems, WellFoundedInduction,
        NaturalsInduction, TLAPS

-----------------------------------------------------------------------------
(* One edit *)

(* A function on 1..n is a sequence of length n. *)
LEMMA FunctionIsSequence ==
  ASSUME NEW S, NEW n \in Nat, NEW f \in [1..n -> S]
  PROVE  f \in Seq(S) /\ Len(f) = n
  OBVIOUS

(* Other cells under the same header: an image, and the way back. *)
LEMMA CellsReplaced ==
  ASSUME NEW img \in Image, NEW cells \in Seq(Cell)
  PROVE  /\ [img EXCEPT !.cells = cells] \in Image
         /\ [img EXCEPT !.cells = cells].cells = cells
         /\ [[img EXCEPT !.cells = cells] EXCEPT !.cells = img.cells] = img
  BY DEF Image

(* RomImage::replace_exact: the bytes written are found where they were      *)
(* written, and writing the old ones back restores the image.                *)
LEMMA WriteIsReversible ==
  ASSUME NEW img \in ValidImage, NEW offset \in Nat,
         NEW before \in Seq(Cell), NEW after \in Seq(Cell),
         Len(before) = Len(after), Holds(img, offset, before)
  PROVE  /\ Written(img, offset, after) \in ValidImage
         /\ Holds(Written(img, offset, after), offset, after)
         /\ Written(Written(img, offset, after), offset, before) = img
<1> DEFINE n == Len(img.cells)
           m == Len(after)
           cells == [i \in 1..n |-> IF offset < i /\ i <= offset + m
                                      THEN after[i - offset] ELSE img.cells[i]]
           back == [i \in 1..n |-> IF offset < i /\ i <= offset + m
                                     THEN before[i - offset] ELSE cells[i]]
<1>1. /\ img \in Image /\ img.cells \in Seq(Cell) /\ n \in Nat /\ m \in Nat
      /\ n >= MinLen /\ offset + m <= n
      /\ \A k \in 1..m : img.cells[offset + k] = before[k]
  BY DEF ValidImage, Image, Holds, InRange
<1>2. cells \in Seq(Cell) /\ Len(cells) = n
  <2>1. cells \in [1..n -> Cell]
    <3> SUFFICES ASSUME NEW i \in 1..n
                 PROVE  cells[i] \in Cell
      OBVIOUS
    <3>1. img.cells[i] \in Cell
      BY <1>1
    <3>2. offset < i /\ i <= offset + m => after[i - offset] \in Cell
      BY <1>1
    <3> QED
      BY <3>1, <3>2
  <2> QED
    BY <1>1, <2>1, FunctionIsSequence
<1>3. Written(img, offset, after) = [img EXCEPT !.cells = cells]
  BY DEF Written
<1>4. Written(img, offset, after).cells = cells
  <2> HIDE DEF cells
  <2>1. [img EXCEPT !.cells = cells].cells = cells
    BY <1>1, <1>2, CellsReplaced
  <2> QED
    BY <1>3, <2>1, Zenon
<1>5. Written(img, offset, after) \in ValidImage
  <2>1. Written(img, offset, after) \in Image
    <3> HIDE DEF cells
    <3>1. [img EXCEPT !.cells = cells] \in Image
      BY <1>1, <1>2, CellsReplaced
    <3> QED
      BY <1>3, <3>1, Zenon
  <2> QED
    BY <1>1, <1>2, <1>4, <2>1 DEF ValidImage
<1>6. Holds(Written(img, offset, after), offset, after)
  <2>1. ASSUME NEW k \in 1..m
        PROVE  cells[offset + k] = after[k]
    <3>1. offset + k \in 1..n /\ offset < offset + k /\ offset + k <= offset + m
      BY <1>1
    <3>2. (offset + k) - offset = k
      OBVIOUS
    <3> QED
      BY <3>1, <3>2
  <2> QED
    BY <1>1, <1>2, <1>4, <2>1 DEF Holds, InRange
<1>7. back = img.cells
  <2>1. back \in Seq(Cell) /\ Len(back) = n
    <3>1. ASSUME NEW i \in 1..n
          PROVE  back[i] \in Cell
      <4>1. offset < i /\ i <= offset + m => before[i - offset] \in Cell
        BY <1>1
      <4>2. cells[i] \in Cell
        BY <1>2
      <4> QED
        BY <4>1, <4>2
    <3>2. back \in [1..n -> Cell]
      BY <3>1
    <3> QED
      BY <1>1, <3>2, FunctionIsSequence
  <2>2. ASSUME NEW i \in 1..n
        PROVE  back[i] = img.cells[i]
    <3>1. CASE offset < i /\ i <= offset + m
      <4>1. i - offset \in 1..m /\ offset + (i - offset) = i
        BY <1>1, <3>1
      <4>2. img.cells[i] = before[i - offset]
        BY <1>1, <4>1
      <4> QED
        BY <3>1, <4>2
    <3>2. CASE ~(offset < i /\ i <= offset + m)
      BY <3>2
    <3> QED
      BY <3>1, <3>2
  <2> HIDE DEF back
  <2> QED
    BY <1>1, <2>1, <2>2, SeqEqual
<1>8. Written(Written(img, offset, after), offset, before) =
        [Written(img, offset, after) EXCEPT !.cells = back]
  <2>1. Len(Written(img, offset, after).cells) = n /\ Len(before) = m
    BY <1>2, <1>4
  <2> QED
    BY <1>4, <2>1 DEF Written
<1> HIDE DEF cells, back
<1> QED
  BY <1>1, <1>2, <1>3, <1>5, <1>6, <1>7, <1>8, CellsReplaced

(* RomImage::replace_logical_tail: the new tail is the complete tail of the  *)
(* new image, and the old one may always take its place again.               *)
LEMMA TailIsReversible ==
  ASSUME NEW img \in ValidImage, NEW offset \in Nat,
         NEW before \in Seq(Cell), NEW after \in Seq(Cell),
         CanReplaceTail(img, offset, before, after)
  PROVE  /\ TailReplaced(img, offset, after) \in ValidImage
         /\ CanReplaceTail(TailReplaced(img, offset, after), offset, after, before)
         /\ TailReplaced(TailReplaced(img, offset, after), offset, before) = img
<1> DEFINE n == offset + Len(before)
           m == offset + Len(after)
           cells == [i \in 1..m |-> IF i <= offset THEN img.cells[i]
                                      ELSE after[i - offset]]
           back == [i \in 1..n |-> IF i <= offset THEN cells[i]
                                     ELSE before[i - offset]]
<1>1. /\ img \in Image /\ img.cells \in Seq(Cell) /\ n \in Nat /\ m \in Nat
      /\ Len(img.cells) = n /\ n >= MinLen /\ m >= MinLen
      /\ Len(before) \in Nat /\ Len(after) \in Nat
      /\ \A k \in 1..Len(before) : img.cells[offset + k] = before[k]
  <2>1. /\ img \in Image /\ img.cells \in Seq(Cell) /\ Len(img.cells) = n
        /\ Len(img.cells) >= MinLen /\ m >= MinLen
    BY DEF ValidImage, Image, CanReplaceTail
  <2>2. n \in Nat /\ m \in Nat /\ Len(before) \in Nat /\ Len(after) \in Nat
    OBVIOUS
  <2>3. \A k \in 1..Len(before) : img.cells[offset + k] = before[k]
    BY DEF CanReplaceTail, Holds
  <2> QED
    BY <2>1, <2>2, <2>3
<1>2. cells \in Seq(Cell) /\ Len(cells) = m
  <2>1. ASSUME NEW i \in 1..m
        PROVE  cells[i] \in Cell
    <3>1. i <= offset => img.cells[i] \in Cell
      BY <1>1
    <3>2. ~(i <= offset) => after[i - offset] \in Cell
      BY <1>1
    <3> QED
      BY <3>1, <3>2
  <2>2. cells \in [1..m -> Cell]
    BY <2>1
  <2> QED
    BY <1>1, <2>2, FunctionIsSequence
<1>3. TailReplaced(img, offset, after) = [img EXCEPT !.cells = cells]
  BY DEF TailReplaced
<1>4. TailReplaced(img, offset, after).cells = cells
  <2> HIDE DEF cells
  <2>1. [img EXCEPT !.cells = cells].cells = cells
    BY <1>1, <1>2, CellsReplaced
  <2> QED
    BY <1>3, <2>1, Zenon
<1>5. TailReplaced(img, offset, after) \in ValidImage
  <2>1. TailReplaced(img, offset, after) \in Image
    <3> HIDE DEF cells
    <3>1. [img EXCEPT !.cells = cells] \in Image
      BY <1>1, <1>2, CellsReplaced
    <3> QED
      BY <1>3, <3>1, Zenon
  <2> QED
    BY <1>1, <1>2, <1>4, <2>1 DEF ValidImage
<1>6. CanReplaceTail(TailReplaced(img, offset, after), offset, after, before)
  <2>1. ASSUME NEW k \in 1..Len(after)
        PROVE  cells[offset + k] = after[k]
    <3>1. offset + k \in 1..m /\ ~(offset + k <= offset) /\ (offset + k) - offset = k
      BY <1>1
    <3> QED
      BY <3>1
  <2>2. Holds(TailReplaced(img, offset, after), offset, after)
    BY <1>1, <1>2, <1>4, <2>1 DEF Holds, InRange
  <2> QED
    BY <1>1, <1>2, <1>4, <2>2 DEF CanReplaceTail
<1>7. back = img.cells
  <2>1. ASSUME NEW i \in 1..n
        PROVE  back[i] = img.cells[i]
    <3>1. CASE i <= offset
      <4>1. i \in 1..m
        BY <1>1, <3>1
      <4> QED
        BY <3>1, <4>1
    <3>2. CASE ~(i <= offset)
      <4>1. i - offset \in 1..Len(before) /\ offset + (i - offset) = i
        BY <1>1, <3>2
      <4> QED
        BY <1>1, <3>2, <4>1
    <3> QED
      BY <3>1, <3>2
  <2>2. back \in Seq(Cell) /\ Len(back) = n
    <3>1. \A i \in 1..n : back[i] \in Cell
      BY <1>1, <2>1, ElementOfSeq
    <3>2. back \in [1..n -> Cell]
      BY <3>1
    <3> QED
      BY <1>1, <3>2, FunctionIsSequence
  <2> HIDE DEF back
  <2> QED
    BY <1>1, <2>1, <2>2, SeqEqual
<1>8. TailReplaced(TailReplaced(img, offset, after), offset, before) =
        [TailReplaced(img, offset, after) EXCEPT !.cells = back]
  BY <1>4 DEF TailReplaced
<1> HIDE DEF cells, back
<1> QED
  BY <1>1, <1>2, <1>3, <1>5, <1>6, <1>7, <1>8, CellsReplaced

(* The inverse of an edit is an edit, and exchanging twice changes nothing. *)
LEMMA InvertedIsEdit ==
  ASSUME NEW edit \in Edit
  PROVE  /\ Inverted(edit) \in Edit
         /\ Inverted(edit).kind = edit.kind
         /\ Inverted(edit).before = edit.after
         /\ Inverted(edit).after = edit.before
         /\ edit.kind = "bytes" => /\ Inverted(edit).offset = edit.offset
                                   /\ edit \in ByteEdit
         /\ edit.kind = "header" => edit \in HeaderEdit
         /\ edit.kind \in {"bytes", "header"}
<1>1. CASE edit \in ByteEdit
  BY <1>1 DEF ByteEdit, Edit, Inverted
<1>2. CASE edit \in HeaderEdit
  BY <1>2 DEF HeaderEdit, Edit, Inverted
<1> QED
  BY <1>1, <1>2 DEF Edit

(* Edit::apply then Edit::revert, or CopierHeaderEdit::apply then ::revert:  *)
(* an edit that fits an image leaves a valid image, which its revert accepts *)
(* and turns back into the image it found.                                   *)
THEOREM EditIsReversible ==
  ASSUME NEW edit \in Edit, NEW img \in ValidImage, CanApply(edit, img)
  PROVE  /\ Apply(edit, img) \in ValidImage
         /\ CanRevert(edit, Apply(edit, img))
         /\ Revert(edit, Apply(edit, img)) = img
<1>1. CASE edit.kind = "header"
  <2>1. /\ edit.after \in Header \cup {NoHeader}
        /\ edit.before = img.header /\ img \in Image
    BY <1>1, InvertedIsEdit DEF HeaderEdit, CanApply, CanReplaceHeader, ValidImage
  <2>2. Apply(edit, img) = [img EXCEPT !.header = edit.after]
    BY <1>1 DEF Apply, HeaderReplaced
  <2>3. /\ [img EXCEPT !.header = edit.after] \in ValidImage
        /\ [img EXCEPT !.header = edit.after].header = edit.after
        /\ [[img EXCEPT !.header = edit.after] EXCEPT !.header = img.header] = img
    BY <2>1 DEF ValidImage, Image
  <2> QED
    BY <1>1, <2>1, <2>2, <2>3, InvertedIsEdit
    DEF CanRevert, Revert, CanApply, Apply, CanReplaceHeader, HeaderReplaced
<1>2. CASE edit.kind = "bytes"
  <2>1. /\ edit.offset \in Nat /\ edit.before \in Seq(Cell) /\ edit.after \in Seq(Cell)
        /\ Inverted(edit).kind = "bytes" /\ Inverted(edit).offset = edit.offset
        /\ Inverted(edit).before = edit.after /\ Inverted(edit).after = edit.before
        /\ "bytes" # "header"
    BY <1>2, InvertedIsEdit DEF ByteEdit
  <2>2. CASE IsFixedSize(edit)
    <3>1. Len(edit.before) = Len(edit.after) /\ Holds(img, edit.offset, edit.before)
      BY <1>2, <2>1, <2>2 DEF CanApply, IsFixedSize, CanReplaceExact
    <3>2. Apply(edit, img) = Written(img, edit.offset, edit.after)
      BY <1>2, <2>1, <2>2 DEF Apply
    <3>3. /\ Written(img, edit.offset, edit.after) \in ValidImage
          /\ Holds(Written(img, edit.offset, edit.after), edit.offset, edit.after)
          /\ Written(Written(img, edit.offset, edit.after), edit.offset, edit.before) = img
      BY <2>1, <3>1, WriteIsReversible
    <3> QED
      BY <2>1, <3>1, <3>2, <3>3
      DEF CanRevert, Revert, CanApply, Apply, IsFixedSize, CanReplaceExact
  <2>3. CASE ~IsFixedSize(edit)
    <3>1. /\ Len(edit.before) # Len(edit.after)
          /\ CanReplaceTail(img, edit.offset, edit.before, edit.after)
      BY <1>2, <2>1, <2>3 DEF CanApply, IsFixedSize
    <3>2. Apply(edit, img) = TailReplaced(img, edit.offset, edit.after)
      BY <1>2, <2>1, <2>3 DEF Apply
    <3>3. /\ TailReplaced(img, edit.offset, edit.after) \in ValidImage
          /\ CanReplaceTail(TailReplaced(img, edit.offset, edit.after),
                            edit.offset, edit.after, edit.before)
          /\ TailReplaced(TailReplaced(img, edit.offset, edit.after),
                          edit.offset, edit.before) = img
      BY <2>1, <3>1, TailIsReversible
    <3> QED
      BY <2>1, <3>1, <3>2, <3>3 DEF CanRevert, Revert, CanApply, Apply, IsFixedSize
  <2> QED
    BY <2>2, <2>3
<1> QED
  BY <1>1, <1>2, InvertedIsEdit

-----------------------------------------------------------------------------
(* A batch *)

(* Every nonempty set of numbers has a least one: induction over the edits   *)
(* of a batch is done by the least counterexample.                           *)
LEMMA LeastNumber ==
  ASSUME NEW T, T \subseteq Nat, T # {}
  PROVE  \E n \in T : \A k \in T : n <= k
<1> DEFINE R == OpToRel(<, Nat)
<1>1. IsWellFoundedOn(R, Nat)
  BY NatLessThanWellFounded
<1>2. \A n, k \in Nat : k < n => <<k, n>> \in R
  BY Zenon DEF OpToRel
<1> HIDE DEF R
<1>3. PICK n \in T : \A k \in T : ~(<<k, n>> \in R)
  BY <1>1, WFMin
<1>4. ASSUME NEW k \in T
      PROVE  n <= k
  <2>1. n \in Nat /\ k \in Nat
    OBVIOUS
  <2>2. ~(k < n)
    BY <1>2, <1>3, <2>1, Zenon
  <2> QED
    BY <2>1, <2>2
<1> QED
  BY <1>4

(* A function with the recursion of Images exists, so Images is what it says. *)
LEMMA ImagesRecursion ==
  ASSUME NEW batch \in Seq(Edit), NEW img
  PROVE  Images(batch, img) =
           [i \in 0..Len(batch) |->
              IF i = 0 THEN img
              ELSE IF CanApply(batch[i], Images(batch, img)[i - 1])
                   THEN Apply(batch[i], Images(batch, img)[i - 1])
                   ELSE Images(batch, img)[i - 1]]
<1> DEFINE n == Len(batch)
           Found(g, i) == IF i = 0 THEN img
                          ELSE IF CanApply(batch[i], g[i - 1])
                               THEN Apply(batch[i], g[i - 1])
                               ELSE g[i - 1]
           Solves(g, k) == g = [i \in 0..k |-> Found(g, i)]
           Unsolved == {k \in 0..n : ~ \E g : Solves(g, k)}
<1>1. n \in Nat
  OBVIOUS
<1>2. ASSUME NEW m \in Unsolved, \A k \in Unsolved : m <= k
      PROVE  FALSE
  <2>1. m \in 0..n /\ ~ \E g : Solves(g, m)
    OBVIOUS
  <2>2. m # 0
    <3> DEFINE e == [i \in 0..0 |-> img]
    <3>1. \A i \in 0..0 : i = 0
      OBVIOUS
    <3>2. \A i \in 0..0 : Found(e, i) = img
      BY <3>1
    <3>3. Solves(e, 0)
      <4> HIDE DEF Found
      <4> QED
        BY <3>2
    <3> QED
      BY <2>1, <3>3
  <2>3. m - 1 \in 0..n /\ m - 1 \notin Unsolved
    <3>1. m - 1 \in 0..n /\ ~(m <= m - 1)
      BY <1>1, <2>1, <2>2
    <3> HIDE DEF Unsolved
    <3> QED
      BY <1>2, <3>1
  <2>4. PICK g : Solves(g, m - 1)
    BY <2>3
  <2> DEFINE h == [i \in 0..m |-> IF i = m THEN Found(g, m) ELSE g[i]]
  <2>5. ASSUME NEW i \in 0..m
        PROVE  Found(g, i) = Found(h, i)
    <3>1. CASE i = 0
      BY <3>1
    <3>2. CASE i # 0
      <4>1. i - 1 \in 0..m /\ i - 1 # m
        BY <1>1, <2>1, <3>2
      <4>2. h[i - 1] = g[i - 1]
        <5> HIDE DEF Found
        <5> QED
          BY <4>1
      <4> HIDE DEF h
      <4> QED
        BY <4>2
    <3> QED
      BY <3>1, <3>2
  <2>6. ASSUME NEW i \in 0..m
        PROVE  h[i] = Found(g, i)
    <3> HIDE DEF Found
    <3>1. CASE i = m
      BY <3>1
    <3>2. CASE i # m
      <4>1. i \in 0..(m - 1)
        BY <1>1, <2>1, <3>2
      <4>2. g[i] = Found(g, i)
        BY <2>4, <4>1
      <4>3. h[i] = g[i]
        BY <3>2
      <4> QED
        BY <4>2, <4>3
    <3> QED
      BY <3>1, <3>2
  <2>7. Solves(h, m)
    <3>1. h = [i \in 0..m |-> h[i]]
      OBVIOUS
    <3> HIDE DEF h, Found
    <3>2. \A i \in 0..m : h[i] = Found(h, i)
      BY <2>5, <2>6
    <3> QED
      BY <3>1, <3>2
  <2> QED
    BY <2>1, <2>7
<1>3. Unsolved = {}
  <2> HIDE DEF Solves
  <2>1. Unsolved \subseteq Nat
    BY <1>1
  <2> HIDE DEF Unsolved
  <2> QED
    BY <1>2, <2>1, LeastNumber
<1>4. \E g : Solves(g, n)
  <2> HIDE DEF Solves
  <2> QED
    BY <1>1, <1>3
<1> QED
  BY <1>4, Zenon DEF Images

(* The recursion, an edit at a time. *)
LEMMA ImagesSteps ==
  ASSUME NEW batch \in Seq(Edit), NEW img
  PROVE  /\ Images(batch, img)[0] = img
         /\ \A i \in 1..Len(batch) :
              Images(batch, img)[i] =
                IF CanApply(batch[i], Images(batch, img)[i - 1])
                THEN Apply(batch[i], Images(batch, img)[i - 1])
                ELSE Images(batch, img)[i - 1]
<1> DEFINE J == Images(batch, img)
           Next1(i) == IF CanApply(batch[i], J[i - 1])
                       THEN Apply(batch[i], J[i - 1]) ELSE J[i - 1]
<1>1. J = [i \in 0..Len(batch) |-> IF i = 0 THEN img ELSE Next1(i)]
  BY ImagesRecursion
<1>2. Len(batch) \in Nat
  OBVIOUS
<1> HIDE DEF J, Next1
<1>3. J[0] = img
  BY <1>1, <1>2
<1>4. \A i \in 1..Len(batch) : J[i] = Next1(i)
  BY <1>1, <1>2
<1> QED
  BY <1>3, <1>4 DEF J, Next1

(* Images that follow one another by edits that fit are those of Images. *)
LEMMA ImagesAreTheOnes ==
  ASSUME NEW batch \in Seq(Edit), NEW k \in 0..Len(batch), NEW found,
         \A i \in 1..k : /\ CanApply(batch[i], found[i - 1])
                         /\ found[i] = Apply(batch[i], found[i - 1])
  PROVE  \A i \in 0..k : Images(batch, found[0])[i] = found[i]
<1> DEFINE J == Images(batch, found[0])
           Wrong == {i \in 0..k : J[i] # found[i]}
<1>1. ASSUME NEW m \in Wrong, \A i \in Wrong : m <= i
      PROVE  FALSE
  <2>1. m \in 0..k /\ J[m] # found[m] /\ k \in Nat /\ k <= Len(batch)
    OBVIOUS
  <2>2. m # 0
    BY <2>1, ImagesSteps
  <2>3. m - 1 \in 0..k /\ m \in 1..k /\ m \in 1..Len(batch) /\ ~(m <= m - 1)
    BY <2>1, <2>2
  <2>4. J[m - 1] = found[m - 1]
    <3> HIDE DEF J
    <3> QED
      BY <1>1, <2>3
  <2>5. J[m] = IF CanApply(batch[m], J[m - 1]) THEN Apply(batch[m], J[m - 1])
               ELSE J[m - 1]
    BY <2>3, ImagesSteps
  <2> HIDE DEF J
  <2>6. CanApply(batch[m], found[m - 1]) /\ found[m] = Apply(batch[m], found[m - 1])
    BY <2>3
  <2> QED
    BY <2>1, <2>4, <2>5, <2>6
<1>2. Wrong = {}
  <2> HIDE DEF J
  <2>1. Wrong \subseteq Nat
    OBVIOUS
  <2> HIDE DEF Wrong
  <2> QED
    BY <1>1, <2>1, LeastNumber
<1> QED
  BY <1>2

(* No edit of a batch leaves anything but a valid image. *)
LEMMA ImagesAreValid ==
  ASSUME NEW batch \in Seq(Edit), NEW img \in ValidImage
  PROVE  \A i \in 0..Len(batch) : Images(batch, img)[i] \in ValidImage
<1> DEFINE J == Images(batch, img)
           Wrong == {i \in 0..Len(batch) : J[i] \notin ValidImage}
<1>1. ASSUME NEW m \in Wrong, \A i \in Wrong : m <= i
      PROVE  FALSE
  <2>1. m \in 0..Len(batch) /\ J[m] \notin ValidImage /\ Len(batch) \in Nat
    OBVIOUS
  <2>2. m # 0
    BY <2>1, ImagesSteps
  <2>3. m - 1 \in 0..Len(batch) /\ m \in 1..Len(batch) /\ ~(m <= m - 1)
    BY <2>1, <2>2
  <2>4. J[m - 1] \in ValidImage
    <3> HIDE DEF J
    <3> QED
      BY <1>1, <2>3
  <2>5. J[m] = IF CanApply(batch[m], J[m - 1]) THEN Apply(batch[m], J[m - 1])
               ELSE J[m - 1]
    BY <2>3, ImagesSteps
  <2> HIDE DEF J
  <2>6. batch[m] \in Edit
    BY <2>3
  <2> QED
    BY <2>1, <2>4, <2>5, <2>6, EditIsReversible
<1>2. Wrong = {}
  <2> HIDE DEF J
  <2>1. Wrong \subseteq Nat
    OBVIOUS
  <2> HIDE DEF Wrong
  <2> QED
    BY <1>1, <2>1, LeastNumber
<1> QED
  BY <1>2

(* The inverse batch is a batch, so a revert is a pass like any other. *)
LEMMA InvertedBatchType ==
  ASSUME NEW batch \in Seq(Edit)
  PROVE  /\ InvertedBatch(batch) \in Seq(Edit)
         /\ Len(InvertedBatch(batch)) = Len(batch)
         /\ \A i \in 1..Len(batch) :
              InvertedBatch(batch)[i] = Inverted(batch[Len(batch) + 1 - i])
<1>1. \A i \in 1..Len(batch) : Inverted(batch[Len(batch) + 1 - i]) \in Edit
  <2> TAKE i \in 1..Len(batch)
  <2>1. Len(batch) + 1 - i \in 1..Len(batch)
    OBVIOUS
  <2>2. batch[Len(batch) + 1 - i] \in Edit
    BY <2>1
  <2> QED
    BY <2>2, InvertedIsEdit
<1>2. InvertedBatch(batch) \in [1..Len(batch) -> Edit]
  BY <1>1 DEF InvertedBatch
<1>3. \A i \in 1..Len(batch) :
        InvertedBatch(batch)[i] = Inverted(batch[Len(batch) + 1 - i])
  BY DEF InvertedBatch
<1> QED
  BY <1>2, <1>3, FunctionIsSequence

(* EditBatch::apply then EditBatch::revert, for a batch of any length whose  *)
(* edits may overlap, resize the image and replace its header: the inverse   *)
(* edits walk back over the very images the batch went through.  This is     *)
(* BatchLaw, what UndoHistory assumes of its batches.                        *)
THEOREM BatchIsReversible ==
  ASSUME NEW batch \in Seq(Edit), NEW img \in ValidImage, CanApplyBatch(batch, img)
  PROVE  /\ ApplyBatch(batch, img) \in ValidImage
         /\ CanRevertBatch(batch, ApplyBatch(batch, img))
         /\ RevertBatch(batch, ApplyBatch(batch, img)) = img
<1> DEFINE n == Len(batch)
           J == Images(batch, img)
           inverse == InvertedBatch(batch)
           back == [i \in 0..n |-> J[n - i]]
<1>1. n \in Nat /\ inverse \in Seq(Edit) /\ Len(inverse) = n
  BY InvertedBatchType
<1>2. J[n] \in ValidImage /\ ApplyBatch(batch, img) = J[n] /\ J[0] = img
  BY <1>1, ImagesAreValid, ImagesSteps DEF ApplyBatch
<1>3. ASSUME NEW i \in 1..n
      PROVE  CanApply(inverse[i], back[i - 1]) /\ back[i] = Apply(inverse[i], back[i - 1])
  <2> DEFINE j == n + 1 - i
  <2>1. j \in 1..n /\ j - 1 \in 0..n /\ n - (i - 1) = j /\ n - i = j - 1
        /\ i \in 0..n /\ i - 1 \in 0..n
    BY <1>1
  <2>2. batch[j] \in Edit /\ inverse[i] = Inverted(batch[j])
    BY <2>1, InvertedBatchType
  <2>3. J[j - 1] \in ValidImage /\ CanApply(batch[j], J[j - 1])
    BY <2>1, ImagesAreValid DEF CanApplyBatch
  <2>4. J[j] = Apply(batch[j], J[j - 1])
    BY <2>1, <2>3, ImagesSteps
  <2>5. back[i - 1] = J[j] /\ back[i] = J[j - 1]
    <3> HIDE DEF J, j
    <3> QED
      BY <2>1
  <2> HIDE DEF J, j, inverse, back
  <2> QED
    BY <2>2, <2>3, <2>4, <2>5, EditIsReversible DEF CanRevert, Revert
<1>4. back[0] = J[n] /\ back[n] = J[0]
  <2> HIDE DEF J
  <2>1. 0 \in 0..n /\ n \in 0..n /\ n - 0 = n /\ n - n = 0
    BY <1>1
  <2> QED
    BY <2>1
<1>5. \A i \in 0..n : Images(inverse, J[n])[i] = back[i]
  <2> HIDE DEF J, inverse, back
  <2>1. n \in 0..Len(inverse)
    BY <1>1
  <2>2. \A i \in 0..n : Images(inverse, back[0])[i] = back[i]
    BY <1>1, <1>3, <2>1, ImagesAreTheOnes
  <2> QED
    BY <1>4, <2>2
<1>6. \A i \in 1..n : CanApply(inverse[i], Images(inverse, J[n])[i - 1])
  <2> HIDE DEF J, inverse, back
  <2>1. \A i \in 1..n : i - 1 \in 0..n
    BY <1>1
  <2> QED
    BY <1>3, <1>5, <2>1
<1>7. Images(inverse, J[n])[n] = img
  <2>1. n \in 0..n
    BY <1>1
  <2> HIDE DEF J, inverse, back
  <2> QED
    BY <1>2, <1>4, <1>5, <2>1
<1> HIDE DEF J
<1> QED
  BY <1>1, <1>2, <1>6, <1>7 DEF CanRevertBatch, RevertBatch, CanApplyBatch, ApplyBatch

-----------------------------------------------------------------------------
(* A pass over a batch *)

\* How many edits were applied before the pass ended or turned to rolling back.
Reached == Len(trail) - 1

(* The edits applied so far lead along the trail and back; while rolling     *)
(* back, the image is the one of the trail the remaining edits had produced. *)
TrailReverts ==
  \A i \in 1..Reached : /\ CanRevert(edits[i], trail[i + 1])
                        /\ Revert(edits[i], trail[i + 1]) = trail[i]

(* They are the edits of the batch, each found to fit.                       *)
TrailRuns ==
  \A i \in 1..Reached : /\ CanApply(edits[i], trail[i])
                        /\ trail[i + 1] = Apply(edits[i], trail[i])

(* A batch stops short only of an edit that does not fit. *)
StoppedByMisfit ==
  phase \in {"rolling", "failed"} /\ mode # "transaction" =>
    /\ Reached < Len(edits)
    /\ ~CanApply(edits[Reached + 1], trail[Reached + 1])

IInv ==
  /\ TypeOK
  /\ Reached \in 0..Len(edits)
  /\ applied <= Reached
  /\ rom = trail[applied + 1]
  /\ TrailReverts
  /\ TrailRuns
  /\ StoppedByMisfit
  /\ phase \in {"running", "done"} => applied = Reached
  /\ phase = "done" => applied = Len(edits)
  /\ phase = "failed" => applied = 0
  /\ mode = "transaction" => Reached = Len(edits)

-----------------------------------------------------------------------------
LEMMA InitIInv == Init => IInv
<1> SUFFICES ASSUME Init
             PROVE  IInv
  OBVIOUS
<1>1. /\ rom \in ValidImage /\ trail = <<rom>> /\ trail \in Seq(ValidImage)
      /\ Len(trail) = 1 /\ applied = 0 /\ phase = "running"
  BY BatchAssumption DEF Init
<1>2. edits \in Seq(Edit) /\ (mode = "transaction" => edits = <<>>) /\ mode \in Modes
  <2>1. CASE mode = "apply" /\ edits \in Batches
    BY <2>1, BatchAssumption DEF Modes
  <2>2. CASE mode = "revert" /\ \E batch \in Batches : edits = InvertedBatch(batch)
    BY <2>2, BatchAssumption, InvertedBatchType DEF Modes
  <2>3. CASE mode = "transaction" /\ edits = <<>>
    BY <2>3 DEF Modes
  <2> QED
    BY <2>1, <2>2, <2>3 DEF Init
<1>3. Len(edits) \in Nat /\ (mode = "transaction" => Len(edits) = 0)
  BY <1>2
<1> QED
  BY <1>1, <1>2, <1>3 DEF IInv, TypeOK, TrailReverts, TrailRuns, StoppedByMisfit,
      Reached, Phases

(* What running one more edit does: the pass of a batch runs an edit it was  *)
(* given, a transaction one it builds from the bytes it finds.               *)
LEMMA AdvanceIInv ==
  ASSUME IInv, phase = "running",
         NEW edit \in Edit, CanApply(edit, rom), Advance(Apply(edit, rom)),
         edits' \in Seq(Edit),
         applied + 1 \in 1..Len(edits'), edits'[applied + 1] = edit,
         \A i \in 1..applied : edits'[i] = edits[i],
         mode' = "transaction" => applied + 1 = Len(edits'),
         mode' = mode, phase' = phase
  PROVE  IInv'
<1> DEFINE img == Apply(edit, rom)
<1>1. /\ rom \in ValidImage /\ applied \in Nat /\ Reached = applied
      /\ trail \in Seq(ValidImage) /\ Len(trail) = applied + 1
      /\ trail[applied + 1] = rom /\ mode \in Modes
  BY DEF IInv, TypeOK, Reached
<1>2. /\ img \in ValidImage /\ CanRevert(edit, img) /\ Revert(edit, img) = rom
  BY <1>1, EditIsReversible
<1>3. /\ rom' = img /\ applied' = applied + 1 /\ trail' = Append(trail, img)
  BY DEF Advance
<1> HIDE DEF img
<1>4. /\ trail' \in Seq(ValidImage) /\ Len(trail') = applied + 2
      /\ trail'[applied + 2] = img
      /\ \A i \in 1..(applied + 1) : trail'[i] = trail[i]
  BY <1>1, <1>2, <1>3
<1>5. Reached' = applied + 1
  BY <1>1, <1>4 DEF Reached
<1>6. TrailReverts'
  <2> SUFFICES ASSUME NEW i \in 1..(applied + 1)
               PROVE  /\ CanRevert(edits'[i], trail'[i + 1])
                      /\ Revert(edits'[i], trail'[i + 1]) = trail'[i]
    BY <1>5 DEF TrailReverts
  <2>1. CASE i = applied + 1
    <3>1. i + 1 = applied + 2
      BY <1>1, <2>1
    <3> QED
      BY <1>1, <1>2, <1>4, <2>1, <3>1
  <2>2. CASE i # applied + 1
    <3>1. i \in 1..applied /\ i + 1 \in 1..(applied + 1) /\ i \in 1..(applied + 1)
      BY <1>1, <2>2
    <3>2. CanRevert(edits[i], trail[i + 1]) /\ Revert(edits[i], trail[i + 1]) = trail[i]
      BY <1>1, <3>1 DEF IInv, TrailReverts
    <3> QED
      BY <1>4, <3>1, <3>2
  <2> QED
    BY <2>1, <2>2
<1>7. TrailRuns'
  <2> SUFFICES ASSUME NEW i \in 1..(applied + 1)
               PROVE  /\ CanApply(edits'[i], trail'[i])
                      /\ trail'[i + 1] = Apply(edits'[i], trail'[i])
    BY <1>5 DEF TrailRuns
  <2>1. CASE i = applied + 1
    <3>1. i + 1 = applied + 2
      BY <1>1, <2>1
    <3>2. trail'[i] = rom /\ edits'[i] = edit /\ trail'[i + 1] = img
      BY <1>1, <1>4, <2>1, <3>1
    <3> QED
      BY <3>2 DEF img
  <2>2. CASE i # applied + 1
    <3>1. i \in 1..applied /\ i + 1 \in 1..(applied + 1) /\ i \in 1..(applied + 1)
      BY <1>1, <2>2
    <3>2. CanApply(edits[i], trail[i]) /\ trail[i + 1] = Apply(edits[i], trail[i])
      BY <1>1, <3>1 DEF IInv, TrailRuns
    <3> QED
      BY <1>4, <3>1, <3>2
  <2> QED
    BY <2>1, <2>2
<1>8. StoppedByMisfit'
  BY DEF StoppedByMisfit
<1>9. rom' = trail'[applied' + 1]
  <2>1. applied' + 1 = applied + 2
    BY <1>1, <1>3
  <2> QED
    BY <1>3, <1>4, <2>1
<1>10. TypeOK'
  BY <1>1, <1>2, <1>3, <1>4 DEF TypeOK, Phases
<1>11. /\ Reached' \in 0..Len(edits') /\ applied' <= Reached'
      /\ applied' = Reached' /\ (mode' = "transaction" => Reached' = Len(edits'))
  BY <1>1, <1>3, <1>5
<1> QED
  BY <1>6, <1>9, <1>10, <1>11, <1>7, <1>8 DEF IInv

LEMMA NextIInv == IInv /\ [Next]_vars => IInv'
<1> SUFFICES ASSUME IInv, [Next]_vars
             PROVE  IInv'
  OBVIOUS
<1>0. /\ rom \in ValidImage /\ rom \in Image /\ rom.cells \in Seq(Cell)
      /\ edits \in Seq(Edit) /\ Len(edits) \in Nat /\ Len(rom.cells) \in Nat
      /\ Len(rom.cells) >= MinLen
      /\ applied \in Nat /\ applied <= Len(edits)
      /\ Reached \in Nat /\ applied <= Reached /\ Reached <= Len(edits)
  BY DEF IInv, TypeOK, ValidImage, Image
<1>1. CASE RunEdit
  <2>1. edits[applied + 1] \in Edit /\ applied + 1 \in 1..Len(edits)
    BY <1>0, <1>1 DEF RunEdit
  <2> QED
    BY <1>0, <1>1, <2>1, AdvanceIInv DEF RunEdit
<1>2. CASE EditDoesNotFit \/ DropTransaction
  BY <1>0, <1>2
  DEF EditDoesNotFit, DropTransaction, IInv, TypeOK, Phases, TrailReverts, TrailRuns,
      StoppedByMisfit, Reached
<1>3. CASE BatchDone \/ Commit
  BY <1>0, <1>3 DEF BatchDone, Commit, IInv, TypeOK, Phases, TrailReverts, TrailRuns,
      StoppedByMisfit, Reached
<1>4. ASSUME NEW bytes \in Strings, NEW offset \in 0..Len(rom.cells),
             StageWrite(offset, bytes)
      PROVE  IInv'
  <2> DEFINE before == [k \in 1..Len(bytes) |-> rom.cells[offset + k]]
             edit == [kind |-> "bytes", offset |-> offset,
                      before |-> before, after |-> bytes]
  <2>1. /\ bytes \in Seq(Cell) /\ Len(bytes) \in Nat /\ offset \in Nat
        /\ offset + Len(bytes) <= Len(rom.cells)
    BY <1>4, BatchAssumption DEF StageWrite, InRange
  <2>2. before \in Seq(Cell) /\ Len(before) = Len(bytes)
    <3>1. \A k \in 1..Len(bytes) : offset + k \in 1..Len(rom.cells)
      BY <1>0, <2>1
    <3>2. before \in [1..Len(bytes) -> Cell]
      BY <1>0, <3>1
    <3> QED
      BY <2>1, <3>2, FunctionIsSequence
  <2>3. \A k \in 1..Len(before) : rom.cells[offset + k] = before[k]
    BY <2>2
  <2>4. /\ phase = "running" /\ mode = "transaction"
        /\ Advance(Written(rom, offset, bytes))
        /\ edits' = Append(edits, edit) /\ mode' = mode /\ phase' = phase
    BY <1>4 DEF StageWrite
  <2> HIDE DEF before
  <2>5. edit \in Edit
    BY <2>1, <2>2 DEF Edit, ByteEdit
  <2>6. /\ edit.kind = "bytes" /\ edit.offset = offset
        /\ edit.before = before /\ edit.after = bytes
    OBVIOUS
  <2> HIDE DEF edit
  <2>7. CanApply(edit, rom) /\ Apply(edit, rom) = Written(rom, offset, bytes)
    BY <2>1, <2>2, <2>3, <2>6
    DEF CanApply, Apply, IsFixedSize, CanReplaceExact, Holds, InRange
  <2>8. /\ edits' \in Seq(Edit) /\ Len(edits') = Len(edits) + 1
        /\ edits'[Len(edits) + 1] = edit
        /\ \A i \in 1..Len(edits) : edits'[i] = edits[i]
    BY <1>0, <2>4, <2>5
  <2>9. applied = Len(edits)
    BY <2>4 DEF IInv
  <2> QED
    BY <1>0, <2>4, <2>5, <2>7, <2>8, <2>9, AdvanceIInv
<1>5. ASSUME NEW bytes \in Strings, StageAppend(bytes)
      PROVE  IInv'
  <2> DEFINE offset == Len(rom.cells)
             edit == [kind |-> "bytes", offset |-> offset,
                      before |-> <<>>, after |-> bytes]
  <2>1. /\ bytes \in Seq(Cell) /\ Len(bytes) \in Nat \ {0} /\ offset \in Nat
    BY <1>0, <1>5, BatchAssumption, EmptySeq DEF StageAppend
  <2>2. /\ phase = "running" /\ mode = "transaction"
        /\ Advance(TailReplaced(rom, offset, bytes))
        /\ edits' = Append(edits, edit) /\ mode' = mode /\ phase' = phase
    BY <1>5 DEF StageAppend
  <2>3. edit \in Edit
    <3>1. <<>> \in Seq(Cell)
      OBVIOUS
    <3> QED
      BY <2>1, <3>1 DEF Edit, ByteEdit
  <2>4. /\ edit.kind = "bytes" /\ edit.offset = offset
        /\ edit.before = <<>> /\ edit.after = bytes
    OBVIOUS
  <2>5. offset = Len(rom.cells) /\ Len(rom.cells) >= MinLen /\ MinLen \in Nat
    BY <1>0, ImageAssumption
  <2> HIDE DEF edit, offset
  <2>6. CanApply(edit, rom) /\ Apply(edit, rom) = TailReplaced(rom, offset, bytes)
    <3>1. Len(edit.before) = 0 /\ ~IsFixedSize(edit)
      BY <2>1, <2>4 DEF IsFixedSize
    <3>2. CanReplaceTail(rom, offset, <<>>, bytes)
      BY <2>1, <2>5 DEF CanReplaceTail, Holds, InRange
    <3> QED
      BY <2>4, <3>1, <3>2 DEF CanApply, Apply
  <2>7. /\ edits' \in Seq(Edit) /\ Len(edits') = Len(edits) + 1
        /\ edits'[Len(edits) + 1] = edit
        /\ \A i \in 1..Len(edits) : edits'[i] = edits[i]
    BY <1>0, <2>2, <2>3
  <2>8. applied = Len(edits)
    BY <2>2 DEF IInv
  <2> QED
    BY <1>0, <2>2, <2>3, <2>6, <2>7, <2>8, AdvanceIInv
<1>6. CASE RollBackEdit
  <2>1. /\ phase = "rolling" /\ applied > 0 /\ applied' = applied - 1
        /\ mode' = mode /\ edits' = edits /\ phase' = phase /\ trail' = trail
    BY <1>6 DEF RollBackEdit
  <2>2. /\ CanRevert(edits[applied], rom)
        /\ Revert(edits[applied], rom) = trail[applied]
    BY <1>0, <2>1 DEF IInv, TrailReverts
  <2>3. rom' = trail[applied]
    BY <1>6, <2>2 DEF RollBackEdit
  <2>4. trail[applied] \in ValidImage
    BY <1>0, <2>1 DEF IInv, TypeOK, Reached
  <2> QED
    BY <1>0, <2>1, <2>3, <2>4 DEF IInv, TypeOK, Phases, TrailReverts, TrailRuns,
      StoppedByMisfit, Reached
<1>7. CASE RolledBack
  BY <1>0, <1>7 DEF RolledBack, IInv, TypeOK, Phases, TrailReverts, TrailRuns,
      StoppedByMisfit, Reached
<1>8. CASE UNCHANGED vars
  BY <1>8 DEF vars, IInv, TypeOK, TrailReverts, TrailRuns, StoppedByMisfit,
      Reached
<1> QED
  BY <1>1, <1>2, <1>3, <1>4, <1>5, <1>6, <1>7, <1>8 DEF Next

LEMMA Invariant == Spec => []IInv
  BY InitIInv, NextIInv, PTL DEF Spec

-----------------------------------------------------------------------------
(* Every image a pass leaves behind is a valid one: no truncation below the  *)
(* minimum length, no range outside the image.                               *)
THEOREM TypeCorrect == Spec => []TypeOK
<1>1. IInv => TypeOK
  BY DEF IInv
<1> QED
  BY <1>1, Invariant, PTL

(* EditBatch::apply, EditBatch::revert and a dropped RomTransaction that     *)
(* fail leave the image as they found it.                                    *)
THEOREM FailureIsClean == Spec => []FailureRestoresImage
<1>1. IInv => FailureRestoresImage
  BY DEF IInv, FailureRestoresImage
<1> QED
  BY <1>1, Invariant, PTL

(* The errors the rollback ignores never happen. *)
THEOREM RollbackSucceeds == Spec => []RollbackNeverRefused
<1>1. IInv => RollbackNeverRefused
  BY DEF IInv, TypeOK, RollbackNeverRefused, TrailReverts
<1> QED
  BY <1>1, Invariant, PTL

(* What a finished pass hands to the history reverts exactly, edit by edit.  *)
THEOREM FinishedIsReversible == Spec => []FinishedPassIsReversible
<1>1. IInv => FinishedPassIsReversible
  BY DEF IInv, TypeOK, FinishedPassIsReversible, TrailReverts
<1> QED
  BY <1>1, Invariant, PTL

(* The loop with its rollback and the batch as a function agree, for every   *)
(* batch and every image.                                                    *)
THEOREM PassRunsBatch == Spec => []PassIsBatch
<1>1. IInv => PassIsBatch
  <2> SUFFICES ASSUME IInv
               PROVE  PassIsBatch
    OBVIOUS
  <2> DEFINE found == [i \in 0..Reached |-> trail[i + 1]]
  <2>1. /\ edits \in Seq(Edit) /\ Len(edits) \in Nat
        /\ Reached \in 0..Len(edits) /\ Reached \in Nat
    BY DEF IInv, TypeOK
  <2>2. found[0] = trail[1]
    BY <2>1
  <2>3. ASSUME NEW i \in 1..Reached
        PROVE  /\ CanApply(edits[i], found[i - 1])
               /\ found[i] = Apply(edits[i], found[i - 1])
    <3>1. i \in 0..Reached /\ i - 1 \in 0..Reached /\ (i - 1) + 1 = i
      BY <2>1
    <3>2. found[i - 1] = trail[i] /\ found[i] = trail[i + 1]
      BY <3>1
    <3> HIDE DEF found
    <3> QED
      BY <3>2 DEF IInv, TrailRuns
  <2>4. \A i \in 0..Reached : Images(edits, trail[1])[i] = trail[i + 1]
    <3>1. \A i \in 0..Reached : found[i] = trail[i + 1]
      OBVIOUS
    <3> HIDE DEF found
    <3>2. \A i \in 0..Reached : Images(edits, found[0])[i] = found[i]
      BY <2>1, <2>3, ImagesAreTheOnes
    <3> QED
      BY <2>2, <3>1, <3>2
  <2>5. ASSUME phase = "done"
        PROVE  /\ CanApplyBatch(edits, trail[1])
               /\ rom = ApplyBatch(edits, trail[1])
    <3>1. applied = Reached /\ Reached = Len(edits) /\ rom = trail[Reached + 1]
      BY <2>1, <2>5 DEF IInv
    <3>2. \A i \in 1..Reached : CanApply(edits[i], Images(edits, trail[1])[i - 1])
      <4> TAKE i \in 1..Reached
      <4>1. i - 1 \in 0..Reached /\ (i - 1) + 1 = i
        BY <2>1
      <4>2. Images(edits, trail[1])[i - 1] = trail[i]
        BY <2>4, <4>1
      <4> QED
        BY <4>2 DEF IInv, TrailRuns
    <3>3. Reached \in 0..Reached
      BY <2>1
    <3> QED
      BY <2>4, <3>1, <3>2, <3>3 DEF CanApplyBatch, ApplyBatch
  <2>6. ASSUME phase = "failed", mode # "transaction"
        PROVE  ~CanApplyBatch(edits, trail[1])
    <3>1. Reached + 1 \in 1..Len(edits) /\ Reached \in 0..Reached
          /\ (Reached + 1) - 1 = Reached
      BY <2>1, <2>6 DEF IInv, StoppedByMisfit
    <3>2. ~CanApply(edits[Reached + 1], Images(edits, trail[1])[(Reached + 1) - 1])
      BY <2>4, <2>6, <3>1 DEF IInv, StoppedByMisfit
    <3> QED
      BY <3>1, <3>2 DEF CanApplyBatch
  <2> QED
    BY <2>5, <2>6 DEF PassIsBatch
<1> QED
  BY <1>1, Invariant, PTL

=============================================================================
