------------------------------ MODULE RomImage ------------------------------
(* The editable ROM image of crates/lm-rom/src/image.rs and the reversible   *)
(* edits of crates/lm-project/src/history.rs, as operators without state.    *)
(*                                                                           *)
(* A cell stands for a run of ROM bytes that the edits never split, so a     *)
(* bank of 0x8000 bytes is MinLen cells.  The physical file is the optional  *)
(* 512-byte copier header followed by the logical bytes: two images have the *)
(* same file bytes and the same header state exactly when the records are    *)
(* equal.                                                                    *)
(*                                                                           *)
(* A definition named a mutant is the one after it with a plausible mistake: *)
(* nothing uses it; the properties are tried against it.                     *)
EXTENDS Integers, Sequences

CONSTANTS Cell,      \* values of a cell
          Header,    \* contents of a 512-byte copier header
          NoHeader,  \* CopierHeader::Absent
          MinLen     \* MINIMUM_ROM_LEN, in cells

ASSUME ImageAssumption == /\ NoHeader \notin Header
                          /\ MinLen \in Nat \ {0}

Image == [header : Header \cup {NoHeader}, cells : Seq(Cell)]

ValidImage == {img \in Image : Len(img.cells) >= MinLen}

-----------------------------------------------------------------------------
(* file_range: the logical range [offset, offset + len) lies in the image. *)
InRange(img, offset, len) == offset + len <= Len(img.cells)

Holds(img, offset, bytes) ==
  /\ InRange(img, offset, Len(bytes))
  /\ \A k \in 1..Len(bytes) : img.cells[offset + k] = bytes[k]

Written(img, offset, bytes) ==
  [img EXCEPT !.cells =
     [i \in 1..Len(img.cells) |->
        IF offset < i /\ i <= offset + Len(bytes)
          THEN bytes[i - offset]
          ELSE img.cells[i]]]

CanReplaceExact(img, offset, expected, replacement) ==
  /\ Len(expected) = Len(replacement)
  /\ Holds(img, offset, expected)

\* Mutant: any range holding the expected bytes is taken for the tail.
CanReplaceAnyRange(img, offset, expected, replacement) ==
  /\ Holds(img, offset, expected)
  /\ offset + Len(replacement) >= MinLen

\* The expected bytes must be the complete tail.
CanReplaceTail(img, offset, expected, replacement) ==
  /\ offset + Len(expected) = Len(img.cells)
  /\ Holds(img, offset, expected)
  /\ offset + Len(replacement) >= MinLen

TailReplaced(img, offset, replacement) ==
  [img EXCEPT !.cells =
     [i \in 1..(offset + Len(replacement)) |->
        IF i <= offset THEN img.cells[i] ELSE replacement[i - offset]]]

CanReplaceHeader(img, expected) == img.header = expected

HeaderReplaced(img, replacement) == [img EXCEPT !.header = replacement]

-----------------------------------------------------------------------------
(* One reversible edit of a batch: a fixed-size write, a resize of the       *)
(* logical tail, or the replacement of the copier header.  EditBatch keeps   *)
(* the header edit in a field of its own and runs it first on apply and last *)
(* on revert; a batch is here the sequence of its edits with that one first. *)
ByteEdit == [kind : {"bytes"}, offset : Nat,
             before : Seq(Cell), after : Seq(Cell)]

HeaderEdit == [kind : {"header"}, before : Header \cup {NoHeader},
                                  after : Header \cup {NoHeader}]

Edit == ByteEdit \cup HeaderEdit

IsFixedSize(edit) == Len(edit.before) = Len(edit.after)

CanApply(edit, img) ==
  \/ /\ edit.kind = "header"
     /\ CanReplaceHeader(img, edit.before)
  \/ /\ edit.kind = "bytes"
     /\ \/ /\ IsFixedSize(edit)
           /\ CanReplaceExact(img, edit.offset, edit.before, edit.after)
        \/ /\ ~IsFixedSize(edit)
           /\ CanReplaceTail(img, edit.offset, edit.before, edit.after)

Apply(edit, img) ==
  IF edit.kind = "header" THEN HeaderReplaced(img, edit.after)
  ELSE IF IsFixedSize(edit) THEN Written(img, edit.offset, edit.after)
  ELSE TailReplaced(img, edit.offset, edit.after)

\* Edit::revert is Edit::apply with the two byte strings exchanged.
Inverted(edit) == [edit EXCEPT !.before = edit.after, !.after = edit.before]

CanRevert(edit, img) == CanApply(Inverted(edit), img)

Revert(edit, img) == Apply(Inverted(edit), img)
=============================================================================
