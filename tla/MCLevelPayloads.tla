-------------------------- MODULE MCLevelPayloads --------------------------
(* A small image for LevelPayloads: five cells of the original game, a block *)
(* of another part of it, a block the original editor saved for one level,   *)
(* a reserved cell and, over two banks, room for three more blocks.          *)
EXTENDS LevelPayloads, TLC

CONSTANTS x, e, test, stock, text, spelling

MCTables == <<"layer1", "palette">>

\* The second looks like a block of its own and ends in a free-looking cell.
MCPayloads == {<<x>>, <<Tag(1), Fill>>}

\* The exits of one entry, its reset and none at all.
MCExitPlanes == {<<e>>, <<Fill>>, <<>>}

\* Where the clearing puts its marker and the owner of the test level.
MCOwners == (1 :> 1) @@ (3 :> 1)

\* Cells 0-4 the original area, 5-6 a foreign block, 7-8 an old palette.
MCOldImage ==
    [c \in 0 .. ImageLen - 1 |->
        CASE c = 4 -> test [] c \in {0, 1, 2, 3, 6} -> stock
          [] c \in {5, 7} -> Tag(1) [] c = 8 -> x
          [] OTHER -> Fill]

MCOldPointers ==
    ("layer1" :> [l \in Levels |-> [pc |-> IF l = Test THEN 4 ELSE 0, bank |-> "low"]])
    @@
    ("palette" :> [l \in Levels |-> IF l = 0 THEN Pointer(7, spelling) ELSE Null])

\* Every property is silent on what follows the loss of the test level's blocks.
TestLevelIsWhole == ~orphaned

=============================================================================
