--------------------------- MODULE LevelPayloads ---------------------------
(***************************************************************************)
(* The tagged payloads of a ROM and the level tables that point at them:   *)
(* the allocator of lm-rats, the grouped saves, the relocating saves and   *)
(* the reclamation of lm-project, and the deletion of levels, with the     *)
(* table of secondary exits it saves and the original area it may clear.   *)
(*                                                                         *)
(* A cell of the image stands for a run of bytes: a free cell holds Fill,  *)
(* a tag (the eight bytes STAR, size, complement) is one cell, and so is   *)
(* every unit of a payload.  A block is named by the cell of its tag.  The *)
(* first AreaLen cells are the original game's own data, in which only the *)
(* clearing puts tags.  Payloads may be identical, may hold free-looking   *)
(* cells and may hold what looks like a tag: the allocator works with      *)
(* nothing else.  One block stands for all the tagged planes of the exits. *)
(***************************************************************************)
EXTENDS Integers, Sequences

CONSTANTS LevelCount,    \* the slots of the level tables
          Test,          \* the slot deleted levels are redirected to ($19)
          CoreTables,    \* tables that always hold a pointer (layer 1, sprites)
          Layer1,        \* the one of them that tells the modified levels
          Tables,        \* every table, in the order a save stages them
          Payloads,      \* the encoded assets a save may store
          ExitPlanes,    \* what the tagged planes of the exits may hold
          Fill,          \* a free cell
          Null,          \* the empty entry of an optional table
          AreaLen,       \* the original area: the first 512 KiB
          ImageLen,
          BankSize,
          Protected,     \* cells reserved from the allocation of level assets
          Gaps,          \* cells of the area that are cleared
          Owners,        \* the tags the clearing writes there, with their sizes
          Marker,        \* the one of them that says the area is cleared
          MarkerText,    \* and the text it owns
          OldImage,      \* the image the project was opened with
          OldPointers,   \* what its tables hold
          OldExits       \* and the pointer to its secondary exits

VARIABLES rom,           \* what each cell of the image holds
          pointer,       \* pointer[table][level]
          exits,         \* the pointer to the planes of the secondary exits
          asked,         \* ghost: the asset each slot was last given
          exitsAsked,    \* ghost: the planes that were last saved
          orphaned       \* ghost: the test level lost blocks it points at

vars == <<rom, pointer, exits, asked, exitsAsked, orphaned>>

Levels == 0 .. LevelCount - 1
Cells == 0 .. ImageLen - 1
TableNames == {Tables[i] : i \in DOMAIN Tables}
Pointers == [pc : Nat, bank : {"low", "high"}]

\* What resetting entries makes of the planes: an unused end may go.
Resets(planes) ==
    {[i \in 1 .. n |-> IF i \in kept THEN planes[i] ELSE Fill] :
        n \in 0 .. Len(planes), kept \in SUBSET DOMAIN planes}

ASSUME LevelPayloadsAssumption ==
    /\ LevelCount \in Nat /\ Test \in Levels
    /\ Tables \in Seq(TableNames) /\ CoreTables \subseteq TableNames
    /\ Layer1 \in CoreTables
    /\ ImageLen \in Nat /\ AreaLen \in 1 .. ImageLen /\ BankSize \in Nat \ {0}
    /\ Null \notin Pointers
    /\ Protected \subseteq Cells
    /\ \A p \in Payloads : p \in Seq({p[i] : i \in DOMAIN p}) /\ p # <<>>
    /\ \A p \in ExitPlanes : /\ p \in Seq({p[i] : i \in DOMAIN p})
                             /\ Resets(p) \subseteq ExitPlanes
    /\ OldImage \in [Cells -> {OldImage[c] : c \in Cells}]
    /\ OldPointers \in [TableNames -> [Levels -> Pointers \cup {Null}]]

-----------------------------------------------------------------------------
(* Tags, blocks and pointers *)

Tag(n) == [size |-> n]

Tags == {Tag(n) : n \in 1 .. ImageLen}

\* parse_at: a tag is a block when its payload ends inside the image.
Parses(image, c) == image[c] \in Tags /\ c + image[c].size < ImageLen

Extent(image, b) == b .. b + image[b].size
Payload(image, b) == [i \in 1 .. image[b].size |-> image[b + i]]

\* scan: the payload of a block is skipped, so what looks like a tag inside
\* one is not a block.
Scan(image) ==
    LET from[c \in 0 .. ImageLen] ==
            IF c = ImageLen THEN {}
            ELSE IF Parses(image, c)
                 THEN {c} \cup from[c + 1 + image[c].size]
                 ELSE from[c + 1]
    IN  from[0]

\* What clearing the original area writes.
Overwritten == Gaps \cup DOMAIN Owners \cup {Marker + 1}

ASSUME ClearingAssumption ==
    /\ Overwritten \subseteq 0 .. AreaLen - 1
    /\ Marker \in DOMAIN Owners /\ Marker + 1 \notin DOMAIN Owners
    /\ \A c \in DOMAIN Owners : Owners[c] \in 1 .. AreaLen - 1 - c
    /\ MarkerText \notin Tags

\* No tag of the original area reaches beyond it.
AreaIsSound(image) ==
    \A c \in 0 .. AreaLen - 1 :
        Parses(image, c) => c + image[c].size < AreaLen

\* The image the project was opened with: free cells are no tags, an entry is
\* empty, points into the original area or at a block the scan finds, and so
\* does the pointer to the exits, at one no entry points at.
ASSUME ImageIsSound ==
    /\ Fill \notin Tags
    /\ AreaIsSound(OldImage)
    /\ \A t \in TableNames, l \in Levels :
          LET p == OldPointers[t][l]
          IN  p # Null => p.pc < AreaLen \/ p.pc - 1 \in Scan(OldImage)
    /\ OldExits # Null =>
          \E b \in Scan(OldImage) :
              /\ b >= AreaLen /\ OldExits = [pc |-> b + 1, bank |-> "low"]
              /\ Payload(OldImage, b) \in ExitPlanes
              /\ \A t \in TableNames, l \in Levels :
                    OldPointers[t][l] # Null => OldPointers[t][l].pc # b + 1

\* A pointer names the first payload cell.  Banks $00-$7D and $80-$FD show
\* the same bytes: the program writes the high one, the original editor the low.
Pointer(b, spelling) == [pc |-> b + 1, bank |-> spelling]
PcToSnes(b) == Pointer(b, "high")

\* load_tagged_at: the block whose payload starts exactly at the pointer.
Tagged(image, p) ==
    p.pc \in Cells /\ p.pc >= AreaLen /\ Parses(image, p.pc - 1)

Broken == <<"broken">>

\* What the game reads through an entry.
Resolve(image, p) ==
    IF p = Null THEN <<>>
    ELSE IF p.pc < AreaLen THEN <<image[p.pc]>>
    ELSE IF Tagged(image, p) THEN Payload(image, p.pc - 1)
    ELSE Broken

Erase(image, blocks) ==
    [c \in Cells |-> IF \E b \in blocks : c \in Extent(image, b)
                     THEN Fill ELSE image[c]]

-----------------------------------------------------------------------------
(* The allocator *)

\* Mutant: Reserved ranges are forgotten.
PermitsReserved(first, last, reserved) ==
    /\ first >= AreaLen /\ last < ImageLen
    /\ first \div BankSize = last \div BankSize

\* AllocationPolicy::permits_allocation over the cells first .. last.
Permits(first, last, reserved) ==
    /\ first >= AreaLen /\ last < ImageLen
    /\ first \div BankSize = last \div BankSize
    /\ \A c \in first .. last : c \notin reserved

\* Mutant: The scan is not asked: a cell that looks free is taken wherever it is.
FreeStartsUnscanned(image, n, reserved) ==
    {s \in AreaLen .. ImageLen - 1 - n :
        /\ Permits(s, s + n, reserved)
        /\ \A c \in s .. s + n : image[c] = Fill}

\* find_free_range: every start where a tag and n cells may go.
FreeStarts(image, n, reserved) ==
    LET occupied == UNION {Extent(image, b) : b \in Scan(image)}
    IN  {s \in AreaLen .. ImageLen - 1 - n :
            /\ Permits(s, s + n, reserved)
            /\ \A c \in s .. s + n : image[c] = Fill /\ c \notin occupied}

\* find_duplicate: a scanned block, wholly authorized, with the same bytes.
Duplicates(image, payload) ==
    {b \in Scan(image) : /\ Permits(b, b + image[b].size, Protected)
                         /\ Payload(image, b) = payload}

First(set) == CHOOSE x \in set : \A y \in set : x <= y

\* FreeSpaceAllocator::allocate
WriteBlock(image, b, payload) ==
    [c \in Cells |-> IF c = b THEN Tag(Len(payload))
                     ELSE IF c \in b + 1 .. b + Len(payload) THEN payload[c - b]
                     ELSE image[c]]

\* stage_request: an identical block is reused, if the request allows it,
\* otherwise a new one is allocated; the previous block is left alone (copy on
\* write).
StageRequest(staged, payload, t, l, reuse) ==
    LET same  == IF reuse THEN Duplicates(staged.rom, payload) ELSE {}
        free  == FreeStarts(staged.rom, Len(payload), Protected)
        block == IF same # {} THEN First(same) ELSE First(free)
    IN  IF ~staged.fits \/ (same = {} /\ free = {})
        THEN [staged EXCEPT !.fits = FALSE]
        ELSE [rom     |-> IF same # {} THEN staged.rom
                          ELSE WriteBlock(staged.rom, block, payload),
              pointer |-> [staged.pointer EXCEPT ![t][l] = PcToSnes(block)],
              results |-> staged.results \cup {block},
              fits    |-> TRUE]

\* The requests of one save, staged one after the other on a copy.
Staged(l, requests, reuse) ==
    LET after[i \in 0 .. Len(Tables)] ==
            IF i = 0
            THEN [rom |-> rom, pointer |-> pointer, results |-> {}, fits |-> TRUE]
            ELSE IF Tables[i] \in DOMAIN requests
                 THEN StageRequest(after[i - 1], requests[Tables[i]], Tables[i], l, reuse)
                 ELSE after[i - 1]
    IN  after[Len(Tables)]

-----------------------------------------------------------------------------
(* The saves of a project *)

Slots == TableNames \X Levels

\* The blocks some slot of the given set points at, whatever the spelling.
Referenced(image, tables, slots) ==
    {tables[s[1]][s[2]].pc - 1 :
        s \in {x \in slots : /\ tables[x[1]][x[2]] # Null
                             /\ Tagged(image, tables[x[1]][x[2]])}}

ExitsBlock(p) == IF p = Null THEN {} ELSE {p.pc - 1}

Requests == UNION {[group -> Payloads] : group \in SUBSET TableNames \ {{}}}

Answer(l, requests) ==
    asked' = [t \in TableNames |->
                [asked[t] EXCEPT ![l] = IF t \in DOMAIN requests
                                        THEN requests[t] ELSE @]]

\* save_tagged_payloads: all the assets of one save or none of them.
SavePayloads(l, requests, reuse) ==
    LET staged == Staged(l, requests, reuse)
    IN  /\ staged.fits
        /\ rom' = staged.rom
        /\ pointer' = staged.pointer
        /\ Answer(l, requests)
        /\ UNCHANGED <<exits, exitsAsked, orphaned>>

\* The blocks beyond the original area that no level table and no exit has
\* pointed at from the start.
Foreign == {b \in Scan(OldImage) :
               /\ b >= AreaLen /\ b \notin ExitsBlock(OldExits)
               /\ \A s \in Slots : LET p == OldPointers[s[1]][s[2]]
                                   IN  p # Null => p.pc # b + 1}

\* What a truthful manifest may own: the levels' blocks.
Own == {b \in Scan(rom) : b >= AreaLen} \ (Foreign \cup ExitsBlock(exits))

\* The manifest is the user's.  A truthful one owns the previous blocks of
\* the save that are the levels' own and retains those that slots outside the
\* save still point at;
\* prepare_relocation refuses when that leaves any previous block retained.
\* A previous block that the save itself reused is not erased.
RelocatePayloads(l, requests, reuse) ==
    LET staged    == Staged(l, requests, reuse)
        rewritten == (DOMAIN requests) \X {l}
        previous  == Referenced(rom, pointer, rewritten)
    IN  /\ previous # {}
        /\ previous \subseteq Own \ Referenced(rom, pointer, Slots \ rewritten)
        /\ staged.fits
        /\ rom' = Erase(staged.rom, previous \ staged.results)
        /\ pointer' = staged.pointer
        /\ Answer(l, requests)
        /\ UNCHANGED <<exits, exitsAsked, orphaned>>

\* reclaim_owned_rats with a truthful manifest: an empty plan changes nothing.
ReclaimOwned(owned) ==
    LET reclaimed == owned \ Referenced(rom, pointer, Slots)
    IN  /\ reclaimed # {}
        /\ rom' = Erase(rom, reclaimed)
        /\ UNCHANGED <<pointer, exits, asked, exitsAsked, orphaned>>

\* save_installed_secondary_exit_table_inner: the old planes are erased first,
\* the new ones take the first free cells whatever is identical or reserved,
\* and with none in use the pointer is empty.
SavedExits(image, p, planes) ==
    LET without == Erase(image, ExitsBlock(p))
        free    == FreeStarts(without, Len(planes), {})
    IN  IF planes = <<>> THEN [rom |-> without, exits |-> Null, fits |-> TRUE]
        ELSE IF free = {} THEN [rom |-> image, exits |-> p, fits |-> FALSE]
        ELSE [rom   |-> WriteBlock(without, First(free), planes),
              exits |-> Pointer(First(free), "low"),
              fits  |-> TRUE]

\* erase accepts only a block that is there.
ExitsAreTagged(image) == exits # Null => Tagged(image, exits)

\* A changed table; where nothing is used any more the planes end.
SaveExits(planes) ==
    LET saved == SavedExits(rom, exits, planes)
    IN  /\ ExitsAreTagged(rom)
        /\ planes # <<>> => planes[Len(planes)] # Fill
        /\ saved.fits
        /\ rom' = saved.rom
        /\ exits' = saved.exits
        /\ exitsAsked' = planes
        /\ UNCHANGED <<pointer, asked, orphaned>>

-----------------------------------------------------------------------------
(* The deletion of levels *)

\* Mutant: The table of the deleted level's own kind is not asked.
IsSharedElsewhere(tables, b, l) ==
    \E t \in TableNames \ CoreTables : \E k \in Levels \ {l} :
        tables[t][k] = PcToSnes(b)

\* Mutant: The deleted level itself counts as another user.
IsSharedByAnyone(tables, b, l) ==
    \E t \in TableNames : \E k \in Levels : tables[t][k] = PcToSnes(b)

\* native_asset_pointer_is_shared: does any other slot hold this pointer?
IsShared(tables, b, l) ==
    \E t \in TableNames : \E k \in Levels \ {l} : tables[t][k] = PcToSnes(b)

\* The blocks deleting the level takes with it.
Reclaimable(image, tables, l) ==
    {b \in Referenced(image, tables, TableNames \X {l}) : ~IsShared(tables, b, l)}

\* Every entry of the level becomes the test level's.
Redirected(tables, l) ==
    [t \in TableNames |-> [tables[t] EXCEPT ![l] = tables[t][Test]]]

\* delete_native_level_assets_to_original_source.  The test level may be
\* deleted too: its entries become what they are, but its blocks go.
DeleteLevel(s, l) ==
    LET gone == Reclaimable(s.rom, s.pointer, l)
    IN  [rom      |-> Erase(s.rom, gone),
         pointer  |-> Redirected(s.pointer, l),
         asked    |-> Redirected(s.asked, l),
         orphaned |-> s.orphaned \/ (l = Test /\ gone # {})]

\* The levels of a command, in ascending order.
Deleted(levels) ==
    LET after[i \in 0 .. LevelCount] ==
            IF i = 0
            THEN [rom |-> rom, pointer |-> pointer, asked |-> asked, orphaned |-> orphaned]
            ELSE IF i - 1 \in levels THEN DeleteLevel(after[i - 1], i - 1)
                 ELSE after[i - 1]
    IN  after[LevelCount]

IsCleared(image) ==
    image[Marker] = Tag(Owners[Marker]) /\ image[Marker + 1] = MarkerText

\* clear_original_level_data_area, once
ClearArea(image) ==
    IF IsCleared(image) THEN image
    ELSE [c \in Cells |-> IF c \in DOMAIN Owners THEN Tag(Owners[c])
                          ELSE IF c = Marker + 1 THEN MarkerText
                          ELSE IF c \in Gaps THEN Fill
                          ELSE image[c]]

\* Entries that are left pointing at what clearing overwrites.
ReadsOverwritten(p) == p # Null /\ p.pc \in Overwritten

Unused(planes) == \A i \in DOMAIN planes : planes[i] = Fill

\* delete_levels, and with one level delete_current_level.  The exits that
\* lead to the levels are reset and the planes packed anew, or all exits are
\* reset: an unused table is then not saved again.  Layer 1 alone says which
\* levels are not modified.
DeleteLevels(levels) ==
    LET deleted    == Deleted(levels)
        held       == Resolve(deleted.rom, exits)
        unmodified == {k \in Levels : pointer[Layer1][k].pc < AreaLen}
    IN  /\ levels # {}
        /\ \A t \in CoreTables : pointer[t][Test].pc < AreaLen
        /\ pointer' = deleted.pointer
        /\ orphaned' = deleted.orphaned
        /\ ExitsAreTagged(deleted.rom)
        /\ \E clear \in BOOLEAN, planes \in Resets(held) :
              LET emptied == clear \/ unmodified \subseteq levels
                  kept    == emptied /\ planes # <<>>
                  saved   == IF kept
                             THEN [rom |-> deleted.rom, exits |-> exits, fits |-> TRUE]
                             ELSE SavedExits(deleted.rom, exits, planes)
              IN  /\ kept => planes = held /\ Unused(planes)
                  /\ saved.fits
                  /\ rom' = IF clear THEN ClearArea(saved.rom) ELSE saved.rom
                  /\ exits' = saved.exits
                  /\ exitsAsked' = planes
                  /\ asked' = [t \in TableNames |-> [l \in Levels |->
                                  IF clear /\ ReadsOverwritten(pointer'[t][l])
                                  THEN Resolve(rom', pointer'[t][l])
                                  ELSE deleted.asked[t][l]]]

Init ==
    /\ rom = OldImage
    /\ pointer = OldPointers
    /\ exits = OldExits
    /\ asked = [t \in TableNames |-> [l \in Levels |->
                    Resolve(OldImage, OldPointers[t][l])]]
    /\ exitsAsked = Resolve(OldImage, OldExits)
    /\ orphaned = FALSE

Next ==
    \/ \E l \in Levels, requests \in Requests, reuse \in BOOLEAN :
          \/ SavePayloads(l, requests, reuse)
          \/ RelocatePayloads(l, requests, reuse)
    \/ \E owned \in SUBSET Own : ReclaimOwned(owned)
    \/ \E planes \in ExitPlanes : SaveExits(planes)
    \/ \E levels \in SUBSET Levels : DeleteLevels(levels)

Spec == Init /\ [][Next]_vars

-----------------------------------------------------------------------------
(* Properties *)

\* What the game reads through every entry of every table, and through the
\* pointer to the exits, is what it was last given by a save or a deletion,
\* although identical assets share a block, displaced blocks stay behind and
\* the blocks of deleted levels are erased - until the test level is deleted
\* while a block is its own (stage_request, stage_reclamation,
\* delete_native_level_assets_..., save_installed_secondary_exit_table_inner).
ServedAsAsked ==
    \/ orphaned
    \/ /\ \A s \in Slots : Resolve(rom, pointer[s[1]][s[2]]) = asked[s[1]][s[2]]
       /\ Resolve(rom, exits) = exitsAsked

\* A block that an entry or the exits point at is one the scan finds, so that
\* no later allocation can take its cells however free they look, whatever
\* tags the clearing has put before it: load_tagged_at reads the tag before
\* the pointer, scan counts blocks from the start of the image.
LiveIsScanned ==
    \/ orphaned
    \/ Referenced(rom, pointer, Slots) \cup ExitsBlock(exits) \subseteq Scan(rom)

\* A step changes only cells that were free or belonged to a block no entry
\* points at afterwards, never a block of some other part of the game; a
\* reserved cell only for the exits, and the original area only where and to
\* what clear_original_level_data_area writes.
ForeignIsKept ==
    [][orphaned' \/ \A c \in {x \in Cells : rom'[x] # rom[x]} :
          /\ \A b \in Foreign : c \notin Extent(OldImage, b)
          /\ IF c < AreaLen
             THEN c \in Overwritten /\ rom'[c] = ClearArea(rom)[c]
             ELSE \/ rom[c] = Fill
                  \/ \E b \in Scan(rom) : /\ b >= AreaLen /\ c \in Extent(rom, b)
                                          /\ b \notin Referenced(rom, pointer, Slots)'
          /\ c >= AreaLen /\ c \in Protected =>
                \/ \E b \in ExitsBlock(exits) : c \in Extent(rom, b)
                \/ \E b \in ExitsBlock(exits)' : c \in Extent(rom', b)]_vars

\* Deleting levels frees every block that only they used: nothing of it is
\* left in the image but what the planes of the exits are packed over.  A
\* block of the test level is freed when that level alone is deleted
\* (delete_native_level_assets_to_original_source, delete_levels).
DeletionFrees ==
    [][\A levels \in SUBSET Levels : ~orphaned /\ DeleteLevels(levels) =>
          \A b \in Referenced(rom, pointer, TableNames \X levels)
                     \ Referenced(rom, pointer, TableNames \X (Levels \ levels)) :
              levels = {Test} \/ b \notin Referenced(rom, pointer, TableNames \X {Test}) =>
                  \A c \in Extent(rom, b) :
                      \/ rom'[c] = Fill
                      \/ \E d \in ExitsBlock(exits)' : c \in Extent(rom', d)]_vars

\* Deleting levels never changes what another level reads, unless it reads
\* from what the area is cleared of: "every displaced tagged payload is
\* reclaimed only after all participating pointer tables prove that no other
\* level retains it" (level_delete.rs).
OthersAreRetained ==
    [][\A levels \in SUBSET Levels : DeleteLevels(levels) =>
          orphaned' \/ \A t \in TableNames, k \in Levels \ levels :
              \/ ReadsOverwritten(pointer[t][k])
              \/ Resolve(rom', pointer'[t][k]) = Resolve(rom, pointer[t][k])]_vars

=============================================================================
