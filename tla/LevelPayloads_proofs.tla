------------------------ MODULE LevelPayloads_proofs ------------------------
(***************************************************************************)
(* Payloads of a ROM, proved from the definitions for every set of levels, *)
(* tables, payloads and exits planes, for every sound image, and whatever  *)
(* a deletion clears the original area to.  Only a deletion that takes a   *)
(* block of the test level's own ends what is proved (orphaned).           *)
(*                                                                         *)
(* Scan and Staged are recursive functions.  What they compute is proved   *)
(* by the least counterexample: a recursion has a solution because one on  *)
(* a shorter range can be extended, and a scan is the only set of blocks   *)
(* that lie one behind the other and cover all that looks like a block.    *)
(* From there every operation is the same moves: free cells are written,   *)
(* blocks no remaining entry points at are erased, and the area is cleared *)
(* without a tag that reaches out of it (Moved, Moves).                    *)
(***************************************************************************)
EXTENDS LevelPayloads, TLAPS, WellFoundedInduction, NaturalsInduction

-----------------------------------------------------------------------------
(* Induction and the scan *)

\* Every nonempty set of numbers has a least one: induction over cells and
\* steps is done by the least counterexample.
LEMMA LeastNumber ==
    ASSUME NEW T, T \subseteq Nat, T # {}
    PROVE  \E n \in T : \A k \in T : n <= k
<1> DEFINE R == OpToRel(<, Nat)
<1>1. IsWellFoundedOn(R, Nat)
  BY NatLessThanWellFounded
<1>2. \A n, k \in Nat : k < n => <<k, n>> \in R
  BY Zenon DEF OpToRel
<1> HIDE DEF R
<1>3. PICK n \in T : \A k \in T : ~(<<k, n>> \in R)
  BY <1>1, WFMin
<1>4. ASSUME NEW k \in T PROVE n <= k
  <2>1. n \in Nat /\ k \in Nat
    OBVIOUS
  <2>2. ~(k < n)
    BY <1>2, <1>3, <2>1, Zenon
  <2> QED
    BY <2>1, <2>2
<1> QED
  BY <1>4

\* The same downwards, below a bound.
LEMMA GreatestNumber ==
    ASSUME NEW n \in Nat, NEW T, T \subseteq 0 .. n, T # {}
    PROVE  \E m \in T : \A k \in T : k <= m
<1> DEFINE U == {k \in 0 .. n : n - k \in T}
<1>1. U \subseteq Nat /\ U # {}
  <2>1. PICK k \in T : TRUE
    OBVIOUS
  <2>2. k \in 0 .. n
    OBVIOUS
  <2>3. n - k \in 0 .. n /\ n - (n - k) = k
    BY <2>2
  <2>4. n - k \in U
    BY <2>3
  <2>5. U \subseteq Nat
    OBVIOUS
  <2> QED
    BY <2>4, <2>5
<1>2. PICK u \in U : \A k \in U : u <= k
  BY <1>1, LeastNumber
<1>3. ASSUME NEW k \in T PROVE k <= n - u
  <2>1. k \in 0 .. n /\ n - k \in 0 .. n /\ n - (n - k) = k
    OBVIOUS
  <2>2. u <= n - k
    BY <1>2, <2>1
  <2> QED
    BY <2>1, <2>2
<1> QED
  BY <1>2, <1>3

\* A block in the image: where it lies.
LEMMA ParsesFacts ==
    ASSUME NEW image, NEW b \in Nat, Parses(image, b)
    PROVE  /\ image[b] \in Tags
           /\ image[b].size \in 1 .. ImageLen
           /\ b + image[b].size < ImageLen
           /\ b \in Cells
           /\ Extent(image, b) = b .. b + image[b].size
           /\ Extent(image, b) \subseteq Cells
<1>1. ImageLen \in Nat
  BY LevelPayloadsAssumption DEF LevelPayloadsAssumption
<1>2. PICK n \in 1 .. ImageLen : image[b] = Tag(n)
  BY DEF Parses, Tags
<1>3. image[b].size = n
  BY <1>2 DEF Tag
<1> QED
  BY <1>1, <1>2, <1>3 DEF Extent, Cells, Parses, Tags

\* What the recursion of Scan computes, from any cell to the end of the image.
ScanFrom(image) ==
    CHOOSE from : from = [c \in 0 .. ImageLen |->
        IF c = ImageLen THEN {}
        ELSE IF Parses(image, c)
             THEN {c} \cup from[c + 1 + image[c].size]
             ELSE from[c + 1]]

\* The name of that function.
LEMMA ScanIsFrom == ASSUME NEW image PROVE Scan(image) = ScanFrom(image)[0]
  BY Zenon DEF Scan, ScanFrom

\* Such a function exists, so the recursion of Scan is what it says.
LEMMA ScanRecursion ==
    ASSUME NEW image
    PROVE  ScanFrom(image) = [c \in 0 .. ImageLen |->
               IF c = ImageLen THEN {}
               ELSE IF Parses(image, c)
                    THEN {c} \cup ScanFrom(image)[c + 1 + image[c].size]
                    ELSE ScanFrom(image)[c + 1]]
<1> DEFINE Found(g, c) == IF c = ImageLen THEN {}
                          ELSE IF Parses(image, c)
                               THEN {c} \cup g[c + 1 + image[c].size]
                               ELSE g[c + 1]
           Solves(g, k) == g = [c \in k .. ImageLen |-> Found(g, c)]
           Unsolved == {k \in 0 .. ImageLen : ~ \E g : Solves(g, k)}
<1>1. ImageLen \in Nat
  BY LevelPayloadsAssumption DEF LevelPayloadsAssumption
<1>2. ASSUME NEW c \in 0 .. ImageLen, c # ImageLen, Parses(image, c)
      PROVE  c + 1 + image[c].size \in c + 1 .. ImageLen
  <2>1. image[c].size \in 1 .. ImageLen /\ c + image[c].size < ImageLen
    BY <1>1, <1>2, ParsesFacts
  <2> QED
    BY <1>1, <2>1
<1>3. ASSUME NEW m \in Unsolved, \A k \in Unsolved : k <= m
      PROVE  FALSE
  <2>1. m \in 0 .. ImageLen /\ ~ \E g : Solves(g, m)
    BY DEF Unsolved
  <2>2. m # ImageLen
    <3> DEFINE e == [c \in ImageLen .. ImageLen |-> {}]
    <3>1. \A c \in ImageLen .. ImageLen : c = ImageLen
      BY <1>1
    <3>2. \A c \in ImageLen .. ImageLen : Found(e, c) = {}
      BY <3>1
    <3>3. Solves(e, ImageLen)
      BY <3>2
    <3> QED
      BY <2>1, <3>3
  <2>3. m + 1 \in 0 .. ImageLen /\ m + 1 \notin Unsolved
    <3>1. m + 1 \in 0 .. ImageLen /\ ~(m + 1 <= m)
      BY <1>1, <2>1, <2>2
    <3> HIDE DEF Unsolved
    <3> QED
      BY <1>3, <3>1
  <2>4. PICK g : Solves(g, m + 1)
    BY <2>3
  <2> DEFINE h == [c \in m .. ImageLen |-> IF c = m THEN Found(g, m) ELSE g[c]]
  <2>5. ASSUME NEW c \in m .. ImageLen
        PROVE  Found(g, c) = Found(h, c)
    <3>1. CASE c = ImageLen
      BY <3>1
    <3>2. CASE c # ImageLen /\ Parses(image, c)
      <4>1. c + 1 + image[c].size \in c + 1 .. ImageLen
        BY <1>1, <1>2, <2>1, <3>2
      <4>2. h[c + 1 + image[c].size] = g[c + 1 + image[c].size]
        BY <1>1, <2>1, <4>1
      <4> HIDE DEF h
      <4> QED
        BY <3>2, <4>2
    <3>3. CASE c # ImageLen /\ ~Parses(image, c)
      <4>1. h[c + 1] = g[c + 1]
        BY <1>1, <2>1, <3>3
      <4> HIDE DEF h
      <4> QED
        BY <3>3, <4>1
    <3> QED
      BY <3>1, <3>2, <3>3
  <2>6. ASSUME NEW c \in m .. ImageLen
        PROVE  h[c] = Found(g, c)
    <3>1. CASE c = m
      BY <3>1
    <3>2. CASE c # m
      <4>1. c \in m + 1 .. ImageLen
        BY <1>1, <2>1, <3>2
      <4>2. g[c] = Found(g, c)
        <5> HIDE DEF Found
        <5> QED BY <2>4, <4>1
      <4>3. h[c] = g[c]
        BY <3>2
      <4> QED
        BY <4>2, <4>3
    <3> QED
      BY <3>1, <3>2
  <2>7. Solves(h, m)
    <3>1. h = [c \in m .. ImageLen |-> h[c]]
      OBVIOUS
    <3> HIDE DEF h, Found
    <3>2. \A c \in m .. ImageLen : h[c] = Found(h, c)
      BY <2>5, <2>6
    <3> QED
      BY <3>1, <3>2
  <2> QED
    BY <2>1, <2>7
<1>4. Unsolved = {}
  <2> HIDE DEF Solves
  <2>1. Unsolved \subseteq 0 .. ImageLen
    OBVIOUS
  <2> QED
    BY <1>1, <1>3, <2>1, GreatestNumber
<1>5. \E g : Solves(g, 0)
  <2> HIDE DEF Solves
  <2> QED
    BY <1>1, <1>4
<1> QED
  BY <1>5, Zenon DEF ScanFrom

\* The blocks from cell k on, without the recursion: they parse, they lie one
\* behind the other, and everything that looks like a block is in one of them.
IsScan(image, k, blocks) ==
    /\ blocks \subseteq {b \in k .. ImageLen - 1 : Parses(image, b)}
    /\ \A b, d \in blocks : b < d => b + image[b].size < d
    /\ \A c \in k .. ImageLen - 1 : Parses(image, c) =>
          \E b \in blocks : b <= c /\ c <= b + image[b].size

\* The recursion computes such blocks at every cell.
LEMMA ScanFromIsScan ==
    ASSUME NEW image, NEW k \in 0 .. ImageLen
    PROVE  IsScan(image, k, ScanFrom(image)[k])
<1> DEFINE F == ScanFrom(image)
           Wrong == {c \in 0 .. ImageLen : ~IsScan(image, c, F[c])}
<1>1. ImageLen \in Nat
  BY LevelPayloadsAssumption DEF LevelPayloadsAssumption
<1>2. \A c \in 0 .. ImageLen :
          F[c] = IF c = ImageLen THEN {}
                 ELSE IF Parses(image, c)
                      THEN {c} \cup F[c + 1 + image[c].size]
                      ELSE F[c + 1]
  BY ScanRecursion, Zenon
<1> HIDE DEF F
<1>3. ASSUME NEW m \in Wrong, \A c \in Wrong : c <= m
      PROVE  FALSE
  <2>1. m \in 0 .. ImageLen /\ ~IsScan(image, m, F[m])
    OBVIOUS
  <2>2. \A c \in m + 1 .. ImageLen : IsScan(image, c, F[c])
    <3> SUFFICES ASSUME NEW c \in m + 1 .. ImageLen, c \in Wrong PROVE FALSE
      BY <1>1, <2>1
    <3> HIDE DEF Wrong
    <3> QED
      BY <1>1, <1>3, <2>1
  <2>3. CASE m = ImageLen
    <3>1. F[m] = {}
      BY <1>2, <2>1, <2>3
    <3> QED
      BY <1>1, <2>1, <2>3, <3>1 DEF IsScan
  <2>4. CASE m # ImageLen /\ ~Parses(image, m)
    <3>1. m + 1 \in m + 1 .. ImageLen
      BY <1>1, <2>1, <2>4
    <3>2. F[m] = F[m + 1]
      BY <1>2, <2>1, <2>4
    <3>3. IsScan(image, m + 1, F[m])
      BY <2>2, <3>1, <3>2
    <3> QED
      BY <1>1, <2>1, <2>4, <3>3 DEF IsScan
  <2>5. CASE m # ImageLen /\ Parses(image, m)
    <3> DEFINE n == m + 1 + image[m].size
    <3>1. image[m].size \in 1 .. ImageLen /\ m + image[m].size < ImageLen
      BY <1>1, <2>1, <2>5, ParsesFacts
    <3>2. n \in m + 1 .. ImageLen
      BY <1>1, <2>1, <3>1
    <3>3. IsScan(image, n, F[n])
      BY <2>2, <3>2
    <3>4. F[m] = {m} \cup F[n]
      BY <1>2, <2>1, <2>5
    <3>5. F[m] \subseteq {b \in m .. ImageLen - 1 : Parses(image, b)}
      BY <1>1, <2>1, <2>5, <3>1, <3>3, <3>4 DEF IsScan
    <3>6. ASSUME NEW b \in F[m], NEW d \in F[m], b < d
          PROVE  b + image[b].size < d
      <4>1. CASE b \in F[n] /\ d \in F[n]
        BY <3>3, <3>6, <4>1 DEF IsScan
      <4>2. CASE b = m /\ d \in F[n]
        <5>1. d \in n .. ImageLen - 1
          BY <3>3, <4>2 DEF IsScan
        <5> QED
          BY <1>1, <2>1, <3>1, <4>2, <5>1
      <4>3. CASE d = m
        <5>1. b \in m .. ImageLen - 1
          BY <3>5
        <5> QED
          BY <1>1, <2>1, <3>6, <4>3, <5>1
      <4> QED
        BY <3>4, <4>1, <4>2, <4>3
    <3>7. ASSUME NEW c \in m .. ImageLen - 1, Parses(image, c)
          PROVE  \E b \in F[m] : b <= c /\ c <= b + image[b].size
      <4>1. CASE c < n
        BY <1>1, <2>1, <3>1, <3>4, <4>1
      <4>2. CASE c >= n
        <5>1. c \in n .. ImageLen - 1
          BY <1>1, <2>1, <3>2, <4>2
        <5> QED
          BY <3>3, <3>4, <3>7, <5>1 DEF IsScan
      <4> QED
        BY <1>1, <2>1, <3>1, <4>1, <4>2
    <3> QED
      BY <2>1, <3>5, <3>6, <3>7 DEF IsScan
  <2> QED
    BY <2>3, <2>4, <2>5
<1>4. Wrong = {}
  <2>1. Wrong \subseteq 0 .. ImageLen
    OBVIOUS
  <2> HIDE DEF Wrong
  <2> QED
    BY <1>1, <1>3, <2>1, GreatestNumber
<1> QED
  BY <1>4 DEF F

\* The scan itself.
LEMMA ScanIsScan ==
    ASSUME NEW image
    PROVE  IsScan(image, 0, Scan(image))
<1>1. ImageLen \in Nat
  BY LevelPayloadsAssumption DEF LevelPayloadsAssumption
<1> QED
  BY <1>1, ScanFromIsScan, ScanIsFrom

\* And there is only one such set: two of them agree at the first cell where
\* they might differ.
LEMMA ScanIsUnique ==
    ASSUME NEW image, NEW blocks, IsScan(image, 0, blocks)
    PROVE  blocks = Scan(image)
<1> DEFINE B == Scan(image)
           Differ == {c \in 0 .. ImageLen - 1 : c \in blocks <=> c \notin B}
<1>1. ImageLen \in Nat /\ IsScan(image, 0, B)
  BY ScanIsScan, LevelPayloadsAssumption DEF LevelPayloadsAssumption
<1> HIDE DEF B
<1>2. ASSUME NEW G, NEW H, IsScan(image, 0, G), IsScan(image, 0, H),
             NEW c \in G, c \notin H,
             \A d \in 0 .. ImageLen - 1 : d < c => (d \in G <=> d \in H)
      PROVE  FALSE
  <2>1. c \in 0 .. ImageLen - 1 /\ Parses(image, c)
    BY <1>2 DEF IsScan
  <2>2. PICK d \in H : d <= c /\ c <= d + image[d].size
    BY <1>2, <2>1 DEF IsScan
  <2>3. d \in 0 .. ImageLen - 1 /\ d # c
    BY <1>2, <2>2 DEF IsScan
  <2>4. d < c /\ d \in G
    BY <1>1, <1>2, <2>1, <2>2, <2>3
  <2>5. d + image[d].size < c
    BY <1>2, <2>4 DEF IsScan
  <2>6. image[d].size \in 1 .. ImageLen
    <3>1. d \in Nat /\ Parses(image, d)
      BY <1>1, <1>2, <2>2, <2>3 DEF IsScan
    <3> QED
      BY <3>1, ParsesFacts
  <2> QED
    BY <1>1, <2>1, <2>2, <2>3, <2>5, <2>6
<1>3. ASSUME NEW m \in Differ, \A c \in Differ : m <= c
      PROVE  FALSE
  <2>1. \A d \in 0 .. ImageLen - 1 : d < m => (d \in blocks <=> d \in B)
    BY <1>1, <1>3
  <2>2. \/ m \in blocks /\ m \notin B
        \/ m \in B /\ m \notin blocks
    OBVIOUS
  <2> QED
    BY <1>1, <1>2, <2>1, <2>2
<1>4. Differ = {}
  <2>1. Differ \subseteq Nat
    BY <1>1
  <2> HIDE DEF Differ
  <2> QED
    BY <1>3, <2>1, LeastNumber
<1>5. blocks \subseteq 0 .. ImageLen - 1 /\ B \subseteq 0 .. ImageLen - 1
  BY <1>1 DEF IsScan
<1> QED
  BY <1>4, <1>5 DEF B

-----------------------------------------------------------------------------
(* Blocks: what an image holds, and erasing them *)

\* What the scan finds: blocks inside the image.
LEMMA ScannedFacts ==
    ASSUME NEW image, NEW b \in Scan(image)
    PROVE  /\ b \in Nat /\ b \in Cells /\ Parses(image, b)
           /\ image[b] \in Tags
           /\ image[b].size \in 1 .. ImageLen
           /\ b + image[b].size < ImageLen
           /\ Extent(image, b) = b .. b + image[b].size
           /\ Extent(image, b) \subseteq Cells
           /\ b \in Extent(image, b)
<1>1. ImageLen \in Nat
  BY LevelPayloadsAssumption DEF LevelPayloadsAssumption
<1>2. b \in 0 .. ImageLen - 1 /\ Parses(image, b)
  BY ScanIsScan DEF IsScan
<1>3. b \in Nat
  BY <1>1, <1>2
<1>4. b \in b .. b + image[b].size
  BY <1>2, <1>3, ParsesFacts
<1> QED
  BY <1>2, <1>3, <1>4, ParsesFacts

\* No cell is in two blocks.
LEMMA BlocksAreDisjoint ==
    ASSUME NEW image, NEW b \in Scan(image), NEW d \in Scan(image),
           NEW c \in Extent(image, b), c \in Extent(image, d)
    PROVE  b = d
<1>1. /\ b \in Nat /\ image[b].size \in Nat /\ c \in b .. b + image[b].size
      /\ d \in Nat /\ image[d].size \in Nat /\ c \in d .. d + image[d].size
  <2>1. \A a \in Scan(image) : /\ a \in Nat /\ image[a].size \in 1 .. ImageLen
                               /\ Extent(image, a) = a .. a + image[a].size
    BY ScannedFacts
  <2> QED
    BY <2>1
<1>2. /\ b < d => b + image[b].size < d
      /\ d < b => d + image[d].size < b
  BY ScanIsScan DEF IsScan
<1> QED
  BY <1>1, <1>2

\* What looks like a block lies in one.
LEMMA LookalikeIsInside ==
    ASSUME NEW image, NEW c \in Cells, Parses(image, c)
    PROVE  \E b \in Scan(image) : c \in Extent(image, b)
<1>1. PICK b \in Scan(image) : b <= c /\ c <= b + image[b].size
  BY ScanIsScan DEF IsScan, Cells
<1>2. /\ b \in Nat /\ image[b].size \in Nat
      /\ Extent(image, b) = b .. b + image[b].size
  BY ScannedFacts
<1>3. c \in Nat
  BY LevelPayloadsAssumption DEF LevelPayloadsAssumption, Cells
<1>4. c \in b .. b + image[b].size
  BY <1>1, <1>2, <1>3
<1> QED
  BY <1>2, <1>4

\* The same cells are the same block.
LEMMA SameCellsSameBlock ==
    ASSUME NEW image, NEW other, NEW b \in Nat, Parses(image, b),
           \A c \in Extent(image, b) : other[c] = image[c]
    PROVE  /\ other[b] = image[b]
           /\ Parses(other, b)
           /\ Extent(other, b) = Extent(image, b)
           /\ Payload(other, b) = Payload(image, b)
<1>1. /\ image[b].size \in Nat
      /\ Extent(image, b) = b .. b + image[b].size
  BY ParsesFacts
<1>2. other[b] = image[b]
  <2>1. b \in b .. b + image[b].size
    BY <1>1
  <2> QED
    BY <1>1, <2>1
<1>3. \A i \in 1 .. image[b].size : other[b + i] = image[b + i]
  <2>1. \A i \in 1 .. image[b].size : b + i \in b .. b + image[b].size
    BY <1>1
  <2> QED
    BY <1>1, <2>1
<1> QED
  BY <1>2, <1>3 DEF Parses, Extent, Payload

\* A set of blocks that satisfies the description, by cells.
LEMMA IsScanByExtents ==
    ASSUME NEW image, NEW blocks \in SUBSET Cells,
           \A b \in blocks : Parses(image, b),
           \A b, d \in blocks : b < d => b + image[b].size < d,
           \A c \in Cells : Parses(image, c) =>
               \E b \in blocks : c \in Extent(image, b)
    PROVE  Scan(image) = blocks
<1>1. ImageLen \in Nat
  BY LevelPayloadsAssumption DEF LevelPayloadsAssumption
<1>2. ASSUME NEW c \in 0 .. ImageLen - 1, Parses(image, c)
      PROVE  \E b \in blocks : b <= c /\ c <= b + image[b].size
  <2>1. PICK b \in blocks : c \in Extent(image, b)
    BY <1>2 DEF Cells
  <2>2. b \in Nat /\ image[b].size \in Nat
    BY <1>1, ParsesFacts DEF Cells
  <2>3. b <= c /\ c <= b + image[b].size
    BY <1>1, <2>1, <2>2 DEF Extent
  <2> QED
    BY <2>3
<1>3. IsScan(image, 0, blocks)
  BY <1>2 DEF IsScan, Cells
<1> QED
  BY <1>3, ScanIsUnique

\* Erasing blocks leaves the others, and nothing new: a free cell is no tag.
LEMMA ScanOfErased ==
    ASSUME NEW image, NEW gone \in SUBSET Scan(image)
    PROVE  /\ Scan(Erase(image, gone)) = Scan(image) \ gone
           /\ \A b \in Scan(image) \ gone : \A c \in Extent(image, b) :
                  Erase(image, gone)[c] = image[c]
<1> DEFINE other == Erase(image, gone)
           rest == Scan(image) \ gone
<1>1. ASSUME NEW b \in rest, NEW c \in Extent(image, b)
      PROVE  other[c] = image[c]
  <2>1. c \in Cells
    BY ScannedFacts
  <2>2. \A d \in gone : c \notin Extent(image, d)
    BY BlocksAreDisjoint
  <2> QED
    BY <2>1, <2>2 DEF Erase
<1>2. ASSUME NEW b \in rest
      PROVE  /\ b \in Cells /\ other[b] = image[b] /\ Parses(other, b)
             /\ Extent(other, b) = Extent(image, b)
  <2>1. b \in Nat /\ b \in Cells /\ Parses(image, b)
    BY ScannedFacts
  <2> QED
    BY <1>1, <2>1, SameCellsSameBlock
<1>3. ASSUME NEW b \in rest, NEW d \in rest, b < d
      PROVE  b + other[b].size < d
  BY <1>2, <1>3, ScanIsScan DEF IsScan
<1>4. ASSUME NEW c \in Cells, Parses(other, c)
      PROVE  \E b \in rest : c \in Extent(other, b)
  <2>1. other[c] # Fill
    BY <1>4, ImageIsSound DEF Parses, ImageIsSound
  <2>2. /\ \A d \in gone : c \notin Extent(image, d)
        /\ other[c] = image[c]
    BY <2>1 DEF Erase
  <2>3. Parses(image, c)
    BY <1>4, <2>2 DEF Parses
  <2>4. PICK b \in Scan(image) : c \in Extent(image, b)
    BY <2>3, LookalikeIsInside
  <2> QED
    BY <1>2, <2>2, <2>4
<1>5. Scan(other) = rest
  <2> HIDE DEF other, rest
  <2> QED
    BY <1>2, <1>3, <1>4, IsScanByExtents
<1> QED
  BY <1>1, <1>5

-----------------------------------------------------------------------------
(* Writing a block *)

\* What the allocator may be asked to store.
Storable == Payloads \cup (ExitPlanes \ {<<>>})

\* Such a payload has cells.
LEMMA PayloadFacts ==
    ASSUME NEW p \in Storable
    PROVE  /\ Len(p) \in Nat \ {0}
           /\ p = [i \in 1 .. Len(p) |-> p[i]]
<1>1. p \in Seq({p[i] : i \in DOMAIN p}) /\ p # <<>>
  BY LevelPayloadsAssumption DEF LevelPayloadsAssumption, Storable
<1> QED
  BY <1>1

\* A place the allocator may take.
LEMMA FreeStartFacts ==
    ASSUME NEW image, NEW n \in Nat, NEW reserved, NEW s \in FreeStarts(image, n, reserved)
    PROVE  /\ s \in Nat /\ s >= AreaLen /\ s + n < ImageLen
           /\ s .. s + n \subseteq Cells
           /\ Permits(s, s + n, reserved)
           /\ \A c \in s .. s + n :
                  /\ c >= AreaLen /\ c \notin reserved
                  /\ image[c] = Fill
                  /\ \A b \in Scan(image) : c \notin Extent(image, b)
<1>1. ImageLen \in Nat /\ AreaLen \in Nat
  BY LevelPayloadsAssumption DEF LevelPayloadsAssumption
<1>2. /\ s \in AreaLen .. ImageLen - 1 - n
      /\ Permits(s, s + n, reserved)
      /\ \A c \in s .. s + n :
             image[c] = Fill /\ c \notin UNION {Extent(image, b) : b \in Scan(image)}
  BY DEF FreeStarts
<1>3. \A c \in s .. s + n : c >= AreaLen /\ c \notin reserved
  BY <1>1, <1>2 DEF Permits
<1> QED
  BY <1>1, <1>2, <1>3 DEF Cells

\* There is room for the payload at a place, whatever is reserved.
HasRoom(image, p, s) == \E reserved : s \in FreeStarts(image, Len(p), reserved)

\* The block that is written, and the cells that are not.
LEMMA WrittenFacts ==
    ASSUME NEW image, NEW p \in Storable, NEW s, HasRoom(image, p, s)
    PROVE  /\ s \in Nat /\ s >= AreaLen
           /\ s .. s + Len(p) \subseteq Cells
           /\ \A c \in s .. s + Len(p) :
                  /\ c >= AreaLen /\ image[c] = Fill
                  /\ \A b \in Scan(image) : c \notin Extent(image, b)
           /\ Parses(WriteBlock(image, s, p), s)
           /\ WriteBlock(image, s, p)[s].size = Len(p)
           /\ Extent(WriteBlock(image, s, p), s) = s .. s + Len(p)
           /\ Payload(WriteBlock(image, s, p), s) = p
           /\ \A c \in Cells : c \notin s .. s + Len(p) =>
                  WriteBlock(image, s, p)[c] = image[c]
<1> DEFINE other == WriteBlock(image, s, p)
<1>0. PICK reserved : s \in FreeStarts(image, Len(p), reserved)
  BY DEF HasRoom
<1>1. Len(p) \in Nat \ {0} /\ p = [i \in 1 .. Len(p) |-> p[i]]
  BY PayloadFacts
<1>2. ImageLen \in Nat
  BY LevelPayloadsAssumption DEF LevelPayloadsAssumption
<1>3. /\ s \in Nat /\ s + Len(p) < ImageLen /\ s .. s + Len(p) \subseteq Cells
      /\ s >= AreaLen
      /\ \A c \in s .. s + Len(p) :
             /\ c >= AreaLen /\ image[c] = Fill
             /\ \A b \in Scan(image) : c \notin Extent(image, b)
  BY <1>0, <1>1, FreeStartFacts
<1>4. s \in s .. s + Len(p) /\ s \in Cells
  BY <1>1, <1>3
<1>5. other[s] = Tag(Len(p))
  BY <1>4 DEF WriteBlock
<1>6. other[s].size = Len(p)
  BY <1>5 DEF Tag
<1>7. Parses(other, s)
  <2>1. Len(p) \in 1 .. ImageLen
    BY <1>1, <1>2, <1>3
  <2> HIDE DEF other
  <2> QED
    BY <1>3, <1>5, <1>6, <2>1 DEF Parses, Tags
<1>8. Payload(other, s) = p
  <2>1. \A i \in 1 .. Len(p) : other[s + i] = p[i]
    <3> TAKE i \in 1 .. Len(p)
    <3>1. /\ s + i \in s .. s + Len(p) /\ s + i # s
          /\ s + i \in s + 1 .. s + Len(p) /\ (s + i) - s = i
      BY <1>1, <1>3
    <3> QED
      BY <1>3, <3>1 DEF WriteBlock
  <2> HIDE DEF other
  <2> QED
    BY <1>1, <1>6, <2>1 DEF Payload
<1>9. \A c \in Cells : c \notin s .. s + Len(p) => other[c] = image[c]
  <2> TAKE c \in Cells
  <2> HAVE c \notin s .. s + Len(p)
  <2>1. c # s /\ c \notin s + 1 .. s + Len(p)
    BY <1>1, <1>3, <1>4
  <2> QED
    BY <2>1 DEF WriteBlock
<1>10. Extent(other, s) = s .. s + Len(p)
  BY <1>6 DEF Extent
<1> QED
  BY <1>3, <1>6, <1>7, <1>8, <1>9, <1>10

\* Writing a block where there is room adds it and leaves the others.
LEMMA ScanOfWritten ==
    ASSUME NEW image, NEW p \in Storable, NEW s, HasRoom(image, p, s)
    PROVE  /\ Scan(WriteBlock(image, s, p)) = Scan(image) \cup {s}
           /\ \A b \in Scan(image) : \A c \in Extent(image, b) :
                  WriteBlock(image, s, p)[c] = image[c]
<1> DEFINE other == WriteBlock(image, s, p)
           blocks == Scan(image) \cup {s}
           n == Len(p)
<1>1. n \in Nat \ {0}
  BY PayloadFacts
<1>2. /\ s \in Nat /\ s .. s + n \subseteq Cells
      /\ \A c \in s .. s + n : \A b \in Scan(image) : c \notin Extent(image, b)
  BY WrittenFacts
<1>3. /\ Parses(other, s) /\ other[s].size = n
      /\ Extent(other, s) = s .. s + n
      /\ \A c \in Cells : c \notin s .. s + n => other[c] = image[c]
  BY WrittenFacts
<1> HIDE DEF other, n
<1>4. ASSUME NEW b \in Scan(image), NEW c \in Extent(image, b)
      PROVE  other[c] = image[c]
  <2>1. c \in Cells
    BY ScannedFacts
  <2> QED
    BY <1>2, <1>3, <2>1
<1>5. ASSUME NEW b \in Scan(image)
      PROVE  /\ b \in Nat /\ b \in Cells /\ image[b].size \in Nat
             /\ Extent(image, b) = b .. b + image[b].size
             /\ other[b] = image[b] /\ Parses(other, b)
             /\ Extent(other, b) = Extent(image, b)
  <2>1. /\ b \in Nat /\ b \in Cells /\ Parses(image, b)
        /\ image[b].size \in 1 .. ImageLen
        /\ Extent(image, b) = b .. b + image[b].size
    BY ScannedFacts
  <2>2. b \in Nat /\ Parses(image, b) /\ \A c \in Extent(image, b) : other[c] = image[c]
    BY <1>4, ScannedFacts
  <2>3. /\ other[b] = image[b] /\ Parses(other, b)
        /\ Extent(other, b) = Extent(image, b)
    BY ONLY <2>2, SameCellsSameBlock
  <2>4. image[b].size \in Nat
    BY <2>1
  <2> QED
    BY <2>1, <2>3, <2>4
<1>6. ASSUME NEW b \in blocks, NEW d \in blocks, b < d
      PROVE  b + other[b].size < d
  <2>1. CASE b \in Scan(image) /\ d \in Scan(image)
    <3>1. b + image[b].size < d
      BY <1>6, <2>1, ScanIsScan DEF IsScan
    <3>2. other[b] = image[b]
      BY <1>5, <2>1
    <3> QED
      BY <3>1, <3>2
  <2>2. CASE b \in Scan(image) /\ d = s
    <3>1. s \notin b .. b + image[b].size
      <4>1. s \in s .. s + n
        BY <1>1, <1>2
      <4> QED
        BY <1>2, <1>5, <2>2, <4>1
    <3>2. b \in Nat /\ image[b].size \in Nat /\ s \in Nat /\ b < s
      BY <1>2, <1>5, <1>6, <2>2
    <3>3. b + image[b].size < s
      BY <3>1, <3>2
    <3>4. other[b] = image[b]
      BY <1>5, <2>2
    <3> QED
      BY <2>2, <3>3, <3>4
  <2>3. CASE b = s /\ d \in Scan(image)
    <3>1. d \in d .. d + image[d].size
      BY <1>5, <2>3
    <3>2. d \notin s .. s + n
      BY <1>2, <1>5, <2>3, <3>1
    <3>3. d \in Nat
      BY <1>5, <2>3
    <3> QED
      BY <1>1, <1>2, <1>3, <1>6, <2>3, <3>2, <3>3
  <2>4. CASE b = s /\ d = s
    BY <1>2, <1>6, <2>4
  <2> QED
    BY <2>1, <2>2, <2>3, <2>4
<1>7. ASSUME NEW c \in Cells, Parses(other, c)
      PROVE  \E b \in blocks : c \in Extent(other, b)
  <2>1. CASE c \in s .. s + n
    BY <1>3, <2>1
  <2>2. CASE c \notin s .. s + n
    <3>1. Parses(image, c)
      BY <1>3, <1>7, <2>2 DEF Parses
    <3> QED
      BY <1>5, <3>1, LookalikeIsInside
  <2> QED
    BY <2>1, <2>2
<1>8. blocks \in SUBSET Cells /\ \A b \in blocks : Parses(other, b)
  <2>1. s \in Cells
    BY <1>1, <1>2
  <2> QED
    BY <1>3, <1>5, <2>1
<1>9. Scan(other) = blocks
  <2> HIDE DEF blocks
  <2> QED
    BY <1>6, <1>7, <1>8, IsScanByExtents
<1> QED
  BY <1>4, <1>9 DEF other

-----------------------------------------------------------------------------
(* Entries *)

\* The least element is one of the set.
LEMMA FirstIsMember ==
    ASSUME NEW set, set \subseteq Nat, set # {}
    PROVE  First(set) \in set
<1>1. \E x \in set : \A y \in set : x <= y
  BY LeastNumber
<1> QED
  BY <1>1 DEF First
-----------------------------------------------------------------------------
(* What an operation does to the image *)

\* The blocks beyond the original area.
Beyond(image) == {b \in Scan(image) : b >= AreaLen}

\* The original area is as it was.
AreaSame(image, other) == \A c \in 0 .. AreaLen - 1 : other[c] = image[c]

\* One image becomes another: the blocks gone are given up, those made may
\* lie on reserved cells, every other block stands, and a cell that changed
\* was free or in a block that is gone.
Moved(image, other, gone, made) ==
    /\ other = [c \in Cells |-> other[c]]
    /\ AreaIsSound(other)
    /\ \A b \in Beyond(image) \ gone :
          b \in Scan(other) /\ \A c \in Extent(image, b) : other[c] = image[c]
    /\ \A c \in Cells : c >= AreaLen /\ other[c] # image[c] =>
          \/ image[c] = Fill /\ (c \in Protected => \E b \in made : c \in Extent(other, b))
          \/ \E b \in gone : c \in Extent(image, b)
    /\ \A b \in Beyond(other) :
          \/ b \in Beyond(image) \ gone
          \/ b \in made
          \/ Extent(other, b) \cap Protected = {}

\* No block of a sound image is on both sides of the area's end.
LEMMA SidesAreApart ==
    ASSUME NEW image, NEW b \in Scan(image)
    PROVE  /\ b >= AreaLen => \A c \in Extent(image, b) : c >= AreaLen
           /\ AreaIsSound(image) /\ ~(b >= AreaLen) =>
                  \A c \in Extent(image, b) : ~(c >= AreaLen)
<1>1. AreaLen \in Nat /\ AreaLen > 0
  BY LevelPayloadsAssumption DEF LevelPayloadsAssumption
<1>2. /\ b \in Nat /\ Parses(image, b) /\ image[b].size \in Nat
      /\ Extent(image, b) = b .. b + image[b].size
  BY ScannedFacts
<1>3. AreaIsSound(image) /\ ~(b >= AreaLen) => b + image[b].size < AreaLen
  <2>1. ~(b >= AreaLen) => b \in 0 .. AreaLen - 1
    BY <1>1, <1>2
  <2> QED
    BY <1>2, <2>1 DEF AreaIsSound
<1> QED
  BY <1>1, <1>2, <1>3

\* Soundness of the area is in its own cells.
LEMMA SoundnessIsLocal ==
    ASSUME NEW image, AreaIsSound(image), NEW other, AreaSame(image, other)
    PROVE  AreaIsSound(other)
BY DEF AreaIsSound, AreaSame, Parses

\* An image is itself.
LEMMA NothingMoved ==
    ASSUME NEW image, image = [c \in Cells |-> image[c]], AreaIsSound(image)
    PROVE  Moved(image, image, {}, {}) /\ AreaSame(image, image)
<1>1. \A b \in Beyond(image) : b \in Scan(image)
  BY DEF Beyond
<1> QED
  BY <1>1 DEF Moved, AreaSame

\* Erasing blocks beyond the area.
LEMMA ErasedMoved ==
    ASSUME NEW image, AreaIsSound(image), NEW gone \in SUBSET Beyond(image)
    PROVE  /\ Moved(image, Erase(image, gone), gone, {})
           /\ AreaSame(image, Erase(image, gone))
           /\ Beyond(Erase(image, gone)) = Beyond(image) \ gone
<1> DEFINE other == Erase(image, gone)
<1>1. gone \in SUBSET Scan(image)
  BY DEF Beyond
<1>2. /\ Scan(other) = Scan(image) \ gone
      /\ \A b \in Scan(image) \ gone : \A c \in Extent(image, b) : other[c] = image[c]
  BY <1>1, ScanOfErased
<1>3. \A c \in Cells : other[c] # image[c] => \E b \in gone : c \in Extent(image, b)
  BY DEF Erase
<1>4. other = [c \in Cells |-> other[c]]
  BY DEF Erase
<1> HIDE DEF other
<1>5. AreaSame(image, other)
  <2> SUFFICES ASSUME NEW c \in 0 .. AreaLen - 1 PROVE other[c] = image[c]
    BY DEF AreaSame
  <2>1. c \in Cells /\ ~(c >= AreaLen)
    BY LevelPayloadsAssumption DEF LevelPayloadsAssumption, Cells
  <2>2. \A b \in gone : c \notin Extent(image, b)
    BY <2>1, SidesAreApart DEF Beyond
  <2> QED
    BY <1>3, <2>1, <2>2
<1>6. AreaIsSound(other)
  BY <1>5, SoundnessIsLocal
<1>7. Beyond(other) = Beyond(image) \ gone
  BY <1>2 DEF Beyond
<1>8. \A b \in Beyond(image) \ gone :
          b \in Scan(other) /\ \A c \in Extent(image, b) : other[c] = image[c]
  BY <1>2 DEF Beyond
<1>9. Moved(image, other, gone, {})
  BY <1>3, <1>4, <1>6, <1>7, <1>8 DEF Moved
<1> QED
  BY <1>5, <1>7, <1>9 DEF other

\* Writing a block: on reserved cells only if none are respected.
LEMMA WrittenMoved ==
    ASSUME NEW image, AreaIsSound(image), NEW p \in Storable,
           NEW s, HasRoom(image, p, s)
    PROVE  /\ Moved(image, WriteBlock(image, s, p), {}, {s})
           /\ s \in FreeStarts(image, Len(p), Protected) =>
                  Moved(image, WriteBlock(image, s, p), {}, {})
           /\ AreaSame(image, WriteBlock(image, s, p))
           /\ Beyond(WriteBlock(image, s, p)) = Beyond(image) \cup {s}
<1> DEFINE other == WriteBlock(image, s, p)
           taken == s .. s + Len(p)
<1>0. /\ s \in Nat /\ s >= AreaLen /\ s .. s + Len(p) \subseteq Cells
      /\ \A c \in s .. s + Len(p) :
             /\ c >= AreaLen /\ image[c] = Fill
             /\ \A b \in Scan(image) : c \notin Extent(image, b)
  BY WrittenFacts
<1>1. /\ Extent(other, s) = taken
      /\ \A c \in Cells : c \notin taken => other[c] = image[c]
  BY WrittenFacts
<1>2. /\ Scan(other) = Scan(image) \cup {s}
      /\ \A b \in Scan(image) : \A c \in Extent(image, b) : other[c] = image[c]
  BY ScanOfWritten
<1>3. other = [c \in Cells |-> other[c]]
  BY DEF WriteBlock
<1>4. s \in FreeStarts(image, Len(p), Protected) => \A c \in taken : c \notin Protected
  <2>1. Len(p) \in Nat
    BY PayloadFacts
  <2> QED
    BY <2>1, FreeStartFacts
<1>11. taken \subseteq Cells /\ \A c \in taken : c >= AreaLen /\ image[c] = Fill
  BY <1>0
<1> HIDE DEF other, taken
<1>5. AreaSame(image, other)
  <2> SUFFICES ASSUME NEW c \in 0 .. AreaLen - 1 PROVE other[c] = image[c]
    BY DEF AreaSame
  <2>1. c \in Cells /\ ~(c >= AreaLen)
    BY LevelPayloadsAssumption DEF LevelPayloadsAssumption, Cells
  <2> QED
    BY <1>1, <1>11, <2>1
<1>6. AreaIsSound(other)
  BY <1>5, SoundnessIsLocal
<1>7. Beyond(other) = Beyond(image) \cup {s}
  BY <1>0, <1>2 DEF Beyond
<1>8. \A b \in Beyond(image) \ {} :
          b \in Scan(other) /\ \A c \in Extent(image, b) : other[c] = image[c]
  BY <1>2 DEF Beyond
<1>9. Moved(image, other, {}, {s})
  BY <1>0, <1>1, <1>3, <1>6, <1>7, <1>8, <1>11 DEF Moved
<1>10. (\A c \in taken : c \notin Protected) => Moved(image, other, {}, {})
  BY <1>0, <1>1, <1>3, <1>6, <1>7, <1>8, <1>11 DEF Moved
<1> QED
  BY <1>4, <1>5, <1>7, <1>9, <1>10 DEF other

\* Blocks beyond the area do not depend on the tags in it.
LEMMA AreaIsApart ==
    ASSUME NEW image, AreaIsSound(image), NEW other, AreaIsSound(other),
           \A c \in Cells : c >= AreaLen => other[c] = image[c]
    PROVE  Beyond(other) = Beyond(image)
<1> DEFINE blocks == {b \in Scan(other) : ~(b >= AreaLen)} \cup Beyond(image)
<1>1. AreaLen \in Nat /\ ImageLen \in Nat
  BY LevelPayloadsAssumption DEF LevelPayloadsAssumption
<1>2. ASSUME NEW b \in Beyond(image)
      PROVE  /\ b \in Nat /\ b \in Cells /\ b >= AreaLen
             /\ Parses(image, b) /\ Parses(other, b) /\ other[b] = image[b]
             /\ Extent(other, b) = Extent(image, b)
  <2>1. b \in Nat /\ b \in Cells /\ Parses(image, b) /\ b >= AreaLen /\ b \in Scan(image)
    BY ScannedFacts DEF Beyond
  <2>2. \A c \in Extent(image, b) : c \in Cells /\ c >= AreaLen
    BY <2>1, SidesAreApart, ScannedFacts
  <2>3. \A c \in Extent(image, b) : other[c] = image[c]
    BY <2>2
  <2>4. Parses(other, b) /\ other[b] = image[b] /\ Extent(other, b) = Extent(image, b)
    BY ONLY <2>1, <2>3, SameCellsSameBlock
  <2> QED
    BY <2>1, <2>4
<1>3. ASSUME NEW b \in Scan(other), ~(b >= AreaLen)
      PROVE  /\ b \in Nat /\ b \in Cells /\ Parses(other, b)
             /\ b + other[b].size < AreaLen
  <2>1. b \in Nat /\ b \in Cells /\ Parses(other, b)
    BY ScannedFacts
  <2>2. b \in 0 .. AreaLen - 1
    BY <1>1, <1>3, <2>1
  <2> QED
    BY <2>1, <2>2 DEF AreaIsSound
<1>4. blocks \in SUBSET Cells /\ \A b \in blocks : Parses(other, b)
  BY <1>2, <1>3
<1>5. ASSUME NEW b \in blocks, NEW d \in blocks, b < d
      PROVE  b + other[b].size < d
  <2>1. CASE b \in Beyond(image) /\ d \in Beyond(image)
    <3>1. b + image[b].size < d
      BY <1>5, <2>1, ScanIsScan DEF IsScan, Beyond
    <3>2. other[b] = image[b]
      BY <1>2, <2>1
    <3> QED
      BY <3>1, <3>2
  <2>2. CASE b \in Scan(other) /\ d \in Scan(other)
    BY <1>5, <2>2, ScanIsScan DEF IsScan
  <2>3. CASE b \in Scan(other) /\ ~(b >= AreaLen) /\ d \in Beyond(image)
    <3>1. b \in Nat /\ b + other[b].size < AreaLen /\ Parses(other, b)
      BY <1>3, <2>3
    <3>2. other[b].size \in Nat
      BY <3>1, ParsesFacts
    <3>3. d \in Nat /\ d >= AreaLen
      BY <1>2, <2>3
    <3> QED
      BY <1>1, <3>1, <3>2, <3>3
  <2>4. CASE b \in Beyond(image) /\ d \in Scan(other) /\ ~(d >= AreaLen)
    <3>1. b \in Nat /\ b >= AreaLen /\ d \in Nat
      BY <1>2, <1>3, <2>4
    <3> QED
      BY <1>1, <1>5, <2>4, <3>1
  <2> QED
    BY <2>1, <2>2, <2>3, <2>4
<1>6. ASSUME NEW c \in Cells, Parses(other, c)
      PROVE  \E b \in blocks : c \in Extent(other, b)
  <2>0. c \in Nat
    BY <1>1 DEF Cells
  <2>1. PICK b \in Scan(other) : c \in Extent(other, b)
    BY <1>6, LookalikeIsInside
  <2>2. CASE ~(c >= AreaLen)
    <3>1. ~(b >= AreaLen)
      BY <2>1, <2>2, SidesAreApart
    <3> QED
      BY <2>1, <3>1
  <2>3. CASE c >= AreaLen
    <3>1. Parses(image, c)
      BY <1>6, <2>3 DEF Parses
    <3>2. PICK d \in Scan(image) : c \in Extent(image, d)
      BY <3>1, LookalikeIsInside
    <3>3. d \in Beyond(image)
      BY <2>3, <3>2, SidesAreApart DEF Beyond
    <3> QED
      BY <1>2, <3>2, <3>3
  <2> QED
    BY <2>2, <2>3
<1>7. Scan(other) = blocks
  <2> HIDE DEF blocks
  <2> QED
    BY <1>4, <1>5, <1>6, IsScanByExtents
<1> QED
  BY <1>2, <1>7 DEF Beyond

\* Clearing the original area leaves what is beyond it.
LEMMA ClearedMoved ==
    ASSUME NEW image, image = [c \in Cells |-> image[c]], AreaIsSound(image)
    PROVE  /\ Moved(image, ClearArea(image), {}, {})
           /\ Beyond(ClearArea(image)) = Beyond(image)
           /\ \A c \in Cells : c \notin Overwritten => ClearArea(image)[c] = image[c]
<1> DEFINE other == ClearArea(image)
<1>1. AreaLen \in Nat /\ ImageLen \in Nat /\ AreaLen <= ImageLen
  BY LevelPayloadsAssumption DEF LevelPayloadsAssumption
<1>2. other = [c \in Cells |-> other[c]]
  BY DEF ClearArea
<1>3. \A c \in Cells : c \notin Overwritten => other[c] = image[c]
  BY DEF ClearArea, Overwritten
<1>4. \A c \in Cells : c >= AreaLen => c \notin Overwritten
  BY <1>1, ClearingAssumption DEF ClearingAssumption, Cells
<1>5. AreaIsSound(other)
  <2>1. CASE IsCleared(image)
    BY <2>1 DEF ClearArea
  <2>2. CASE ~IsCleared(image)
    <3> SUFFICES ASSUME NEW c \in 0 .. AreaLen - 1, Parses(other, c)
                 PROVE  c + other[c].size < AreaLen
      BY DEF AreaIsSound
    <3>1. c \in Cells
      BY <1>1 DEF Cells
    <3>2. other[c] = IF c \in DOMAIN Owners THEN Tag(Owners[c])
                     ELSE IF c = Marker + 1 THEN MarkerText
                     ELSE IF c \in Gaps THEN Fill
                     ELSE image[c]
      BY <2>2, <3>1 DEF ClearArea
    <3> HIDE DEF other
    <3>3. CASE c \in DOMAIN Owners
      <4>1. other[c].size = Owners[c]
        BY <3>2, <3>3 DEF Tag
      <4>2. Owners[c] \in 1 .. AreaLen - 1 - c
        BY <3>3, ClearingAssumption DEF ClearingAssumption
      <4> QED
        BY <1>1, <4>1, <4>2
    <3>4. CASE c \notin DOMAIN Owners
      <4>1. other[c] \in Tags
        BY DEF Parses
      <4>2. MarkerText \notin Tags /\ Fill \notin Tags
        BY ClearingAssumption, ImageIsSound DEF ClearingAssumption, ImageIsSound
      <4>3. other[c] = image[c]
        BY <3>2, <3>4, <4>1, <4>2
      <4> QED
        BY <4>3 DEF AreaIsSound, Parses
    <3> QED
      BY <3>3, <3>4
  <2> QED
    BY <2>1, <2>2
<1> HIDE DEF other
<1>6. \A c \in Cells : c >= AreaLen => other[c] = image[c]
  BY <1>3, <1>4
<1>7. Beyond(other) = Beyond(image)
  BY <1>5, <1>6, AreaIsApart
<1>8. \A b \in Beyond(image) : b \in Scan(other) /\ \A c \in Extent(image, b) : other[c] = image[c]
  <2> TAKE b \in Beyond(image)
  <2>1. b \in Scan(other) /\ b \in Scan(image) /\ b >= AreaLen
    BY <1>7 DEF Beyond
  <2>2. \A c \in Extent(image, b) : c \in Cells /\ c >= AreaLen
    BY <2>1, SidesAreApart, ScannedFacts
  <2> QED
    BY <1>6, <2>1, <2>2
<1>9. Moved(image, other, {}, {})
  BY <1>2, <1>5, <1>6, <1>7, <1>8 DEF Moved
<1> QED
  BY <1>3, <1>7, <1>9 DEF other

\* One move after the other: what the second gives up was there before the
\* first, and what the first made is still there.
LEMMA MovedTwice ==
    ASSUME NEW i, NEW j, NEW k, NEW g, NEW h, NEW made, NEW new,
           Moved(i, j, g, made), Moved(j, k, h, new),
           h \subseteq Beyond(i), g \cap h = {},
           made \subseteq Beyond(j), made \cap h = {}
    PROVE  Moved(i, k, g \cup h, made \cup new)
<1>1. ASSUME NEW b \in Beyond(i) \ g
      PROVE  /\ b \in Beyond(j)
             /\ \A c \in Extent(i, b) : j[c] = i[c]
             /\ Extent(j, b) = Extent(i, b)
  <2>1. b \in Scan(j) /\ \A c \in Extent(i, b) : j[c] = i[c]
    BY DEF Moved
  <2>2. b \in Nat /\ Parses(i, b) /\ b >= AreaLen
    BY ScannedFacts DEF Beyond
  <2>3. Extent(j, b) = Extent(i, b)
    BY ONLY <2>1, <2>2, SameCellsSameBlock
  <2> QED
    BY <2>1, <2>2, <2>3 DEF Beyond
<1>2. ASSUME NEW b \in Beyond(j) \ h
      PROVE  /\ b \in Scan(k)
             /\ \A c \in Extent(j, b) : k[c] = j[c]
             /\ Extent(k, b) = Extent(j, b)
  <2>1. b \in Scan(k) /\ \A c \in Extent(j, b) : k[c] = j[c]
    BY DEF Moved
  <2>2. b \in Nat /\ Parses(j, b)
    BY ScannedFacts DEF Beyond
  <2>3. Extent(k, b) = Extent(j, b)
    BY ONLY <2>1, <2>2, SameCellsSameBlock
  <2> QED
    BY <2>1, <2>3
<1>3. ASSUME NEW b \in Beyond(i) \ (g \cup h)
      PROVE  b \in Scan(k) /\ \A c \in Extent(i, b) : k[c] = i[c]
  <2>1. b \in Beyond(i) \ g /\ b \notin h
    OBVIOUS
  <2>2. b \in Beyond(j) \ h
    BY <1>1, <2>1
  <2> QED
    BY <1>1, <1>2, <2>1, <2>2
<1>4. ASSUME NEW c \in Cells, c >= AreaLen, k[c] # i[c]
      PROVE  \/ i[c] = Fill /\ (c \in Protected => \E b \in made \cup new : c \in Extent(k, b))
             \/ \E b \in g \cup h : c \in Extent(i, b)
  <2>1. ASSUME NEW b \in h
        PROVE  Extent(j, b) = Extent(i, b)
    BY <1>1, <2>1
  <2>2. ASSUME NEW b \in made
        PROVE  Extent(k, b) = Extent(j, b)
    BY <1>2, <2>2
  <2>3. CASE j[c] = i[c]
    <3>1. k[c] # j[c]
      BY <1>4, <2>3
    <3>2. \/ j[c] = Fill /\ (c \in Protected => \E b \in new : c \in Extent(k, b))
          \/ \E b \in h : c \in Extent(j, b)
      BY <1>4, <3>1 DEF Moved
    <3> QED
      BY <2>1, <2>3, <3>2
  <2>4. CASE j[c] # i[c]
    <3>1. \/ i[c] = Fill /\ (c \in Protected => \E b \in made : c \in Extent(j, b))
          \/ \E b \in g : c \in Extent(i, b)
      BY <1>4, <2>4 DEF Moved
    <3> QED
      BY <2>2, <3>1
  <2> QED
    BY <2>3, <2>4
<1>5. ASSUME NEW b \in Beyond(k)
      PROVE  \/ b \in Beyond(i) \ (g \cup h)
             \/ b \in made \cup new
             \/ Extent(k, b) \cap Protected = {}
  <2>1. CASE b \in Beyond(j) \ h
    <3>1. Extent(k, b) = Extent(j, b)
      BY <1>2, <2>1
    <3>2. b \in Beyond(i) \ g \/ b \in made \/ Extent(j, b) \cap Protected = {}
      BY <2>1 DEF Moved
    <3> QED
      BY <2>1, <3>1, <3>2
  <2>2. CASE b \notin Beyond(j) \ h
    BY <2>2 DEF Moved
  <2> QED
    BY <2>1, <2>2
<1>6. k = [c \in Cells |-> k[c]] /\ AreaIsSound(k)
  BY DEF Moved
<1> QED
  BY <1>3, <1>4, <1>5, <1>6 DEF Moved

-----------------------------------------------------------------------------
(* Entries and the pointer to the exits *)

\* What a table entry may be.
Entries == Pointers \cup {Null}

\* It points beyond the original area.
Expanded(p) == p # Null /\ ~(p.pc < AreaLen)

\* An entry is empty, points into the original area, or at a block the scan
\* finds, spelled as the program spells it.
EntryStands(image, p) ==
    Expanded(p) => p.bank = "high" /\ p.pc - 1 \in Scan(image)

\* The exits have no planes or a block of their own, which no entry points at.
ExitsStand(image, tables, p, planes) ==
    \/ p = Null /\ planes = <<>>
    \/ /\ p \in Pointers /\ Expanded(p) /\ p.pc - 1 \in Scan(image)
       /\ Payload(image, p.pc - 1) = planes /\ planes \in ExitPlanes
       /\ \A t \in TableNames, k \in Levels :
              tables[t][k] # Null => tables[t][k].pc # p.pc

\* A pointer beyond the area behind a scanned tag.
LEMMA StandingFacts ==
    ASSUME NEW image, AreaIsSound(image),
           NEW p \in Pointers, Expanded(p), p.pc - 1 \in Scan(image)
    PROVE  /\ p.pc - 1 \in Beyond(image)
           /\ Tagged(image, p)
           /\ Resolve(image, p) = Payload(image, p.pc - 1)
           /\ p.bank = "high" => p = PcToSnes(p.pc - 1)
<1>1. ImageLen \in Nat /\ AreaLen \in 1 .. ImageLen
  BY LevelPayloadsAssumption DEF LevelPayloadsAssumption
<1>2. p.pc \in Nat /\ p # Null /\ ~(p.pc < AreaLen)
  BY DEF Pointers, Expanded
<1>3. /\ p.pc - 1 \in Nat /\ Parses(image, p.pc - 1)
      /\ image[p.pc - 1].size \in 1 .. ImageLen
      /\ p.pc - 1 + image[p.pc - 1].size < ImageLen
  BY ScannedFacts
<1>4. p.pc - 1 >= AreaLen
  <2> SUFFICES ASSUME p.pc - 1 \in 0 .. AreaLen - 1 PROVE FALSE
    BY <1>1, <1>3
  <2>1. p.pc - 1 + image[p.pc - 1].size < AreaLen
    BY <1>3 DEF AreaIsSound
  <2> QED
    BY <1>1, <1>2, <1>3, <2>1
<1>5. p.bank = "high" => p = PcToSnes(p.pc - 1)
  <2>1. (p.pc - 1) + 1 = p.pc
    BY <1>2
  <2>2. p = [pc |-> p.pc, bank |-> p.bank]
    BY DEF Pointers
  <2> QED
    BY <2>1, <2>2 DEF PcToSnes, Pointer
<1>6. Tagged(image, p)
  <2>1. p.pc \in Cells /\ p.pc >= AreaLen
    BY <1>1, <1>2, <1>3, <1>4 DEF Cells
  <2> QED
    BY <1>3, <2>1 DEF Tagged
<1> QED
  BY <1>2, <1>4, <1>5, <1>6 DEF Resolve, Beyond

\* A block beyond the area may be pointed at.
LEMMA PointerFacts ==
    ASSUME NEW image, AreaIsSound(image), NEW b \in Beyond(image),
           NEW spelling \in {"low", "high"},
           NEW p, p = Pointer(b, spelling)
    PROVE  /\ p \in Pointers /\ Expanded(p)
           /\ p.pc = b + 1 /\ p.pc - 1 = b /\ p.bank = spelling
           /\ p.pc - 1 \in Scan(image)
           /\ Resolve(image, p) = Payload(image, b)
<1>1. ImageLen \in Nat /\ AreaLen \in 1 .. ImageLen /\ b \in Nat /\ (b + 1) - 1 = b
      /\ b >= AreaLen /\ b \in Scan(image)
  BY ScannedFacts, LevelPayloadsAssumption DEF LevelPayloadsAssumption, Beyond
<1>2. p.pc = b + 1 /\ p.bank = spelling /\ p \in Pointers
  BY <1>1 DEF Pointer, Pointers
<1>3. p # Null
  BY <1>2, LevelPayloadsAssumption DEF LevelPayloadsAssumption
<1>4. ~(p.pc < AreaLen) /\ p.pc - 1 = b
  BY <1>1, <1>2
<1>5. Expanded(p)
  BY <1>3, <1>4 DEF Expanded
<1>6. Resolve(image, p) = Payload(image, b)
  BY <1>1, <1>2, <1>4, <1>5, StandingFacts
<1> QED
  BY <1>1, <1>2, <1>4, <1>5, <1>6

\* A block that is not given up keeps its cells.
LEMMA KeptBlock ==
    ASSUME NEW i, NEW j, NEW gone, NEW made, Moved(i, j, gone, made),
           NEW b \in Beyond(i) \ gone
    PROVE  /\ b \in Beyond(j) /\ b \in Scan(j)
           /\ \A c \in Extent(i, b) : j[c] = i[c]
           /\ j[b] = i[b]
           /\ Extent(j, b) = Extent(i, b) /\ Payload(j, b) = Payload(i, b)
<1>1. b \in Scan(j) /\ \A c \in Extent(i, b) : j[c] = i[c]
  BY DEF Moved
<1>2. b \in Nat /\ Parses(i, b) /\ b >= AreaLen
  BY ScannedFacts DEF Beyond
<1>3. j[b] = i[b] /\ Extent(j, b) = Extent(i, b) /\ Payload(j, b) = Payload(i, b)
  BY ONLY <1>1, <1>2, SameCellsSameBlock
<1> QED
  BY <1>1, <1>2, <1>3 DEF Beyond

\* An entry whose block or cell stays reads what it read before.
LEMMA EntryKept ==
    ASSUME NEW i, AreaIsSound(i), NEW j, NEW gone, NEW made, Moved(i, j, gone, made),
           NEW p \in Entries, EntryStands(i, p),
           Expanded(p) => p.pc - 1 \notin gone,
           p # Null /\ p.pc < AreaLen => j[p.pc] = i[p.pc]
    PROVE  EntryStands(j, p) /\ Resolve(j, p) = Resolve(i, p)
<1>1. CASE p = Null
  BY <1>1 DEF EntryStands, Expanded, Resolve
<1>2. CASE p # Null /\ p.pc < AreaLen
  BY <1>2 DEF EntryStands, Expanded, Resolve
<1>3. CASE Expanded(p)
  <2>1. p \in Pointers
    BY <1>3 DEF Entries, Expanded
  <2>2. p.bank = "high" /\ p.pc - 1 \in Scan(i)
    BY <1>3 DEF EntryStands
  <2>3. p.pc - 1 \in Beyond(i) \ gone /\ Resolve(i, p) = Payload(i, p.pc - 1)
    BY <1>3, <2>1, <2>2, StandingFacts
  <2>4. p.pc - 1 \in Scan(j) /\ Payload(j, p.pc - 1) = Payload(i, p.pc - 1)
    BY <2>3, KeptBlock
  <2>5. Resolve(j, p) = Payload(j, p.pc - 1)
    BY <1>3, <2>1, <2>4, StandingFacts DEF Moved
  <2> QED
    BY <2>2, <2>3, <2>4, <2>5 DEF EntryStands
<1> QED
  BY <1>1, <1>2, <1>3 DEF Expanded

\* What stands of the exits: the block and what is read.
LEMMA ExitsFacts ==
    ASSUME NEW image, AreaIsSound(image), NEW tables, NEW p, NEW planes,
           ExitsStand(image, tables, p, planes)
    PROVE  /\ Resolve(image, p) = planes
           /\ ExitsBlock(p) \subseteq Beyond(image)
           /\ p # Null => /\ p \in Pointers /\ Expanded(p) /\ p.pc - 1 \in Beyond(image)
                          /\ Tagged(image, p) /\ ExitsBlock(p) = {p.pc - 1}
<1>1. CASE p = Null /\ planes = <<>>
  BY <1>1 DEF Resolve, ExitsBlock
<1>2. CASE ~(p = Null /\ planes = <<>>)
  <2>1. /\ p \in Pointers /\ Expanded(p) /\ p.pc - 1 \in Scan(image)
        /\ Payload(image, p.pc - 1) = planes
    BY <1>2 DEF ExitsStand
  <2>2. /\ p.pc - 1 \in Beyond(image) /\ Tagged(image, p)
        /\ Resolve(image, p) = Payload(image, p.pc - 1)
    BY <2>1, StandingFacts
  <2>3. p # Null
    BY <2>1 DEF Expanded
  <2> QED
    BY <2>1, <2>2, <2>3 DEF ExitsBlock
<1> QED
  BY <1>1, <1>2

\* The exits stand on when their block is not given up and no entry gets it.
LEMMA ExitsKept ==
    ASSUME NEW i, AreaIsSound(i), NEW j, NEW gone, NEW made, Moved(i, j, gone, made),
           NEW tables, NEW p, NEW planes, ExitsStand(i, tables, p, planes),
           ExitsBlock(p) \cap gone = {},
           NEW others, \A t \in TableNames, k \in Levels :
               p # Null /\ others[t][k] # Null => others[t][k].pc # p.pc
    PROVE  ExitsStand(j, others, p, planes)
<1>1. CASE p = Null
  BY <1>1 DEF ExitsStand, Expanded
<1>2. CASE p # Null
  <2>1. /\ p \in Pointers /\ Expanded(p) /\ p.pc - 1 \in Beyond(i) \ gone
    BY <1>2, ExitsFacts
  <2>2. p.pc - 1 \in Scan(j) /\ Payload(j, p.pc - 1) = Payload(i, p.pc - 1)
    BY <2>1, KeptBlock
  <2>3. Payload(i, p.pc - 1) = planes /\ planes \in ExitPlanes
    BY <1>2 DEF ExitsStand
  <2> QED
    BY <1>2, <2>1, <2>2, <2>3 DEF ExitsStand
<1> QED
  BY <1>1, <1>2

-----------------------------------------------------------------------------
(* Staging the requests of one save *)

\* The tables a save has staged after its first i places in the order.
Staging(requests, i) == {t \in DOMAIN requests : \E j \in 1 .. i : Tables[j] = t}

\* An entry points at a block of the save, which the policy permits and which
\* holds the payload.
StoredAs(s, p, payload) ==
    \E b \in s.results : /\ Permits(b, b + s.rom[b].size, Protected)
                         /\ p = PcToSnes(b)
                         /\ Payload(s.rom, b) = payload

\* What holds between two requests of a save: the blocks of the image are
\* untouched, only free cells the policy permits were taken, the tables staged
\* so far store their payloads and all other entries are as before.
StagedTo(l, requests, i, s) ==
    /\ s.pointer \in [TableNames -> [Levels -> Entries]]
    /\ Moved(rom, s.rom, {}, {}) /\ AreaSame(rom, s.rom)
    /\ s.results \subseteq Beyond(s.rom)
    /\ \A t \in TableNames, k \in Levels :
           /\ k = l /\ t \in Staging(requests, i) =>
                  StoredAs(s, s.pointer[t][k], requests[t])
           /\ ~(k = l /\ t \in Staging(requests, i)) =>
                  s.pointer[t][k] = pointer[t][k]

\* Another state of the copy in which every block of the first one stands.
LEMMA StoredStays ==
    ASSUME NEW s, NEW z, NEW p, NEW payload, StoredAs(s, p, payload),
           s.results \subseteq Beyond(s.rom), s.results \subseteq z.results,
           Moved(s.rom, z.rom, {}, {})
    PROVE  StoredAs(z, p, payload)
<1>1. PICK b \in s.results : /\ Permits(b, b + s.rom[b].size, Protected)
                             /\ p = PcToSnes(b)
                             /\ Payload(s.rom, b) = payload
  BY DEF StoredAs
<1>2. b \in Beyond(s.rom) \ {}
  OBVIOUS
<1>3. z.rom[b] = s.rom[b] /\ Payload(z.rom, b) = Payload(s.rom, b)
  BY <1>2, KeptBlock
<1> QED
  BY <1>1, <1>3 DEF StoredAs

\* The first place that is free.
LEMMA FirstFree ==
    ASSUME NEW image, NEW p \in Storable, NEW reserved,
           FreeStarts(image, Len(p), reserved) # {},
           NEW s, s = First(FreeStarts(image, Len(p), reserved))
    PROVE  s \in FreeStarts(image, Len(p), reserved) /\ HasRoom(image, p, s)
<1> DEFINE free == FreeStarts(image, Len(p), reserved)
<1>1. Len(p) \in Nat
  BY PayloadFacts
<1>2. \A x \in free : x \in Nat
  BY <1>1, FreeStartFacts
<1>3. free \subseteq Nat /\ free # {}
  BY <1>2
<1>4. First(free) \in free
  <2> HIDE DEF free
  <2> QED
    BY <1>3, FirstIsMember
<1> QED
  BY <1>4 DEF HasRoom

\* How far a written block reaches.
LEMMA WrittenSize ==
    ASSUME NEW image, NEW p \in Storable, NEW s, HasRoom(image, p, s)
    PROVE  /\ WriteBlock(image, s, p)[s].size = Len(p)
           /\ Extent(WriteBlock(image, s, p), s) = s .. s + Len(p)
<1>1. Len(p) \in Nat \ {0} /\ s \in Nat
  BY PayloadFacts, WrittenFacts
<1>2. s .. s + Len(p) \subseteq Cells
  BY WrittenFacts
<1>3. s \in Cells
  BY <1>1, <1>2
<1>4. WriteBlock(image, s, p)[s].size = Len(p)
  BY <1>3 DEF WriteBlock, Tag
<1> QED
  BY <1>4 DEF Extent

\* A new block of a level's asset.
LEMMA NewBlock ==
    ASSUME NEW image, AreaIsSound(image), NEW p \in Storable,
           NEW s, s \in FreeStarts(image, Len(p), Protected),
           NEW other, other = WriteBlock(image, s, p)
    PROVE  /\ Moved(image, other, {}, {}) /\ AreaSame(image, other)
           /\ s \in Beyond(other)
           /\ Payload(other, s) = p
           /\ Permits(s, s + other[s].size, Protected)
<1>0. p \in Storable
  OBVIOUS
<1>1. HasRoom(image, p, s)
  BY DEF HasRoom
<1>2. /\ Moved(image, WriteBlock(image, s, p), {}, {})
      /\ AreaSame(image, WriteBlock(image, s, p))
      /\ Beyond(WriteBlock(image, s, p)) = Beyond(image) \cup {s}
  BY <1>1, WrittenMoved
<1>3. Payload(WriteBlock(image, s, p), s) = p
  BY ONLY <1>0, <1>1, WrittenFacts
<1>5. WriteBlock(image, s, p)[s].size = Len(p)
  BY <1>1, WrittenSize
<1>4. Permits(s, s + Len(p), Protected)
  <2>1. Len(p) \in Nat
    BY PayloadFacts
  <2> QED
    BY <2>1, FreeStartFacts
<1> QED
  BY <1>2, <1>3, <1>4, <1>5

\* One request: an identical block is shared or a free place is taken.
LEMMA RequestIsStaged ==
    ASSUME NEW l \in Levels, NEW requests \in Requests, NEW reuse \in BOOLEAN,
           NEW i \in 1 .. Len(Tables),
           Tables[i] \in DOMAIN requests, NEW s, s.fits,
           StagedTo(l, requests, i - 1, s),
           StageRequest(s, requests[Tables[i]], Tables[i], l, reuse).fits # FALSE
    PROVE  StagedTo(l, requests, i,
                    StageRequest(s, requests[Tables[i]], Tables[i], l, reuse))
<1> DEFINE t == Tables[i]
           payload == requests[t]
           same == IF reuse THEN Duplicates(s.rom, payload) ELSE {}
           free == FreeStarts(s.rom, Len(payload), Protected)
           block == IF same # {} THEN First(same) ELSE First(free)
           z == [rom     |-> IF same # {} THEN s.rom
                             ELSE WriteBlock(s.rom, block, payload),
                 pointer |-> [s.pointer EXCEPT ![t][l] = PcToSnes(block)],
                 results |-> s.results \cup {block},
                 fits    |-> TRUE]
<1>1. payload \in Payloads /\ t \in TableNames /\ i \in Nat /\ DOMAIN requests \subseteq TableNames
  <2>1. Tables \in Seq(TableNames)
    BY LevelPayloadsAssumption DEF LevelPayloadsAssumption
  <2>2. t \in TableNames /\ i \in Nat
    BY <2>1
  <2>3. PICK group \in SUBSET TableNames : requests \in [group -> Payloads]
    BY DEF Requests
  <2> QED
    BY <2>2, <2>3
<1>2. (same # {} \/ free # {}) /\ StageRequest(s, payload, t, l, reuse) = z
  <2>1. CASE same = {} /\ free = {}
    <3>1. StageRequest(s, payload, t, l, reuse) = [s EXCEPT !.fits = FALSE]
      BY <2>1 DEF StageRequest
    <3> QED
      BY <3>1
  <2>2. CASE same # {} \/ free # {}
    BY <2>2 DEF StageRequest
  <2> QED
    BY <2>1, <2>2
<1>3. /\ z.rom = IF same # {} THEN s.rom ELSE WriteBlock(s.rom, block, payload)
      /\ z.pointer = [s.pointer EXCEPT ![t][l] = PcToSnes(block)]
      /\ z.results = s.results \cup {block}
  OBVIOUS
<1>4. Len(payload) \in Nat \ {0} /\ payload \in Storable
  BY <1>1, PayloadFacts DEF Storable
<1>5. /\ s.pointer \in [TableNames -> [Levels -> Entries]]
      /\ Moved(rom, s.rom, {}, {}) /\ AreaSame(rom, s.rom)
      /\ s.results \subseteq Beyond(s.rom)
  BY DEF StagedTo
<1>6. AreaIsSound(s.rom) /\ s.rom = [c \in Cells |-> s.rom[c]]
  BY <1>5 DEF Moved
<1>7. /\ Moved(s.rom, z.rom, {}, {}) /\ AreaSame(s.rom, z.rom)
      /\ block \in Beyond(z.rom)
      /\ Payload(z.rom, block) = payload
      /\ Permits(block, block + z.rom[block].size, Protected)
  <2>1. CASE same # {}
    <3>1. same \subseteq Nat
      BY ScannedFacts DEF Duplicates
    <3>2. block \in same
      BY <2>1, <3>1, FirstIsMember
    <3>3. block \in Duplicates(s.rom, payload)
      BY <3>2
    <3>4. z.rom = s.rom
      BY <1>3, <2>1
    <3> HIDE DEF z, block, same
    <3>5. /\ block \in Scan(s.rom) /\ Payload(s.rom, block) = payload
          /\ Permits(block, block + s.rom[block].size, Protected)
      BY <3>3 DEF Duplicates
    <3>6. block >= AreaLen
      BY <3>5 DEF Permits
    <3> QED
      BY <1>6, <3>4, <3>5, <3>6, NothingMoved DEF Beyond
  <2>2. CASE same = {}
    <3>1. free # {} /\ block = First(free) /\ z.rom = WriteBlock(s.rom, block, payload)
      BY <1>2, <1>3, <2>2
    <3>2. block \in FreeStarts(s.rom, Len(payload), Protected)
      <4> HIDE DEF z, block, same, payload
      <4> QED
        BY <1>4, <3>1, FirstFree
    <3> HIDE DEF z, block, same, free, payload
    <3> QED
      BY ONLY <1>4, <1>6, <3>1, <3>2, NewBlock
  <2> QED
    BY <2>1, <2>2
<1>8. PcToSnes(block) \in Entries
  <2>1. block \in Scan(z.rom)
    BY <1>7 DEF Beyond
  <2>2. block \in Nat
    BY <2>1, ScannedFacts
  <2> HIDE DEF block
  <2> QED
    BY <2>2 DEF PcToSnes, Pointer, Entries, Pointers
<1> HIDE DEF z, block, same, free
<1>9. /\ z.pointer \in [TableNames -> [Levels -> Entries]]
      /\ z.pointer[t][l] = PcToSnes(block)
      /\ \A u \in TableNames, k \in Levels :
             ~(u = t /\ k = l) => z.pointer[u][k] = s.pointer[u][k]
  BY <1>1, <1>3, <1>5, <1>8
<1>10. Moved(rom, z.rom, {}, {}) /\ AreaSame(rom, z.rom)
  <2>1. Moved(rom, z.rom, {} \cup {}, {} \cup {})
    BY <1>5, <1>7, MovedTwice
  <2> QED
    BY <1>5, <1>7, <2>1 DEF AreaSame
<1>11. z.results \subseteq Beyond(z.rom)
  <2>1. \A b \in Beyond(s.rom) \ {} : b \in Beyond(z.rom)
    BY <1>7, KeptBlock
  <2> QED
    BY <1>3, <1>5, <1>7, <2>1
<1>12. StoredAs(z, PcToSnes(block), payload)
  BY <1>3, <1>7 DEF StoredAs
<1>13. Staging(requests, i) = Staging(requests, i - 1) \cup {t}
  <2>1. \A j : j \in 1 .. i <=> j \in 1 .. i - 1 \/ j = i
    BY <1>1
  <2> QED
    BY <2>1 DEF Staging
<1>14. ASSUME NEW u \in TableNames, NEW k \in Levels
       PROVE  /\ k = l /\ u \in Staging(requests, i) =>
                     StoredAs(z, z.pointer[u][k], requests[u])
              /\ ~(k = l /\ u \in Staging(requests, i)) =>
                     z.pointer[u][k] = pointer[u][k]
  <2>1. CASE u = t /\ k = l
    BY <1>9, <1>12, <1>13, <2>1
  <2>2. CASE ~(u = t /\ k = l)
    <3>1. /\ k = l /\ u \in Staging(requests, i - 1) =>
                 StoredAs(s, s.pointer[u][k], requests[u])
          /\ ~(k = l /\ u \in Staging(requests, i - 1)) =>
                 s.pointer[u][k] = pointer[u][k]
      BY DEF StagedTo
    <3>2. z.pointer[u][k] = s.pointer[u][k]
      BY <1>9, <2>2
    <3>3. StoredAs(s, s.pointer[u][k], requests[u]) =>
              StoredAs(z, s.pointer[u][k], requests[u])
      BY <1>3, <1>5, <1>7, StoredStays
    <3> QED
      BY <1>13, <2>2, <3>1, <3>2, <3>3
  <2> QED
    BY <2>1, <2>2
<1>15. StagedTo(l, requests, i, z)
  BY <1>9, <1>10, <1>11, <1>14 DEF StagedTo
<1> QED
  BY <1>2, <1>15

\* The copy a save works on, after its first i places in the order.
StagedAfter(l, requests, reuse) ==
    CHOOSE after : after = [i \in 0 .. Len(Tables) |->
        IF i = 0
        THEN [rom |-> rom, pointer |-> pointer, results |-> {}, fits |-> TRUE]
        ELSE IF Tables[i] \in DOMAIN requests
             THEN StageRequest(after[i - 1], requests[Tables[i]], Tables[i], l, reuse)
             ELSE after[i - 1]]

\* The name of that function.
LEMMA StagedIsAfter ==
    ASSUME NEW l, NEW requests, NEW reuse
    PROVE  Staged(l, requests, reuse) = StagedAfter(l, requests, reuse)[Len(Tables)]
  BY Zenon DEF Staged, StagedAfter

\* Such a function exists, so the recursion of Staged is what it says.
LEMMA StagedRecursion ==
    ASSUME NEW l, NEW requests, NEW reuse
    PROVE  StagedAfter(l, requests, reuse) = [i \in 0 .. Len(Tables) |->
               IF i = 0
               THEN [rom |-> rom, pointer |-> pointer, results |-> {}, fits |-> TRUE]
               ELSE IF Tables[i] \in DOMAIN requests
                    THEN StageRequest(StagedAfter(l, requests, reuse)[i - 1],
                                      requests[Tables[i]], Tables[i], l, reuse)
                    ELSE StagedAfter(l, requests, reuse)[i - 1]]
<1> DEFINE n == Len(Tables)
           start == [rom |-> rom, pointer |-> pointer, results |-> {}, fits |-> TRUE]
           Found(g, i) == IF i = 0 THEN start
                          ELSE IF Tables[i] \in DOMAIN requests
                               THEN StageRequest(g[i - 1], requests[Tables[i]], Tables[i], l, reuse)
                               ELSE g[i - 1]
           Solves(g, k) == g = [i \in 0 .. k |-> Found(g, i)]
           Unsolved == {k \in 0 .. n : ~ \E g : Solves(g, k)}
<1>1. n \in Nat
  BY LevelPayloadsAssumption DEF LevelPayloadsAssumption
<1>2. ASSUME NEW m \in Unsolved, \A k \in Unsolved : m <= k
      PROVE  FALSE
  <2>1. m \in 0 .. n /\ ~ \E g : Solves(g, m)
    OBVIOUS
  <2>2. m # 0
    <3> DEFINE e == [i \in 0 .. 0 |-> start]
    <3>1. \A i \in 0 .. 0 : i = 0
      OBVIOUS
    <3>2. \A i \in 0 .. 0 : Found(e, i) = start
      BY <3>1
    <3>3. Solves(e, 0)
      <4> HIDE DEF Found, start
      <4> QED
        BY <3>2
    <3> QED
      BY <2>1, <3>3
  <2>3. m - 1 \in 0 .. n /\ m - 1 \notin Unsolved
    <3>1. m - 1 \in 0 .. n /\ ~(m <= m - 1)
      BY <1>1, <2>1, <2>2
    <3> HIDE DEF Unsolved
    <3> QED
      BY <1>2, <3>1
  <2>4. PICK g : Solves(g, m - 1)
    BY <2>3
  <2> DEFINE h == [i \in 0 .. m |-> IF i = m THEN Found(g, m) ELSE g[i]]
  <2>5. ASSUME NEW i \in 0 .. m
        PROVE  Found(g, i) = Found(h, i)
    <3>1. CASE i = 0
      BY <3>1
    <3>2. CASE i # 0
      <4>1. i - 1 \in 0 .. m /\ i - 1 # m
        BY <1>1, <2>1, <3>2
      <4>2. h[i - 1] = g[i - 1]
        <5> HIDE DEF Found
        <5> QED BY <4>1
      <4> HIDE DEF h
      <4> QED
        BY <4>2
    <3> QED
      BY <3>1, <3>2
  <2>6. ASSUME NEW i \in 0 .. m
        PROVE  h[i] = Found(g, i)
    <3> HIDE DEF Found
    <3>1. CASE i = m
      BY <3>1
    <3>2. CASE i # m
      <4>1. i \in 0 .. m - 1
        BY <1>1, <2>1, <3>2
      <4>2. g[i] = Found(g, i)
        BY <2>4, <4>1
      <4>3. h[i] = g[i]
        BY <3>2
      <4> QED
        BY <4>2, <4>3
    <3> QED
      BY <3>1, <3>2
  <2>7. Solves(h, m)
    <3>1. h = [i \in 0 .. m |-> h[i]]
      OBVIOUS
    <3> HIDE DEF h, Found
    <3>2. \A i \in 0 .. m : h[i] = Found(h, i)
      BY <2>5, <2>6
    <3> QED
      BY <3>1, <3>2
  <2> QED
    BY <2>1, <2>7
<1>3. Unsolved = {}
  <2> HIDE DEF Solves
  <2>1. Unsolved \subseteq Nat
    BY <1>1
  <2> HIDE DEF Unsolved
  <2> QED
    BY <1>2, <2>1, LeastNumber
<1>4. \E g : Solves(g, n)
  <2> HIDE DEF Solves
  <2> QED
    BY <1>1, <1>3
<1> QED
  BY <1>4, Zenon DEF StagedAfter

\* A save that fits has stored every asset it was given and kept the rest.
LEMMA StagedFacts ==
    ASSUME NEW l \in Levels, NEW requests \in Requests, NEW reuse \in BOOLEAN,
           rom = [c \in Cells |-> rom[c]], AreaIsSound(rom),
           pointer \in [TableNames -> [Levels -> Entries]],
           Staged(l, requests, reuse).fits
    PROVE  StagedTo(l, requests, Len(Tables), Staged(l, requests, reuse))
<1> DEFINE n == Len(Tables)
           A == StagedAfter(l, requests, reuse)
           start == [rom |-> rom, pointer |-> pointer, results |-> {}, fits |-> TRUE]
           Good(i) == /\ "fits" \in DOMAIN A[i]
                      /\ A[i].fits # FALSE => A[i].fits /\ StagedTo(l, requests, i, A[i])
           Bad == {i \in 0 .. n : ~Good(i)}
<1>1. n \in Nat
  BY LevelPayloadsAssumption DEF LevelPayloadsAssumption
<1>2. \A i \in 0 .. n :
          A[i] = IF i = 0 THEN start
                 ELSE IF Tables[i] \in DOMAIN requests
                      THEN StageRequest(A[i - 1], requests[Tables[i]], Tables[i], l, reuse)
                      ELSE A[i - 1]
  <2>1. A = [i \in 0 .. n |->
                 IF i = 0 THEN start
                 ELSE IF Tables[i] \in DOMAIN requests
                      THEN StageRequest(A[i - 1], requests[Tables[i]], Tables[i], l, reuse)
                      ELSE A[i - 1]]
    BY StagedRecursion
  <2> HIDE DEF A, start
  <2> QED
    BY <2>1, Zenon
<1> HIDE DEF A
<1>3. Good(0)
  <2>1. A[0] = start
    <3> HIDE DEF start
    <3> QED
      BY <1>1, <1>2
  <2>2. /\ start.rom = rom /\ start.pointer = pointer /\ start.results = {}
        /\ start.fits = TRUE /\ "fits" \in DOMAIN start
    OBVIOUS
  <2> HIDE DEF start
  <2>3. Staging(requests, 0) = {}
    BY DEF Staging
  <2>4. Moved(rom, rom, {}, {}) /\ AreaSame(rom, rom)
    BY NothingMoved
  <2>5. StagedTo(l, requests, 0, start)
    BY <2>2, <2>3, <2>4 DEF StagedTo
  <2> QED
    BY <2>1, <2>2, <2>5
<1>4. ASSUME NEW i \in 1 .. n, Good(i - 1)
      PROVE  Good(i)
  <2>1. i \in 0 .. n /\ i # 0
    BY <1>1
  <2>2. CASE Tables[i] \in DOMAIN requests
    <3> DEFINE s == A[i - 1]
               z == StageRequest(s, requests[Tables[i]], Tables[i], l, reuse)
    <3>1. A[i] = z
      BY <1>2, <2>1, <2>2
    <3>2. "fits" \in DOMAIN s
      BY <1>4
    <3>3. "fits" \in DOMAIN z
      BY <3>2 DEF StageRequest
    <3>4. CASE ~s.fits
      <4>1. z = [s EXCEPT !.fits = FALSE]
        BY <3>4 DEF StageRequest
      <4> HIDE DEF s, z
      <4>2. z.fits = FALSE
        BY <3>2, <4>1
      <4> QED
        BY <3>1, <3>3, <4>2
    <3>5. CASE s.fits
      <4>1. StagedTo(l, requests, i - 1, s)
        BY <1>4, <3>5
      <4>2. z.fits # FALSE => StagedTo(l, requests, i, z)
        BY <2>2, <3>5, <4>1, RequestIsStaged
      <4>3. z.fits # FALSE => z.fits
        <5>1. z = [s EXCEPT !.fits = FALSE] \/ z.fits = TRUE
          BY DEF StageRequest
        <5> HIDE DEF s, z
        <5> QED
          BY <3>2, <5>1
      <4> HIDE DEF s, z
      <4> QED
        BY <3>1, <3>3, <4>2, <4>3
    <3> QED
      BY <3>4, <3>5
  <2>3. CASE Tables[i] \notin DOMAIN requests
    <3>1. A[i] = A[i - 1]
      BY <1>2, <2>1, <2>3
    <3>2. Staging(requests, i) = Staging(requests, i - 1)
      <4>1. \A j : j \in 1 .. i <=> j \in 1 .. i - 1 \/ j = i
        BY <2>1
      <4> QED
        BY <2>3, <4>1 DEF Staging
    <3>3. \A z : StagedTo(l, requests, i - 1, z) => StagedTo(l, requests, i, z)
      BY <3>2 DEF StagedTo
    <3> QED
      BY <1>4, <3>1, <3>3
  <2> QED
    BY <2>2, <2>3
<1>5. ASSUME NEW m \in Bad, \A i \in Bad : m <= i
      PROVE  FALSE
  <2> HIDE DEF Good
  <2>1. m \in 0 .. n /\ ~Good(m) /\ m # 0
    BY <1>3
  <2>2. m \in 1 .. n /\ m - 1 \in 0 .. n /\ ~(m <= m - 1)
    BY <1>1, <2>1
  <2>3. m - 1 \notin Bad
    <3> HIDE DEF Bad
    <3> QED BY <1>5, <2>2
  <2>4. Good(m - 1)
    BY <2>2, <2>3
  <2> QED
    BY <1>4, <2>1, <2>2, <2>4
<1>6. Bad = {}
  <2>1. Bad \subseteq Nat
    <3> HIDE DEF Good
    <3> QED
      BY <1>1
  <2> HIDE DEF Bad
  <2> QED
    BY <1>5, <2>1, LeastNumber
<1>7. Good(n)
  <2> HIDE DEF Good
  <2> QED
    BY <1>1, <1>6
<1>8. Staged(l, requests, reuse) = A[n]
  BY StagedIsAfter DEF A
<1> QED
  BY <1>7, <1>8

-----------------------------------------------------------------------------
(* The invariant *)

\* The image, the tables and what was asked are functions.
Shapes ==
    /\ rom = [c \in Cells |-> rom[c]]
    /\ pointer \in [TableNames -> [Levels -> Entries]]
    /\ asked = [t \in TableNames |-> [k \in Levels |-> asked[t][k]]]

\* The inductive invariant: no tag of the original area reaches beyond it,
\* every entry stands and reads what it was last given, and so do the exits,
\* in a block of their own.
PayloadsInvariant ==
    /\ Shapes
    /\ AreaIsSound(rom)
    /\ \A t \in TableNames, k \in Levels :
           /\ EntryStands(rom, pointer[t][k])
           /\ Resolve(rom, pointer[t][k]) = asked[t][k]
    /\ ExitsStand(rom, pointer, exits, exitsAsked)

\* The entries of the image the project was opened with are spelled as the
\* program spells them: what native_asset_pointer_is_shared relies on.
ProgramSpelling ==
    \A t \in TableNames, k \in Levels :
        Expanded(OldPointers[t][k]) => OldPointers[t][k].bank = "high"

\* No asset of a level has the bytes of planes of the exits: such an asset
\* would share their block.
ExitsAreApart == ExitPlanes \cap Payloads = {}

\* The image the project was opened with satisfies it.
LEMMA PayloadsInit == ASSUME ProgramSpelling, Init PROVE PayloadsInvariant
<1>1. rom = OldImage /\ pointer = OldPointers /\ exits = OldExits
  BY DEF Init
<1>2. /\ OldImage = [c \in Cells |-> OldImage[c]]
      /\ OldPointers \in [TableNames -> [Levels -> Pointers \cup {Null}]]
  BY LevelPayloadsAssumption DEF LevelPayloadsAssumption
<1>3. /\ asked = [t \in TableNames |-> [l \in Levels |->
                    Resolve(OldImage, OldPointers[t][l])]]
      /\ exitsAsked = Resolve(OldImage, OldExits)
  BY DEF Init
<1>4. Shapes
  BY <1>1, <1>2, <1>3 DEF Shapes, Entries
<1>5. AreaIsSound(rom)
  BY <1>1, ImageIsSound DEF ImageIsSound
<1>6. \A t \in TableNames, k \in Levels : EntryStands(rom, pointer[t][k])
  BY <1>1, ImageIsSound DEF ImageIsSound, ProgramSpelling, EntryStands, Expanded
<1>7. \A t \in TableNames, k \in Levels : Resolve(rom, pointer[t][k]) = asked[t][k]
  BY <1>1, <1>3
<1>8. CASE OldExits = Null
  <2>1. exitsAsked = <<>>
    BY <1>3, <1>8 DEF Resolve
  <2>2. ExitsStand(rom, pointer, exits, exitsAsked)
    BY <1>1, <1>8, <2>1 DEF ExitsStand
  <2> QED
    BY <1>4, <1>5, <1>6, <1>7, <2>2 DEF PayloadsInvariant
<1>9. CASE OldExits # Null
  <2>1. PICK b \in Scan(OldImage) :
              /\ b >= AreaLen /\ OldExits = [pc |-> b + 1, bank |-> "low"]
              /\ Payload(OldImage, b) \in ExitPlanes
              /\ \A t \in TableNames, l \in Levels :
                    OldPointers[t][l] # Null => OldPointers[t][l].pc # b + 1
    BY <1>9, ImageIsSound DEF ImageIsSound
  <2>2. b \in Beyond(OldImage) /\ OldExits = Pointer(b, "low")
    BY <2>1 DEF Beyond, Pointer
  <2>3. AreaIsSound(OldImage)
    BY ImageIsSound DEF ImageIsSound
  <2>4. /\ OldExits \in Pointers /\ Expanded(OldExits)
        /\ OldExits.pc = b + 1 /\ OldExits.pc - 1 = b
        /\ OldExits.pc - 1 \in Scan(OldImage)
        /\ Resolve(OldImage, OldExits) = Payload(OldImage, b)
    BY <2>2, <2>3, PointerFacts
  <2>5. ExitsStand(OldImage, OldPointers, OldExits, Resolve(OldImage, OldExits))
    BY <2>1, <2>4 DEF ExitsStand
  <2> QED
    BY <1>1, <1>3, <1>4, <1>5, <1>6, <1>7, <2>5 DEF PayloadsInvariant
<1> QED
  BY <1>8, <1>9

\* An entry and what the invariant says of it.
LEMMA EntryFacts ==
    ASSUME PayloadsInvariant, NEW t \in TableNames, NEW k \in Levels
    PROVE  /\ pointer[t][k] \in Entries
           /\ EntryStands(rom, pointer[t][k])
           /\ Resolve(rom, pointer[t][k]) = asked[t][k]
           /\ pointer[t][k] # Null => pointer[t][k].pc \in Nat
           /\ Expanded(pointer[t][k]) =>
                  /\ pointer[t][k].pc - 1 \in Beyond(rom)
                  /\ Tagged(rom, pointer[t][k])
                  /\ pointer[t][k] = PcToSnes(pointer[t][k].pc - 1)
                  /\ pointer[t][k].pc - 1 \notin ExitsBlock(exits)
<1> DEFINE p == pointer[t][k]
<1>1. p \in Entries /\ EntryStands(rom, p) /\ Resolve(rom, p) = asked[t][k]
  BY DEF PayloadsInvariant, Shapes
<1>2. p # Null => p \in Pointers /\ p.pc \in Nat
  BY <1>1 DEF Entries, Pointers
<1>3. AreaIsSound(rom)
  BY DEF PayloadsInvariant
<1>4. exits # Null => exits \in Pointers /\ exits.pc \in Nat /\ (p # Null => p.pc # exits.pc)
  BY DEF PayloadsInvariant, ExitsStand, Pointers
<1> HIDE DEF p
<1>5. ASSUME Expanded(p)
      PROVE  /\ p.pc - 1 \in Beyond(rom) /\ Tagged(rom, p) /\ p = PcToSnes(p.pc - 1)
             /\ p.pc - 1 \notin ExitsBlock(exits)
  <2>1. p # Null /\ p \in Pointers /\ p.bank = "high" /\ p.pc - 1 \in Scan(rom)
    BY <1>1, <1>2, <1>5 DEF Expanded, EntryStands
  <2>2. p.pc - 1 \in Beyond(rom) /\ Tagged(rom, p) /\ p = PcToSnes(p.pc - 1)
    BY <1>3, <1>5, <2>1, StandingFacts
  <2>3. exits # Null => p.pc - 1 # exits.pc - 1
    BY <1>2, <1>4, <2>1
  <2> QED
    BY <2>2, <2>3 DEF ExitsBlock
<1> QED
  BY <1>1, <1>2, <1>5 DEF p

\* The blocks that slots point at are those of the entries that stand.
LEMMA ReferencedFacts ==
    ASSUME PayloadsInvariant, NEW slots \in SUBSET Slots
    PROVE  /\ Referenced(rom, pointer, slots) \subseteq Beyond(rom)
           /\ Referenced(rom, pointer, slots) \cap ExitsBlock(exits) = {}
           /\ \A s \in slots : Expanded(pointer[s[1]][s[2]]) =>
                  pointer[s[1]][s[2]].pc - 1 \in Referenced(rom, pointer, slots)
           /\ \A b \in Referenced(rom, pointer, slots) : \E s \in slots :
                  /\ Expanded(pointer[s[1]][s[2]])
                  /\ pointer[s[1]][s[2]].pc - 1 = b
                  /\ pointer[s[1]][s[2]] = PcToSnes(b)
<1>1. AreaLen \in Nat
  BY LevelPayloadsAssumption DEF LevelPayloadsAssumption
<1>2. \A s \in slots : s[1] \in TableNames /\ s[2] \in Levels
  BY DEF Slots
<1>3. ASSUME NEW b \in Referenced(rom, pointer, slots)
      PROVE  /\ b \in Beyond(rom) /\ b \notin ExitsBlock(exits)
             /\ \E s \in slots : /\ Expanded(pointer[s[1]][s[2]])
                                 /\ pointer[s[1]][s[2]].pc - 1 = b
                                 /\ pointer[s[1]][s[2]] = PcToSnes(b)
  <2>1. PICK s \in slots : /\ pointer[s[1]][s[2]] # Null
                           /\ Tagged(rom, pointer[s[1]][s[2]])
                           /\ b = pointer[s[1]][s[2]].pc - 1
    BY DEF Referenced
  <2>2. pointer[s[1]][s[2]].pc \in Nat /\ pointer[s[1]][s[2]].pc >= AreaLen
    BY <1>2, <2>1, EntryFacts DEF Tagged
  <2>3. Expanded(pointer[s[1]][s[2]])
    BY <1>1, <2>1, <2>2 DEF Expanded
  <2> QED
    BY <1>2, <2>1, <2>3, EntryFacts
<1>4. ASSUME NEW s \in slots, Expanded(pointer[s[1]][s[2]])
      PROVE  pointer[s[1]][s[2]].pc - 1 \in Referenced(rom, pointer, slots)
  <2>1. pointer[s[1]][s[2]] # Null /\ Tagged(rom, pointer[s[1]][s[2]])
    BY <1>2, <1>4, EntryFacts DEF Expanded
  <2> QED
    BY <2>1 DEF Referenced
<1> QED
  BY <1>3, <1>4

-----------------------------------------------------------------------------
(* What every step has to show *)

\* The shape of every step, as long as the test level's blocks are its own:
\* which blocks are given up and which are made for the exits, what becomes of
\* the original area, and where each entry comes from.
Moves(gone, made) ==
    /\ Moved(rom, rom', gone, made)
    /\ gone \subseteq Beyond(rom)
    /\ gone \cap Foreign \subseteq Referenced(rom, pointer, Slots) \cup ExitsBlock(exits)
    /\ gone \cap Beyond(rom') \subseteq ExitsBlock(exits')
    /\ \A c \in Cells : ~(c >= AreaLen) /\ rom'[c] # rom[c] =>
           c \in Overwritten /\ rom'[c] = ClearArea(rom)[c]
    /\ \A t \in TableNames, k \in Levels :
           \/ \E j \in Levels : pointer'[t][k] = pointer[t][j]
           \/ \E b \in Scan(rom') : /\ Permits(b, b + rom'[b].size, Protected)
                                    /\ pointer'[t][k] = PcToSnes(b)
                                    /\ Payload(rom', b) \in Payloads
    /\ \/ exits' = exits /\ made = {} /\ gone \cap ExitsBlock(exits) = {}
       \/ /\ ExitsBlock(exits) \subseteq gone
          /\ made = ExitsBlock(exits')
          /\ made \cap (Beyond(rom) \ gone) = {}

\* An image that did not change in its original area.
LEMMA AreaIsRead ==
    ASSUME NEW image, NEW other, AreaSame(image, other), NEW p \in Entries,
           p # Null, p.pc < AreaLen
    PROVE  other[p.pc] = image[p.pc]
<1>1. AreaLen \in Nat /\ p.pc \in Nat
  BY LevelPayloadsAssumption DEF LevelPayloadsAssumption, Entries, Pointers
<1>2. p.pc \in 0 .. AreaLen - 1
  BY <1>1
<1> QED
  BY <1>2 DEF AreaSame

\* The clause of Moves about the area, when it is as it was.
LEMMA AreaNotChanged ==
    ASSUME NEW image, NEW other, AreaSame(image, other)
    PROVE  \A c \in Cells : ~(c >= AreaLen) => other[c] = image[c]
<1> SUFFICES ASSUME NEW c \in Cells, ~(c >= AreaLen) PROVE other[c] = image[c]
  OBVIOUS
<1>1. c \in 0 .. AreaLen - 1
  BY LevelPayloadsAssumption DEF LevelPayloadsAssumption, Cells
<1> QED
  BY <1>1 DEF AreaSame

\* Each entry is one from before whose block or cell stays, or stands anew.
LEMMA StepKeepsInvariant ==
    ASSUME PayloadsInvariant, NEW gone, NEW made, Moved(rom, rom', gone, made),
           Shapes',
           \A t \in TableNames, k \in Levels :
               \/ \E j \in Levels :
                     /\ pointer'[t][k] = pointer[t][j] /\ asked'[t][k] = asked[t][j]
                     /\ Expanded(pointer[t][j]) => pointer[t][j].pc - 1 \notin gone
                     /\ pointer[t][j] # Null /\ pointer[t][j].pc < AreaLen =>
                            rom'[pointer[t][j].pc] = rom[pointer[t][j].pc]
               \/ /\ EntryStands(rom', pointer'[t][k])
                  /\ Resolve(rom', pointer'[t][k]) = asked'[t][k],
           ExitsStand(rom', pointer', exits', exitsAsked')
    PROVE  PayloadsInvariant'
<1>1. AreaIsSound(rom) /\ AreaIsSound(rom')
  BY DEF PayloadsInvariant, Moved
<1>2. ASSUME NEW t \in TableNames, NEW k \in Levels
      PROVE  EntryStands(rom', pointer'[t][k]) /\ Resolve(rom', pointer'[t][k]) = asked'[t][k]
  <2>1. ASSUME NEW j \in Levels,
               pointer'[t][k] = pointer[t][j], asked'[t][k] = asked[t][j],
               Expanded(pointer[t][j]) => pointer[t][j].pc - 1 \notin gone,
               pointer[t][j] # Null /\ pointer[t][j].pc < AreaLen =>
                   rom'[pointer[t][j].pc] = rom[pointer[t][j].pc]
        PROVE  /\ EntryStands(rom', pointer'[t][k])
               /\ Resolve(rom', pointer'[t][k]) = asked'[t][k]
    <3>1. /\ pointer[t][j] \in Entries /\ EntryStands(rom, pointer[t][j])
          /\ Resolve(rom, pointer[t][j]) = asked[t][j]
      BY EntryFacts
    <3>2. /\ EntryStands(rom', pointer[t][j])
          /\ Resolve(rom', pointer[t][j]) = Resolve(rom, pointer[t][j])
      BY <1>1, <2>1, <3>1, EntryKept
    <3> QED
      BY <2>1, <3>1, <3>2
  <2> QED
    BY <2>1
<1> QED
  BY <1>1, <1>2 DEF PayloadsInvariant

-----------------------------------------------------------------------------
(* Saves, relocations and reclamations *)

\* Erasing blocks no entry points at.
LEMMA ReclaimingKeeps ==
    ASSUME PayloadsInvariant, NEW owned \in SUBSET Own, ReclaimOwned(owned)
    PROVE  PayloadsInvariant' /\ \E gone, made : Moves(gone, made)
<1> DEFINE gone == owned \ Referenced(rom, pointer, Slots)
<1>1. /\ rom' = Erase(rom, gone) /\ pointer' = pointer /\ exits' = exits
      /\ asked' = asked /\ exitsAsked' = exitsAsked
  BY DEF ReclaimOwned
<1>2. /\ AreaIsSound(rom) /\ Shapes
      /\ ExitsStand(rom, pointer, exits, exitsAsked)
  BY DEF PayloadsInvariant
<1>3. /\ gone \in SUBSET Beyond(rom) /\ gone \cap Foreign = {}
      /\ gone \cap ExitsBlock(exits) = {}
  BY DEF Own, Beyond
<1>4. \A t \in TableNames, k \in Levels :
          Expanded(pointer[t][k]) => pointer[t][k].pc - 1 \notin gone
  <2> TAKE t \in TableNames, k \in Levels
  <2>1. <<t, k>> \in Slots /\ <<t, k>>[1] = t /\ <<t, k>>[2] = k
    BY DEF Slots
  <2>2. Slots \in SUBSET Slots
    OBVIOUS
  <2>3. Expanded(pointer[t][k]) => pointer[t][k].pc - 1 \in Referenced(rom, pointer, Slots)
    BY <2>1, <2>2, ReferencedFacts
  <2> QED
    BY <2>3
<1> HIDE DEF gone
<1>5. /\ Moved(rom, rom', gone, {}) /\ AreaSame(rom, rom')
      /\ Beyond(rom') = Beyond(rom) \ gone
  <2>1. /\ Moved(rom, Erase(rom, gone), gone, {}) /\ AreaSame(rom, Erase(rom, gone))
        /\ Beyond(Erase(rom, gone)) = Beyond(rom) \ gone
    BY <1>2, <1>3, ErasedMoved
  <2> QED
    BY <1>1, <2>1
<1>6. ExitsStand(rom', pointer', exits', exitsAsked')
  <2>1. \A t \in TableNames, k \in Levels :
            exits # Null /\ pointer[t][k] # Null => pointer[t][k].pc # exits.pc
    BY <1>2 DEF ExitsStand
  <2>2. ExitsStand(rom', pointer, exits, exitsAsked)
    BY <1>2, <1>3, <1>5, <2>1, ExitsKept
  <2> QED
    BY <1>1, <2>2
<1>7. Shapes'
  BY <1>1, <1>2, <1>5 DEF Shapes, Moved
<1>8. ASSUME NEW t \in TableNames, NEW k \in Levels
      PROVE  /\ pointer'[t][k] = pointer[t][k] /\ asked'[t][k] = asked[t][k]
             /\ Expanded(pointer[t][k]) => pointer[t][k].pc - 1 \notin gone
             /\ pointer[t][k] # Null /\ pointer[t][k].pc < AreaLen =>
                    rom'[pointer[t][k].pc] = rom[pointer[t][k].pc]
  <2>1. pointer[t][k] \in Entries
    BY EntryFacts
  <2> QED
    BY <1>1, <1>4, <1>5, <2>1, AreaIsRead
<1>9. PayloadsInvariant'
  BY <1>5, <1>6, <1>7, <1>8, StepKeepsInvariant
<1>10. Moves(gone, {})
  <2>1. \A c \in Cells : ~(c >= AreaLen) => rom'[c] = rom[c]
    BY <1>5, AreaNotChanged
  <2>2. gone \cap Beyond(rom') = {}
    BY <1>5
  <2>3. \A t \in TableNames, k \in Levels : \E j \in Levels : pointer'[t][k] = pointer[t][j]
    BY <1>1
  <2> QED
    BY <1>1, <1>3, <1>5, <2>1, <2>2, <2>3 DEF Moves
<1> QED
  BY <1>9, <1>10

\* The requests of a save are all staged at the end.
LEMMA AllAreStaged ==
    ASSUME NEW requests \in Requests
    PROVE  Staging(requests, Len(Tables)) = DOMAIN requests
<1>1. PICK group \in SUBSET TableNames : requests \in [group -> Payloads]
  BY DEF Requests
<1>2. Tables \in Seq(TableNames)
  BY LevelPayloadsAssumption DEF LevelPayloadsAssumption
<1>3. \A t \in TableNames : \E j \in 1 .. Len(Tables) : Tables[j] = t
  BY <1>2 DEF TableNames
<1> QED
  BY <1>1, <1>3 DEF Staging

\* A save that fits, and the previous blocks it erases, if any.
LEMMA SavingKeeps ==
    ASSUME PayloadsInvariant, ExitsAreApart,
           NEW l \in Levels, NEW requests \in Requests, NEW reuse \in BOOLEAN,
           Staged(l, requests, reuse).fits,
           NEW gone \in SUBSET Beyond(rom), gone \cap Staged(l, requests, reuse).results = {},
           gone \cap Foreign = {}, gone \cap ExitsBlock(exits) = {},
           \A t \in TableNames, k \in Levels :
               ~(k = l /\ t \in DOMAIN requests) /\ Expanded(pointer[t][k])
               => pointer[t][k].pc - 1 \notin gone,
           rom' = Erase(Staged(l, requests, reuse).rom, gone),
           pointer' = Staged(l, requests, reuse).pointer,
           Answer(l, requests), exits' = exits, exitsAsked' = exitsAsked
    PROVE  PayloadsInvariant' /\ \E freed, made : Moves(freed, made)
<1> DEFINE s == Staged(l, requests, reuse)
<1>1. /\ AreaIsSound(rom) /\ Shapes
      /\ ExitsStand(rom, pointer, exits, exitsAsked)
  BY DEF PayloadsInvariant
<1>2. StagedTo(l, requests, Len(Tables), s)
  BY <1>1, StagedFacts DEF Shapes
<1>3. rom' = Erase(s.rom, gone) /\ pointer' = s.pointer /\ gone \cap s.results = {}
  OBVIOUS
<1> HIDE DEF s
<1>4. /\ Moved(rom, s.rom, {}, {}) /\ AreaSame(rom, s.rom) /\ AreaIsSound(s.rom)
      /\ s.pointer \in [TableNames -> [Levels -> Entries]]
      /\ s.results \subseteq Beyond(s.rom)
  BY <1>2 DEF StagedTo, Moved
<1>5. gone \in SUBSET Beyond(s.rom)
  <2>1. \A b \in Beyond(rom) \ {} : b \in Beyond(s.rom)
    BY <1>4, KeptBlock
  <2> QED
    BY <2>1
<1>6. /\ Moved(s.rom, rom', gone, {}) /\ AreaSame(s.rom, rom')
      /\ Beyond(rom') = Beyond(s.rom) \ gone
  <2>1. /\ Moved(s.rom, Erase(s.rom, gone), gone, {}) /\ AreaSame(s.rom, Erase(s.rom, gone))
        /\ Beyond(Erase(s.rom, gone)) = Beyond(s.rom) \ gone
    BY <1>4, <1>5, ErasedMoved
  <2> QED
    BY <1>3, <2>1
<1>7. Moved(rom, rom', gone, {}) /\ AreaSame(rom, rom')
  <2>1. Moved(rom, rom', {} \cup gone, {} \cup {})
    BY <1>4, <1>6, MovedTwice
  <2>2. {} \cup gone = gone /\ {} \cup {} = {}
    OBVIOUS
  <2>3. Moved(rom, rom', gone, {})
    BY <2>1, <2>2
  <2> QED
    BY <1>4, <1>6, <2>3 DEF AreaSame
<1>8. AreaIsSound(rom')
  BY <1>7 DEF Moved
<1>9. Staging(requests, Len(Tables)) = DOMAIN requests
  BY AllAreStaged
<1>10. \A t \in TableNames, k \in Levels :
          asked'[t][k] = IF k = l /\ t \in DOMAIN requests THEN requests[t] ELSE asked[t][k]
  BY <1>1 DEF Answer, Shapes
<1>11. requests \in [DOMAIN requests -> Payloads]
  <2>1. PICK group \in SUBSET TableNames : requests \in [group -> Payloads]
    BY DEF Requests
  <2> QED
    BY <2>1
<1>12. ASSUME NEW t \in TableNames, NEW k \in Levels, k = l /\ t \in DOMAIN requests
       PROVE  \E b \in Beyond(rom') : /\ Permits(b, b + rom'[b].size, Protected)
                                      /\ pointer'[t][k] = PcToSnes(b)
                                      /\ Payload(rom', b) = requests[t]
                                      /\ Payload(rom', b) \in Payloads
                                      /\ asked'[t][k] = requests[t]
  <2>1. StoredAs(s, s.pointer[t][k], requests[t])
    BY <1>2, <1>9, <1>12 DEF StagedTo
  <2>2. PICK b \in s.results : /\ Permits(b, b + s.rom[b].size, Protected)
                               /\ s.pointer[t][k] = PcToSnes(b)
                               /\ Payload(s.rom, b) = requests[t]
    BY <2>1 DEF StoredAs
  <2>3. b \in Beyond(s.rom) \ gone
    BY <1>3, <1>4
  <2>4. b \in Beyond(rom') /\ rom'[b] = s.rom[b] /\ Payload(rom', b) = Payload(s.rom, b)
    BY <1>6, <2>3, KeptBlock
  <2> QED
    BY <1>3, <1>10, <1>11, <1>12, <2>2, <2>4
<1>13. ASSUME NEW t \in TableNames, NEW k \in Levels, ~(k = l /\ t \in DOMAIN requests)
       PROVE  /\ pointer'[t][k] = pointer[t][k] /\ asked'[t][k] = asked[t][k]
              /\ Expanded(pointer[t][k]) => pointer[t][k].pc - 1 \notin gone
              /\ pointer[t][k] # Null /\ pointer[t][k].pc < AreaLen =>
                     rom'[pointer[t][k].pc] = rom[pointer[t][k].pc]
  <2>1. pointer[t][k] \in Entries
    BY EntryFacts
  <2>2. s.pointer[t][k] = pointer[t][k]
    BY <1>2, <1>9, <1>13 DEF StagedTo
  <2> QED
    BY <1>3, <1>7, <1>10, <1>13, <2>1, <2>2, AreaIsRead
<1>14. ASSUME NEW t \in TableNames, NEW k \in Levels, k = l /\ t \in DOMAIN requests
       PROVE  /\ EntryStands(rom', pointer'[t][k])
              /\ Resolve(rom', pointer'[t][k]) = asked'[t][k]
  <2>1. PICK b \in Beyond(rom') : /\ pointer'[t][k] = PcToSnes(b)
                                  /\ Payload(rom', b) = requests[t]
                                  /\ asked'[t][k] = requests[t]
    BY <1>12, <1>14
  <2>2. pointer'[t][k] = Pointer(b, "high")
    BY <2>1 DEF PcToSnes
  <2>3. /\ pointer'[t][k].bank = "high" /\ pointer'[t][k].pc - 1 \in Scan(rom')
        /\ Resolve(rom', pointer'[t][k]) = Payload(rom', b)
    BY <1>8, <2>2, PointerFacts
  <2> QED
    BY <2>1, <2>3 DEF EntryStands
<1>15. ExitsStand(rom', pointer', exits, exitsAsked)
  <2>1. ASSUME NEW t \in TableNames, NEW k \in Levels, exits # Null, pointer'[t][k] # Null
        PROVE  pointer'[t][k].pc # exits.pc
    <3>1. CASE ~(k = l /\ t \in DOMAIN requests)
      BY <1>1, <1>13, <2>1, <3>1 DEF ExitsStand
    <3>2. CASE k = l /\ t \in DOMAIN requests
      <4>1. PICK b \in Beyond(rom') : /\ pointer'[t][k] = PcToSnes(b)
                                      /\ Payload(rom', b) \in Payloads
        BY <1>12, <3>2
      <4>2. pointer'[t][k] = Pointer(b, "high")
        BY <4>1 DEF PcToSnes
      <4>3. pointer'[t][k].pc - 1 = b
        BY <1>8, <4>2, PointerFacts
      <4>4. /\ exits.pc - 1 \in Beyond(rom) /\ ExitsBlock(exits) = {exits.pc - 1}
            /\ Payload(rom, exits.pc - 1) \in ExitPlanes
        BY <1>1, <2>1, ExitsFacts DEF ExitsStand
      <4>5. Payload(rom', exits.pc - 1) = Payload(rom, exits.pc - 1)
        <5>1. exits.pc - 1 \in Beyond(rom) \ gone
          BY <4>4
        <5> QED
          BY <1>7, <5>1, KeptBlock
      <4>6. b # exits.pc - 1
        BY <4>1, <4>4, <4>5 DEF ExitsAreApart
      <4> QED
        BY <4>3, <4>6
    <3> QED
      BY <3>1, <3>2
  <2> QED
    BY <1>1, <1>7, <2>1, ExitsKept
<1>16. Shapes'
  <2>1. pointer' \in [TableNames -> [Levels -> Entries]]
    BY <1>3, <1>4
  <2>2. asked' = [t \in TableNames |-> [k \in Levels |-> asked'[t][k]]]
    <3>1. \A t \in TableNames : asked[t] = [k \in Levels |-> asked[t][k]]
      BY <1>1 DEF Shapes
    <3>2. asked' = [t \in TableNames |->
                [asked[t] EXCEPT ![l] = IF t \in DOMAIN requests
                                        THEN requests[t] ELSE asked[t][l]]]
      BY DEF Answer
    <3>3. \A t \in TableNames :
              /\ asked'[t] = [asked[t] EXCEPT ![l] = IF t \in DOMAIN requests
                                        THEN requests[t] ELSE asked[t][l]]
              /\ asked'[t] = [k \in Levels |-> asked'[t][k]]
      BY <3>1, <3>2
    <3> QED
      BY <3>2, <3>3
  <2> QED
    BY <1>7, <2>1, <2>2 DEF Shapes, Moved
<1>17. PayloadsInvariant'
  BY <1>7, <1>13, <1>14, <1>15, <1>16, StepKeepsInvariant
<1>18. Moves(gone, {})
  <2>1. \A c \in Cells : ~(c >= AreaLen) => rom'[c] = rom[c]
    BY <1>7, AreaNotChanged
  <2>2. gone \cap Beyond(rom') = {}
    BY <1>6
  <2>3. ASSUME NEW t \in TableNames, NEW k \in Levels
        PROVE  \/ \E j \in Levels : pointer'[t][k] = pointer[t][j]
               \/ \E b \in Scan(rom') : /\ Permits(b, b + rom'[b].size, Protected)
                                        /\ pointer'[t][k] = PcToSnes(b)
                                        /\ Payload(rom', b) \in Payloads
    <3>1. Beyond(rom') \subseteq Scan(rom')
      BY DEF Beyond
    <3> QED
      BY <1>12, <1>13, <3>1
  <2> QED
    BY <1>7, <2>1, <2>2, <2>3 DEF Moves
<1> QED
  BY <1>17, <1>18

\* A save leaves the displaced blocks where they are.
LEMMA SavePayloadsKeeps ==
    ASSUME PayloadsInvariant, ExitsAreApart,
           NEW l \in Levels, NEW requests \in Requests, NEW reuse \in BOOLEAN,
           SavePayloads(l, requests, reuse)
    PROVE  PayloadsInvariant' /\ \E gone, made : Moves(gone, made)
<1> DEFINE s == Staged(l, requests, reuse)
<1>1. /\ s.fits /\ rom' = s.rom /\ pointer' = s.pointer /\ Answer(l, requests)
      /\ exits' = exits /\ exitsAsked' = exitsAsked
  BY DEF SavePayloads
<1>2. StagedTo(l, requests, Len(Tables), s)
  BY <1>1, StagedFacts DEF PayloadsInvariant, Shapes
<1> HIDE DEF s
<1>3. s.rom = Erase(s.rom, {})
  BY <1>2 DEF Erase, StagedTo, Moved
<1> QED
  BY <1>1, <1>3, SavingKeeps DEF s

\* A relocation erases them.
LEMMA RelocatePayloadsKeeps ==
    ASSUME PayloadsInvariant, ExitsAreApart,
           NEW l \in Levels, NEW requests \in Requests, NEW reuse \in BOOLEAN,
           RelocatePayloads(l, requests, reuse)
    PROVE  PayloadsInvariant' /\ \E gone, made : Moves(gone, made)
<1> DEFINE s == Staged(l, requests, reuse)
           rewritten == (DOMAIN requests) \X {l}
           previous == Referenced(rom, pointer, rewritten)
           freed == previous \ s.results
<1>1. /\ previous \subseteq Own \ Referenced(rom, pointer, Slots \ rewritten)
      /\ s.fits /\ rom' = Erase(s.rom, freed) /\ pointer' = s.pointer
      /\ Answer(l, requests) /\ exits' = exits /\ exitsAsked' = exitsAsked
  BY DEF RelocatePayloads
<1>2. /\ freed \in SUBSET Beyond(rom) /\ freed \cap s.results = {}
      /\ freed \cap Foreign = {} /\ freed \cap ExitsBlock(exits) = {}
  BY <1>1 DEF Own, Beyond
<1>3. ASSUME NEW t \in TableNames, NEW k \in Levels,
             ~(k = l /\ t \in DOMAIN requests), Expanded(pointer[t][k])
      PROVE  pointer[t][k].pc - 1 \notin freed
  <2>1. /\ <<t, k>> \in Slots \ rewritten /\ Slots \ rewritten \in SUBSET Slots
        /\ <<t, k>>[1] = t /\ <<t, k>>[2] = k
    BY <1>3 DEF Slots
  <2>2. pointer[t][k].pc - 1 \in Referenced(rom, pointer, Slots \ rewritten)
    BY <1>3, <2>1, ReferencedFacts
  <2> QED
    BY <1>1, <2>2
<1> HIDE DEF freed
<1> QED
  BY <1>1, <1>2, <1>3, SavingKeeps

-----------------------------------------------------------------------------
(* Saving the exits *)

\* What saving the exits does to an image.
Repacked(image, other, p, q, planes) ==
    /\ Moved(image, other, ExitsBlock(p), ExitsBlock(q))
    /\ AreaSame(image, other)
    /\ Beyond(other) = (Beyond(image) \ ExitsBlock(p)) \cup ExitsBlock(q)
    /\ ExitsBlock(q) \cap (Beyond(image) \ ExitsBlock(p)) = {}
    /\ \/ q = Null /\ planes = <<>>
       \/ /\ q \in Pointers /\ Expanded(q) /\ q.pc - 1 \in Scan(other)
          /\ Payload(other, q.pc - 1) = planes /\ planes \in ExitPlanes
    /\ \A c \in Cells : image[c] = Fill =>
           other[c] = Fill \/ \E d \in ExitsBlock(q) : c \in Extent(other, d)

\* The old block of the exits is given up and at most one is made.
LEMMA SavedExitsFacts ==
    ASSUME NEW image, image = [c \in Cells |-> image[c]], AreaIsSound(image),
           NEW p, ExitsBlock(p) \subseteq Beyond(image),
           NEW planes, planes = <<>> \/ planes \in ExitPlanes,
           SavedExits(image, p, planes).fits,
           NEW other, other = SavedExits(image, p, planes).rom,
           NEW q, q = SavedExits(image, p, planes).exits
    PROVE  Repacked(image, other, p, q, planes)
<1> DEFINE old == ExitsBlock(p)
           without == Erase(image, old)
           free == FreeStarts(without, Len(planes), {})
<1>1. /\ Moved(image, without, old, {}) /\ AreaSame(image, without)
      /\ Beyond(without) = Beyond(image) \ old
  BY ErasedMoved
<1>2. \A c \in Cells : image[c] = Fill => without[c] = Fill
  BY DEF Erase
<1>3. old \subseteq Beyond(image)
  OBVIOUS
<1>4. CASE planes = <<>>
  <2>1. SavedExits(image, p, planes) = [rom |-> without, exits |-> Null, fits |-> TRUE]
    BY <1>4 DEF SavedExits
  <2>2. other = without /\ q = Null
    BY <2>1
  <2>3. ExitsBlock(q) = {}
    BY <2>2 DEF ExitsBlock
  <2> HIDE DEF without, old
  <2>4. Moved(image, other, old, ExitsBlock(q)) /\ AreaSame(image, other)
    BY <1>1, <2>2, <2>3
  <2>5. Beyond(other) = (Beyond(image) \ old) \cup ExitsBlock(q)
    BY <1>1, <2>2, <2>3
  <2> QED
    BY <1>2, <1>4, <2>2, <2>3, <2>4, <2>5 DEF old, Repacked
<1>5. CASE planes # <<>>
  <2> DEFINE s == First(free)
  <2>1. planes \in Storable /\ planes \in ExitPlanes
    BY <1>5 DEF Storable
  <2>2. free # {}
    <3>1. free = {} => SavedExits(image, p, planes) =
                           [rom |-> image, exits |-> p, fits |-> FALSE]
      BY <1>5 DEF SavedExits
    <3> QED
      BY <3>1
  <2>3. SavedExits(image, p, planes) =
            [rom   |-> WriteBlock(without, s, planes),
             exits |-> Pointer(s, "low"),
             fits  |-> TRUE]
    BY <1>5, <2>2 DEF SavedExits
  <2>4. other = WriteBlock(without, s, planes) /\ q = Pointer(s, "low")
    BY <2>3
  <2>5. HasRoom(without, planes, s)
    BY <2>1, <2>2, FirstFree
  <2> HIDE DEF without, old, free, s
  <2>6. AreaIsSound(without)
    BY <1>1 DEF Moved
  <2>7. /\ Moved(without, WriteBlock(without, s, planes), {}, {s})
        /\ AreaSame(without, WriteBlock(without, s, planes))
        /\ Beyond(WriteBlock(without, s, planes)) = Beyond(without) \cup {s}
    BY <2>1, <2>5, <2>6, WrittenMoved
  <2>8. Payload(WriteBlock(without, s, planes), s) = planes
    BY ONLY <2>1, <2>5, WrittenFacts
  <2>9. /\ Moved(without, other, {}, {s}) /\ AreaSame(without, other)
        /\ Beyond(other) = Beyond(without) \cup {s} /\ Payload(other, s) = planes
    BY <2>4, <2>7, <2>8
  <2>10. AreaIsSound(other) /\ s \in Beyond(other)
    BY <2>9 DEF Moved
  <2>11. /\ q \in Pointers /\ Expanded(q) /\ q.pc - 1 = s /\ q.pc - 1 \in Scan(other)
    BY <2>4, <2>10, PointerFacts
  <2>12. ExitsBlock(q) = {s}
    BY <2>11 DEF ExitsBlock, Expanded
  <2>13. Moved(image, other, old, {s})
    <3>1. Moved(image, other, old \cup {}, {} \cup {s})
      BY <1>1, <2>9, MovedTwice
    <3> QED
      BY <3>1
  <2>14. AreaSame(image, other)
    BY <1>1, <2>9 DEF AreaSame
  <2>15. s \notin Beyond(without)
    <3>1. /\ s \in Nat /\ s .. s + Len(planes) \subseteq Cells
          /\ \A c \in s .. s + Len(planes) : \A b \in Scan(without) : c \notin Extent(without, b)
      BY <2>1, <2>5, WrittenFacts
    <3>2. Len(planes) \in Nat
      BY <2>1, PayloadFacts
    <3>3. s \in s .. s + Len(planes)
      BY <3>1, <3>2
    <3>4. \A b \in Scan(without) : b \in Extent(without, b)
      BY ScannedFacts
    <3> QED
      BY <3>1, <3>3, <3>4 DEF Beyond
  <2>16. ASSUME NEW c \in Cells, without[c] = Fill
         PROVE  other[c] = Fill \/ c \in Extent(other, s)
    <3>1. /\ \A d \in Cells : d \notin s .. s + Len(planes) =>
                 WriteBlock(without, s, planes)[d] = without[d]
      BY <2>1, <2>5, WrittenFacts
    <3>2. Extent(WriteBlock(without, s, planes), s) = s .. s + Len(planes)
      BY <2>1, <2>5, WrittenSize
    <3> QED
      BY <2>4, <2>16, <3>1, <3>2
  <2> QED
    BY <1>1, <1>2, <2>1, <2>9, <2>11, <2>12, <2>13, <2>14, <2>15, <2>16 DEF old, Repacked
<1> QED
  BY <1>4, <1>5

\* The new block is no entry's.
LEMMA NewExitsStand ==
    ASSUME NEW image, NEW other, AreaIsSound(image), AreaIsSound(other),
           NEW old, NEW q, NEW planes,
           Beyond(other) = (Beyond(image) \ old) \cup ExitsBlock(q),
           ExitsBlock(q) \cap (Beyond(image) \ old) = {},
           \/ q = Null /\ planes = <<>>
           \/ /\ q \in Pointers /\ Expanded(q) /\ q.pc - 1 \in Scan(other)
              /\ Payload(other, q.pc - 1) = planes /\ planes \in ExitPlanes,
           NEW tables,
           \A t \in TableNames, k \in Levels :
               /\ tables[t][k] \in Entries
               /\ Expanded(tables[t][k]) => tables[t][k].pc - 1 \in Beyond(image) \ old
    PROVE  ExitsStand(other, tables, q, planes)
<1>1. CASE q = Null /\ planes = <<>>
  BY <1>1 DEF ExitsStand
<1>2. CASE ~(q = Null /\ planes = <<>>)
  <2>1. /\ q \in Pointers /\ Expanded(q) /\ q.pc - 1 \in Scan(other)
        /\ Payload(other, q.pc - 1) = planes /\ planes \in ExitPlanes
    BY <1>2
  <2>2. ExitsBlock(q) = {q.pc - 1} /\ ~(q.pc < AreaLen)
    BY <2>1 DEF ExitsBlock, Expanded
  <2>3. ASSUME NEW t \in TableNames, NEW k \in Levels, tables[t][k] # Null
        PROVE  tables[t][k].pc # q.pc
    <3>1. CASE Expanded(tables[t][k])
      <4>1. tables[t][k].pc - 1 # q.pc - 1
        BY <2>2, <3>1
      <4> QED
        BY <4>1
    <3>2. CASE ~Expanded(tables[t][k])
      BY <2>2, <2>3, <3>2 DEF Expanded
    <3> QED
      BY <3>1, <3>2
  <2> QED
    BY <2>1, <2>3 DEF ExitsStand
<1> QED
  BY <1>1, <1>2

\* A changed table is saved.
LEMMA SaveExitsKeeps ==
    ASSUME PayloadsInvariant, NEW planes \in ExitPlanes, SaveExits(planes)
    PROVE  PayloadsInvariant' /\ \E gone, made : Moves(gone, made)
<1> DEFINE old == ExitsBlock(exits)
           new == ExitsBlock(exits')
<1>1. /\ SavedExits(rom, exits, planes).fits
      /\ rom' = SavedExits(rom, exits, planes).rom
      /\ exits' = SavedExits(rom, exits, planes).exits
      /\ exitsAsked' = planes /\ pointer' = pointer /\ asked' = asked
  BY DEF SaveExits
<1>2. /\ AreaIsSound(rom) /\ Shapes /\ rom = [c \in Cells |-> rom[c]]
      /\ ExitsStand(rom, pointer, exits, exitsAsked)
  BY DEF PayloadsInvariant, Shapes
<1>3. old \subseteq Beyond(rom)
  BY <1>2, ExitsFacts
<1>4. /\ Moved(rom, rom', old, new) /\ AreaSame(rom, rom')
      /\ Beyond(rom') = (Beyond(rom) \ old) \cup new
      /\ new \cap (Beyond(rom) \ old) = {}
      /\ \/ exits' = Null /\ planes = <<>>
         \/ /\ exits' \in Pointers /\ Expanded(exits') /\ exits'.pc - 1 \in Scan(rom')
            /\ Payload(rom', exits'.pc - 1) = planes /\ planes \in ExitPlanes
  <2>1. Repacked(rom, rom', exits, exits', planes)
    BY <1>1, <1>2, <1>3, SavedExitsFacts
  <2> QED
    BY <2>1 DEF Repacked
<1>5. \A t \in TableNames, k \in Levels :
          /\ pointer[t][k] \in Entries
          /\ Expanded(pointer[t][k]) => pointer[t][k].pc - 1 \in Beyond(rom) \ old
  BY EntryFacts
<1> HIDE DEF old, new
<1>6. AreaIsSound(rom')
  BY <1>4 DEF Moved
<1>7. ExitsStand(rom', pointer', exits', exitsAsked')
  BY <1>1, <1>2, <1>4, <1>5, <1>6, NewExitsStand DEF new
<1>8. Shapes'
  BY <1>1, <1>2, <1>4 DEF Shapes, Moved
<1>9. ASSUME NEW t \in TableNames, NEW k \in Levels
      PROVE  /\ pointer'[t][k] = pointer[t][k] /\ asked'[t][k] = asked[t][k]
             /\ Expanded(pointer[t][k]) => pointer[t][k].pc - 1 \notin old
             /\ pointer[t][k] # Null /\ pointer[t][k].pc < AreaLen =>
                    rom'[pointer[t][k].pc] = rom[pointer[t][k].pc]
  BY <1>1, <1>4, <1>5, AreaIsRead
<1>10. PayloadsInvariant'
  BY <1>4, <1>7, <1>8, <1>9, StepKeepsInvariant
<1>11. Moves(old, new)
  <2>1. \A c \in Cells : ~(c >= AreaLen) => rom'[c] = rom[c]
    BY <1>4, AreaNotChanged
  <2>2. \A t \in TableNames, k \in Levels : \E j \in Levels : pointer'[t][k] = pointer[t][j]
    BY <1>1
  <2>3. old \cap Beyond(rom') \subseteq new
    BY <1>4
  <2> QED
    BY <1>3, <1>4, <2>1, <2>2, <2>3 DEF Moves, old, new
<1> QED
  BY <1>10, <1>11

-----------------------------------------------------------------------------
(* The deletion of levels *)

\* What a command has deleted after the first i levels.
DeletedAfter(levels) ==
    CHOOSE after : after = [i \in 0 .. LevelCount |->
        IF i = 0
        THEN [rom |-> rom, pointer |-> pointer, asked |-> asked, orphaned |-> orphaned]
        ELSE IF i - 1 \in levels
             THEN DeleteLevel(after[i - 1], i - 1)
             ELSE after[i - 1]]

\* The name of that function.
LEMMA DeletedIsAfter ==
    ASSUME NEW levels
    PROVE  Deleted(levels) = DeletedAfter(levels)[LevelCount]
  BY Zenon DEF Deleted, DeletedAfter

\* Such a function exists, so the recursion of Deleted is what it says.
LEMMA DeletedRecursion ==
    ASSUME NEW levels
    PROVE  DeletedAfter(levels) = [i \in 0 .. LevelCount |->
               IF i = 0
               THEN [rom |-> rom, pointer |-> pointer, asked |-> asked, orphaned |-> orphaned]
               ELSE IF i - 1 \in levels
                    THEN DeleteLevel(DeletedAfter(levels)[i - 1], i - 1)
                    ELSE DeletedAfter(levels)[i - 1]]
<1> DEFINE n == LevelCount
           start == [rom |-> rom, pointer |-> pointer, asked |-> asked, orphaned |-> orphaned]
           Found(g, i) == IF i = 0 THEN start
                          ELSE IF i - 1 \in levels
                               THEN DeleteLevel(g[i - 1], i - 1)
                               ELSE g[i - 1]
           Solves(g, k) == g = [i \in 0 .. k |-> Found(g, i)]
           Unsolved == {k \in 0 .. n : ~ \E g : Solves(g, k)}
<1>1. n \in Nat
  BY LevelPayloadsAssumption DEF LevelPayloadsAssumption
<1>2. ASSUME NEW m \in Unsolved, \A k \in Unsolved : m <= k
      PROVE  FALSE
  <2>1. m \in 0 .. n /\ ~ \E g : Solves(g, m)
    OBVIOUS
  <2>2. m # 0
    <3> DEFINE e == [i \in 0 .. 0 |-> start]
    <3>1. \A i \in 0 .. 0 : i = 0
      OBVIOUS
    <3>2. \A i \in 0 .. 0 : Found(e, i) = start
      BY <3>1
    <3>3. Solves(e, 0)
      <4> HIDE DEF Found, start
      <4> QED
        BY <3>2
    <3> QED
      BY <2>1, <3>3
  <2>3. m - 1 \in 0 .. n /\ m - 1 \notin Unsolved
    <3>1. m - 1 \in 0 .. n /\ ~(m <= m - 1)
      BY <1>1, <2>1, <2>2
    <3> HIDE DEF Unsolved
    <3> QED
      BY <1>2, <3>1
  <2>4. PICK g : Solves(g, m - 1)
    BY <2>3
  <2> DEFINE h == [i \in 0 .. m |-> IF i = m THEN Found(g, m) ELSE g[i]]
  <2>5. ASSUME NEW i \in 0 .. m
        PROVE  Found(g, i) = Found(h, i)
    <3>1. CASE i = 0
      BY <3>1
    <3>2. CASE i # 0
      <4>1. i - 1 \in 0 .. m /\ i - 1 # m
        BY <1>1, <2>1, <3>2
      <4>2. h[i - 1] = g[i - 1]
        <5> HIDE DEF Found
        <5> QED BY <4>1
      <4> HIDE DEF h
      <4> QED
        BY <4>2
    <3> QED
      BY <3>1, <3>2
  <2>6. ASSUME NEW i \in 0 .. m
        PROVE  h[i] = Found(g, i)
    <3> HIDE DEF Found
    <3>1. CASE i = m
      BY <3>1
    <3>2. CASE i # m
      <4>1. i \in 0 .. m - 1
        BY <1>1, <2>1, <3>2
      <4>2. g[i] = Found(g, i)
        BY <2>4, <4>1
      <4>3. h[i] = g[i]
        BY <3>2
      <4> QED
        BY <4>2, <4>3
    <3> QED
      BY <3>1, <3>2
  <2>7. Solves(h, m)
    <3>1. h = [i \in 0 .. m |-> h[i]]
      OBVIOUS
    <3> HIDE DEF h, Found
    <3>2. \A i \in 0 .. m : h[i] = Found(h, i)
      BY <2>5, <2>6
    <3> QED
      BY <3>1, <3>2
  <2> QED
    BY <2>1, <2>7
<1>3. Unsolved = {}
  <2> HIDE DEF Solves
  <2>1. Unsolved \subseteq Nat
    BY <1>1
  <2> HIDE DEF Unsolved
  <2> QED
    BY <1>2, <2>1, LeastNumber
<1>4. \E g : Solves(g, n)
  <2> HIDE DEF Solves
  <2> QED
    BY <1>1, <1>3
<1> QED
  BY <1>4, Zenon DEF DeletedAfter

\* Erasing again.
LEMMA ErasedTwice ==
    ASSUME NEW image, AreaIsSound(image), NEW gone \in SUBSET Beyond(image),
           NEW more \in SUBSET Beyond(Erase(image, gone))
    PROVE  /\ Erase(Erase(image, gone), more) = Erase(image, gone \cup more)
           /\ more \subseteq Beyond(image) \ gone
<1> DEFINE mid == Erase(image, gone)
<1>1. Moved(image, mid, gone, {}) /\ Beyond(mid) = Beyond(image) \ gone
  BY ErasedMoved
<1>2. more \subseteq Beyond(image) \ gone
  BY <1>1
<1>3. \A b \in more : Extent(mid, b) = Extent(image, b)
  <2> HIDE DEF mid
  <2> QED
    BY <1>1, <1>2, KeptBlock
<1>4. \A c \in Cells : (\E b \in more : c \in Extent(mid, b)) <=>
                       (\E b \in more : c \in Extent(image, b))
  BY <1>3
<1>5. ASSUME NEW c \in Cells
      PROVE  Erase(mid, more)[c] = Erase(image, gone \cup more)[c]
  <2>1. Erase(mid, more)[c] = IF \E b \in more : c \in Extent(mid, b) THEN Fill ELSE mid[c]
    BY DEF Erase
  <2>2. mid[c] = IF \E b \in gone : c \in Extent(image, b) THEN Fill ELSE image[c]
    BY DEF Erase
  <2>3. Erase(image, gone \cup more)[c] =
            IF \E b \in gone \cup more : c \in Extent(image, b) THEN Fill ELSE image[c]
    BY DEF Erase
  <2> HIDE DEF mid
  <2> QED
    BY <1>4, <2>1, <2>2, <2>3
<1>6. /\ Erase(mid, more) = [c \in Cells |-> Erase(mid, more)[c]]
      /\ Erase(image, gone \cup more) = [c \in Cells |-> Erase(image, gone \cup more)[c]]
  BY DEF Erase
<1> HIDE DEF mid
<1>7. Erase(mid, more) = Erase(image, gone \cup more)
  BY <1>5, <1>6
<1> QED
  BY <1>2, <1>7 DEF mid

\* Whose entries a level has once the levels before i are deleted.
Place(levels, i, k) == IF k \in levels /\ k < i THEN Test ELSE k

\* The blocks that only the levels to be deleted use, and of the test level's
\* own only when it is deleted alone.
OnlyUsedBy(levels) ==
    {b \in Referenced(rom, pointer, TableNames \X levels)
              \ Referenced(rom, pointer, TableNames \X (Levels \ levels)) :
        levels = {Test} \/ b \notin Referenced(rom, pointer, TableNames \X {Test})}

\* What holds between two levels of a deletion: blocks of the levels are gone,
\* the entries are redirected, none is left dangling unless the test level
\* lost a block, and a block only these levels use is gone or still awaited.
DeletedTo(levels, i, gone, s) ==
    /\ gone \in SUBSET Beyond(rom)
    /\ gone \subseteq Referenced(rom, pointer, TableNames \X levels)
    /\ s.rom = Erase(rom, gone)
    /\ s.pointer = [t \in TableNames |-> [k \in Levels |-> pointer[t][Place(levels, i, k)]]]
    /\ s.asked = [t \in TableNames |-> [k \in Levels |-> asked[t][Place(levels, i, k)]]]
    /\ ~s.orphaned => \A t \in TableNames, k \in Levels :
           Expanded(s.pointer[t][k]) => s.pointer[t][k].pc - 1 \notin gone
    /\ \A b \in OnlyUsedBy(levels) :
           b \in gone \/ \E t \in TableNames, k \in levels :
                             k >= i /\ pointer[t][k] = PcToSnes(b)

\* The entry of one slot among the blocks that slots point at.
LEMMA SlotIsReferenced ==
    ASSUME PayloadsInvariant, NEW t \in TableNames, NEW k \in Levels,
           NEW b \in Beyond(rom), pointer[t][k] = PcToSnes(b),
           NEW levels \in SUBSET Levels, k \in levels
    PROVE  b \in Referenced(rom, pointer, TableNames \X levels)
<1>1. AreaIsSound(rom)
  BY DEF PayloadsInvariant
<1>2. pointer[t][k] = Pointer(b, "high")
  BY DEF PcToSnes
<1>3. Expanded(pointer[t][k]) /\ pointer[t][k].pc - 1 = b
  BY <1>1, <1>2, PointerFacts
<1>4. /\ <<t, k>> \in TableNames \X levels /\ <<t, k>>[1] = t /\ <<t, k>>[2] = k
      /\ TableNames \X levels \in SUBSET Slots
  BY DEF Slots
<1> QED
  BY <1>3, <1>4, ReferencedFacts

\* One level of a deletion.
LEMMA LevelIsDeleted ==
    ASSUME PayloadsInvariant, NEW levels \in SUBSET Levels, NEW l \in levels,
           NEW gone, NEW s, DeletedTo(levels, l, gone, s)
    PROVE  \E more : DeletedTo(levels, l + 1, more, DeleteLevel(s, l))
<1> DEFINE new == Reclaimable(s.rom, s.pointer, l)
           z == DeleteLevel(s, l)
<1>1. /\ z.rom = Erase(s.rom, new) /\ z.pointer = Redirected(s.pointer, l)
      /\ z.asked = Redirected(s.asked, l)
      /\ z.orphaned = (s.orphaned \/ (l = Test /\ new # {}))
  BY DEF DeleteLevel
<1> HIDE DEF z
<1>2. AreaIsSound(rom) /\ rom = [c \in Cells |-> rom[c]]
  BY DEF PayloadsInvariant, Shapes
<1>3. /\ Levels \subseteq Nat /\ Test \in Levels /\ l \in Levels /\ l \in Nat /\ AreaLen \in Nat
  BY LevelPayloadsAssumption DEF LevelPayloadsAssumption, Levels
<1>4. /\ gone \in SUBSET Beyond(rom)
      /\ gone \subseteq Referenced(rom, pointer, TableNames \X levels)
      /\ s.rom = Erase(rom, gone)
      /\ \A t \in TableNames, k \in Levels : s.pointer[t][k] = pointer[t][Place(levels, l, k)]
      /\ s.pointer = [t \in TableNames |-> [k \in Levels |-> pointer[t][Place(levels, l, k)]]]
      /\ s.asked = [t \in TableNames |-> [k \in Levels |-> asked[t][Place(levels, l, k)]]]
  <2>1. /\ gone \in SUBSET Beyond(rom)
        /\ gone \subseteq Referenced(rom, pointer, TableNames \X levels)
        /\ s.rom = Erase(rom, gone)
        /\ s.pointer = [t \in TableNames |-> [k \in Levels |-> pointer[t][Place(levels, l, k)]]]
        /\ s.asked = [t \in TableNames |-> [k \in Levels |-> asked[t][Place(levels, l, k)]]]
    BY DEF DeletedTo
  <2>2. \A t \in TableNames, k \in Levels : s.pointer[t][k] = pointer[t][Place(levels, l, k)]
    BY <2>1
  <2> QED
    BY <2>1, <2>2
<1>5. /\ \A k \in Levels : Place(levels, l, k) \in Levels
      /\ Place(levels, l, l) = l /\ Place(levels, l, Test) = Test
  BY <1>3 DEF Place
<1>6. ASSUME NEW b \in new
      PROVE  /\ b \in Beyond(s.rom) /\ ~IsShared(s.pointer, b, l)
             /\ b \in Referenced(rom, pointer, TableNames \X levels)
  <2>1. b \in Referenced(s.rom, s.pointer, TableNames \X {l}) /\ ~IsShared(s.pointer, b, l)
    BY DEF Reclaimable
  <2>2. PICK x \in TableNames \X {l} : /\ s.pointer[x[1]][x[2]] # Null
                                       /\ Tagged(s.rom, s.pointer[x[1]][x[2]])
                                       /\ b = s.pointer[x[1]][x[2]].pc - 1
    BY <2>1 DEF Referenced
  <2>3. x[1] \in TableNames /\ x[2] = l
    OBVIOUS
  <2>4. s.pointer[x[1]][x[2]] = pointer[x[1]][l]
    BY <1>3, <1>4, <1>5, <2>3
  <2>5. /\ pointer[x[1]][l] # Null /\ pointer[x[1]][l].pc \in Nat
        /\ b = pointer[x[1]][l].pc - 1
        /\ pointer[x[1]][l].pc >= AreaLen /\ Parses(s.rom, b)
    BY <1>3, <2>2, <2>3, <2>4, EntryFacts DEF Tagged
  <2>6. Expanded(pointer[x[1]][l])
    BY <1>3, <2>5 DEF Expanded
  <2>7. b \in Beyond(rom) /\ pointer[x[1]][l] = PcToSnes(b)
    BY <1>3, <2>3, <2>5, <2>6, EntryFacts
  <2>8. b \notin gone
    <3>1. b \in Extent(rom, b) /\ b \in Cells
      BY <2>7, ScannedFacts DEF Beyond
    <3>2. b \in gone => s.rom[b] = Fill
      BY <1>4, <3>1 DEF Erase
    <3>3. s.rom[b] # Fill
      BY <2>5, ImageIsSound DEF ImageIsSound, Parses
    <3> QED
      BY <3>2, <3>3
  <2>9. b \in Beyond(s.rom)
    BY <1>2, <1>4, <2>7, <2>8, ErasedMoved
  <2>10. b \in Referenced(rom, pointer, TableNames \X levels)
    BY <1>3, <2>3, <2>7, SlotIsReferenced
  <2> QED
    BY <2>1, <2>9, <2>10
<1> HIDE DEF new
<1>7. z.rom = Erase(rom, gone \cup new) /\ new \subseteq Beyond(rom) \ gone
  <2>1. new \in SUBSET Beyond(Erase(rom, gone)) /\ gone \in SUBSET Beyond(rom)
    BY <1>4, <1>6
  <2>2. /\ Erase(Erase(rom, gone), new) = Erase(rom, gone \cup new)
        /\ new \subseteq Beyond(rom) \ gone
    BY ONLY <1>2, <2>1, ErasedTwice
  <2> QED
    BY <1>1, <1>4, <2>2
<1>8. \A k \in Levels : Place(levels, l + 1, k) =
                            IF k = l THEN Place(levels, l, Test) ELSE Place(levels, l, k)
  BY <1>3, <1>5 DEF Place
<1>9. /\ z.pointer = [t \in TableNames |-> [k \in Levels |-> pointer[t][Place(levels, l + 1, k)]]]
      /\ z.asked = [t \in TableNames |-> [k \in Levels |-> asked[t][Place(levels, l + 1, k)]]]
  <2>1. Redirected(s.pointer, l) =
            [t \in TableNames |-> [k \in Levels |-> pointer[t][Place(levels, l + 1, k)]]]
    <3> DEFINE f == s.pointer
    <3>1. f = [t \in TableNames |-> [k \in Levels |-> pointer[t][Place(levels, l, k)]]]
      BY <1>4
    <3> HIDE DEF f
    <3>2. ASSUME NEW t \in TableNames
          PROVE  [f[t] EXCEPT ![l] = f[t][Test]] =
                     [k \in Levels |-> pointer[t][Place(levels, l + 1, k)]]
      <4>1. f[t] = [k \in Levels |-> pointer[t][Place(levels, l, k)]]
        BY <3>1
      <4>2. f[t][Test] = pointer[t][Place(levels, l, Test)]
        BY <1>3, <4>1
      <4> QED
        BY <1>3, <1>8, <4>1, <4>2
    <3>3. Redirected(f, l) =
              [t \in TableNames |-> [k \in Levels |-> pointer[t][Place(levels, l + 1, k)]]]
      BY <3>2 DEF Redirected
    <3> QED
      BY <3>3 DEF f
  <2>2. Redirected(s.asked, l) =
            [t \in TableNames |-> [k \in Levels |-> asked[t][Place(levels, l + 1, k)]]]
    <3> DEFINE f == s.asked
    <3>1. f = [t \in TableNames |-> [k \in Levels |-> asked[t][Place(levels, l, k)]]]
      BY <1>4
    <3> HIDE DEF f
    <3>2. ASSUME NEW t \in TableNames
          PROVE  [f[t] EXCEPT ![l] = f[t][Test]] =
                     [k \in Levels |-> asked[t][Place(levels, l + 1, k)]]
      <4>1. f[t] = [k \in Levels |-> asked[t][Place(levels, l, k)]]
        BY <3>1
      <4>2. f[t][Test] = asked[t][Place(levels, l, Test)]
        BY <1>3, <4>1
      <4> QED
        BY <1>3, <1>8, <4>1, <4>2
    <3>3. Redirected(f, l) =
              [t \in TableNames |-> [k \in Levels |-> asked[t][Place(levels, l + 1, k)]]]
      BY <3>2 DEF Redirected
    <3> QED
      BY <3>3 DEF f
  <2> QED
    BY <1>1, <2>1, <2>2
<1>10. ASSUME ~z.orphaned, NEW t \in TableNames, NEW k \in Levels, Expanded(z.pointer[t][k])
       PROVE  z.pointer[t][k].pc - 1 \notin gone \cup new
  <2>1. ~s.orphaned /\ (l = Test => new = {})
    BY <1>1, <1>10
  <2> DEFINE j == IF k = l THEN Test ELSE k
  <2>2. j \in Levels /\ z.pointer[t][k] = s.pointer[t][j]
    BY <1>3, <1>4, <1>8, <1>9
  <2>3. Expanded(s.pointer[t][j])
    BY <1>10, <2>2
  <2>4. s.pointer[t][j].pc - 1 \notin gone
    BY <2>1, <2>2, <2>3 DEF DeletedTo
  <2>5. s.pointer[t][j] = PcToSnes(s.pointer[t][j].pc - 1)
    BY <1>4, <1>5, <2>2, <2>3, EntryFacts
  <2>6. s.pointer[t][j].pc - 1 \notin new
    <3>1. j = l => new = {}
      BY <2>1
    <3>2. j # l => IsShared(s.pointer, s.pointer[t][j].pc - 1, l)
      BY <2>2, <2>5 DEF IsShared
    <3> QED
      BY <1>6, <3>1, <3>2
  <2> QED
    BY <2>2, <2>4, <2>6
<1>11. ASSUME NEW b \in OnlyUsedBy(levels), b \notin gone \cup new
       PROVE  \E t \in TableNames, k \in levels : k >= l + 1 /\ pointer[t][k] = PcToSnes(b)
  <2>1. PICK t \in TableNames, k \in levels : k >= l /\ pointer[t][k] = PcToSnes(b)
    BY <1>11 DEF DeletedTo
  <2>2. k \in Levels /\ k \in Nat
    BY <1>3
  <2>3. CASE k # l
    <3>1. k >= l + 1
      BY <1>3, <2>1, <2>2, <2>3
    <3> QED
      BY <2>1, <3>1
  <2>4. CASE k = l
    <3>1. /\ b \in Referenced(rom, pointer, TableNames \X levels)
          /\ b \notin Referenced(rom, pointer, TableNames \X (Levels \ levels))
          /\ levels = {Test} \/ b \notin Referenced(rom, pointer, TableNames \X {Test})
      BY DEF OnlyUsedBy
    <3>2. b \in Beyond(rom) /\ b \notin gone
      <4>1. TableNames \X levels \in SUBSET Slots
        BY DEF Slots
      <4> QED
        BY <1>11, <3>1, <4>1, ReferencedFacts
    <3>3. b \in Beyond(s.rom) /\ AreaIsSound(s.rom)
      BY <1>2, <1>4, <3>2, ErasedMoved DEF Moved
    <3>4. s.pointer[t][l] = Pointer(b, "high")
      BY <1>3, <1>4, <1>5, <2>1, <2>4 DEF PcToSnes
    <3>5. b \in Referenced(s.rom, s.pointer, TableNames \X {l})
      <4>1. /\ s.pointer[t][l] \in Pointers /\ Expanded(s.pointer[t][l])
            /\ s.pointer[t][l].pc - 1 = b /\ s.pointer[t][l].pc - 1 \in Scan(s.rom)
        BY <3>3, <3>4, PointerFacts
      <4>2. Tagged(s.rom, s.pointer[t][l]) /\ s.pointer[t][l] # Null
        BY <3>3, <4>1, StandingFacts DEF Expanded
      <4>3. /\ <<t, l>> \in TableNames \X {l} /\ <<t, l>>[1] = t /\ <<t, l>>[2] = l
        OBVIOUS
      <4> QED
        BY <4>1, <4>2, <4>3 DEF Referenced
    <3>6. IsShared(s.pointer, b, l)
      BY <1>11, <3>5 DEF new, Reclaimable
    <3>7. PICK u \in TableNames, m \in Levels \ {l} : s.pointer[u][m] = PcToSnes(b)
      BY <3>6 DEF IsShared
    <3> DEFINE j == Place(levels, l, m)
    <3>8. j \in Levels /\ pointer[u][j] = PcToSnes(b)
      BY <1>4, <1>5, <3>7
    <3>9. j \in levels
      <4>1. j \in Levels \ levels =>
                b \in Referenced(rom, pointer, TableNames \X (Levels \ levels))
        BY <3>2, <3>8, SlotIsReferenced
      <4> QED
        BY <3>1, <3>8, <4>1
    <3>10. j = Test => levels = {Test}
      <4>1. j = Test => b \in Referenced(rom, pointer, TableNames \X {Test})
        BY <1>3, <3>2, <3>8, SlotIsReferenced
      <4> QED
        BY <3>1, <4>1
    <3>11. j = m /\ m \in levels /\ m >= l + 1
      <4>1. m \in Nat /\ m # l
        BY <1>3
      <4>2. CASE m \in levels /\ m < l
        <5>1. j = Test
          BY <4>2 DEF Place
        <5>2. levels = {Test}
          BY <3>10, <5>1
        <5> QED
          BY <4>1, <4>2, <5>2
      <4>3. CASE ~(m \in levels /\ m < l)
        <5>1. j = m
          BY <4>3 DEF Place
        <5> QED
          BY <1>3, <3>9, <4>1, <4>3, <5>1
      <4> QED
        BY <4>2, <4>3
    <3> QED
      BY <3>8, <3>11
  <2> QED
    BY <2>3, <2>4
<1>12. DeletedTo(levels, l + 1, gone \cup new, z)
  <2>1. gone \cup new \in SUBSET Beyond(rom)
    BY <1>4, <1>7
  <2>2. gone \cup new \subseteq Referenced(rom, pointer, TableNames \X levels)
    BY <1>4, <1>6
  <2> QED
    BY <1>7, <1>9, <1>10, <1>11, <2>1, <2>2 DEF DeletedTo
<1> QED
  BY <1>12 DEF z

\* A whole deletion.
LEMMA DeletedFacts ==
    ASSUME NEW levels \in SUBSET Levels
    PROVE  /\ orphaned => Deleted(levels).orphaned
           /\ PayloadsInvariant =>
                  \E gone : DeletedTo(levels, LevelCount, gone, Deleted(levels))
<1> DEFINE n == LevelCount
           A == DeletedAfter(levels)
           start == [rom |-> rom, pointer |-> pointer, asked |-> asked, orphaned |-> orphaned]
           Good(i) == /\ orphaned => A[i].orphaned
                      /\ PayloadsInvariant => \E gone : DeletedTo(levels, i, gone, A[i])
           Bad == {i \in 0 .. n : ~Good(i)}
<1>1. n \in Nat /\ Levels = 0 .. n - 1
  BY LevelPayloadsAssumption DEF LevelPayloadsAssumption, Levels
<1>2. \A i \in 0 .. n :
          A[i] = IF i = 0 THEN start
                 ELSE IF i - 1 \in levels THEN DeleteLevel(A[i - 1], i - 1)
                      ELSE A[i - 1]
  <2>1. A = [i \in 0 .. n |->
                 IF i = 0 THEN start
                 ELSE IF i - 1 \in levels THEN DeleteLevel(A[i - 1], i - 1)
                      ELSE A[i - 1]]
    BY DeletedRecursion
  <2> HIDE DEF A, start
  <2> QED
    BY <2>1, Zenon
<1> HIDE DEF A
<1>3. Good(0)
  <2>1. A[0] = start
    <3> HIDE DEF start
    <3> QED
      BY <1>1, <1>2
  <2>2. /\ start.rom = rom /\ start.pointer = pointer /\ start.asked = asked
        /\ start.orphaned = orphaned
    OBVIOUS
  <2> HIDE DEF start
  <2>3. ASSUME PayloadsInvariant PROVE DeletedTo(levels, 0, {}, start)
    <3>1. /\ rom = [c \in Cells |-> rom[c]]
          /\ pointer \in [TableNames -> [Levels -> Entries]]
          /\ asked = [t \in TableNames |-> [k \in Levels |-> asked[t][k]]]
      BY <2>3 DEF PayloadsInvariant, Shapes
    <3>2. \A k \in Levels : Place(levels, 0, k) = k
      BY <1>1 DEF Place
    <3>3. rom = Erase(rom, {})
      BY <3>1 DEF Erase
    <3>4. pointer = [t \in TableNames |-> [k \in Levels |-> pointer[t][Place(levels, 0, k)]]]
      BY <3>1, <3>2
    <3>5. asked = [t \in TableNames |-> [k \in Levels |-> asked[t][Place(levels, 0, k)]]]
      BY <3>1, <3>2
    <3>6. ASSUME NEW b \in OnlyUsedBy(levels)
          PROVE  \E t \in TableNames, k \in levels : k >= 0 /\ pointer[t][k] = PcToSnes(b)
      <4>1. b \in Referenced(rom, pointer, TableNames \X levels)
        BY DEF OnlyUsedBy
      <4>2. TableNames \X levels \in SUBSET Slots
        BY DEF Slots
      <4>3. PICK x \in TableNames \X levels : pointer[x[1]][x[2]] = PcToSnes(b)
        BY <2>3, <4>1, <4>2, ReferencedFacts
      <4>4. x[1] \in TableNames /\ x[2] \in levels
        OBVIOUS
      <4>5. \A k \in levels : k >= 0
        BY <1>1
      <4> QED
        BY <4>3, <4>4, <4>5
    <3> QED
      BY <2>2, <3>3, <3>4, <3>5, <3>6 DEF DeletedTo
  <2> QED
    BY <2>1, <2>2, <2>3
<1>4. ASSUME NEW i \in 1 .. n, Good(i - 1)
      PROVE  Good(i)
  <2>1. i \in 0 .. n /\ i # 0 /\ (i - 1) + 1 = i /\ i \in Nat
    BY <1>1
  <2>2. CASE i - 1 \in levels
    <3>1. A[i] = DeleteLevel(A[i - 1], i - 1)
      BY <1>2, <2>1, <2>2
    <3>2. orphaned => A[i].orphaned
      <4>1. \A s, l : s.orphaned => DeleteLevel(s, l).orphaned
        BY DEF DeleteLevel
      <4>2. orphaned => A[i - 1].orphaned
        BY <1>4
      <4> QED
        BY <3>1, <4>1, <4>2
    <3>3. ASSUME PayloadsInvariant PROVE \E gone : DeletedTo(levels, i, gone, A[i])
      <4>1. PICK gone : DeletedTo(levels, i - 1, gone, A[i - 1])
        BY <1>4, <3>3
      <4>2. \E more : DeletedTo(levels, (i - 1) + 1, more, DeleteLevel(A[i - 1], i - 1))
        BY <2>2, <3>3, <4>1, LevelIsDeleted
      <4> QED
        BY <2>1, <3>1, <4>2
    <3> QED
      BY <3>2, <3>3
  <2>3. CASE i - 1 \notin levels
    <3>1. A[i] = A[i - 1]
      BY <1>2, <2>1, <2>3
    <3>2. \A k \in Levels : Place(levels, i, k) = Place(levels, i - 1, k)
      BY <1>1, <2>1, <2>3 DEF Place
    <3>3. ASSUME NEW gone, NEW s, DeletedTo(levels, i - 1, gone, s)
          PROVE  DeletedTo(levels, i, gone, s)
      <4>1. /\ s.pointer = [t \in TableNames |-> [k \in Levels |-> pointer[t][Place(levels, i - 1, k)]]]
            /\ s.asked = [t \in TableNames |-> [k \in Levels |-> asked[t][Place(levels, i - 1, k)]]]
        BY <3>3 DEF DeletedTo
      <4>2. /\ s.pointer = [t \in TableNames |-> [k \in Levels |-> pointer[t][Place(levels, i, k)]]]
            /\ s.asked = [t \in TableNames |-> [k \in Levels |-> asked[t][Place(levels, i, k)]]]
        BY <3>2, <4>1
      <4>3. \A k \in levels : k >= i - 1 => k >= i
        <5>1. \A k \in levels : k \in Nat /\ k # i - 1
          BY <1>1, <2>3
        <5> QED
          BY <2>1, <5>1
      <4> QED
        BY <3>3, <4>2, <4>3 DEF DeletedTo
    <3> QED
      BY <1>4, <3>1, <3>3
  <2> QED
    BY <2>2, <2>3
<1>5. ASSUME NEW m \in Bad, \A i \in Bad : m <= i
      PROVE  FALSE
  <2> HIDE DEF Good
  <2>1. m \in 0 .. n /\ ~Good(m) /\ m # 0
    BY <1>3
  <2>2. m \in 1 .. n /\ m - 1 \in 0 .. n /\ ~(m <= m - 1)
    BY <1>1, <2>1
  <2>3. m - 1 \notin Bad
    <3> HIDE DEF Bad
    <3> QED BY <1>5, <2>2
  <2>4. Good(m - 1)
    BY <2>2, <2>3
  <2> QED
    BY <1>4, <2>1, <2>2, <2>4
<1>6. Bad = {}
  <2>1. Bad \subseteq Nat
    <3> HIDE DEF Good
    <3> QED
      BY <1>1
  <2> HIDE DEF Bad
  <2> QED
    BY <1>5, <2>1, LeastNumber
<1>7. Good(n)
  <2> HIDE DEF Good
  <2> QED
    BY <1>1, <1>6
<1>8. Deleted(levels) = A[n]
  BY DeletedIsAfter DEF A
<1> QED
  BY <1>7, <1>8

\* Resetting no planes.
LEMMA NothingToReset ==
    ASSUME NEW held, held = <<>>, NEW planes \in Resets(held)
    PROVE  planes = <<>>
<1> DEFINE reset(n, kept) == [j \in 1 .. n |-> IF j \in kept THEN held[j] ELSE Fill]
<1>1. Len(held) = 0
  OBVIOUS
<1>2. ASSUME NEW n \in 0 .. Len(held), NEW kept
      PROVE  reset(n, kept) = <<>>
  <2>1. n = 0
    BY <1>1
  <2>2. reset(n, kept) = [j \in 1 .. 0 |-> IF j \in kept THEN held[j] ELSE Fill]
    BY <2>1
  <2>3. reset(n, kept) \in Seq({}) /\ Len(reset(n, kept)) = 0
    BY <2>2
  <2> HIDE DEF reset
  <2> QED
    BY <2>3
<1>3. Resets(held) = {reset(n, kept) : n \in 0 .. Len(held), kept \in SUBSET DOMAIN held}
  BY DEF Resets
<1> HIDE DEF reset
<1>4. PICK n \in 0 .. Len(held), kept \in SUBSET DOMAIN held : planes = reset(n, kept)
  BY <1>3
<1> QED
  BY <1>2, <1>4

\* The three parts of a deletion: the levels, the exits, the original area.
LEMMA DeletedInSteps ==
    ASSUME PayloadsInvariant, NEW levels \in SUBSET Levels, DeleteLevels(levels)
    PROVE  \E gone, mid : \E clear \in BOOLEAN :
               /\ DeletedTo(levels, LevelCount, gone, Deleted(levels))
               /\ gone \cap ExitsBlock(exits) = {}
               /\ \/ mid = Erase(rom, gone) /\ exits' = exits /\ exitsAsked' = exitsAsked
                  \/ Repacked(Erase(rom, gone), mid, exits, exits', exitsAsked')
               /\ rom' = IF clear THEN ClearArea(mid) ELSE mid
               /\ pointer' = Deleted(levels).pointer
               /\ orphaned' = Deleted(levels).orphaned
               /\ asked' = [t \in TableNames |-> [l \in Levels |->
                               IF clear /\ ReadsOverwritten(pointer'[t][l])
                               THEN Resolve(rom', pointer'[t][l])
                               ELSE Deleted(levels).asked[t][l]]]
<1> DEFINE d == Deleted(levels)
           held == Resolve(d.rom, exits)
           unmodified == {k \in Levels : pointer[Layer1][k].pc < AreaLen}
<1>1. PICK gone : DeletedTo(levels, LevelCount, gone, d)
  BY DeletedFacts
<1>2. /\ pointer' = d.pointer /\ orphaned' = d.orphaned
      /\ \E clear \in BOOLEAN, planes \in Resets(held) :
              LET emptied == clear \/ unmodified \subseteq levels
                  kept    == emptied /\ planes # <<>>
                  saved   == IF kept
                             THEN [rom |-> d.rom, exits |-> exits, fits |-> TRUE]
                             ELSE SavedExits(d.rom, exits, planes)
              IN  /\ kept => planes = held /\ Unused(planes)
                  /\ saved.fits
                  /\ rom' = IF clear THEN ClearArea(saved.rom) ELSE saved.rom
                  /\ exits' = saved.exits
                  /\ exitsAsked' = planes
                  /\ asked' = [t \in TableNames |-> [l \in Levels |->
                                  IF clear /\ ReadsOverwritten(pointer'[t][l])
                                  THEN Resolve(rom', pointer'[t][l])
                                  ELSE d.asked[t][l]]]
  BY DEF DeleteLevels
<1> HIDE DEF d
<1>3. PICK clear \in BOOLEAN, planes \in Resets(held) :
              LET emptied == clear \/ unmodified \subseteq levels
                  kept    == emptied /\ planes # <<>>
                  saved   == IF kept
                             THEN [rom |-> d.rom, exits |-> exits, fits |-> TRUE]
                             ELSE SavedExits(d.rom, exits, planes)
              IN  /\ kept => planes = held /\ Unused(planes)
                  /\ saved.fits
                  /\ rom' = IF clear THEN ClearArea(saved.rom) ELSE saved.rom
                  /\ exits' = saved.exits
                  /\ exitsAsked' = planes
                  /\ asked' = [t \in TableNames |-> [l \in Levels |->
                                  IF clear /\ ReadsOverwritten(pointer'[t][l])
                                  THEN Resolve(rom', pointer'[t][l])
                                  ELSE d.asked[t][l]]]
  BY <1>2
<1> DEFINE kept == (clear \/ unmodified \subseteq levels) /\ planes # <<>>
           mid == IF kept THEN d.rom ELSE SavedExits(d.rom, exits, planes).rom
<1>4. /\ kept => planes = held /\ exits' = exits
      /\ ~kept => /\ SavedExits(d.rom, exits, planes).fits
                  /\ exits' = SavedExits(d.rom, exits, planes).exits
      /\ rom' = IF clear THEN ClearArea(mid) ELSE mid
      /\ exitsAsked' = planes
      /\ asked' = [t \in TableNames |-> [l \in Levels |->
                      IF clear /\ ReadsOverwritten(pointer'[t][l])
                      THEN Resolve(rom', pointer'[t][l])
                      ELSE d.asked[t][l]]]
  <2>1. CASE kept
    BY <1>3, <2>1
  <2>2. CASE ~kept
    BY <1>3, <2>2
  <2> QED
    BY <2>1, <2>2
<1>5. /\ gone \in SUBSET Beyond(rom) /\ d.rom = Erase(rom, gone)
      /\ gone \subseteq Referenced(rom, pointer, TableNames \X levels)
  BY <1>1 DEF DeletedTo
<1>6. /\ AreaIsSound(rom) /\ ExitsStand(rom, pointer, exits, exitsAsked)
  BY DEF PayloadsInvariant
<1>7. gone \cap ExitsBlock(exits) = {}
  <2>1. TableNames \X levels \in SUBSET Slots
    BY DEF Slots
  <2> QED
    BY <1>5, <2>1, ReferencedFacts
<1>8. /\ Moved(rom, d.rom, gone, {}) /\ Beyond(d.rom) = Beyond(rom) \ gone
  <2>1. /\ Moved(rom, Erase(rom, gone), gone, {})
        /\ Beyond(Erase(rom, gone)) = Beyond(rom) \ gone
    BY <1>5, <1>6, ErasedMoved
  <2> QED
    BY <1>5, <2>1
<1>9. AreaIsSound(d.rom) /\ d.rom = [c \in Cells |-> d.rom[c]]
  BY <1>8 DEF Moved
<1>10. ExitsStand(d.rom, pointer, exits, exitsAsked)
  <2>1. \A t \in TableNames, k \in Levels :
            exits # Null /\ pointer[t][k] # Null => pointer[t][k].pc # exits.pc
    BY <1>6 DEF ExitsStand
  <2>2. ExitsBlock(exits) \cap gone = {}
    BY <1>7
  <2> QED
    BY <1>6, <1>8, <2>1, <2>2, ExitsKept
<1>11. held = exitsAsked /\ ExitsBlock(exits) \subseteq Beyond(d.rom)
  BY <1>9, <1>10, ExitsFacts
<1>12. planes = <<>> \/ planes \in ExitPlanes
  <2>0. planes \in Resets(exitsAsked)
    BY <1>11
  <2>1. CASE exitsAsked = <<>>
    BY <2>0, <2>1, NothingToReset
  <2>2. CASE exitsAsked # <<>>
    <3>1. exitsAsked \in ExitPlanes
      BY <1>10, <2>2 DEF ExitsStand
    <3> QED
      BY <2>0, <3>1, LevelPayloadsAssumption DEF LevelPayloadsAssumption
  <2> QED
    BY <2>1, <2>2
<1>13. \/ mid = d.rom /\ exits' = exits /\ exitsAsked' = exitsAsked
       \/ Repacked(d.rom, mid, exits, exits', exitsAsked')
  <2>1. CASE kept
    BY <1>4, <1>11, <2>1
  <2>2. CASE ~kept
    <3>1. /\ mid = SavedExits(d.rom, exits, planes).rom
          /\ SavedExits(d.rom, exits, planes).fits
          /\ exits' = SavedExits(d.rom, exits, planes).exits
          /\ exitsAsked' = planes
      BY <1>4, <2>2
    <3> HIDE DEF mid, kept, held
    <3> DEFINE first == d.rom
    <3>3. /\ first = [c \in Cells |-> first[c]] /\ AreaIsSound(first)
          /\ ExitsBlock(exits) \subseteq Beyond(first)
          /\ mid = SavedExits(first, exits, planes).rom
          /\ SavedExits(first, exits, planes).fits
          /\ exits' = SavedExits(first, exits, planes).exits
      BY <1>9, <1>11, <3>1
    <3> HIDE DEF first
    <3>4. Repacked(first, mid, exits, exits', planes)
      BY <1>12, <3>3, SavedExitsFacts
    <3>2. Repacked(d.rom, mid, exits, exits', planes)
      BY <3>4 DEF first
    <3> QED
      BY <3>1, <3>2
  <2> QED
    BY <2>1, <2>2
<1> HIDE DEF mid, kept, held
<1>14. /\ DeletedTo(levels, LevelCount, gone, Deleted(levels))
       /\ gone \cap ExitsBlock(exits) = {}
       /\ \/ mid = Erase(rom, gone) /\ exits' = exits /\ exitsAsked' = exitsAsked
          \/ Repacked(Erase(rom, gone), mid, exits, exits', exitsAsked')
       /\ rom' = IF clear THEN ClearArea(mid) ELSE mid
       /\ pointer' = Deleted(levels).pointer
       /\ orphaned' = Deleted(levels).orphaned
       /\ asked' = [t \in TableNames |-> [l \in Levels |->
                       IF clear /\ ReadsOverwritten(pointer'[t][l])
                       THEN Resolve(rom', pointer'[t][l])
                       ELSE Deleted(levels).asked[t][l]]]
  BY <1>1, <1>2, <1>4, <1>5, <1>7, <1>13 DEF d
<1> QED
  BY <1>14

\* Deleting levels, unless the test level lost a block it points at.
LEMMA DeleteLevelsKeeps ==
    ASSUME PayloadsInvariant, NEW levels \in SUBSET Levels, DeleteLevels(levels),
           ~orphaned'
    PROVE  PayloadsInvariant' /\ \E gone, made : Moves(gone, made)
<1> DEFINE d == Deleted(levels)
           place(k) == Place(levels, LevelCount, k)
           old == ExitsBlock(exits)
           new == ExitsBlock(exits')
<1>0. PICK gone, mid : \E clear \in BOOLEAN :
               /\ DeletedTo(levels, LevelCount, gone, d)
               /\ gone \cap old = {}
               /\ \/ mid = Erase(rom, gone) /\ exits' = exits /\ exitsAsked' = exitsAsked
                  \/ Repacked(Erase(rom, gone), mid, exits, exits', exitsAsked')
               /\ rom' = IF clear THEN ClearArea(mid) ELSE mid
               /\ pointer' = d.pointer
               /\ orphaned' = d.orphaned
               /\ asked' = [t \in TableNames |-> [l \in Levels |->
                               IF clear /\ ReadsOverwritten(pointer'[t][l])
                               THEN Resolve(rom', pointer'[t][l])
                               ELSE d.asked[t][l]]]
  BY DeletedInSteps DEF d
<1>1. PICK clear \in BOOLEAN :
               /\ DeletedTo(levels, LevelCount, gone, d)
               /\ gone \cap old = {}
               /\ \/ mid = Erase(rom, gone) /\ exits' = exits /\ exitsAsked' = exitsAsked
                  \/ Repacked(Erase(rom, gone), mid, exits, exits', exitsAsked')
               /\ rom' = IF clear THEN ClearArea(mid) ELSE mid
               /\ pointer' = d.pointer
               /\ orphaned' = d.orphaned
               /\ asked' = [t \in TableNames |-> [l \in Levels |->
                               IF clear /\ ReadsOverwritten(pointer'[t][l])
                               THEN Resolve(rom', pointer'[t][l])
                               ELSE d.asked[t][l]]]
  BY <1>0
<1> HIDE DEF d
<1> DEFINE first == Erase(rom, gone)
<1>2. /\ AreaIsSound(rom) /\ Shapes
      /\ ExitsStand(rom, pointer, exits, exitsAsked)
  BY DEF PayloadsInvariant
<1>3. /\ gone \in SUBSET Beyond(rom)
      /\ gone \subseteq Referenced(rom, pointer, TableNames \X levels)
      /\ d.pointer = [t \in TableNames |-> [k \in Levels |-> pointer[t][place(k)]]]
      /\ d.asked = [t \in TableNames |-> [k \in Levels |-> asked[t][place(k)]]]
      /\ \A t \in TableNames, k \in Levels :
             Expanded(d.pointer[t][k]) => d.pointer[t][k].pc - 1 \notin gone
  BY <1>1 DEF DeletedTo
<1>4. ASSUME NEW t \in TableNames, NEW k \in Levels
      PROVE  /\ place(k) \in Levels /\ pointer'[t][k] = pointer[t][place(k)]
             /\ d.asked[t][k] = asked[t][place(k)]
             /\ pointer'[t][k] \in Entries
             /\ Expanded(pointer'[t][k]) => pointer'[t][k].pc - 1 \in Beyond(rom) \ (gone \cup old)
  <2>1. place(k) \in Levels
    BY LevelPayloadsAssumption DEF LevelPayloadsAssumption, Place
  <2> HIDE DEF place
  <2>2. pointer'[t][k] = pointer[t][place(k)] /\ d.asked[t][k] = asked[t][place(k)]
    BY <1>1, <1>3
  <2>3. Expanded(pointer'[t][k]) => pointer'[t][k].pc - 1 \notin gone
    BY <1>1, <1>3
  <2>4. /\ pointer[t][place(k)] \in Entries
        /\ Expanded(pointer[t][place(k)]) =>
               /\ pointer[t][place(k)].pc - 1 \in Beyond(rom)
               /\ pointer[t][place(k)].pc - 1 \notin old
    BY <2>1, EntryFacts
  <2> QED
    BY <2>1, <2>2, <2>3, <2>4
<1> HIDE DEF place
<1>5. /\ Moved(rom, first, gone, {}) /\ AreaSame(rom, first)
      /\ Beyond(first) = Beyond(rom) \ gone
  BY <1>2, <1>3, ErasedMoved
<1> HIDE DEF first
<1>6. AreaIsSound(first)
  BY <1>5 DEF Moved
<1>7. old \subseteq Beyond(rom)
  BY <1>2, ExitsFacts
<1>8. PICK freed, made :
          /\ Moved(rom, mid, freed, made) /\ AreaSame(rom, mid)
          /\ freed \subseteq Beyond(rom) /\ freed \subseteq gone \cup old
          /\ made \subseteq new /\ made \subseteq Beyond(mid)
          /\ freed \cap Beyond(mid) \subseteq new
          /\ ExitsStand(mid, pointer', exits', exitsAsked')
          /\ \/ exits' = exits /\ made = {} /\ freed \cap old = {}
             \/ old \subseteq freed /\ made = new /\ made \cap (Beyond(rom) \ freed) = {}
  <2>1. CASE mid = first /\ exits' = exits /\ exitsAsked' = exitsAsked
    <3>1. \A t \in TableNames, k \in Levels :
              exits # Null /\ pointer'[t][k] # Null => pointer'[t][k].pc # exits.pc
      BY <1>2, <1>4 DEF ExitsStand
    <3>2. ExitsStand(first, pointer', exits, exitsAsked)
      BY <1>1, <1>2, <1>5, <3>1, ExitsKept
    <3>3. /\ Moved(rom, mid, gone, {}) /\ AreaSame(rom, mid)
          /\ gone \subseteq Beyond(rom) /\ gone \subseteq gone \cup old
          /\ {} \subseteq new /\ {} \subseteq Beyond(mid)
          /\ gone \cap Beyond(mid) \subseteq new
          /\ ExitsStand(mid, pointer', exits', exitsAsked')
          /\ exits' = exits /\ gone \cap old = {}
      BY <1>1, <1>3, <1>5, <2>1, <3>2
    <3> HIDE DEF old, new
    <3> QED
      BY <3>3
  <2>2. CASE Repacked(first, mid, exits, exits', exitsAsked')
    <3>1. /\ Moved(first, mid, old, new) /\ AreaSame(first, mid)
          /\ Beyond(mid) = (Beyond(first) \ old) \cup new
          /\ new \cap (Beyond(first) \ old) = {}
          /\ \/ exits' = Null /\ exitsAsked' = <<>>
             \/ /\ exits' \in Pointers /\ Expanded(exits') /\ exits'.pc - 1 \in Scan(mid)
                /\ Payload(mid, exits'.pc - 1) = exitsAsked' /\ exitsAsked' \in ExitPlanes
      BY <2>2 DEF Repacked
    <3>2. AreaIsSound(mid)
      BY <3>1 DEF Moved
    <3>3. \A t \in TableNames, k \in Levels :
              /\ pointer'[t][k] \in Entries
              /\ Expanded(pointer'[t][k]) => pointer'[t][k].pc - 1 \in Beyond(first) \ old
      BY <1>4, <1>5
    <3>4. ExitsStand(mid, pointer', exits', exitsAsked')
      BY <1>6, <3>1, <3>2, <3>3, NewExitsStand
    <3> HIDE DEF old, new
    <3>5. Moved(rom, mid, gone \cup old, {} \cup new)
      BY <1>1, <1>5, <1>7, <3>1, MovedTwice
    <3>6. {} \cup new = new
      OBVIOUS
    <3>7. Moved(rom, mid, gone \cup old, new)
      BY <3>5, <3>6
    <3>8. AreaSame(rom, mid)
      BY <1>5, <3>1 DEF AreaSame
    <3>9. /\ gone \cup old \subseteq Beyond(rom) /\ old \subseteq gone \cup old
          /\ new \subseteq Beyond(mid)
          /\ (gone \cup old) \cap Beyond(mid) \subseteq new
          /\ new \cap (Beyond(rom) \ (gone \cup old)) = {}
      BY <1>3, <1>5, <1>7, <3>1
    <3> QED
      BY <3>4, <3>7, <3>8, <3>9
  <2> QED
    BY <1>1, <2>1, <2>2 DEF first
<1>9. /\ Moved(mid, rom', {}, {}) /\ Beyond(rom') = Beyond(mid)
      /\ \A c \in Cells : c \notin Overwritten \/ ~clear => rom'[c] = mid[c]
  <2>1. mid = [c \in Cells |-> mid[c]] /\ AreaIsSound(mid)
    BY <1>8 DEF Moved
  <2>2. CASE clear
    <3>1. /\ Moved(mid, ClearArea(mid), {}, {})
          /\ Beyond(ClearArea(mid)) = Beyond(mid)
          /\ \A c \in Cells : c \notin Overwritten => ClearArea(mid)[c] = mid[c]
      BY <2>1, ClearedMoved
    <3> QED
      BY <1>1, <2>2, <3>1
  <2>3. CASE ~clear
    <3>1. Moved(mid, mid, {}, {})
      BY <2>1, NothingMoved
    <3> QED
      BY <1>1, <2>3, <3>1
  <2> QED
    BY <2>2, <2>3
<1>10. Moved(rom, rom', freed, made)
  <2>1. Moved(rom, rom', freed \cup {}, made \cup {})
    BY <1>8, <1>9, MovedTwice
  <2>2. freed \cup {} = freed /\ made \cup {} = made
    OBVIOUS
  <2> QED
    BY <2>1, <2>2
<1>11. \A c \in Cells : ~(c >= AreaLen) => mid[c] = rom[c]
  BY <1>8, AreaNotChanged
<1>12. ASSUME NEW c \in Cells, ~(c >= AreaLen), rom'[c] # rom[c]
       PROVE  c \in Overwritten /\ rom'[c] = ClearArea(rom)[c]
  <2>1. c \in Overwritten /\ clear
    BY <1>9, <1>11, <1>12
  <2>2. rom'[c] = ClearArea(mid)[c]
    BY <1>1, <2>1
  <2>3. IsCleared(mid) <=> IsCleared(rom)
    <3>1. {Marker, Marker + 1} \subseteq Overwritten
      BY ClearingAssumption DEF ClearingAssumption, Overwritten
    <3>2. \A x \in Overwritten : x \in 0 .. AreaLen - 1
      BY ClearingAssumption DEF ClearingAssumption
    <3>3. mid[Marker] = rom[Marker] /\ mid[Marker + 1] = rom[Marker + 1]
      BY <1>8, <3>1, <3>2 DEF AreaSame
    <3> QED
      BY <3>3 DEF IsCleared
  <2>4. ClearArea(mid)[c] = ClearArea(rom)[c]
    BY <1>11, <1>12, <2>3 DEF ClearArea
  <2> QED
    BY <2>1, <2>2, <2>4
<1>13. ASSUME NEW t \in TableNames, NEW k \in Levels
       PROVE  asked'[t][k] = IF clear /\ ReadsOverwritten(pointer'[t][k])
                             THEN Resolve(rom', pointer'[t][k]) ELSE asked[t][place(k)]
  BY <1>1, <1>4
<1>14. ASSUME NEW t \in TableNames, NEW k \in Levels
       PROVE  \/ /\ place(k) \in Levels
                 /\ pointer'[t][k] = pointer[t][place(k)]
                 /\ asked'[t][k] = asked[t][place(k)]
                 /\ Expanded(pointer[t][place(k)]) => pointer[t][place(k)].pc - 1 \notin freed
                 /\ pointer[t][place(k)] # Null /\ pointer[t][place(k)].pc < AreaLen =>
                        rom'[pointer[t][place(k)].pc] = rom[pointer[t][place(k)].pc]
              \/ /\ EntryStands(rom', pointer'[t][k])
                 /\ Resolve(rom', pointer'[t][k]) = asked'[t][k]
  <2>1. CASE clear /\ ReadsOverwritten(pointer'[t][k])
    <3>1. Resolve(rom', pointer'[t][k]) = asked'[t][k]
      BY <1>13, <2>1
    <3>2. pointer'[t][k].pc < AreaLen
      <4>1. pointer'[t][k].pc \in 0 .. AreaLen - 1
        BY <2>1, ClearingAssumption DEF ClearingAssumption, ReadsOverwritten
      <4> QED
        BY <4>1, LevelPayloadsAssumption DEF LevelPayloadsAssumption
    <3>3. EntryStands(rom', pointer'[t][k])
      BY <3>2 DEF EntryStands, Expanded
    <3> QED
      BY <3>1, <3>3
  <2>2. CASE ~(clear /\ ReadsOverwritten(pointer'[t][k]))
    <3> DEFINE p == pointer'[t][k]
    <3>1. /\ place(k) \in Levels /\ p = pointer[t][place(k)]
          /\ asked'[t][k] = asked[t][place(k)] /\ p \in Entries
          /\ Expanded(p) => p.pc - 1 \notin freed
      BY <1>4, <1>8, <1>13, <2>2
    <3>2. ASSUME p # Null, p.pc < AreaLen PROVE rom'[p.pc] = rom[p.pc]
      <4>1. p.pc \in Nat
        BY <3>1, <3>2 DEF Entries, Pointers
      <4>2. p.pc \in Cells /\ ~(p.pc >= AreaLen)
        BY <3>2, <4>1, LevelPayloadsAssumption DEF LevelPayloadsAssumption, Cells
      <4>3. p.pc \notin Overwritten \/ ~clear
        BY <2>2, <3>2 DEF ReadsOverwritten
      <4> HIDE DEF p
      <4> QED
        BY <1>9, <1>11, <4>2, <4>3
    <3> QED
      BY <3>1, <3>2
  <2> QED
    BY <2>1, <2>2
<1>15. ExitsStand(rom', pointer', exits', exitsAsked')
  <2>1. AreaIsSound(mid)
    BY <1>8 DEF Moved
  <2>2. \A t \in TableNames, k \in Levels :
            exits' # Null /\ pointer'[t][k] # Null => pointer'[t][k].pc # exits'.pc
    BY <1>8 DEF ExitsStand
  <2>3. ExitsBlock(exits') \cap {} = {}
    OBVIOUS
  <2> QED
    BY <1>8, <1>9, <2>1, <2>2, <2>3, ExitsKept
<1>16. Shapes'
  <2>1. pointer' = [t \in TableNames |-> [k \in Levels |-> pointer[t][place(k)]]]
    BY <1>1, <1>3
  <2>2. pointer' = [t \in TableNames |-> [k \in Levels |-> pointer'[t][k]]]
    BY <2>1
  <2>3. pointer' \in [TableNames -> [Levels -> Entries]]
    BY <1>4, <2>2
  <2>4. asked' = [t \in TableNames |-> [k \in Levels |-> asked'[t][k]]]
    BY <1>1
  <2> QED
    BY <1>10, <2>3, <2>4 DEF Shapes, Moved
<1>17. PayloadsInvariant'
  <2>1. ASSUME NEW t \in TableNames, NEW k \in Levels
        PROVE
           \/ \E j \in Levels :
                 /\ pointer'[t][k] = pointer[t][j] /\ asked'[t][k] = asked[t][j]
                 /\ Expanded(pointer[t][j]) => pointer[t][j].pc - 1 \notin freed
                 /\ pointer[t][j] # Null /\ pointer[t][j].pc < AreaLen =>
                        rom'[pointer[t][j].pc] = rom[pointer[t][j].pc]
           \/ /\ EntryStands(rom', pointer'[t][k])
              /\ Resolve(rom', pointer'[t][k]) = asked'[t][k]
    BY <1>14
  <2> QED
    BY <1>10, <1>15, <1>16, <2>1, StepKeepsInvariant
<1>18. Moves(freed, made)
  <2>1. gone \subseteq Referenced(rom, pointer, Slots)
    BY <1>3 DEF Referenced, Slots
  <2>2. freed \cap Foreign \subseteq Referenced(rom, pointer, Slots) \cup old
    BY <1>8, <2>1
  <2>3. freed \cap Beyond(rom') \subseteq new
    BY <1>8, <1>9
  <2>4. \A t \in TableNames, k \in Levels : \E j \in Levels : pointer'[t][k] = pointer[t][j]
    BY <1>4
  <2> QED
    BY <1>8, <1>10, <1>12, <2>2, <2>3, <2>4 DEF Moves
<1> QED
  BY <1>17, <1>18

-----------------------------------------------------------------------------
(* What the game reads and what no step touches *)

\* A deletion that orphaned the test level is never made up for.
LEMMA OrphanedStays == ASSUME orphaned, [Next]_vars PROVE orphaned'
<1>1. CASE UNCHANGED vars
  BY <1>1 DEF vars
<1>2. ASSUME NEW l \in Levels, NEW requests \in Requests, NEW reuse \in BOOLEAN,
             SavePayloads(l, requests, reuse) \/ RelocatePayloads(l, requests, reuse)
      PROVE  orphaned'
  BY <1>2 DEF SavePayloads, RelocatePayloads
<1>3. ASSUME NEW owned \in SUBSET Own, ReclaimOwned(owned) PROVE orphaned'
  BY <1>3 DEF ReclaimOwned
<1>4. ASSUME NEW planes \in ExitPlanes, SaveExits(planes) PROVE orphaned'
  BY <1>4 DEF SaveExits
<1>5. ASSUME NEW levels \in SUBSET Levels, DeleteLevels(levels) PROVE orphaned'
  <2>1. orphaned' = Deleted(levels).orphaned
    BY <1>5 DEF DeleteLevels
  <2> QED
    BY <2>1, DeletedFacts
<1> QED
  BY <1>1, <1>2, <1>3, <1>4, <1>5 DEF Next

\* What every step does, for the theorems below.
LEMMA NextMoves ==
    ASSUME ExitsAreApart, PayloadsInvariant, [Next]_vars, ~orphaned'
    PROVE  /\ PayloadsInvariant'
           /\ \E gone, made : Moves(gone, made)
<1>1. CASE UNCHANGED vars
  <2>1. /\ rom' = rom /\ pointer' = pointer /\ asked' = asked
        /\ exits' = exits /\ exitsAsked' = exitsAsked
    BY <1>1 DEF vars
  <2>2. PayloadsInvariant'
    BY <2>1 DEF PayloadsInvariant, Shapes
  <2>3. Moved(rom, rom, {}, {})
    BY NothingMoved DEF PayloadsInvariant, Shapes
  <2>4. Moves({}, {})
    BY <2>1, <2>3 DEF Moves
  <2> QED
    BY <2>2, <2>4
<1>2. ASSUME NEW l \in Levels, NEW requests \in Requests, NEW reuse \in BOOLEAN,
             SavePayloads(l, requests, reuse) \/ RelocatePayloads(l, requests, reuse)
      PROVE  PayloadsInvariant' /\ \E gone, made : Moves(gone, made)
  BY <1>2, SavePayloadsKeeps, RelocatePayloadsKeeps
<1>3. ASSUME NEW owned \in SUBSET Own, ReclaimOwned(owned)
      PROVE  PayloadsInvariant' /\ \E gone, made : Moves(gone, made)
  BY <1>3, ReclaimingKeeps
<1>4. ASSUME NEW planes \in ExitPlanes, SaveExits(planes)
      PROVE  PayloadsInvariant' /\ \E gone, made : Moves(gone, made)
  BY <1>4, SaveExitsKeeps
<1>5. ASSUME NEW levels \in SUBSET Levels, DeleteLevels(levels)
      PROVE  PayloadsInvariant' /\ \E gone, made : Moves(gone, made)
  BY <1>5, DeleteLevelsKeeps
<1> QED
  BY <1>1, <1>2, <1>3, <1>4, <1>5 DEF Next

\* The inductive invariant of the operations on an image whose entries have
\* the program's spelling, until the test level is deleted while a block is
\* its own.
THEOREM InvariantHolds ==
    ASSUME ProgramSpelling, ExitsAreApart
    PROVE  Spec => [](orphaned \/ PayloadsInvariant)
<1>1. Init => PayloadsInvariant
  BY PayloadsInit
<1>2. (orphaned \/ PayloadsInvariant) /\ [Next]_vars => (orphaned \/ PayloadsInvariant)'
  <2>1. ASSUME orphaned, [Next]_vars PROVE orphaned'
    BY <2>1, OrphanedStays
  <2>2. ASSUME PayloadsInvariant, [Next]_vars, ~orphaned' PROVE PayloadsInvariant'
    BY <2>2, NextMoves
  <2> QED
    BY <2>1, <2>2
<1> QED
  BY <1>1, <1>2, PTL DEF Spec

\* What the game reads through every entry, and through the pointer to the
\* exits, is what it was last given by a save or a deletion, for every image,
\* every set of levels, tables, payloads and planes, whatever the original
\* area is cleared to (stage_request, stage_reclamation, delete_levels,
\* save_installed_secondary_exit_table_inner).
THEOREM ServesWhatWasAsked ==
    ASSUME ProgramSpelling, ExitsAreApart
    PROVE  Spec => []ServedAsAsked
<1>1. PayloadsInvariant => ServedAsAsked
  <2> SUFFICES ASSUME PayloadsInvariant PROVE ServedAsAsked
    OBVIOUS
  <2>1. Resolve(rom, exits) = exitsAsked
    BY ExitsFacts DEF PayloadsInvariant
  <2>2. \A s \in Slots : s[1] \in TableNames /\ s[2] \in Levels
    BY DEF Slots
  <2> QED
    BY <2>1, <2>2, EntryFacts DEF ServedAsAsked
<1>2. orphaned => ServedAsAsked
  BY DEF ServedAsAsked
<1> QED
  BY <1>1, <1>2, InvariantHolds, PTL

\* The blocks of live entries are scanned.
LEMMA InvariantIsLive ==
    ASSUME PayloadsInvariant
    PROVE  /\ Referenced(rom, pointer, Slots) \subseteq Beyond(rom)
           /\ Referenced(rom, pointer, Slots) \cap ExitsBlock(exits) = {}
           /\ ExitsBlock(exits) \subseteq Beyond(rom)
<1>1. Slots \in SUBSET Slots
  OBVIOUS
<1> QED
  BY <1>1, ReferencedFacts, ExitsFacts DEF PayloadsInvariant

\* No allocation can take a cell of a block that an entry or the exits point
\* at: the scan from the start of the image finds every one of them, whatever
\* tags the clearing has written before it (scan, load_tagged_at).
THEOREM LiveBlocksAreScanned ==
    ASSUME ProgramSpelling, ExitsAreApart
    PROVE  Spec => []LiveIsScanned
<1>1. PayloadsInvariant => LiveIsScanned
  BY InvariantIsLive DEF LiveIsScanned, Beyond
<1>2. orphaned => LiveIsScanned
  BY DEF LiveIsScanned
<1> QED
  BY <1>1, <1>2, InvariantHolds, PTL

\* An asset never has the bytes of a block of another part of the game that
\* the policy permits, and the levels' own blocks keep off reserved cells.
ForeignIsApart ==
    /\ \A b \in Foreign :
           Permits(b, b + OldImage[b].size, Protected) => Payload(OldImage, b) \notin Payloads
    /\ \A b \in Beyond(OldImage) \ (Foreign \cup ExitsBlock(OldExits)) :
           Extent(OldImage, b) \cap Protected = {}

\* The blocks of other parts are where they were, neither an entry nor the
\* exits point at one, and the levels' own blocks are on no reserved cell.
ForeignStands ==
    /\ \A b \in Foreign : /\ b \in Scan(rom)
                          /\ \A c \in Extent(OldImage, b) : rom[c] = OldImage[c]
    /\ \A t \in TableNames, k \in Levels :
           Expanded(pointer[t][k]) => pointer[t][k].pc - 1 \notin Foreign
    /\ ExitsBlock(exits) \cap Foreign = {}
    /\ \A b \in Beyond(rom) \ (Foreign \cup ExitsBlock(exits)) :
           Extent(rom, b) \cap Protected = {}

\* Blocks that a step gives up are no other part's.
LEMMA GoneIsOwn ==
    ASSUME PayloadsInvariant, ForeignStands, NEW gone, NEW made, Moves(gone, made)
    PROVE  gone \cap Foreign = {}
<1>1. Referenced(rom, pointer, Slots) \cap Foreign = {}
  <2> SUFFICES ASSUME NEW b \in Referenced(rom, pointer, Slots) PROVE b \notin Foreign
    OBVIOUS
  <2>1. Slots \in SUBSET Slots /\ \A s \in Slots : s[1] \in TableNames /\ s[2] \in Levels
    BY DEF Slots
  <2>2. PICK s \in Slots : Expanded(pointer[s[1]][s[2]]) /\ pointer[s[1]][s[2]].pc - 1 = b
    BY <2>1, ReferencedFacts
  <2> QED
    BY <2>1, <2>2 DEF ForeignStands
<1>2. gone \cap Foreign \subseteq Referenced(rom, pointer, Slots) \cup ExitsBlock(exits)
  BY DEF Moves
<1>3. ExitsBlock(exits) \cap Foreign = {}
  BY DEF ForeignStands
<1> QED
  BY <1>1, <1>2, <1>3

\* A block of another part, now and at the start.
LEMMA ForeignFacts ==
    ASSUME ForeignStands, NEW b \in Foreign
    PROVE  /\ b \in Beyond(rom)
           /\ \A c \in Extent(OldImage, b) : rom[c] = OldImage[c]
           /\ rom[b] = OldImage[b] /\ Extent(rom, b) = Extent(OldImage, b)
           /\ Payload(rom, b) = Payload(OldImage, b)
<1>1. b \in Nat /\ Parses(OldImage, b) /\ b >= AreaLen
  BY ScannedFacts DEF Foreign
<1>2. b \in Scan(rom) /\ \A c \in Extent(OldImage, b) : rom[c] = OldImage[c]
  BY DEF ForeignStands
<1>3. /\ rom[b] = OldImage[b] /\ Extent(rom, b) = Extent(OldImage, b)
      /\ Payload(rom, b) = Payload(OldImage, b)
  BY ONLY <1>1, <1>2, SameCellsSameBlock
<1> QED
  BY <1>1, <1>2, <1>3 DEF Beyond

\* A step erases no block of another part and lets no entry point at one.
LEMMA ForeignStaysSo ==
    ASSUME ForeignIsApart, PayloadsInvariant, ForeignStands,
           NEW gone, NEW made, Moves(gone, made)
    PROVE  ForeignStands'
<1>1. gone \cap Foreign = {}
  BY GoneIsOwn
<1>2. Moved(rom, rom', gone, made)
  BY DEF Moves
<1>3. ASSUME NEW b \in Foreign
      PROVE  /\ b \in Beyond(rom') /\ b \in Scan(rom')
             /\ \A c \in Extent(OldImage, b) : rom'[c] = OldImage[c]
             /\ rom'[b] = OldImage[b] /\ Payload(rom', b) = Payload(OldImage, b)
  <2>1. /\ b \in Beyond(rom) \ gone
        /\ \A c \in Extent(OldImage, b) : rom[c] = OldImage[c]
        /\ rom[b] = OldImage[b] /\ Extent(rom, b) = Extent(OldImage, b)
        /\ Payload(rom, b) = Payload(OldImage, b)
    BY <1>1, ForeignFacts
  <2>2. /\ b \in Beyond(rom') /\ b \in Scan(rom')
        /\ \A c \in Extent(rom, b) : rom'[c] = rom[c]
        /\ rom'[b] = rom[b] /\ Payload(rom', b) = Payload(rom, b)
    BY <1>2, <2>1, KeptBlock
  <2> QED
    BY <2>1, <2>2
<1>4. ASSUME NEW t \in TableNames, NEW k \in Levels, Expanded(pointer'[t][k])
      PROVE  pointer'[t][k].pc - 1 \notin Foreign
  <2>1. CASE \E j \in Levels : pointer'[t][k] = pointer[t][j]
    BY <1>4, <2>1 DEF ForeignStands
  <2>2. ASSUME NEW b \in Scan(rom'), Permits(b, b + rom'[b].size, Protected),
               pointer'[t][k] = PcToSnes(b), Payload(rom', b) \in Payloads
        PROVE  pointer'[t][k].pc - 1 \notin Foreign
    <3>1. pointer'[t][k].pc - 1 = b
      <4>1. b \in Nat
        BY ScannedFacts
      <4> QED
        BY <2>2, <4>1 DEF PcToSnes, Pointer
    <3>2. ASSUME b \in Foreign PROVE FALSE
      <4>1. rom'[b] = OldImage[b] /\ Payload(rom', b) = Payload(OldImage, b)
        BY <1>3, <3>2
      <4> QED
        BY <2>2, <3>2, <4>1 DEF ForeignIsApart
    <3> QED
      BY <3>1, <3>2
  <2> QED
    BY <2>1, <2>2 DEF Moves
<1>5. ExitsBlock(exits') \cap Foreign = {}
  <2>1. CASE exits' = exits
    BY <2>1 DEF ForeignStands
  <2>2. CASE made = ExitsBlock(exits') /\ made \cap (Beyond(rom) \ gone) = {}
    BY <1>1, <2>2, ForeignFacts
  <2> QED
    BY <2>1, <2>2 DEF Moves
<1>6. ASSUME NEW b \in Beyond(rom') \ (Foreign \cup ExitsBlock(exits'))
      PROVE  Extent(rom', b) \cap Protected = {}
  <2>1. \/ exits' = exits /\ made = {}
        \/ ExitsBlock(exits) \subseteq gone /\ made = ExitsBlock(exits')
    BY DEF Moves
  <2>2. CASE b \in Beyond(rom) \ gone
    <3>1. b \notin ExitsBlock(exits)
      BY <1>6, <2>1, <2>2
    <3>2. Extent(rom', b) = Extent(rom, b)
      BY <1>2, <2>2, KeptBlock
    <3> QED
      BY <1>6, <2>2, <3>1, <3>2 DEF ForeignStands
  <2>3. CASE b \notin Beyond(rom) \ gone
    BY <1>2, <1>6, <2>1, <2>3 DEF Moved
  <2> QED
    BY <2>2, <2>3
<1> QED
  BY <1>3, <1>4, <1>5, <1>6 DEF ForeignStands

\* At the start no entry points at a block of another part, nor do the exits.
LEMMA ForeignInit == ASSUME ForeignIsApart, Init PROVE ForeignStands
<1>1. rom = OldImage /\ pointer = OldPointers /\ exits = OldExits
  BY DEF Init
<1>2. ASSUME NEW t \in TableNames, NEW k \in Levels,
             Expanded(OldPointers[t][k]), NEW b \in Foreign, OldPointers[t][k].pc - 1 = b
      PROVE  FALSE
  <2>1. <<t, k>> \in Slots /\ <<t, k>>[1] = t /\ <<t, k>>[2] = k
    BY DEF Slots
  <2>2. OldPointers[t][k].pc # b + 1
    BY <1>2, <2>1 DEF Foreign, Expanded
  <2>3. OldPointers[t][k].pc \in Nat
    BY <1>2, LevelPayloadsAssumption DEF LevelPayloadsAssumption, Pointers, Expanded
  <2> QED
    BY <1>2, <2>2, <2>3
<1>3. ExitsBlock(OldExits) \cap Foreign = {}
  BY DEF Foreign
<1>4. \A b \in Foreign : b \in Scan(OldImage)
  BY DEF Foreign
<1> QED
  BY <1>1, <1>2, <1>3, <1>4 DEF ForeignStands, ForeignIsApart

\* So it is after every step.
THEOREM ForeignHolds ==
    ASSUME ProgramSpelling, ExitsAreApart, ForeignIsApart
    PROVE  Spec => [](orphaned \/ ForeignStands)
<1>1. Init => ForeignStands
  BY ForeignInit
<1>2. (orphaned \/ PayloadsInvariant) /\ (orphaned \/ ForeignStands) /\ [Next]_vars =>
          (orphaned \/ ForeignStands)'
  <2>1. ASSUME orphaned, [Next]_vars PROVE orphaned'
    BY <2>1, OrphanedStays
  <2>2. ASSUME PayloadsInvariant, ForeignStands, [Next]_vars, ~orphaned'
        PROVE  ForeignStands'
    BY <2>2, NextMoves, ForeignStaysSo
  <2> QED
    BY <2>1, <2>2
<1> QED
  BY <1>1, <1>2, InvariantHolds, PTL DEF Spec

\* The blocks of entries are scanned, and none is the exits' block.
LiveIsApart ==
    /\ Referenced(rom, pointer, Slots) \subseteq Beyond(rom)
    /\ Referenced(rom, pointer, Slots) \cap ExitsBlock(exits) = {}

\* A step writes free cells or blocks no entry points at afterwards, never a
\* block of another part of the game; reserved cells only for the exits, and
\* the original area only where and to what the clearing writes
\* (AllocationPolicy::permits_allocation, find_free_range, find_duplicate,
\* stage_reclamation, clear_original_level_data_area).
THEOREM ForeignNeverChanges ==
    ASSUME ProgramSpelling, ExitsAreApart, ForeignIsApart
    PROVE  Spec => ForeignIsKept
<1> DEFINE Kept(c) ==
              /\ \A b \in Foreign : c \notin Extent(OldImage, b)
              /\ IF c < AreaLen
                 THEN c \in Overwritten /\ rom'[c] = ClearArea(rom)[c]
                 ELSE \/ rom[c] = Fill
                      \/ \E b \in Scan(rom) : /\ b >= AreaLen /\ c \in Extent(rom, b)
                                              /\ b \notin Referenced(rom, pointer, Slots)'
              /\ c >= AreaLen /\ c \in Protected =>
                    \/ \E b \in ExitsBlock(exits) : c \in Extent(rom, b)
                    \/ \E b \in ExitsBlock(exits)' : c \in Extent(rom', b)
<1>0. PayloadsInvariant' => LiveIsApart'
  <2>1. PayloadsInvariant => LiveIsApart
    BY InvariantIsLive DEF LiveIsApart
  <2> QED
    BY <2>1, PTL
<1>1. ASSUME PayloadsInvariant, ForeignStands, [Next]_vars, ~orphaned',
             NEW c \in {x \in Cells : rom'[x] # rom[x]}
      PROVE  Kept(c)
  <2>1. PICK gone, made : Moves(gone, made)
    BY <1>1, NextMoves
  <2>2. PayloadsInvariant' /\ ForeignStands' /\ gone \cap Foreign = {}
    BY <1>1, <2>1, NextMoves, ForeignStaysSo, GoneIsOwn
  <2>3. /\ Moved(rom, rom', gone, made) /\ gone \subseteq Beyond(rom)
        /\ gone \cap Beyond(rom') \subseteq ExitsBlock(exits')
        /\ ~(c >= AreaLen) => c \in Overwritten /\ rom'[c] = ClearArea(rom)[c]
        /\ made \subseteq ExitsBlock(exits')
    BY <2>1 DEF Moves
  <2>4. c \in Nat /\ AreaLen \in Nat
    BY LevelPayloadsAssumption DEF LevelPayloadsAssumption, Cells
  <2>5. \A b \in Foreign : c \notin Extent(OldImage, b)
    BY <1>1, <2>2 DEF ForeignStands
  <2>6. c >= AreaLen =>
            \/ rom[c] = Fill /\ (c \in Protected => \E b \in made : c \in Extent(rom', b))
            \/ \E b \in gone : c \in Extent(rom, b)
    BY <2>3 DEF Moved
  <2>7. ASSUME NEW b \in gone, c \in Extent(rom, b)
        PROVE  /\ b \in Scan(rom) /\ b >= AreaLen
               /\ b \notin Referenced(rom, pointer, Slots)'
               /\ b \in ExitsBlock(exits) \/ c \notin Protected
    <3>1. b \in Scan(rom) /\ b >= AreaLen
      BY <2>3 DEF Beyond
    <3>2. b \notin Referenced(rom, pointer, Slots)'
      BY <1>0, <2>2, <2>3 DEF LiveIsApart
    <3>3. b \in ExitsBlock(exits) \/ c \notin Protected
      BY <1>1, <2>2, <2>3, <2>7 DEF ForeignStands
    <3> QED
      BY <3>1, <3>2, <3>3
  <2>8. c < AreaLen <=> ~(c >= AreaLen)
    BY <2>4
  <2> QED
    BY <2>3, <2>5, <2>6, <2>7, <2>8
<1>2. (orphaned \/ PayloadsInvariant) /\ (orphaned \/ ForeignStands) /\ [Next]_vars =>
          [orphaned' \/ \A c \in {x \in Cells : rom'[x] # rom[x]} : Kept(c)]_vars
  <2> HIDE DEF Kept
  <2>1. ASSUME orphaned, [Next]_vars PROVE orphaned'
    BY <2>1, OrphanedStays
  <2> QED
    BY <1>1, <2>1
<1> QED
  BY <1>2, InvariantHolds, ForeignHolds, PTL DEF Spec, ForeignIsKept

-----------------------------------------------------------------------------
(* What a deletion frees and what it spares *)

\* Deleting levels frees every block that only they used, whatever the image,
\* the levels and the tables, and even when the test level is among them
\* (delete_native_level_assets_to_original_source, delete_levels).
THEOREM FreesWhatItOwned ==
    ASSUME ProgramSpelling, ExitsAreApart
    PROVE  Spec => DeletionFrees
<1>1. ASSUME PayloadsInvariant, NEW levels \in SUBSET Levels, DeleteLevels(levels),
             NEW b \in Referenced(rom, pointer, TableNames \X levels)
                          \ Referenced(rom, pointer, TableNames \X (Levels \ levels)),
             levels = {Test} \/ b \notin Referenced(rom, pointer, TableNames \X {Test}),
             NEW c \in Extent(rom, b)
      PROVE  \/ rom'[c] = Fill
             \/ \E d \in ExitsBlock(exits)' : c \in Extent(rom', d)
  <2>1. PICK gone, mid : \E clear \in BOOLEAN :
               /\ DeletedTo(levels, LevelCount, gone, Deleted(levels))
               /\ \/ mid = Erase(rom, gone)
                  \/ Repacked(Erase(rom, gone), mid, exits, exits', exitsAsked')
               /\ rom' = IF clear THEN ClearArea(mid) ELSE mid
    BY <1>1, DeletedInSteps
  <2>2. PICK clear \in BOOLEAN :
               /\ DeletedTo(levels, LevelCount, gone, Deleted(levels))
               /\ \/ mid = Erase(rom, gone)
                  \/ Repacked(Erase(rom, gone), mid, exits, exits', exitsAsked')
               /\ rom' = IF clear THEN ClearArea(mid) ELSE mid
    BY <2>1
  <2>3. AreaIsSound(rom) /\ rom = [x \in Cells |-> rom[x]]
    BY <1>1 DEF PayloadsInvariant, Shapes
  <2>4. b \in gone
    <3>1. b \in OnlyUsedBy(levels)
      BY <1>1 DEF OnlyUsedBy
    <3>2. \A k \in levels : ~(k >= LevelCount)
      BY LevelPayloadsAssumption DEF LevelPayloadsAssumption, Levels
    <3> QED
      BY <2>2, <3>1, <3>2 DEF DeletedTo
  <2>5. gone \in SUBSET Beyond(rom)
    BY <2>2 DEF DeletedTo
  <2>6. c \in Cells /\ c >= AreaLen
    BY <1>1, <2>4, <2>5, ScannedFacts, SidesAreApart DEF Beyond
  <2> DEFINE first == Erase(rom, gone)
  <2>7. first[c] = Fill
    BY <1>1, <2>4, <2>6 DEF Erase
  <2>8. Moved(rom, first, gone, {})
    BY <2>3, <2>5, ErasedMoved
  <2> HIDE DEF first
  <2>9. mid = [x \in Cells |-> mid[x]] /\ AreaIsSound(mid)
    <3>1. CASE mid = first
      BY <2>8, <3>1 DEF Moved
    <3>2. CASE Repacked(first, mid, exits, exits', exitsAsked')
      BY <3>2 DEF Repacked, Moved
    <3> QED
      BY <2>2, <3>1, <3>2 DEF first
  <2>10. \A x \in Cells : x >= AreaLen => rom'[x] = mid[x]
    <3>1. \A x \in Cells : x \notin Overwritten => ClearArea(mid)[x] = mid[x]
      BY <2>9, ClearedMoved
    <3>2. \A x \in Overwritten : ~(x >= AreaLen)
      BY ClearingAssumption, LevelPayloadsAssumption
         DEF ClearingAssumption, LevelPayloadsAssumption
    <3> QED
      BY <2>2, <3>1, <3>2
  <2>11. CASE mid = first
    BY <2>6, <2>7, <2>10, <2>11
  <2>12. CASE Repacked(first, mid, exits, exits', exitsAsked')
    <3>1. mid[c] = Fill \/ \E d \in ExitsBlock(exits') : c \in Extent(mid, d)
      BY <2>6, <2>7, <2>12 DEF Repacked
    <3>2. ASSUME NEW d \in ExitsBlock(exits'), c \in Extent(mid, d)
          PROVE  c \in Extent(rom', d)
      <4>1. d \in Beyond(mid)
        BY <2>12 DEF Repacked
      <4>2. d \in Cells /\ d >= AreaLen
        BY <4>1, ScannedFacts DEF Beyond
      <4>3. rom'[d] = mid[d]
        BY <2>10, <4>2
      <4> QED
        BY <3>2, <4>3 DEF Extent
    <3> QED
      BY <2>6, <2>10, <3>1, <3>2
  <2> QED
    BY <2>2, <2>11, <2>12 DEF first
<1>2. (orphaned \/ PayloadsInvariant) /\ [Next]_vars =>
      [\A levels \in SUBSET Levels : ~orphaned /\ DeleteLevels(levels) =>
          \A b \in Referenced(rom, pointer, TableNames \X levels)
                     \ Referenced(rom, pointer, TableNames \X (Levels \ levels)) :
              levels = {Test} \/ b \notin Referenced(rom, pointer, TableNames \X {Test}) =>
                  \A c \in Extent(rom, b) :
                      \/ rom'[c] = Fill
                      \/ \E d \in ExitsBlock(exits)' : c \in Extent(rom', d)]_vars
  BY <1>1
<1> QED
  BY <1>2, InvariantHolds, PTL DEF Spec, DeletionFrees

\* Every pointer into the expansion is spelled as pc_to_snes spells it.
OneSpelling(image, tables) ==
    \A t \in TableNames, k \in Levels :
        tables[t][k] # Null /\ Tagged(image, tables[t][k]) =>
            tables[t][k] = PcToSnes(tables[t][k].pc - 1)

\* When all pointers have the program's own spelling, no block that another
\* level points at is among those a deletion takes: the condition the image
\* of the original editor does not meet (native_asset_pointer_is_shared).
THEOREM SparesWhatOthersUse ==
    ASSUME NEW image, NEW tables, OneSpelling(image, tables), NEW l \in Levels
    PROVE  Reclaimable(image, tables, l)
               \cap Referenced(image, tables, TableNames \X (Levels \ {l})) = {}
<1> SUFFICES ASSUME NEW b \in Referenced(image, tables, TableNames \X (Levels \ {l}))
             PROVE  IsShared(tables, b, l)
  BY DEF Reclaimable
<1>1. PICK s \in TableNames \X (Levels \ {l}) :
               /\ tables[s[1]][s[2]] # Null
               /\ Tagged(image, tables[s[1]][s[2]])
               /\ b = tables[s[1]][s[2]].pc - 1
  BY DEF Referenced
<1>2. s[1] \in TableNames /\ s[2] \in Levels \ {l}
  OBVIOUS
<1>3. tables[s[1]][s[2]] = PcToSnes(b)
  BY <1>1, <1>2 DEF OneSpelling
<1> QED
  BY <1>2, <1>3 DEF IsShared

\* On such an image deleting levels never changes what another level reads,
\* however often blocks are shared, moved and erased before, except what it
\* reads from the cleared area: both states read what was asked, and a deletion
\* changes only its own levels' answers (delete_levels).
THEOREM OthersReadOn ==
    ASSUME ProgramSpelling, ExitsAreApart
    PROVE  Spec => OthersAreRetained
<1>1. ASSUME PayloadsInvariant, PayloadsInvariant', NEW levels \in SUBSET Levels,
             DeleteLevels(levels), NEW t \in TableNames, NEW k \in Levels \ levels,
             ~ReadsOverwritten(pointer[t][k])
      PROVE  Resolve(rom', pointer'[t][k]) = Resolve(rom, pointer[t][k])
  <2>1. /\ Resolve(rom, pointer[t][k]) = asked[t][k]
        /\ Resolve(rom', pointer'[t][k]) = asked'[t][k]
    BY <1>1 DEF PayloadsInvariant
  <2>2. PICK gone : DeletedTo(levels, LevelCount, gone, Deleted(levels))
    BY <1>1, DeletedFacts
  <2>3. /\ Deleted(levels).pointer[t][k] = pointer[t][k]
        /\ Deleted(levels).asked[t][k] = asked[t][k]
    <3>1. Place(levels, LevelCount, k) = k
      BY DEF Place
    <3> QED
      BY <2>2, <3>1 DEF DeletedTo
  <2>4. PICK clear \in BOOLEAN :
            /\ pointer' = Deleted(levels).pointer
            /\ asked' = [u \in TableNames |-> [l \in Levels |->
                            IF clear /\ ReadsOverwritten(pointer'[u][l])
                            THEN Resolve(rom', pointer'[u][l])
                            ELSE Deleted(levels).asked[u][l]]]
    BY <1>1, DeletedInSteps
  <2>5. pointer'[t][k] = pointer[t][k]
    BY <2>3, <2>4
  <2>6. asked'[t][k] = asked[t][k]
    BY <1>1, <2>3, <2>4, <2>5
  <2> QED
    BY <2>1, <2>6
<1>2. (orphaned \/ PayloadsInvariant) /\ (orphaned \/ PayloadsInvariant)' /\ [Next]_vars =>
          [\A levels \in SUBSET Levels : DeleteLevels(levels) =>
              orphaned' \/ \A t \in TableNames, k \in Levels \ levels :
                  \/ ReadsOverwritten(pointer[t][k])
                  \/ Resolve(rom', pointer'[t][k]) = Resolve(rom, pointer[t][k])]_vars
  <2>1. ASSUME orphaned, [Next]_vars PROVE orphaned'
    BY <2>1, OrphanedStays
  <2> QED
    BY <1>1, <2>1
<1> QED
  BY <1>2, InvariantHolds, PTL DEF Spec, OthersAreRetained
=============================================================================
