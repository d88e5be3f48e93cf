------------------------ MODULE BlockSelectionProofs ------------------------
(***************************************************************************)
(* Proofs about BlockSelection: type correctness and the agreement of the  *)
(* two copies of the selection, for every size of picture and every number *)
(* of colours.                                                             *)
(***************************************************************************)
EXTENDS BlockSelection, CollectionLemmas

-----------------------------------------------------------------------------
(* Pixels, colours and nodes *)

LEMMA Sorts ==
  /\ NBlocks \in Nat \ {0}
  /\ Pixel \subseteq Nat /\ Pixel \subseteq Node
  /\ Color \subseteq Block /\ Color \subseteq Nat /\ Block \subseteq Nat
  /\ ExtendedBlock \in Block /\ Block = Color \cup {ExtendedBlock} /\ ExtendedBlock \notin Color
  /\ Node \subseteq Int
  /\ \A x \in Node : x \in Pixel <=> x >= 0
  /\ \A t \in DataType : -t \in Node /\ -t < 0
<1>1. NBlocks \in Nat \ {0} /\ Width * Height \in Int
  BY BlockAssumption, SizeAssumption
<1>2. Pixel \subseteq Nat
  BY <1>1 DEF Pixel
<1>3. DataNode = {-1, -2, -4}
  BY DEF DataNode, DataType, BK_LIBRARY, BK_AVG, BK_LIST
<1>4. /\ Color \subseteq Block /\ Color \subseteq Nat /\ Block \subseteq Nat
      /\ ExtendedBlock \in Block /\ Block = Color \cup {ExtendedBlock} /\ ExtendedBlock \notin Color
  BY <1>1 DEF Color, Block, ExtendedBlock
<1>5. Node \subseteq Int /\ \A x \in Node : x \in Pixel <=> x >= 0
  BY <1>2, <1>3 DEF Node
<1>6. \A t \in DataType : -t \in Node /\ -t < 0
  BY <1>3 DEF Node, DataNode, DataType, BK_LIBRARY, BK_AVG, BK_LIST
<1>7. QED
  BY <1>1, <1>2, <1>4, <1>5, <1>6 DEF Node

-----------------------------------------------------------------------------
(* Sorted lists, and the walks along them *)

LEMMA IntegerElements ==
  ASSUME NEW S \in SUBSET Int, NEW s \in Seq(S)
  PROVE  Len(s) \in Nat /\ \A i \in 1..Len(s) : s[i] \in S /\ s[i] \in Int
<1>1. Len(s) \in Nat
  BY LenProperties
<1>2. ASSUME NEW i \in 1..Len(s) PROVE s[i] \in S
  BY ElementOfSeq
<1>3. QED
  BY <1>1, <1>2

LEMMA IncreasingDistinct ==
  ASSUME NEW S \in SUBSET Int, NEW s \in Seq(S), Increasing(s)
  PROVE  Distinct(s)
<1>1. Len(s) \in Nat /\ \A i \in 1..Len(s) : s[i] \in Int
  BY IntegerElements
<1>2. QED
  BY <1>1 DEF Increasing, Distinct

LEMMA IncreasingInsert ==
  ASSUME NEW S \in SUBSET Int, NEW s \in Seq(S), Increasing(s), NEW e \in S, NEW k \in 1..(Len(s) + 1),
         \A i \in 1..Len(s) : (i < k => s[i] < e) /\ (i >= k => s[i] > e)
  PROVE  Increasing(InsertAt(s, k, e))
<1> DEFINE t == InsertAt(s, k, e)
<1>1. /\ t \in Seq(S) /\ Len(t) = Len(s) + 1
      /\ \A i \in 1..(Len(s) + 1) : t[i] = IF i < k THEN s[i] ELSE IF i = k THEN e ELSE s[i - 1]
  BY InsertAtElements
<1>2. Len(s) \in Nat /\ \A i \in 1..Len(s) : s[i] \in Int
  BY IntegerElements
<1> HIDE DEF t
<1> SUFFICES ASSUME NEW i \in 1..Len(t), NEW j \in 1..Len(t), i < j
               PROVE  t[i] < t[j]
  BY DEF Increasing, t
<1>3. CASE j < k
  BY <1>1, <1>2, <1>3 DEF Increasing
<1>4. CASE j = k
  BY <1>1, <1>2, <1>4
<1>5. CASE j > k
  <2>1. j - 1 \in 1..Len(s) /\ t[j] = s[j - 1] /\ s[j - 1] > e
    BY <1>1, <1>2, <1>5
  <2>2. CASE i < k
    <3>1. i \in 1..Len(s) /\ t[i] = s[i] /\ i < j - 1
      BY <2>2, <1>1, <1>5
    <3>2. QED
      BY <1>2, <2>1, <3>1 DEF Increasing
  <2>3. CASE i = k
    BY <1>2, <2>1, <2>3, <1>1
  <2>4. CASE i > k
    <3>1. i - 1 \in 1..Len(s) /\ t[i] = s[i - 1] /\ i - 1 < j - 1
      BY <2>4, <1>1
    <3>2. QED
      BY <1>2, <2>1, <3>1 DEF Increasing
  <2>5. QED
    BY <2>2, <2>3, <2>4
<1>6. QED
  BY <1>3, <1>4, <1>5

LEMMA IncreasingRemove ==
  ASSUME NEW S \in SUBSET Int, NEW s \in Seq(S), Increasing(s), NEW k \in 1..Len(s)
  PROVE  Increasing(RemoveAt(s, k))
<1> DEFINE t == RemoveAt(s, k)
           u(n) == IF n < k THEN n ELSE n + 1
<1>1. /\ t \in Seq(S) /\ Len(t) = Len(s) - 1
      /\ \A i \in 1..(Len(s) - 1) : t[i] = IF i < k THEN s[i] ELSE s[i + 1]
  BY RemoveAtElements
<1>2. Len(s) \in Nat /\ \A i \in 1..Len(s) : s[i] \in Int
  BY IntegerElements
<1> HIDE DEF t
<1> SUFFICES ASSUME NEW i \in 1..Len(t), NEW j \in 1..Len(t), i < j
               PROVE  t[i] < t[j]
  BY DEF Increasing, t
<1>3. /\ u(i) \in 1..Len(s) /\ t[i] = s[u(i)]
      /\ u(j) \in 1..Len(s) /\ t[j] = s[u(j)]
      /\ u(i) < u(j)
  BY <1>1, <1>2
<1>4. QED
  BY <1>2, <1>3 DEF Increasing

\* Where the search of new_block, AddPoint and DeletePoint stops in a sorted
\* list, everything before is smaller and everything after is not.
LEMMA WalkSplits ==
  ASSUME NEW S \in SUBSET Int, NEW s \in Seq(S), Increasing(s), NEW p \in Int,
         NEW from \in 1..Len(s), s[from] < p,
         NEW j, WalkStops(s, from, p, j)
  PROVE  /\ j \in 1..Len(s)
         /\ \A i \in 1..Len(s) : (i < j + 1 => s[i] < p) /\ (i >= j + 1 => s[i] >= p)
         /\ FoundAfter(s, j, p) => j + 1 \in 1..Len(s) /\ s[j + 1] = p
         /\ ~FoundAfter(s, j, p) => \A i \in 1..Len(s) : i >= j + 1 => s[i] > p
<1>1. j \in from..Len(s) /\ j \in 1..Len(s)
  BY DEF WalkStops
<1>0. Len(s) \in Nat /\ \A i \in 1..Len(s) : s[i] \in Int
  BY IntegerElements
<1>2. ASSUME NEW i \in 1..Len(s), i < j + 1 PROVE s[i] < p
  <2>1. CASE i <= from
    BY <1>0, <2>1 DEF Increasing
  <2>2. CASE i > from
    BY <1>0, <2>2, <1>1, <1>2 DEF WalkStops
  <2>3. QED
    BY <2>1, <2>2, <1>1
<1>3. ASSUME NEW i \in 1..Len(s), i >= j + 1
      PROVE  s[i] >= p /\ (~FoundAfter(s, j, p) => s[i] > p)
  <2>1. j + 1 \in 1..Len(s) /\ s[j + 1] >= p /\ s[j + 1] \in Int
    BY <1>0, <1>1, <1>3 DEF WalkStops
  <2>2. s[i] >= s[j + 1]
    BY <1>0, <2>1, <1>1, <1>3 DEF Increasing
  <2>3. ~FoundAfter(s, j, p) => s[j + 1] > p
    BY <1>0, <1>1, <2>1 DEF FoundAfter
  <2>4. QED
    BY <1>0, <2>1, <2>2, <2>3
<1>4. QED
  BY <1>0, <1>1, <1>2, <1>3 DEF FoundAfter

-----------------------------------------------------------------------------
(* One step of the selection, as both copies see it *)

BlockTypes(B) == B \in [Block -> [block : Seq(Node), nblocks : Nat]]

ListTypes ==
  /\ BlockTypes(Blocks)
  /\ stack \in Seq(Pixel)
  /\ colors \in [Pixel -> Seq(Color)]
  /\ shown \in [Pixel -> Color \cup {None}]

ListsOK == ListTypes /\ ListsSorted /\ Homogeneous /\ OwnersAgree /\ PaintIsTop

\* B is Blocks, but for the extended block, which holds data all the same.
Agrees(B) ==
  /\ BlockTypes(B)
  /\ \A c \in Color : B[c] = Blocks[c]
  /\ B[ExtendedBlock].nblocks = Len(B[ExtendedBlock].block)
  /\ \A i \in 1..Len(B[ExtendedBlock].block) : B[ExtendedBlock].block[i] < 0

\* Colour b claims or yields pixel p, whose colours are then cs.
Change(B, b, p, cs) ==
  /\ BlockTypes(Blocks')
  /\ \A c \in Block \ {b} : Blocks'[c] = B[c]
  /\ Blocks'[b].nblocks = Len(Blocks'[b].block)
  /\ Increasing(Blocks'[b].block)
  /\ ToSet(Blocks'[b].block) \subseteq Pixel
  /\ \A q \in Pixel \ {p} : q \in ToSet(Blocks'[b].block) <=> q \in ToSet(Blocks[b].block)
  /\ stack' \in Seq(Pixel) /\ Increasing(stack')
  /\ \A q \in Pixel \ {p} : q \in ToSet(stack') <=> q \in ToSet(stack)
  /\ p \in ToSet(stack') <=> cs # <<>>
  /\ cs \in Seq(Color) /\ Distinct(cs)
  /\ \A c \in Color \ {b} : c \in ToSet(cs) <=> c \in ToSet(colors[p])
  /\ b \in ToSet(cs) <=> p \in ToSet(Blocks'[b].block)
  /\ colors' = [colors EXCEPT ![p] = cs]
  /\ shown' = [shown EXCEPT ![p] = IF cs = <<>> THEN None ELSE cs[1]]

LEMMA ChangeKeeps ==
  ASSUME ListsOK, NEW B, Agrees(B), NEW b \in Color, NEW p \in Pixel,
         NEW cs, Change(B, b, p, cs)
  PROVE  ListsOK' /\ Extracted(b)'
<1> USE Sorts
<1>0. /\ BlockTypes(Blocks) /\ BlockTypes(Blocks') /\ BlockTypes(B)
      /\ \A c \in Color \ {b} : Blocks'[c] = Blocks[c]
      /\ Blocks'[ExtendedBlock] = B[ExtendedBlock]
  BY DEF ListsOK, ListTypes, Change, Agrees
<1>1. /\ colors \in [Pixel -> Seq(Color)] /\ shown \in [Pixel -> Color \cup {None}]
      /\ cs \in Seq(Color) /\ colors' = [colors EXCEPT ![p] = cs]
      /\ shown' = [shown EXCEPT ![p] = IF cs = <<>> THEN None ELSE cs[1]]
  BY DEF ListsOK, ListTypes, Change
<1>2. \A i \in 1..Len(Blocks'[b].block) : Blocks'[b].block[i] \in Pixel
  <2>1. Blocks'[b].block \in Seq(Node)
    BY <1>0 DEF BlockTypes
  <2>2. ToSet(Blocks'[b].block) \subseteq Pixel
    BY DEF Change
  <2>3. QED
    BY <2>1, <2>2, ElementsOf
<1>3. ListTypes'
  <2>1. cs # <<>> => cs[1] \in Color
    BY <1>1
  <2>2. QED
    BY <1>0, <1>1, <2>1 DEF ListTypes, Change
<1>4. ListsSorted'
  <2>1. Increasing(stack')
    BY DEF Change
  <2>2. ASSUME NEW c \in Block, Extracted(c)' PROVE Increasing(Nodes(c)')
    <3>1. CASE c = b
      BY <3>1 DEF Change, Nodes
    <3>2. CASE c \in Color \ {b}
      BY <3>2, <2>2, <1>0 DEF ListsOK, ListsSorted, Extracted, Nodes
    <3>3. CASE c = ExtendedBlock
      <4> DEFINE t == B[ExtendedBlock].block
      <4>1. t \in Seq(Node)
        BY <1>0 DEF BlockTypes
      <4>2. Len(t) \in Nat /\ \A i \in 1..Len(t) : t[i] \in Int /\ t[i] >= 0 /\ t[i] < 0
        BY <4>1, <3>3, <2>2, <1>0, IntegerElements DEF Agrees, Extracted, Nodes
      <4> HIDE DEF t
      <4>3. Increasing(t)
        BY <4>2 DEF Increasing
      <4>4. QED
        BY <4>3, <3>3, <1>0 DEF Nodes, t
    <3>4. QED
      BY <3>1, <3>2, <3>3
  <2>3. QED
    BY <2>1, <2>2 DEF ListsSorted
<1>5. Homogeneous'
  <2>1. Data(ExtendedBlock)' /\ (Blocks[ExtendedBlock].nblocks = Len(Nodes(ExtendedBlock)))'
    BY <1>0 DEF Agrees, Data, Nodes
  <2>2. Extracted(b)' /\ (Blocks[b].nblocks = Len(Nodes(b)))'
    BY <1>2 DEF Extracted, Nodes, Change
  <2>3. ASSUME NEW c \in Color \ {b}
        PROVE  (Extracted(c) \/ Data(c))' /\ (Blocks[c].nblocks = Len(Nodes(c)))'
    BY <1>0 DEF ListsOK, Homogeneous, Extracted, Data, Nodes
  <2>4. QED
    BY <2>1, <2>2, <2>3 DEF Homogeneous
<1>6. OwnersAgree'
  <2>1. ASSUME NEW q \in Pixel, NEW c \in Color
        PROVE  (c \in ToSet(colors[q]) <=> q \in ToSet(Nodes(c)))'
    <3>1. c \in ToSet(colors[q]) <=> q \in ToSet(Blocks[c].block)
      BY DEF ListsOK, OwnersAgree, Nodes
    <3>2. CASE q = p /\ c = b
      BY <3>2, <1>1 DEF Change, Nodes
    <3>3. CASE q = p /\ c # b
      BY <3>1, <3>3, <1>0, <1>1 DEF Change, Nodes
    <3>4. CASE q # p /\ c = b
      BY <3>1, <3>4, <1>1 DEF Change, Nodes
    <3>5. CASE q # p /\ c # b
      BY <3>1, <3>5, <1>0, <1>1 DEF Nodes
    <3>6. QED
      BY <3>2, <3>3, <3>4, <3>5
  <2>2. ASSUME NEW q \in Pixel PROVE Distinct(colors'[q])
    <3>1. Distinct(colors[q])
      BY DEF ListsOK, OwnersAgree, Distinct
    <3>2. QED
      BY <3>1, <1>1 DEF Change
  <2>3. ASSUME NEW q \in Pixel PROVE q \in ToSet(stack') <=> colors'[q] # <<>>
    <3>1. q \in ToSet(stack) <=> colors[q] # <<>>
      BY DEF ListsOK, OwnersAgree
    <3>2. QED
      BY <3>1, <1>1 DEF Change
  <2>4. ToSet(stack') \subseteq Pixel
    <3>1. stack' \in Seq(Pixel)
      BY DEF Change
    <3>2. QED
      BY <3>1, ElementsOf
  <2>5. QED
    BY <2>1, <2>2, <2>3, <2>4 DEF OwnersAgree, Distinct
<1>7. PaintIsTop'
  <2>1. ASSUME NEW q \in Pixel, shown'[q] # None
        PROVE  colors'[q] # <<>> /\ shown'[q] = colors'[q][1]
    <3>1. CASE q = p
      BY <3>1, <2>1, <1>1
    <3>2. CASE q # p
      BY <3>2, <2>1, <1>1 DEF ListsOK, PaintIsTop
    <3>3. QED
      BY <3>1, <3>2
  <2>2. QED
    BY <2>1 DEF PaintIsTop
<1>8. Extracted(b)'
  BY <1>2 DEF Extracted, Nodes
<1>9. QED
  BY <1>3, <1>4, <1>5, <1>6, <1>7, <1>8 DEF ListsOK

-----------------------------------------------------------------------------
(* The stack side: new_block and delete_block *)

LEMMA ListFacts ==
  ASSUME ListsOK, NEW b \in Color, NEW p \in Pixel
  PROVE  /\ colors[p] \in Seq(Color) /\ Distinct(colors[p])
         /\ Increasing(stack) /\ Distinct(stack) /\ stack \in Seq(Pixel)
         /\ p \in ToSet(stack) <=> colors[p] # <<>>
         /\ Nodes(b) \in Seq(Node) /\ Blocks[b].nblocks = Len(Nodes(b))
         /\ b \in ToSet(colors[p]) <=> p \in ToSet(Nodes(b))
         /\ Extracted(b) => /\ Increasing(Nodes(b)) /\ Distinct(Nodes(b))
                            /\ ToSet(Nodes(b)) \subseteq Pixel
<1>1. colors[p] \in Seq(Color) /\ stack \in Seq(Pixel) /\ Nodes(b) \in Seq(Node)
  BY Sorts DEF ListsOK, ListTypes, BlockTypes, Nodes
<1>2. Increasing(stack) /\ Distinct(stack)
  <2>1. Increasing(stack)
    BY DEF ListsOK, ListsSorted
  <2>2. QED
    BY <1>1, <2>1, Sorts, IncreasingDistinct
<1>3. /\ Distinct(colors[p])
      /\ p \in ToSet(stack) <=> colors[p] # <<>>
      /\ b \in ToSet(colors[p]) <=> p \in ToSet(Nodes(b))
  BY DEF ListsOK, OwnersAgree, Distinct
<1>4. Blocks[b].nblocks = Len(Nodes(b))
  BY Sorts DEF ListsOK, Homogeneous
<1>5. ASSUME Extracted(b)
      PROVE  /\ Increasing(Nodes(b)) /\ Distinct(Nodes(b))
             /\ ToSet(Nodes(b)) \subseteq Pixel
  <2>1. Increasing(Nodes(b))
    BY <1>5, Sorts DEF ListsOK, ListsSorted
  <2>2. Distinct(Nodes(b))
    BY <1>1, <2>1, Sorts, IncreasingDistinct
  <2>3. \A i \in 1..Len(Nodes(b)) : Nodes(b)[i] \in Pixel
    <3>1. \A i \in 1..Len(Nodes(b)) : Nodes(b)[i] \in Node
      BY <1>1, Sorts, IntegerElements
    <3>2. QED
      BY <3>1, <1>5, Sorts DEF Extracted
  <2>4. ToSet(Nodes(b)) \subseteq Pixel
    BY <1>1, <2>3, ElementsOf
  <2>5. QED
    BY <2>1, <2>2, <2>4
<1>6. QED
  BY <1>1, <1>2, <1>3, <1>4, <1>5

\* new_block puts the pixel where the stack stays sorted, if it is given no
\* hint or the node of a smaller pixel, and pushes the colour.
LEMMA NewBlockPushes ==
  ASSUME ListsOK, NEW b \in Color, NEW p \in Pixel, NEW hint \in 0..Len(stack),
         hint # 0 => stack[hint] < p,
         NewBlock(b, p, hint)
  PROVE  /\ stack' \in Seq(Pixel) /\ Increasing(stack')
         /\ ToSet(stack') = ToSet(stack) \cup {p}
         /\ colors' = [colors EXCEPT ![p] = <<b>> \o @]
<1> DEFINE from == IF hint = 0 THEN 1 ELSE hint
<1>1. /\ stack \in Seq(Pixel) /\ Increasing(stack) /\ Pixel \in SUBSET Int
      /\ Len(stack) \in Nat /\ \A i \in 1..Len(stack) : stack[i] \in Int
  BY ListFacts, Sorts, IntegerElements
<1>2. colors' = [colors EXCEPT ![p] = <<b>> \o @]
  BY DEF NewBlock
<1>3. CASE (stack # <<>> => stack[from] > p) /\ stack' = InsertAt(stack, 1, p)
  <2>1. \A i \in 1..Len(stack) : stack[i] > p
    <3>1. hint = 0 \/ stack = <<>>
      BY <1>1, <1>3
    <3>2. CASE stack = <<>>
      BY <3>2
    <3>3. CASE stack # <<>> /\ hint = 0
      <4>1. stack[1] > p /\ 1 \in 1..Len(stack)
        BY <3>3, <1>1, <1>3
      <4>2. QED
        BY <4>1, <1>1 DEF Increasing
    <3>4. QED
      BY <3>1, <3>2, <3>3
  <2>2. 1 \in 1..(Len(stack) + 1)
    BY <1>1
  <2>3. stack' \in Seq(Pixel) /\ ToSet(stack') = ToSet(stack) \cup {p}
    BY <1>1, <1>3, <2>2, InsertAtElements, InsertAtSet
  <2>4. Increasing(InsertAt(stack, 1, p))
    BY <1>1, <2>1, <2>2, IncreasingInsert
  <2>5. QED
    BY <2>3, <2>4, <1>2, <1>3
<1>4. CASE stack # <<>> /\ stack[from] = p /\ stack' = stack
  <2>1. from \in 1..Len(stack)
    BY <1>1, <1>4
  <2>2. p \in ToSet(stack)
    BY <2>1, <1>1, <1>4, ElementsOf
  <2>3. QED
    BY <2>2, <1>1, <1>2, <1>4
<1>5. ASSUME stack # <<>>, stack[from] < p, NEW j, WalkStops(stack, from, p, j),
             stack' = IF FoundAfter(stack, j, p) THEN stack ELSE InsertAt(stack, j + 1, p)
      PROVE  /\ stack' \in Seq(Pixel) /\ Increasing(stack')
             /\ ToSet(stack') = ToSet(stack) \cup {p}
  <2>1. from \in 1..Len(stack)
    BY <1>1, <1>5
  <2>2. /\ j \in 1..Len(stack)
        /\ \A i \in 1..Len(stack) : (i < j + 1 => stack[i] < p) /\ (i >= j + 1 => stack[i] >= p)
        /\ FoundAfter(stack, j, p) => j + 1 \in 1..Len(stack) /\ stack[j + 1] = p
        /\ ~FoundAfter(stack, j, p) => \A i \in 1..Len(stack) : i >= j + 1 => stack[i] > p
    <3> HIDE DEF from
    <3>1. p \in Int
      BY Sorts
    <3>2. QED
      BY <1>1, <1>5, <2>1, <3>1, WalkSplits
  <2>3. CASE FoundAfter(stack, j, p)
    <3>1. p \in ToSet(stack)
      BY <2>2, <2>3, <1>1, ElementsOf
    <3>2. QED
      BY <3>1, <2>3, <1>1, <1>5
  <2>4. CASE ~FoundAfter(stack, j, p)
    <3>1. j + 1 \in 1..(Len(stack) + 1)
      BY <2>2, <1>1
    <3>2. InsertAt(stack, j + 1, p) \in Seq(Pixel)
          /\ ToSet(InsertAt(stack, j + 1, p)) = ToSet(stack) \cup {p}
      BY <1>1, <3>1, InsertAtElements, InsertAtSet
    <3>3. Increasing(InsertAt(stack, j + 1, p))
      BY <1>1, <3>1, <2>2, <2>4, IncreasingInsert
    <3>4. QED
      BY <3>2, <3>3, <2>4, <1>5
  <2>5. QED
    BY <2>3, <2>4
<1>6. QED
  BY <1>2, <1>3, <1>4, <1>5 DEF NewBlock

\* The colour lists that a handler leaves on a pixel.
ColorList(cs) == cs \in Seq(Color) /\ Distinct(cs)

\* The case of new_block where the pixel is the colour's own: it comes to
\* the top.
LEMMA MoveToTopMoves ==
  ASSUME ListsOK, NEW b \in Color, NEW p \in Pixel, b \in ToSet(colors[p]),
         MoveToTop(b, p)
  PROVE  /\ stack' = stack
         /\ \E cs : /\ ColorList(cs) /\ ToSet(cs) = ToSet(colors[p])
                    /\ cs # <<>> /\ cs[1] = b
                    /\ colors' = [colors EXCEPT ![p] = cs]
<1>1. colors[p] \in Seq(Color) /\ Distinct(colors[p])
  BY ListFacts
<1>2. PICK i \in 1..Len(colors[p]) :
        /\ FirstAt(colors[p], i, b)
        /\ colors' = [colors EXCEPT ![p] = <<b>> \o RemoveAt(@, i)]
  BY DEF MoveToTop
<1> DEFINE rest == RemoveAt(colors[p], i)
           cs == <<b>> \o rest
<1>3. colors[p][i] = b
  BY <1>2 DEF FirstAt
<1>4. /\ rest \in Seq(Color) /\ Distinct(rest)
      /\ ToSet(rest) = ToSet(colors[p]) \ {b}
  BY <1>1, <1>3, RemoveAtElements, RemoveAtSet
<1> HIDE DEF rest
<1>5. /\ cs \in Seq(Color) /\ cs[1] = b /\ Len(cs) = Len(rest) + 1
      /\ ToSet(cs) = {b} \cup ToSet(rest) /\ Distinct(cs)
  BY <1>4, ConsElements, ConsSet
<1>6. colors' = [colors EXCEPT ![p] = cs]
  BY <1>2 DEF rest
<1> HIDE DEF cs
<1>7. cs # <<>>
  BY <1>4, <1>5
<1>8. ToSet(cs) = ToSet(colors[p])
  BY <1>4, <1>5
<1>9. QED
  BY <1>5, <1>6, <1>7, <1>8 DEF MoveToTop, ColorList

\* delete_block takes the colour off the pixel's list, and the stack node
\* with the last of them.
LEMMA DropColorDrops ==
  ASSUME ListsOK, NEW b \in Color, NEW p \in Pixel, b \in ToSet(colors[p]),
         DropColor(b, p)
  PROVE  \E cs : /\ ColorList(cs) /\ ToSet(cs) = ToSet(colors[p]) \ {b}
                 /\ colors' = [colors EXCEPT ![p] = cs]
                 /\ shown' = [shown EXCEPT ![p] = IF cs = <<>> THEN None ELSE cs[1]]
                 /\ stack' \in Seq(Pixel) /\ Increasing(stack')
                 /\ ToSet(stack') = IF cs = <<>> THEN ToSet(stack) \ {p} ELSE ToSet(stack)
<1>1. /\ colors[p] \in Seq(Color) /\ Distinct(colors[p])
      /\ stack \in Seq(Pixel) /\ Increasing(stack) /\ Distinct(stack)
      /\ Pixel \in SUBSET Int
  BY ListFacts, Sorts
<1>2. PICK i \in 1..Len(colors[p]) :
        /\ FirstAt(colors[p], i, b)
        /\ colors' = [colors EXCEPT ![p] = RemoveAt(@, i)]
  BY DEF DropColor
<1> DEFINE cs == RemoveAt(colors[p], i)
<1>3. /\ cs \in Seq(Color) /\ Distinct(cs)
      /\ ToSet(cs) = ToSet(colors[p]) \ {b}
  BY <1>1, <1>2, RemoveAtElements, RemoveAtSet DEF FirstAt
<1>4. colors' = [colors EXCEPT ![p] = cs]
  BY <1>2
<1> HIDE DEF cs
<1>5. colors'[p] = cs
  BY <1>4 DEF ListsOK, ListTypes
<1>6. shown' = [shown EXCEPT ![p] = IF cs = <<>> THEN None ELSE cs[1]]
  BY <1>5 DEF DropColor, TopColor
<1>7. /\ stack' \in Seq(Pixel) /\ Increasing(stack')
      /\ ToSet(stack') = IF cs = <<>> THEN ToSet(stack) \ {p} ELSE ToSet(stack)
  <2>1. CASE cs = <<>>
    <3>1. PICK j \in 1..Len(stack) : stack[j] = p /\ stack' = RemoveAt(stack, j)
      BY <2>1, <1>5 DEF DropColor
    <3>2. stack' \in Seq(Pixel) /\ ToSet(stack') = ToSet(stack) \ {p}
      BY <1>1, <3>1, RemoveAtElements, RemoveAtSet
    <3>3. Increasing(RemoveAt(stack, j))
      BY <1>1, IncreasingRemove
    <3>4. QED
      BY <2>1, <3>1, <3>2, <3>3
  <2>2. CASE cs # <<>>
    BY <2>2, <1>1, <1>5 DEF DropColor
  <2>3. QED
    BY <2>1, <2>2
<1>8. QED
  BY <1>3, <1>4, <1>6, <1>7 DEF ColorList

-----------------------------------------------------------------------------
(* AddPoint and DeletePoint are changes *)

LEMMA LinkNode ==
  ASSUME ListsOK, NEW B, Agrees(B), NEW b \in Color, NEW p \in Pixel, Extracted(b),
         NEW k \in 1..(Len(Nodes(b)) + 1),
         \A i \in 1..Len(Nodes(b)) : (i < k => Nodes(b)[i] < p) /\ (i >= k => Nodes(b)[i] > p),
         Blocks' = InsertNode(B, b, k, p)
  PROVE  /\ BlockTypes(Blocks')
         /\ \A c \in Block \ {b} : Blocks'[c] = B[c]
         /\ Blocks'[b].nblocks = Len(Blocks'[b].block)
         /\ Increasing(Blocks'[b].block)
         /\ ToSet(Blocks'[b].block) = ToSet(Nodes(b)) \cup {p}
<1> DEFINE t == InsertAt(Nodes(b), k, p)
<1>1. /\ Nodes(b) \in Seq(Node) /\ Increasing(Nodes(b)) /\ Blocks[b].nblocks = Len(Nodes(b))
      /\ p \in Node /\ Node \in SUBSET Int /\ b \in Block
  BY ListFacts, Sorts
<1>2. t \in Seq(Node) /\ Len(t) = Len(Nodes(b)) + 1 /\ ToSet(t) = ToSet(Nodes(b)) \cup {p}
  BY <1>1, InsertAtElements, InsertAtSet
<1>3. Increasing(t)
  BY <1>1, IncreasingInsert
<1>4. Blocks' = [B EXCEPT ![b] = [block |-> t, nblocks |-> Len(Nodes(b)) + 1]]
  BY <1>1 DEF Agrees, InsertNode, Nodes, BlockTypes
<1> HIDE DEF t
<1>5. QED
  BY <1>1, <1>2, <1>3, <1>4 DEF Agrees, BlockTypes

LEMMA UnlinkNode ==
  ASSUME ListsOK, NEW B, Agrees(B), NEW b \in Color, Extracted(b),
         NEW k \in 1..Len(Nodes(b)),
         Blocks' = RemoveNode(B, b, k)
  PROVE  /\ BlockTypes(Blocks')
         /\ \A c \in Block \ {b} : Blocks'[c] = B[c]
         /\ Blocks'[b].nblocks = Len(Blocks'[b].block)
         /\ Increasing(Blocks'[b].block)
         /\ ToSet(Blocks'[b].block) = ToSet(Nodes(b)) \ {Nodes(b)[k]}
<1> DEFINE t == RemoveAt(Nodes(b), k)
<1>1. PICK p \in Pixel : p = Nodes(b)[k]
  BY Sorts, IntegerElements DEF ListsOK, ListTypes, BlockTypes, Nodes, Extracted
<1>2. /\ Nodes(b) \in Seq(Node) /\ Increasing(Nodes(b)) /\ Distinct(Nodes(b))
      /\ Blocks[b].nblocks = Len(Nodes(b))
      /\ Node \in SUBSET Int /\ b \in Block
  BY ListFacts, Sorts
<1>3. t \in Seq(Node) /\ Len(t) = Len(Nodes(b)) - 1 /\ ToSet(t) = ToSet(Nodes(b)) \ {Nodes(b)[k]}
  BY <1>2, RemoveAtElements, RemoveAtSet
<1>4. Increasing(t)
  BY <1>2, IncreasingRemove
<1>5. Blocks' = [B EXCEPT ![b] = [block |-> t, nblocks |-> Len(Nodes(b)) - 1]]
  BY <1>2 DEF Agrees, RemoveNode, Nodes, BlockTypes
<1> HIDE DEF t
<1>6. Len(t) \in Nat /\ Len(Nodes(b)) - 1 \in Nat
  BY <1>2, <1>3
<1>7. QED
  BY <1>2, <1>3, <1>4, <1>5, <1>6 DEF Agrees, BlockTypes

\* Where a node is for the pixel already, only the colour list changes.
LEMMA MoveChanges ==
  ASSUME ListsOK, NEW B, Agrees(B), NEW b \in Color, NEW p \in Pixel, Extracted(b),
         p \in ToSet(Nodes(b)),
         Blocks' = B, MoveToTop(b, p), shown' = [shown EXCEPT ![p] = b]
  PROVE  \E cs : Change(B, b, p, cs)
<1>1. /\ b \in ToSet(colors[p])
      /\ p \in ToSet(stack) <=> colors[p] # <<>>
      /\ colors[p] \in Seq(Color)
      /\ stack \in Seq(Pixel) /\ Increasing(stack)
      /\ Increasing(Nodes(b)) /\ ToSet(Nodes(b)) \subseteq Pixel
      /\ Blocks[b].nblocks = Len(Nodes(b))
  BY ListFacts
<1>2. stack' = stack
  BY <1>1, MoveToTopMoves
<1>3. PICK cs : /\ ColorList(cs) /\ ToSet(cs) = ToSet(colors[p])
                /\ cs # <<>> /\ cs[1] = b
                /\ colors' = [colors EXCEPT ![p] = cs]
  BY <1>1, MoveToTopMoves
<1>4. colors[p] # <<>>
  BY <1>1 DEF ToSet
<1>5. Blocks'[b].block = Nodes(b) /\ Blocks'[b].nblocks = Blocks[b].nblocks
  BY DEF Agrees, Nodes
<1>6. BlockTypes(Blocks')
  BY DEF Agrees
<1>7. Change(B, b, p, cs)
  BY <1>1, <1>2, <1>3, <1>4, <1>5, <1>6 DEF Change, ColorList, Nodes
<1>8. QED
  BY <1>7

\* Where there is none, new_block and the link make one in both copies.
LEMMA PushChanges ==
  ASSUME ListsOK, NEW B, Agrees(B), NEW b \in Color, NEW p \in Pixel, Extracted(b),
         NEW k \in 1..(Len(Nodes(b)) + 1),
         \A i \in 1..Len(Nodes(b)) : (i < k => Nodes(b)[i] < p) /\ (i >= k => Nodes(b)[i] > p),
         Blocks' = InsertNode(B, b, k, p),
         NEW hint \in 0..Len(stack), hint # 0 => stack[hint] < p, NewBlock(b, p, hint),
         shown' = [shown EXCEPT ![p] = b]
  PROVE  \E cs : Change(B, b, p, cs)
<1> DEFINE cs == <<b>> \o colors[p]
<1>1. /\ b \in ToSet(colors[p]) <=> p \in ToSet(Nodes(b))
      /\ colors[p] \in Seq(Color) /\ Distinct(colors[p])
      /\ Nodes(b) \in Seq(Node) /\ ToSet(Nodes(b)) \subseteq Pixel
  BY ListFacts
<1>2. p \notin ToSet(Nodes(b))
  <2>1. \A i \in 1..Len(Nodes(b)) : Nodes(b)[i] # p
    BY <1>1, Sorts, IntegerElements
  <2>2. QED
    BY <1>1, <2>1, ElementsOf
<1>3. /\ stack' \in Seq(Pixel) /\ Increasing(stack')
      /\ ToSet(stack') = ToSet(stack) \cup {p}
      /\ colors' = [colors EXCEPT ![p] = cs]
  BY NewBlockPushes
<1>4. /\ BlockTypes(Blocks')
      /\ \A c \in Block \ {b} : Blocks'[c] = B[c]
      /\ Blocks'[b].nblocks = Len(Blocks'[b].block)
      /\ Increasing(Blocks'[b].block)
      /\ ToSet(Blocks'[b].block) = ToSet(Nodes(b)) \cup {p}
  BY LinkNode
<1>5. /\ cs \in Seq(Color) /\ cs[1] = b /\ Len(cs) = Len(colors[p]) + 1
      /\ ToSet(cs) = {b} \cup ToSet(colors[p]) /\ Distinct(cs)
  BY <1>1, <1>2, ConsElements, ConsSet
<1> HIDE DEF cs
<1>6. cs # <<>>
  BY <1>1, <1>5
<1>7. Change(B, b, p, cs)
  BY <1>1, <1>3, <1>4, <1>5, <1>6 DEF Change, Nodes
<1>8. QED
  BY <1>7

LEMMA AddPointChanges ==
  ASSUME ListsOK, NEW B, Agrees(B), NEW b \in Color, NEW p \in Pixel, Extracted(b),
         AddPoint(B, b, p)
  PROVE  \E cs : Change(B, b, p, cs)
<1> DEFINE s == Nodes(b)
<1>1. /\ B[b].block = s
      /\ s \in Seq(Node) /\ Increasing(s) /\ Node \in SUBSET Int /\ p \in Int
      /\ Len(s) \in Nat /\ \A i \in 1..Len(s) : s[i] \in Int
      /\ stack \in Seq(Pixel) /\ Len(stack) \in Nat
  BY ListFacts, Sorts, IntegerElements DEF Agrees, Nodes
<1>2. shown' = [shown EXCEPT ![p] = b]
  BY DEF AddPoint
<1> HIDE DEF s
<1>3. CASE (s # <<>> => s[1] > p) /\ NewBlock(b, p, 0) /\ Blocks' = InsertNode(B, b, 1, p)
  <2>1. \A i \in 1..Len(s) : (i < 1 => s[i] < p) /\ (i >= 1 => s[i] > p)
    BY <1>1, <1>3 DEF Increasing
  <2>2. 1 \in 1..(Len(s) + 1) /\ 0 \in 0..Len(stack)
    BY <1>1
  <2>3. QED
    BY <1>2, <1>3, <2>1, <2>2, PushChanges DEF s
<1>4. CASE s # <<>> /\ s[1] = p /\ MoveToTop(b, p) /\ Blocks' = B
  <2>1. 1 \in 1..Len(s)
    BY <1>1, <1>4
  <2>2. p \in ToSet(s)
    BY <1>1, <1>4, <2>1, ElementsOf
  <2>3. QED
    BY <1>2, <1>4, <2>2, MoveChanges DEF s
<1>5. ASSUME s # <<>>, s[1] < p, NEW k \in 1..Len(s), WalkStops(s, 1, p, k)
      PROVE  /\ \A i \in 1..Len(s) : (i < k + 1 => s[i] < p) /\ (i >= k + 1 => s[i] >= p)
             /\ FoundAfter(s, k, p) => k + 1 \in 1..Len(s) /\ s[k + 1] = p
             /\ ~FoundAfter(s, k, p) => \A i \in 1..Len(s) : i >= k + 1 => s[i] > p
  <2>1. 1 \in 1..Len(s)
    BY <1>1
  <2>2. QED
    BY <1>1, <1>5, <2>1, WalkSplits
<1>6. ASSUME s # <<>>, s[1] < p, NEW k \in 1..Len(s), WalkStops(s, 1, p, k),
             FoundAfter(s, k, p), MoveToTop(b, p), Blocks' = B
      PROVE  \E cs : Change(B, b, p, cs)
  <2>1. p \in ToSet(s)
    <3>1. k + 1 \in 1..Len(s) /\ s[k + 1] = p
      BY <1>5, <1>6
    <3>2. QED
      BY <1>1, <3>1, ElementsOf
  <2>2. QED
    BY <1>2, <1>6, <2>1, MoveChanges DEF s
<1>7. ASSUME s # <<>>, s[1] < p, NEW k \in 1..Len(s), WalkStops(s, 1, p, k),
             ~FoundAfter(s, k, p),
             NEW h \in 1..Len(stack), stack[h] = s[k], NewBlock(b, p, h),
             Blocks' = InsertNode(B, b, k + 1, p)
      PROVE  \E cs : Change(B, b, p, cs)
  <2>1. \A i \in 1..Len(s) : (i < k + 1 => s[i] < p) /\ (i >= k + 1 => s[i] > p)
    BY <1>5, <1>7
  <2>2. k + 1 \in 1..(Len(s) + 1) /\ h \in 0..Len(stack) /\ h # 0
    BY <1>1
  <2>3. stack[h] < p
    BY <1>1, <1>7, <2>1
  <2>4. QED
    BY <1>2, <1>7, <2>1, <2>2, <2>3, PushChanges DEF s
<1>8. QED
  BY <1>1, <1>3, <1>4, <1>6, <1>7 DEF AddPoint

LEMMA HitChanges ==
  ASSUME ListsOK, NEW B, Agrees(B), NEW b \in Color, NEW p \in Pixel, Extracted(b),
         NEW k \in 1..Len(Nodes(b)), Nodes(b)[k] = p,
         DropColor(b, p), Blocks' = RemoveNode(B, b, k)
  PROVE  \E cs : Change(B, b, p, cs)
<1>1. /\ Nodes(b) \in Seq(Node) /\ ToSet(Nodes(b)) \subseteq Pixel
      /\ b \in ToSet(colors[p]) <=> p \in ToSet(Nodes(b))
      /\ p \in ToSet(stack) <=> colors[p] # <<>>
  BY ListFacts
<1>2. b \in ToSet(colors[p])
  BY <1>1, ElementsOf
<1>3. PICK cs : /\ ColorList(cs) /\ ToSet(cs) = ToSet(colors[p]) \ {b}
                /\ colors' = [colors EXCEPT ![p] = cs]
                /\ shown' = [shown EXCEPT ![p] = IF cs = <<>> THEN None ELSE cs[1]]
                /\ stack' \in Seq(Pixel) /\ Increasing(stack')
                /\ ToSet(stack') = IF cs = <<>> THEN ToSet(stack) \ {p} ELSE ToSet(stack)
  BY <1>2, DropColorDrops
<1>4. /\ BlockTypes(Blocks')
      /\ \A c \in Block \ {b} : Blocks'[c] = B[c]
      /\ Blocks'[b].nblocks = Len(Blocks'[b].block)
      /\ Increasing(Blocks'[b].block)
      /\ ToSet(Blocks'[b].block) = ToSet(Nodes(b)) \ {p}
  BY UnlinkNode
<1>5. p \in ToSet(stack)
  <2>1. colors[p] # <<>>
    BY <1>2 DEF ToSet
  <2>2. QED
    BY <1>1, <2>1
<1>6. Change(B, b, p, cs)
  BY <1>1, <1>3, <1>4, <1>5 DEF Change, ColorList, Nodes
<1>7. QED
  BY <1>6

\* Data nodes have no part in the agreement: blocks may be filled with them,
\* and paint may go.
LEMMA DataKeeps ==
  ASSUME ListsOK, BlockTypes(Blocks'),
         \A c \in Block :
           \/ Blocks'[c] = Blocks[c]
           \/ /\ Blocks'[c].nblocks = Len(Blocks'[c].block)
              /\ \A i \in 1..Len(Blocks'[c].block) : Blocks'[c].block[i] < 0
              /\ c \in Color => ToSet(Blocks[c].block) \cap Pixel = {},
         stack' = stack, colors' = colors,
         shown' \in [Pixel -> Color \cup {None}],
         \A q \in Pixel : shown'[q] \in {None, shown[q]}
  PROVE  ListsOK'
<1> USE Sorts
<1> DEFINE Replaced(c) == /\ Blocks'[c].nblocks = Len(Blocks'[c].block)
                          /\ \A i \in 1..Len(Blocks'[c].block) : Blocks'[c].block[i] < 0
                          /\ c \in Color => ToSet(Blocks[c].block) \cap Pixel = {}
<1>1. ListTypes'
  BY DEF ListsOK, ListTypes
<1>2. ASSUME NEW c \in Block
      PROVE  /\ Blocks'[c].block \in Seq(Node)
             /\ \A i \in 1..Len(Blocks'[c].block) : Blocks'[c].block[i] \in Int
  BY IntegerElements DEF BlockTypes
<1>3. ListsSorted'
  <2>1. ASSUME NEW c \in Block, Extracted(c)' PROVE Increasing(Nodes(c)')
    <3>1. CASE Blocks'[c] = Blocks[c]
      BY <3>1, <2>1 DEF ListsOK, ListsSorted, Extracted, Nodes
    <3>2. CASE Replaced(c)
      <4> DEFINE t == Blocks'[c].block
      <4>1. Len(t) \in Nat
        BY <1>2
      <4>2. \A i \in 1..Len(t) : t[i] \in Int
        BY <1>2
      <4>3. \A i \in 1..Len(t) : t[i] < 0
        BY <3>2
      <4>4. \A i \in 1..Len(t) : t[i] >= 0
        BY <2>1, Zenon DEF Extracted, Nodes
      <4> HIDE DEF t
      <4>5. Increasing(t)
        BY <4>1, <4>2, <4>3, <4>4 DEF Increasing
      <4>6. QED
        BY <4>5 DEF Nodes, t
    <3>3. QED
      BY <3>1, <3>2
  <2>2. QED
    BY <2>1 DEF ListsOK, ListsSorted
<1>4. Homogeneous'
  <2>1. ASSUME NEW c \in Block
        PROVE  /\ (Extracted(c) \/ Data(c))' /\ (Blocks[c].nblocks = Len(Nodes(c)))'
               /\ c = ExtendedBlock => Data(c)'
    <3>1. CASE Blocks'[c] = Blocks[c]
      BY <3>1 DEF ListsOK, Homogeneous, Extracted, Data, Nodes
    <3>2. CASE Replaced(c)
      BY <3>2 DEF Extracted, Data, Nodes
    <3>3. QED
      BY <3>1, <3>2
  <2>2. QED
    BY <2>1 DEF Homogeneous
<1>5. OwnersAgree'
  <2>1. ASSUME NEW q \in Pixel, NEW c \in Color
        PROVE  q \in ToSet(Blocks'[c].block) <=> q \in ToSet(Blocks[c].block)
    <3>1. CASE Blocks'[c] = Blocks[c]
      BY <3>1
    <3>2. CASE Replaced(c)
      <4>1. q \notin ToSet(Blocks[c].block)
        BY <3>2
      <4>2. q \notin ToSet(Blocks'[c].block)
        BY <3>2, <1>2, ElementsOf
      <4>3. QED
        BY <4>1, <4>2
    <3>3. QED
      BY <3>1, <3>2
  <2>2. QED
    BY <2>1 DEF ListsOK, OwnersAgree, Nodes
<1>6. PaintIsTop'
  BY DEF ListsOK, PaintIsTop
<1>7. QED
  BY <1>1, <1>3, <1>4, <1>5, <1>6 DEF ListsOK

LEMMA BlocksAgree ==
  ASSUME ListsOK
  PROVE  Agrees(Blocks)
  BY Sorts DEF ListsOK, ListTypes, Agrees, Homogeneous, Data, Nodes

LEMMA AddPointKeeps ==
  ASSUME ListsOK, NEW B, Agrees(B), NEW b \in Color, NEW p \in Pixel, Extracted(b),
         AddPoint(B, b, p)
  PROVE  ListsOK' /\ Extracted(b)'
  BY AddPointChanges, ChangeKeeps

LEMMA DeletePointKeeps ==
  ASSUME ListsOK, NEW B, Agrees(B), NEW b \in Color, NEW p \in Pixel, Extracted(b),
         DeletePoint(B, b, p)
  PROVE  ListsOK' /\ Extracted(b)'
<1>1. ASSUME Blocks' = B, stack' = stack, colors' = colors,
             shown' \in {shown, [shown EXCEPT ![p] = None]}
      PROVE  ListsOK' /\ Extracted(b)'
  <2>1. shown' \in [Pixel -> Color \cup {None}] /\ \A q \in Pixel : shown'[q] \in {None, shown[q]}
    BY <1>1 DEF ListsOK, ListTypes
  <2>2. Extracted(b)' /\ BlockTypes(Blocks')
    BY <1>1 DEF Extracted, Nodes, Agrees
  <2>3. \A c \in Block : c \in Color \/ (c = ExtendedBlock /\ c \notin Color)
    BY Sorts
  <2>4. ListsOK'
    BY <1>1, <2>1, <2>2, <2>3, DataKeeps DEF Agrees
  <2>5. QED
    BY <2>2, <2>4
<1>2. ASSUME NEW k \in 1..Len(Nodes(b)), DeleteHits(b, p, k),
             DropColor(b, p), Blocks' = RemoveNode(B, b, k)
      PROVE  ListsOK' /\ Extracted(b)'
  <2>1. Nodes(b)[k] = p
    <3>1. CASE k = 1 /\ Nodes(b)[1] = p
      BY <3>1
    <3>2. CASE WalkStops(Nodes(b), 1, p, k - 1) /\ FoundAfter(Nodes(b), k - 1, p)
      <4>1. k - 1 + 1 = k
        OBVIOUS
      <4>2. QED
        BY <3>2, <4>1 DEF FoundAfter
    <3>3. QED
      BY <1>2, <3>1, <3>2 DEF DeleteHits
  <2>2. QED
    BY <1>2, <2>1, HitChanges, ChangeKeeps
<1>3. QED
  BY <1>1, <1>2 DEF DeletePoint

-----------------------------------------------------------------------------
(* The inductive invariant *)

ControlTypes ==
  /\ CurrentBlock \in Block \cup {None}
  /\ BlockEnabled \in BOOLEAN /\ BlockAppendReplace \in BOOLEAN /\ BlockCycle \in BOOLEAN
  /\ held \subseteq Buttons /\ anchor \in Pixel \cup {None}
  /\ op \in {"idle", "add", "toggle", "delete", "empty", "library", "copy"}
  /\ clearing \in BOOLEAN /\ todo \subseteq Pixel
  /\ items \in Seq([node : Node, deleted : BOOLEAN])
  /\ listBlock \in Block \cup {None} /\ selected \in 0..Len(items)
  /\ fault \in BOOLEAN

\* What a loop in progress relies on: a drag works on a colour whose block
\* takes pixels, and a block is empty when its replacement comes.
LoopOK ==
  /\ op = "idle" => ~clearing
  /\ op \in {"add", "toggle", "delete"} => CurrentBlock \in Color /\ Extracted(CurrentBlock)
  /\ op \in {"empty", "library", "copy"} =>
       CurrentBlock # None /\ (clearing \/ Nodes(CurrentBlock) = <<>>)

\* The lines of the pixel list that name a pixel are those of a colour.
ItemsOK == \A i \in 1..Len(items) : items[i].node >= 0 => listBlock \in Color

IInv == ListsOK /\ ControlTypes /\ LoopOK /\ ItemsOK

LEMMA TypesSplit == TypeOK <=> ListTypes /\ ControlTypes
  BY DEF TypeOK, ListTypes, ControlTypes, BlockTypes

LEMMA IInvInit == Init => IInv
<1> SUFFICES ASSUME Init PROVE IInv
  OBVIOUS
<1> USE Sorts
<1>1. ASSUME NEW S PROVE <<>> \in Seq(S) /\ Len(<<>>) = 0 /\ ToSet(<<>>) = {}
  <2>1. <<>> \in Seq(S) /\ Len(<<>>) = 0
    BY EmptySeq
  <2>2. ToSet(<<>>) = {}
    BY DEF ToSet
  <2>3. QED
    BY <2>1, <2>2
<1>2. ListTypes
  BY <1>1 DEF Init, ListTypes, BlockTypes, EmptyBlock
<1>3. ListsSorted /\ Homogeneous
  BY <1>1 DEF Init, ListsSorted, Homogeneous, Increasing, Extracted, Data, Nodes, EmptyBlock
<1>4. OwnersAgree /\ PaintIsTop
  BY <1>1 DEF Init, OwnersAgree, PaintIsTop, Nodes, EmptyBlock
<1>5. ControlTypes
  <2>1. <<>> \in Seq([node : Node, deleted : BOOLEAN]) /\ Len(<<>>) = 0
    BY <1>1
  <2>2. selected \in 0..Len(items)
    BY <2>1 DEF Init
  <2>3. QED
    BY <2>1, <2>2, Zenon DEF Init, ControlTypes
<1>6. LoopOK /\ ItemsOK
  BY <1>1 DEF Init, LoopOK, ItemsOK
<1>7. QED
  BY <1>2, <1>3, <1>4, <1>5, <1>6 DEF IInv, ListsOK

LEMMA ListsUnchanged ==
  ASSUME ListsOK, UNCHANGED lists
  PROVE  ListsOK' /\ \A b \in Block : Extracted(b)' = Extracted(b) /\ Nodes(b)' = Nodes(b)
  BY DEF lists, ListsOK, ListTypes, ListsSorted, Homogeneous, OwnersAgree, PaintIsTop,
         BlockTypes, Extracted, Data, Nodes

\* The type of the first node speaks for all.
LEMMA FirstNodeSpeaks ==
  ASSUME ListsOK, NEW b \in Block, ~NoStack(b)
  PROVE  Extracted(b)
<1>1. CASE Nodes(b) = <<>>
  BY <1>1 DEF Extracted
<1>2. CASE Nodes(b) # <<>>
  <2>1. Nodes(b) \in Seq(Node)
    BY DEF ListsOK, ListTypes, BlockTypes, Nodes
  <2>2. 1 \in 1..Len(Nodes(b)) /\ Nodes(b)[1] \in Int
    BY <1>2, <2>1, Sorts, IntegerElements
  <2>3. ~Data(b)
    BY <1>2, <2>2 DEF NoStack, Data
  <2>4. QED
    BY <2>3 DEF ListsOK, Homogeneous
<1>3. QED
  BY <1>1, <1>2

LEMMA AcceptsColour ==
  ASSUME ListsOK, CurrentBlock \in Block \cup {None}, Accepts
  PROVE  CurrentBlock \in Color /\ Extracted(CurrentBlock)
<1>1. CurrentBlock \in Color
  BY Sorts DEF Accepts, Block, Color, None
<1>2. Nodes(CurrentBlock) \in Seq(Node) /\ Blocks[CurrentBlock].nblocks = Len(Nodes(CurrentBlock))
  BY <1>1, Sorts DEF ListsOK, ListTypes, BlockTypes, Nodes, Homogeneous
<1>3. ~NoStack(CurrentBlock)
  <2>1. SUFFICES ASSUME NoStack(CurrentBlock) PROVE FALSE
    OBVIOUS
  <2>2. Len(Nodes(CurrentBlock)) # 0 /\ Nodes(CurrentBlock)[1] < 0 /\ Nodes(CurrentBlock)[1] \in Int
    BY <2>1, <1>2, Sorts, IntegerElements DEF NoStack
  <2>3. QED
    BY <2>2, <1>2 DEF Accepts, GetBlockType, BK_EXTRACTED
<1>4. QED
  BY <1>1, <1>3, Sorts, FirstNodeSpeaks

-----------------------------------------------------------------------------
(* The mouse *)

LEMMA PressKeeps ==
  ASSUME IInv, NEW b \in Buttons, NEW p \in Pixel, Press(b, p)
  PROVE  IInv'
<1>1. ListsOK' /\ \A c \in Block : Extracted(c)' = Extracted(c) /\ Nodes(c)' = Nodes(c)
  BY ListsUnchanged DEF IInv, Press
<1>2. ControlTypes'
  BY DEF IInv, Press, ControlTypes, settings, loop, window
<1>3. LoopOK' /\ ItemsOK'
  BY <1>1, Sorts DEF IInv, Press, LoopOK, ItemsOK, ControlTypes, loop, window
<1>4. QED
  BY <1>1, <1>2, <1>3 DEF IInv

LEMMA ReleaseKeeps ==
  ASSUME IInv, NEW b \in Buttons, NEW p \in Pixel, Release(b, p)
  PROVE  IInv'
<1>1. ListsOK' /\ \A c \in Block : Extracted(c)' = Extracted(c) /\ Nodes(c)' = Nodes(c)
  BY ListsUnchanged DEF IInv, Release
<1>2. CASE Accepts
  <2>1. op' \in {"add", "toggle", "delete"}
    BY <1>2, ButtonAssumption DEF Release, Gesture
  <2>2. todo' \subseteq Pixel /\ clearing' \in BOOLEAN
    BY <1>2 DEF Release, Rect
  <2>3. CurrentBlock \in Color /\ Extracted(CurrentBlock)
    BY <1>2, AcceptsColour DEF IInv, ControlTypes
  <2>4. ControlTypes'
    BY <2>1, <2>2 DEF IInv, Release, ControlTypes, settings, window
  <2>5. LoopOK' /\ ItemsOK'
    BY <1>1, <2>1, <2>3, Sorts DEF IInv, Release, LoopOK, ItemsOK, window
  <2>6. QED
    BY <1>1, <2>4, <2>5 DEF IInv
<1>3. CASE ~Accepts
  <2>1. ControlTypes'
    BY <1>3 DEF IInv, Release, ControlTypes, settings, loop, window
  <2>2. LoopOK' /\ ItemsOK'
    BY <1>1, <1>3, Sorts DEF IInv, Release, LoopOK, ItemsOK, ControlTypes, loop, window
  <2>3. QED
    BY <1>1, <2>1, <2>2 DEF IInv
<1>4. QED
  BY <1>2, <1>3

LEMMA LoopBodyKeeps ==
  ASSUME IInv, NEW p \in Pixel, LoopBody(p)
  PROVE  IInv'
<1>1. CurrentBlock \in Color /\ Extracted(CurrentBlock) /\ Agrees(Blocks)
  BY BlocksAgree DEF IInv, LoopOK, LoopBody
<1>2. ListsOK' /\ Extracted(CurrentBlock)'
  <2>1. CASE AddPoint(Blocks, CurrentBlock, p)
    BY <1>1, <2>1, AddPointKeeps DEF IInv, LoopBody
  <2>2. CASE DeletePoint(Blocks, CurrentBlock, p)
    BY <1>1, <2>2, DeletePointKeeps DEF IInv, LoopBody
  <2>3. QED
    BY <2>1, <2>2 DEF LoopBody, TogglePoint
<1>3. ControlTypes' /\ LoopOK' /\ ItemsOK'
  <2>1. ControlTypes'
    BY DEF IInv, LoopBody, ControlTypes, settings, mouse, window
  <2>2. op' \in {"add", "toggle", "delete"} /\ CurrentBlock' = CurrentBlock
    BY DEF LoopBody
  <2>3. LoopOK'
    BY <1>1, <1>2, <2>2 DEF LoopOK, Extracted, Nodes
  <2>4. ItemsOK'
    BY DEF IInv, LoopBody, ItemsOK, window
  <2>5. QED
    BY <2>1, <2>3, <2>4
<1>4. QED
  BY <1>2, <1>3 DEF IInv

LEMMA LoopHasBlock ==
  ASSUME IInv, op # "idle"
  PROVE  CurrentBlock \in Block
<1>1. op \in {"add", "toggle", "delete", "empty", "library", "copy"}
  BY DEF IInv, ControlTypes
<1>2. CASE op \in {"add", "toggle", "delete"}
  BY <1>2, Sorts DEF IInv, LoopOK
<1>3. CASE op \in {"empty", "library", "copy"}
  BY <1>3 DEF IInv, LoopOK, ControlTypes
<1>4. QED
  BY <1>1, <1>2, <1>3

\* delete_all works on any block: a pixel leaves both copies, a data node
\* only the one it is in.
LEMMA ClearStepKeeps ==
  ASSUME IInv, ClearStep
  PROVE  IInv'
<1> DEFINE b == CurrentBlock
           s == Nodes(b)
           p == s[1]
<1>0. op # "idle" /\ b \in Block
  <2>1. op # "idle"
    BY DEF IInv, LoopOK, ClearStep
  <2>2. QED
    BY <2>1, LoopHasBlock
<1>1. /\ b \in Block /\ op # "idle" /\ ListsOK /\ s \in Seq(Node)
      /\ Blocks[b].nblocks = Len(s)
  BY <1>0 DEF IInv, ListsOK, ListTypes, BlockTypes, Nodes, Homogeneous
<1>2. /\ Len(s) \in Nat /\ 1 \in 1..Len(s)
      /\ \A i \in 1..Len(s) : s[i] \in Node /\ s[i] \in Int
  BY <1>1, Sorts, IntegerElements DEF ClearStep
<1>3. Blocks' = RemoveNode(Blocks, b, 1)
  BY DEF ClearStep
<1>4. CASE p >= 0
  <2>1. p \in Pixel /\ DropColor(b, p)
    BY <1>2, <1>4, Sorts DEF ClearStep
  <2>2. ~Data(b)
    BY <1>2, <1>4 DEF Data
  <2>3. b \in Color /\ Extracted(b)
    BY <1>1, <2>2, Sorts DEF ListsOK, Homogeneous
  <2>4. Agrees(Blocks)
    BY <1>1, BlocksAgree
  <2>5. PICK cs : Change(Blocks, b, p, cs)
    <3> HIDE DEF b, p
    <3>1. QED
      BY <1>1, <1>2, <1>3, <2>1, <2>3, <2>4, HitChanges DEF p
  <2>6. ListsOK' /\ Extracted(b)'
    <3> HIDE DEF b, p
    <3>1. ListsOK' /\ (\A i \in 1..Len(Blocks'[b].block) : Blocks'[b].block[i] >= 0)
      BY <1>1, <2>1, <2>3, <2>4, <2>5, ChangeKeeps DEF Extracted, Nodes
    <3>2. b' = b
      BY DEF ClearStep, b
    <3>3. QED
      BY <3>1, <3>2 DEF Extracted, Nodes
  <2>7. LoopOK'
    BY <1>1, <2>3, <2>6 DEF IInv, LoopOK, ClearStep, loop
  <2>8. ControlTypes' /\ ItemsOK'
    BY DEF IInv, ClearStep, ControlTypes, ItemsOK, settings, mouse, loop, window
  <2>9. QED
    BY <2>6, <2>7, <2>8 DEF IInv
<1>5. CASE p < 0
  <2>1. UNCHANGED <<stack, colors, shown>>
    BY <1>2, <1>5 DEF ClearStep
  <2>2. Data(b) /\ ~Extracted(b)
    BY <1>1, <1>2, <1>5 DEF ListsOK, Homogeneous, Extracted
  <2> DEFINE t == RemoveAt(s, 1)
  <2>3. /\ t \in Seq(Node) /\ Len(t) = Len(s) - 1
        /\ \A i \in 1..(Len(s) - 1) : t[i] = IF i < 1 THEN s[i] ELSE s[i + 1]
    BY <1>1, <1>2, RemoveAtElements
  <2>4. Blocks' = [Blocks EXCEPT ![b] = [block |-> t, nblocks |-> Len(s) - 1]]
    BY <1>1, <1>3 DEF RemoveNode, Nodes, ListsOK, ListTypes, BlockTypes
  <2>5. Len(t) \in Nat /\ Len(t) = Len(s) - 1 /\ \A i \in 1..Len(t) : t[i] < 0
    BY <1>2, <2>2, <2>3 DEF Data
  <2>6. ToSet(s) \cap Pixel = {}
    <3>1. \A i \in 1..Len(s) : s[i] \notin Pixel
      BY <1>2, <2>2, Sorts DEF Data
    <3>2. QED
      BY <1>1, <3>1, ElementsOf
  <2> HIDE DEF t
  <2>7. BlockTypes(Blocks') /\ Blocks'[b] = [block |-> t, nblocks |-> Len(t)]
        /\ \A c \in Block \ {b} : Blocks'[c] = Blocks[c]
    BY <1>1, <2>3, <2>4, <2>5 DEF ListsOK, ListTypes, BlockTypes
  <2>8. shown' \in [Pixel -> Color \cup {None}] /\ \A q \in Pixel : shown'[q] \in {None, shown[q]}
    BY <1>1, <2>1 DEF ListsOK, ListTypes
  <2>9. ListsOK'
    <3>1. \A c \in Block :
             \/ Blocks'[c] = Blocks[c]
             \/ /\ Blocks'[c].nblocks = Len(Blocks'[c].block)
                /\ \A i \in 1..Len(Blocks'[c].block) : Blocks'[c].block[i] < 0
                /\ c \in Color => ToSet(Blocks[c].block) \cap Pixel = {}
      BY <2>5, <2>6, <2>7 DEF Nodes
    <3>2. QED
      BY <1>1, <2>1, <2>7, <2>8, <3>1, DataKeeps
  <2>10. LoopOK'
    BY <1>1, <2>2 DEF IInv, LoopOK, ClearStep, loop
  <2>11. ControlTypes' /\ ItemsOK'
    BY DEF IInv, ClearStep, ControlTypes, ItemsOK, settings, mouse, loop, window
  <2>12. QED
    BY <2>9, <2>10, <2>11 DEF IInv
<1>6. QED
  BY <1>2, <1>4, <1>5

LEMMA ClearDoneKeeps ==
  ASSUME IInv, ClearDone
  PROVE  IInv'
<1>1. ListsOK' /\ \A c \in Block : Extracted(c)' = Extracted(c) /\ Nodes(c)' = Nodes(c)
  BY ListsUnchanged DEF IInv, ClearDone
<1>2. ControlTypes' /\ ItemsOK'
  BY DEF IInv, ClearDone, ControlTypes, ItemsOK, settings, mouse, window
<1>3. CurrentBlock \in Block /\ Nodes(CurrentBlock) = <<>> /\ op' = op /\ op # "idle"
  <2>1. op # "idle" /\ Nodes(CurrentBlock) = <<>> /\ op' = op
    BY DEF IInv, LoopOK, ClearDone
  <2>2. QED
    BY <2>1, LoopHasBlock
<1>4. LoopOK'
  BY <1>1, <1>3, Sorts DEF IInv, LoopOK, ClearDone
<1>5. QED
  BY <1>1, <1>2, <1>4 DEF IInv

LEMMA NextBlockType == CurrentBlock \in Block \cup {None} => NextBlock \in Block
<1> SUFFICES ASSUME CurrentBlock \in Block \cup {None} PROVE NextBlock \in Block
  OBVIOUS
<1>1. CurrentBlock + 1 \in Nat /\ NBlocks \in Nat \ {0}
  BY Sorts DEF None
<1>2. (CurrentBlock + 1) % NBlocks \in 0..(NBlocks - 1)
  BY <1>1
<1>3. QED
  BY <1>1, <1>2 DEF NextBlock, Block

LEMMA EndDragKeeps ==
  ASSUME IInv, EndDrag
  PROVE  IInv'
<1>1. ListsOK' /\ \A c \in Block : Extracted(c)' = Extracted(c) /\ Nodes(c)' = Nodes(c)
  BY ListsUnchanged DEF IInv, EndDrag
<1>2. CurrentBlock' \in Block \cup {None}
  BY NextBlockType DEF IInv, ControlTypes, EndDrag
<1>3. ControlTypes' /\ ItemsOK'
  BY <1>2 DEF IInv, EndDrag, ControlTypes, ItemsOK, settings, mouse, window
<1>4. LoopOK'
  BY DEF EndDrag, LoopOK
<1>5. QED
  BY <1>1, <1>3, <1>4 DEF IInv

\* A list of data nodes, as SetBlockData and AddBlockData make it.
DataBlocks ==
  {DataBlock(<<-BK_LIBRARY>>), DataBlock(<<-BK_AVG>>), DataBlock(<<-BK_LIST>>),
   DataBlock(<<-BK_AVG, -BK_AVG, -BK_AVG>>), EmptyBlock}

LEMMA DataBlocksAreData ==
  ASSUME NEW d \in DataBlocks
  PROVE  /\ d \in [block : Seq(Node), nblocks : Nat]
         /\ d.nblocks = Len(d.block)
         /\ \A i \in 1..Len(d.block) : d.block[i] < 0
<1>1. \A t \in {1, 2, 4} : -t \in Node /\ -t < 0
  BY Sorts DEF DataType, BK_LIBRARY, BK_AVG, BK_LIST
<1>2. ASSUME NEW t \in {1, 2, 4}, d = DataBlock(<<-t>>)
      PROVE  /\ d.block \in Seq(Node) /\ d.nblocks = Len(d.block) /\ Len(d.block) \in Nat
             /\ \A i \in 1..Len(d.block) : d.block[i] < 0
  BY <1>1, <1>2 DEF DataBlock
<1>3. ASSUME d = DataBlock(<<-2, -2, -2>>)
      PROVE  /\ d.block \in Seq(Node) /\ d.nblocks = Len(d.block) /\ Len(d.block) \in Nat
             /\ \A i \in 1..Len(d.block) : d.block[i] < 0
  BY <1>1, <1>3 DEF DataBlock
<1>4. ASSUME d = EmptyBlock
      PROVE  /\ d.block \in Seq(Node) /\ d.nblocks = Len(d.block) /\ Len(d.block) \in Nat
             /\ \A i \in 1..Len(d.block) : d.block[i] < 0
  BY <1>4 DEF EmptyBlock
<1>5. d = [block |-> d.block, nblocks |-> d.nblocks]
  BY DEF DataBlocks, DataBlock, EmptyBlock
<1>6. /\ d.block \in Seq(Node) /\ d.nblocks = Len(d.block) /\ Len(d.block) \in Nat
      /\ \A i \in 1..Len(d.block) : d.block[i] < 0
  BY <1>2, <1>3, <1>4 DEF DataBlocks, BK_LIBRARY, BK_AVG, BK_LIST
<1>7. QED
  BY <1>5, <1>6

\* A handler that puts data in the extended block, or in an empty one, keeps
\* the lists.
LEMMA ReplacementKeeps ==
  ASSUME ListsOK, Blocks' \in [Block -> [block : Seq(Node), nblocks : Nat] \cup DataBlocks],
         \A c \in Block :
           \/ Blocks'[c] = Blocks[c]
           \/ Blocks'[c] \in DataBlocks /\ (c = ExtendedBlock \/ Nodes(c) = <<>>),
         stack' = stack, colors' = colors, shown' = shown
  PROVE  ListsOK'
<1>1. BlockTypes(Blocks')
  BY DataBlocksAreData DEF BlockTypes
<1>2. ASSUME NEW c \in Block, Blocks'[c] # Blocks[c]
      PROVE  /\ Blocks'[c].nblocks = Len(Blocks'[c].block)
             /\ \A i \in 1..Len(Blocks'[c].block) : Blocks'[c].block[i] < 0
             /\ c \in Color => ToSet(Blocks[c].block) \cap Pixel = {}
  <2>1. ToSet(<<>>) = {}
    BY DEF ToSet
  <2>2. QED
    BY <1>2, <2>1, DataBlocksAreData, Sorts DEF Nodes
<1>3. shown' \in [Pixel -> Color \cup {None}] /\ \A q \in Pixel : shown'[q] \in {None, shown[q]}
  BY DEF ListsOK, ListTypes
<1>4. QED
  BY <1>1, <1>2, <1>3, DataKeeps

LEMMA EndReplaceKeeps ==
  ASSUME IInv, EndReplace
  PROVE  IInv'
<1>1. /\ CurrentBlock \in Block /\ Nodes(CurrentBlock) = <<>> /\ ListsOK
      /\ BlockTypes(Blocks) /\ ExtendedBlock \in Block
  <2>1. op # "idle" /\ Nodes(CurrentBlock) = <<>>
    BY DEF IInv, LoopOK, EndReplace
  <2>2. QED
    BY <2>1, LoopHasBlock, Sorts DEF IInv, ListsOK, ListTypes
<1>2. \/ Blocks' = Blocks
      \/ Blocks' = [Blocks EXCEPT ![CurrentBlock] = DataBlock(<<-BK_LIBRARY>>)]
      \/ Blocks' = [Blocks EXCEPT ![CurrentBlock] = DataBlock(<<-BK_AVG>>),
                                  ![ExtendedBlock] = EmptyBlock]
  BY DEF EndReplace
<1>3. /\ Blocks' \in [Block -> [block : Seq(Node), nblocks : Nat] \cup DataBlocks]
      /\ \A c \in Block :
           \/ Blocks'[c] = Blocks[c]
           \/ Blocks'[c] \in DataBlocks /\ (c = ExtendedBlock \/ Nodes(c) = <<>>)
  <2>1. /\ DataBlock(<<-BK_LIBRARY>>) \in DataBlocks /\ DataBlock(<<-BK_AVG>>) \in DataBlocks
        /\ EmptyBlock \in DataBlocks
    BY DEF DataBlocks
  <2>2. QED
    BY <1>1, <1>2, <2>1 DEF BlockTypes
<1>4. ListsOK'
  BY <1>1, <1>3, ReplacementKeeps DEF EndReplace
<1>5. ControlTypes' /\ ItemsOK'
  BY DEF IInv, EndReplace, ControlTypes, ItemsOK, settings, mouse, window
<1>6. LoopOK'
  BY DEF EndReplace, LoopOK
<1>7. QED
  BY <1>4, <1>5, <1>6 DEF IInv

LEMMA LoopStepKeeps ==
  ASSUME IInv, LoopStep
  PROVE  IInv'
  BY LoopBodyKeeps, ClearStepKeeps, ClearDoneKeeps, EndDragKeeps, EndReplaceKeeps DEF LoopStep

-----------------------------------------------------------------------------
(* The plot window *)

\* Between loops only the lists, the block and the list window matter.
LEMMA IdleLoopOK ==
  ASSUME IInv, Idle, op' = op, clearing' = clearing
  PROVE  LoopOK'
  BY DEF IInv, LoopOK, Idle

LEMMA SettingsKeep ==
  ASSUME IInv, EnableBlock \/ Toggle_Append \/ Toggle_Cycle
  PROVE  IInv'
<1>1. /\ UNCHANGED <<lists, CurrentBlock, mouse, loop, window, fault>>
      /\ Idle
      /\ BlockEnabled' \in BOOLEAN /\ BlockAppendReplace' \in BOOLEAN /\ BlockCycle' \in BOOLEAN
  BY DEF IInv, ControlTypes, EnableBlock, Toggle_Append, Toggle_Cycle, Quiet
<1>2. ListsOK'
  BY <1>1, ListsUnchanged DEF IInv
<1>3. ControlTypes' /\ ItemsOK'
  BY <1>1 DEF IInv, ControlTypes, ItemsOK, mouse, loop, window
<1>4. LoopOK'
  BY <1>1, IdleLoopOK DEF loop
<1>5. QED
  BY <1>2, <1>3, <1>4 DEF IInv

LEMMA SetCurrentBlockKeeps ==
  ASSUME IInv, NEW b \in Block \cup {None}, SetCurrentBlock(b)
  PROVE  IInv'
<1>1. ListsOK'
  BY ListsUnchanged DEF IInv, SetCurrentBlock
<1>2. ControlTypes' /\ ItemsOK'
  BY DEF IInv, SetCurrentBlock, ControlTypes, ItemsOK, settings, mouse, loop, window
<1>3. LoopOK'
  BY IdleLoopOK DEF SetCurrentBlock, Quiet, loop
<1>4. QED
  BY <1>1, <1>2, <1>3 DEF IInv

LEMMA BeginReplaceKeeps ==
  ASSUME IInv, NEW what \in {"empty", "library", "copy"}, BeginReplace(what)
  PROVE  IInv'
<1>1. ListsOK'
  BY ListsUnchanged DEF IInv, BeginReplace
<1>2. ControlTypes' /\ ItemsOK'
  BY DEF IInv, BeginReplace, ControlTypes, ItemsOK, settings, mouse, window
<1>3. LoopOK'
  BY DEF BeginReplace, LoopOK
<1>4. QED
  BY <1>1, <1>2, <1>3 DEF IInv

\* What happens to the extended block alone keeps the lists.
LEMMA ExtendedKeeps ==
  ASSUME ListsOK, NEW d \in DataBlocks
  PROVE  LET B == [Blocks EXCEPT ![ExtendedBlock] = d] IN
         /\ Agrees(B)
         /\ Blocks' = B /\ stack' = stack /\ colors' = colors /\ shown' = shown => ListsOK'
<1> DEFINE B == [Blocks EXCEPT ![ExtendedBlock] = d]
<1>1. /\ d \in [block : Seq(Node), nblocks : Nat] /\ d.nblocks = Len(d.block)
      /\ \A i \in 1..Len(d.block) : d.block[i] < 0
  BY DataBlocksAreData
<1>2. /\ B[ExtendedBlock] = d /\ \A c \in Block : c # ExtendedBlock => B[c] = Blocks[c]
      /\ BlockTypes(B)
  BY <1>1, Sorts DEF ListsOK, ListTypes, BlockTypes
<1> HIDE DEF B
<1>3. Agrees(B)
  BY <1>1, <1>2, Sorts DEF Agrees
<1>4. ASSUME Blocks' = B, stack' = stack, colors' = colors, shown' = shown PROVE ListsOK'
  <2>1. /\ Blocks' \in [Block -> [block : Seq(Node), nblocks : Nat] \cup DataBlocks]
        /\ \A c \in Block :
             \/ Blocks'[c] = Blocks[c]
             \/ Blocks'[c] \in DataBlocks /\ (c = ExtendedBlock \/ Nodes(c) = <<>>)
    BY <1>2, <1>4 DEF BlockTypes
  <2>2. QED
    BY <1>4, <2>1, ReplacementKeeps
<1>5. QED
  BY <1>3, <1>4 DEF B

LEMMA BlockAverageKeeps ==
  ASSUME IInv, BlockAverage
  PROVE  IInv'
<1>1. ListsOK'
  BY ExtendedKeeps DEF IInv, BlockAverage, DataBlocks
<1>2. ControlTypes' /\ ItemsOK'
  BY DEF IInv, BlockAverage, ControlTypes, ItemsOK, settings, mouse, loop, window
<1>3. LoopOK'
  BY IdleLoopOK DEF BlockAverage, Quiet, loop
<1>4. QED
  BY <1>1, <1>2, <1>3 DEF IInv

LEMMA ColorBlocksKeeps ==
  ASSUME IInv, ColorBlocks
  PROVE  IInv'
<1>1. ASSUME NEW p \in Pixel
      PROVE  /\ shown'[p] \in Color \cup {None}
             /\ shown'[p] # None => colors[p] # <<>> /\ shown'[p] = colors[p][1]
  <2>1. colors[p] \in Seq(Color) /\ (p \in ToSet(stack) <=> colors[p] # <<>>)
    BY DEF IInv, ListsOK, ListTypes, OwnersAgree
  <2>2. colors[p] # <<>> => colors[p][1] \in Color
    BY <2>1
  <2>3. QED
    BY <2>1, <2>2 DEF ColorBlocks, TopColor
<1>2. shown' = [p \in Pixel |-> shown'[p]]
  BY DEF ColorBlocks
<1>3. shown' \in [Pixel -> Color \cup {None}]
  BY <1>1, <1>2
<1>4. ListTypes' /\ PaintIsTop'
  BY <1>1, <1>3 DEF IInv, ListsOK, ListTypes, PaintIsTop, BlockTypes, ColorBlocks
<1>5. ListsSorted' /\ Homogeneous' /\ OwnersAgree'
  BY DEF IInv, ListsOK, ListsSorted, Homogeneous, OwnersAgree, Extracted, Data, Nodes, ColorBlocks
<1>6. ControlTypes' /\ ItemsOK'
  BY DEF IInv, ColorBlocks, ControlTypes, ItemsOK, settings, mouse, loop, window
<1>7. LoopOK'
  BY IdleLoopOK DEF ColorBlocks, loop
<1>8. QED
  BY <1>4, <1>5, <1>6, <1>7 DEF IInv, ListsOK

LEMMA PlotWindowKeeps ==
  ASSUME IInv, PlotWindow
  PROVE  IInv'
<1>1. ASSUME DeleteAll \/ ApplySpecpr \/ CopyExtendedBlock PROVE IInv'
  BY <1>1, BeginReplaceKeeps DEF DeleteAll, ApplySpecpr, CopyExtendedBlock
<1>2. QED
  BY <1>1, SettingsKeep, SetCurrentBlockKeeps, BlockAverageKeeps, ColorBlocksKeeps DEF PlotWindow

-----------------------------------------------------------------------------
(* The Pixel List window *)

\* The extended block may be cleared or highlighted on the way.
LEMMA HiliteAgrees ==
  ASSUME ListsOK
  PROVE  /\ Agrees(HiliteBlock)
         /\ Agrees([Blocks EXCEPT ![ExtendedBlock] = EmptyBlock])
         /\ Blocks' = HiliteBlock /\ stack' = stack /\ colors' = colors /\ shown' = shown => ListsOK'
<1>1. DataBlock(<<-BK_LIST>>) \in DataBlocks /\ EmptyBlock \in DataBlocks
  BY DEF DataBlocks
<1>2. QED
  BY <1>1, ExtendedKeeps DEF HiliteBlock

LEMMA UpdateBlockIDKeeps ==
  ASSUME IInv, NEW b \in Color \cup {CurrentBlock}, UpdateBlockID(b)
  PROVE  IInv'
<1> DEFINE line(i) == [node |-> Nodes(b)[i], deleted |-> FALSE]
           Line == [node : Node, deleted : BOOLEAN]
<1>0. b \in Block \cup {None}
  BY Sorts DEF IInv, ControlTypes
<1>1. ListsOK'
  BY ListsUnchanged DEF IInv, UpdateBlockID
<1>2. CASE b = None
  <2>1. items' = <<>> /\ items' \in Seq(Line) /\ Len(items') = 0
    BY <1>2, EmptySeq DEF UpdateBlockID
  <2>2. QED
    <3>1. ItemsOK' /\ selected' \in 0..Len(items')
      <4>1. selected' = 0
        BY DEF UpdateBlockID
      <4>2. 1..Len(items') = {}
        BY <2>1
      <4>3. QED
        BY <2>1, <4>1, <4>2 DEF ItemsOK
    <3>2. ControlTypes'
      BY <1>0, <2>1, <3>1 DEF IInv, UpdateBlockID, ControlTypes, settings, mouse, loop
    <3>3. LoopOK'
      BY IdleLoopOK DEF UpdateBlockID, Quiet, loop
    <3>4. QED
      BY <1>1, <3>1, <3>2, <3>3 DEF IInv
<1>3. CASE b # None
  <2>1. b \in Block /\ Nodes(b) \in Seq(Node) /\ Blocks[b].nblocks = Len(Nodes(b))
    BY <1>0, <1>3 DEF IInv, ListsOK, ListTypes, BlockTypes, Nodes, Homogeneous
  <2>2. /\ Len(Nodes(b)) \in Nat
        /\ \A i \in 1..Len(Nodes(b)) : Nodes(b)[i] \in Node
    BY <2>1, Sorts, IntegerElements
  <2>3. items' = [i \in 1..Len(Nodes(b)) |-> line(i)]
    BY <1>3, <2>1 DEF UpdateBlockID
  <2>4. items' \in [1..Len(Nodes(b)) -> Line]
    BY <2>2, <2>3
  <2>5. items' \in Seq(Line) /\ Len(items') = Len(Nodes(b))
    <3>1. items' \in UNION {[1..n -> Line] : n \in Nat}
      BY <2>2, <2>4
    <3>2. Seq(Line) = UNION {[1..n -> Line] : n \in Nat}
      BY SeqDef
    <3>3. items' \in Seq(Line)
      BY <3>1, <3>2
    <3>4. DOMAIN items' = 1..Len(items') /\ Len(items') \in Nat
      BY <3>3, LenProperties
    <3>5. DOMAIN items' = 1..Len(Nodes(b))
      BY <2>4
    <3>6. QED
      BY <3>3, <3>4, <3>5, <2>2
  <2>6. ItemsOK'
    <3>1. ASSUME NEW i \in 1..Len(items'), items'[i].node >= 0 PROVE b \in Color
      <4>1. Nodes(b)[i] >= 0 /\ Nodes(b)[i] \in Int /\ i \in 1..Len(Nodes(b))
        BY <2>2, <2>3, <2>5, <3>1, Sorts
      <4>2. ~Data(b)
        BY <4>1 DEF Data
      <4>3. QED
        BY <2>1, <4>2, Sorts DEF IInv, ListsOK, Homogeneous
    <3>2. QED
      BY <3>1 DEF ItemsOK, UpdateBlockID
  <2>7. ControlTypes'
    BY <2>1, <2>5 DEF IInv, UpdateBlockID, ControlTypes, settings, mouse, loop
  <2>8. LoopOK'
    BY IdleLoopOK DEF UpdateBlockID, Quiet, loop
  <2>9. QED
    BY <1>1, <2>6, <2>7, <2>8 DEF IInv
<1>4. QED
  BY <1>2, <1>3

LEMMA CrashKeeps ==
  ASSUME IInv, Idle, Crash
  PROVE  IInv'
<1>1. ListsOK'
  BY ListsUnchanged DEF IInv, Crash
<1>2. ControlTypes' /\ ItemsOK'
  BY DEF IInv, Crash, ControlTypes, ItemsOK, settings, mouse, loop, window
<1>3. LoopOK'
  BY IdleLoopOK DEF Crash, loop
<1>4. QED
  BY <1>1, <1>2, <1>3 DEF IInv

LEMMA SelectItemKeeps ==
  ASSUME IInv, NEW i \in 1..Len(items), SelectItem(i)
  PROVE  IInv'
<1>1. CASE Crash
  BY <1>1, CrashKeeps DEF SelectItem, Quiet
<1>2. CASE ~Crash
  <2>1. /\ Blocks' \in {HiliteBlock, Blocks} /\ selected' = i
        /\ UNCHANGED <<stack, colors, shown, CurrentBlock, settings, mouse, loop,
                       items, listBlock, fault>>
    BY <1>2 DEF SelectItem
  <2>2. ListsOK'
    BY <2>1, HiliteAgrees, ListsUnchanged DEF IInv, lists
  <2>3. ControlTypes' /\ ItemsOK'
    BY <2>1 DEF IInv, ControlTypes, ItemsOK, settings, mouse, loop
  <2>4. LoopOK'
    BY <2>1, IdleLoopOK DEF SelectItem, Quiet, loop
  <2>5. QED
    BY <2>2, <2>3, <2>4 DEF IInv
<1>3. QED
  BY <1>1, <1>2

\* Marking a line changes no node.
LEMMA MarkKeepsItems ==
  ASSUME ControlTypes, ItemsOK, NEW d \in BOOLEAN, selected # 0, Mark(d), listBlock' = listBlock
  PROVE  /\ items' \in Seq([node : Node, deleted : BOOLEAN]) /\ Len(items') = Len(items)
         /\ ItemsOK'
<1> DEFINE Line == [node : Node, deleted : BOOLEAN]
           marked == [items[selected] EXCEPT !.deleted = d]
<1>1. items \in Seq(Line) /\ selected \in 1..Len(items)
  BY DEF ControlTypes
<1>2. items[selected] \in Line
  BY <1>1, ElementOfSeq
<1>3. marked \in Line /\ marked.node = items[selected].node
  BY <1>2
<1>4. items' = [items EXCEPT ![selected] = marked]
  BY <1>1 DEF Mark
<1> HIDE DEF marked
<1>5. /\ items' \in Seq(Line) /\ Len(items') = Len(items)
      /\ \A i \in 1..Len(items) : items'[i] = IF i = selected THEN marked ELSE items[i]
  BY <1>1, <1>3, <1>4, ExceptSeq
<1>6. ItemsOK'
  BY <1>3, <1>5 DEF ItemsOK
<1>7. QED
  BY <1>5, <1>6

\* A line that names a pixel is one of a colour; it takes pixels unless the
\* handler has crashed.
LEMMA DecodedColour ==
  ASSUME IInv, NEW d \in BOOLEAN, Decodes(d)
  PROVE  /\ listBlock \in Color /\ items[selected].node \in Pixel /\ selected # 0
         /\ ~NoStack(listBlock) => Extracted(listBlock)
<1>1. selected # 0 /\ selected \in 1..Len(items) /\ items[selected].node >= 0
  BY DEF Decodes, IInv, ControlTypes
<1>2. listBlock \in Color
  BY <1>1 DEF IInv, ItemsOK
<1>3. items[selected].node \in Pixel
  <2>1. items[selected] \in [node : Node, deleted : BOOLEAN]
    BY <1>1, ElementOfSeq DEF IInv, ControlTypes
  <2>2. QED
    BY <1>1, <2>1, Sorts
<1>4. QED
  BY <1>1, <1>2, <1>3, Sorts, FirstNodeSpeaks DEF IInv

LEMMA BlockIDDeleteKeeps ==
  ASSUME IInv, BlockIDDelete
  PROVE  IInv'
<1>1. CASE Crash
  BY <1>1, CrashKeeps DEF BlockIDDelete, Quiet
<1>2. CASE ~Crash
  <2> DEFINE B == [Blocks EXCEPT ![ExtendedBlock] = EmptyBlock]
  <2>1. /\ ~NoStack(listBlock) /\ Decodes(FALSE) /\ Idle
        /\ DeletePoint(B, listBlock, items[selected].node)
        /\ Mark(TRUE)
        /\ UNCHANGED <<CurrentBlock, settings, mouse, loop, listBlock, selected, fault>>
    BY <1>2 DEF BlockIDDelete, Borrowed, Quiet
  <2>2. /\ listBlock \in Color /\ items[selected].node \in Pixel /\ selected # 0
        /\ Extracted(listBlock)
    BY <2>1, DecodedColour
  <2>3. Agrees(B)
    BY HiliteAgrees DEF IInv
  <2> HIDE DEF B
  <2>4. ListsOK'
    BY <2>1, <2>2, <2>3, DeletePointKeeps DEF IInv
  <2>5. /\ items' \in Seq([node : Node, deleted : BOOLEAN]) /\ Len(items') = Len(items)
        /\ ItemsOK'
    BY <2>1, <2>2, MarkKeepsItems DEF IInv
  <2>6. ControlTypes'
    BY <2>1, <2>5 DEF IInv, ControlTypes, settings, mouse, loop
  <2>7. LoopOK'
    BY <2>1, IdleLoopOK DEF loop
  <2>8. QED
    BY <2>4, <2>5, <2>6, <2>7 DEF IInv
<1>3. QED
  BY <1>1, <1>2

LEMMA BlockIDUnDelKeeps ==
  ASSUME IInv, BlockIDUnDel
  PROVE  IInv'
<1>1. CASE Crash
  BY <1>1, CrashKeeps DEF BlockIDUnDel, Quiet
<1>2. CASE ~Crash
  <2>1. PICK B \in {HiliteBlock, Blocks} :
          /\ ~NoStack(listBlock) /\ Decodes(TRUE) /\ Idle
          /\ AddPoint(B, listBlock, items[selected].node)
          /\ Mark(FALSE)
          /\ UNCHANGED <<CurrentBlock, settings, mouse, loop, listBlock, selected, fault>>
    BY <1>2 DEF BlockIDUnDel, Borrowed, Quiet
  <2>2. /\ listBlock \in Color /\ items[selected].node \in Pixel /\ selected # 0
        /\ Extracted(listBlock)
    BY <2>1, DecodedColour
  <2>3. Agrees(B)
    BY HiliteAgrees, BlocksAgree DEF IInv
  <2>4. ListsOK'
    BY <2>1, <2>2, <2>3, AddPointKeeps DEF IInv
  <2>5. /\ items' \in Seq([node : Node, deleted : BOOLEAN]) /\ Len(items') = Len(items)
        /\ ItemsOK'
    BY <2>1, <2>2, MarkKeepsItems DEF IInv
  <2>6. ControlTypes'
    BY <2>1, <2>5 DEF IInv, ControlTypes, settings, mouse, loop
  <2>7. LoopOK'
    BY <2>1, IdleLoopOK DEF loop
  <2>8. QED
    BY <2>4, <2>5, <2>6, <2>7 DEF IInv
<1>3. QED
  BY <1>1, <1>2

-----------------------------------------------------------------------------
(* The theorems *)

LEMMA StutterKeeps ==
  ASSUME IInv, UNCHANGED vars
  PROVE  IInv'
<1>1. ListsOK' /\ \A c \in Block : Extracted(c)' = Extracted(c) /\ Nodes(c)' = Nodes(c)
  BY ListsUnchanged DEF IInv, vars
<1>2. ControlTypes' /\ ItemsOK'
  BY DEF IInv, vars, ControlTypes, ItemsOK, settings, mouse, loop, window
<1>3. LoopOK'
  BY <1>1, Sorts DEF IInv, ControlTypes, LoopOK, vars, loop
<1>4. QED
  BY <1>1, <1>2, <1>3 DEF IInv

LEMMA IInvStep == IInv /\ [Next]_vars => IInv'
<1> SUFFICES ASSUME IInv, [Next]_vars PROVE IInv'
  OBVIOUS
<1>1. CASE LoopStep
  BY <1>1, LoopStepKeeps
<1>2. CASE Mouse
  BY <1>2, PressKeeps, ReleaseKeeps DEF Mouse
<1>3. CASE PlotWindow
  BY <1>3, PlotWindowKeeps
<1>4. CASE PixelList
  BY <1>4, UpdateBlockIDKeeps, SelectItemKeeps, BlockIDDeleteKeeps, BlockIDUnDelKeeps
     DEF PixelList
<1>5. CASE UNCHANGED vars
  BY <1>5, StutterKeeps
<1>6. QED
  BY <1>1, <1>2, <1>3, <1>4, <1>5 DEF Next

\* The inductive invariant holds in every state of every picture: the lists
\* of block.c are what its handlers take them to be.
THEOREM IInvHolds == Spec => []IInv
  BY IInvInit, IInvStep, PTL DEF Spec

\* Every variable keeps its type, whatever the sizes: no colour or pixel is
\* out of range, and no counter of a block falls below zero.
THEOREM TypeCorrect == Spec => []TypeOK
<1>1. IInv => TypeOK
  BY TypesSplit DEF IInv, ListsOK
<1>2. QED
  BY <1>1, IInvHolds, PTL

\* The stack and the lists of pixels stay in strict raster order, which every
\* walk of block.c relies on.
THEOREM AlwaysSorted == Spec => []ListsSorted
<1>1. IInv => ListsSorted
  BY DEF IInv, ListsOK
<1>2. QED
  BY <1>1, IInvHolds, PTL

\* No block ever mixes pixels and data, and its counter is its length.
THEOREM AlwaysHomogeneous == Spec => []Homogeneous
<1>1. IInv => Homogeneous
  BY DEF IInv, ListsOK
<1>2. QED
  BY <1>1, IInvHolds, PTL

\* The two copies of the selection always agree: the list of a colour and
\* the colours of a pixel are one relation, and no stack node is left without
\* a colour or lost while it has one.
THEOREM CopiesAgree == Spec => []OwnersAgree
<1>1. IInv => OwnersAgree
  BY DEF IInv, ListsOK
<1>2. QED
  BY <1>1, IInvHolds, PTL

\* Paint is never stale: a colour seen in the magnifier is the newest owner.
THEOREM PaintIsNewest == Spec => []PaintIsTop
<1>1. IInv => PaintIsTop
  BY DEF IInv, ListsOK
<1>2. QED
  BY <1>1, IInvHolds, PTL

-----------------------------------------------------------------------------
(* Seen from outside: one relation, changed by one block at a time *)

\* What a step may do to the colours of a pixel: b comes to the top of them,
\* new or from below, or goes.
Takes(b, p) ==
  \/ colors' = [colors EXCEPT ![p] = <<b>> \o @]
  \/ \E i \in 1..Len(colors[p]) :
       colors[p][i] = b /\ colors' = [colors EXCEPT ![p] = <<b>> \o RemoveAt(@, i)]
Gives(b, p) ==
  \E i \in 1..Len(colors[p]) :
    colors[p][i] = b /\ colors' = [colors EXCEPT ![p] = RemoveAt(@, i)]

\* Only block b is touched, and the colours of at most one pixel.
Touches(b) ==
  /\ \A c \in Color \ {b} : Blocks'[c] = Blocks[c]
  /\ \/ UNCHANGED colors
     \/ b \in Color /\ \E p \in Pixel : Takes(b, p) \/ Gives(b, p)

LEMMA DropGives ==
  ASSUME NEW b, NEW p, DropColor(b, p)
  PROVE  UNCHANGED colors \/ Gives(b, p)
  BY DEF DropColor, FirstAt, Gives

LEMMA AddTouches ==
  ASSUME NEW B, Agrees(B), NEW b \in Color, NEW p \in Pixel, AddPoint(B, b, p)
  PROVE  Touches(b)
<1>1. \A c \in Color : B[c] = Blocks[c]
  BY DEF Agrees
<1>2. (\E k : Blocks' = InsertNode(B, b, k, p)) \/ Blocks' = B
  BY DEF AddPoint
<1>3. \A c \in Color \ {b} : Blocks'[c] = Blocks[c]
  BY <1>1, <1>2, Sorts DEF InsertNode, Agrees, BlockTypes
<1>4. (\E h : NewBlock(b, p, h)) \/ MoveToTop(b, p)
  BY DEF AddPoint
<1>5. UNCHANGED colors \/ Takes(b, p)
  BY <1>4 DEF NewBlock, MoveToTop, FirstAt, Takes
<1> QED BY <1>3, <1>5 DEF Touches

LEMMA DeleteTouches ==
  ASSUME NEW B, Agrees(B), NEW b \in Color, NEW p \in Pixel, DeletePoint(B, b, p)
  PROVE  Touches(b)
<1>1. \A c \in Color : B[c] = Blocks[c]
  BY DEF Agrees
<1>2. Blocks' = B \/ \E k : Blocks' = RemoveNode(B, b, k)
  BY DEF DeletePoint
<1>3. \A c \in Color \ {b} : Blocks'[c] = Blocks[c]
  BY <1>1, <1>2, Sorts DEF RemoveNode, Agrees, BlockTypes
<1>4. UNCHANGED colors \/ Gives(b, p)
  BY DropGives DEF DeletePoint
<1> QED BY <1>3, <1>4 DEF Touches

LEMMA LoopTouches ==
  ASSUME IInv, LoopStep
  PROVE  Touches(ActingBlock)
<1>0. /\ BlockTypes(Blocks) /\ Agrees(Blocks)
      /\ op # "idle" => ActingBlock = CurrentBlock /\ CurrentBlock \in Block
  BY BlocksAgree, LoopHasBlock DEF IInv, ListsOK, ListTypes, ActingBlock
<1>1. ASSUME NEW p \in Pixel, LoopBody(p) PROVE Touches(ActingBlock)
  <2>1. CurrentBlock \in Color /\ ActingBlock = CurrentBlock
    BY <1>1 DEF IInv, LoopOK, LoopBody, ActingBlock
  <2>2. AddPoint(Blocks, CurrentBlock, p) \/ DeletePoint(Blocks, CurrentBlock, p)
    BY <1>1 DEF LoopBody, TogglePoint
  <2> QED BY <1>0, <2>1, <2>2, AddTouches, DeleteTouches
<1>2. ASSUME ClearStep PROVE Touches(ActingBlock)
  <2> DEFINE b == CurrentBlock
             p == Nodes(b)[1]
  <2>1. ActingBlock = b /\ b \in Block
    BY <1>0, <1>2 DEF IInv, LoopOK, ClearStep
  <2>2. \A c \in Color \ {b} : Blocks'[c] = Blocks[c]
    BY <1>0, <1>2, <2>1, Sorts DEF ClearStep, RemoveNode, BlockTypes
  <2>3. Nodes(b) \in Seq(Node) /\ 1 \in 1..Len(Nodes(b)) /\ p \in Node
    <3>1. Nodes(b) \in Seq(Node)
      BY <1>0, <2>1 DEF Nodes, BlockTypes
    <3> QED BY <1>2, <3>1 DEF ClearStep
  <2>4. CASE p >= 0
    <3>1. p \in Pixel /\ DropColor(b, p)
      BY <1>2, <2>3, <2>4, Sorts DEF ClearStep
    <3>2. b \in Color
      <4>1. Node \in SUBSET Int
        BY Sorts
      <4>2. ~Data(b)
        BY <2>3, <2>4, <4>1, IntegerElements DEF Data
      <4> QED BY <2>1, <4>2, Sorts DEF IInv, ListsOK, Homogeneous
    <3> QED BY <2>1, <2>2, <3>1, <3>2, DropGives DEF Touches
  <2>5. CASE ~(p >= 0)
    BY <1>2, <2>1, <2>2, <2>5 DEF ClearStep, Touches
  <2> QED BY <2>4, <2>5
<1>3. ASSUME ClearDone \/ EndDrag PROVE Touches(ActingBlock)
  BY <1>3 DEF ClearDone, EndDrag, lists, Touches
<1>4. ASSUME EndReplace PROVE Touches(ActingBlock)
  <2>1. ActingBlock = CurrentBlock /\ UNCHANGED colors
    BY <1>0, <1>4 DEF EndReplace
  <2>2. \A c \in Color \ {CurrentBlock} : Blocks'[c] = Blocks[c]
    BY <1>0, <1>4, Sorts DEF EndReplace, BlockTypes
  <2> QED BY <2>1, <2>2 DEF Touches
<1> QED BY <1>1, <1>2, <1>3, <1>4 DEF LoopStep

LEMMA ListTouches ==
  ASSUME IInv, PixelList
  PROVE  Touches(ActingBlock)
<1>0. Agrees(Blocks) /\ Agrees(HiliteBlock) /\ Agrees([Blocks EXCEPT ![ExtendedBlock] = EmptyBlock])
  BY BlocksAgree, HiliteAgrees DEF IInv
<1>1. ASSUME NEW b, UpdateBlockID(b) PROVE Touches(ActingBlock)
  BY <1>1 DEF UpdateBlockID, lists, Touches
<1>2. ASSUME Crash PROVE Touches(ActingBlock)
  BY <1>2 DEF Crash, lists, Touches
<1>3. ASSUME NEW i, SelectItem(i), ~Crash PROVE Touches(ActingBlock)
  <2>1. Blocks' \in {Blocks, HiliteBlock} /\ UNCHANGED colors
    BY <1>3 DEF SelectItem
  <2> QED BY <1>0, <2>1 DEF Touches, Agrees
<1>4. ASSUME BlockIDDelete, ~Crash PROVE Touches(ActingBlock)
  <2>1. /\ Idle /\ Decodes(FALSE)
        /\ DeletePoint([Blocks EXCEPT ![ExtendedBlock] = EmptyBlock],
                       listBlock, items[selected].node)
    BY <1>4 DEF BlockIDDelete, Borrowed, Quiet
  <2>2. listBlock \in Color /\ items[selected].node \in Pixel /\ ActingBlock = listBlock
    BY <2>1, DecodedColour DEF Idle, ActingBlock
  <2> QED BY <1>0, <2>1, <2>2, DeleteTouches
<1>5. ASSUME BlockIDUnDel, ~Crash PROVE Touches(ActingBlock)
  <2>1. PICK B \in {HiliteBlock, Blocks} :
          Idle /\ Decodes(TRUE) /\ AddPoint(B, listBlock, items[selected].node)
    BY <1>5 DEF BlockIDUnDel, Borrowed, Quiet
  <2>2. listBlock \in Color /\ items[selected].node \in Pixel /\ ActingBlock = listBlock
    BY <2>1, DecodedColour DEF Idle, ActingBlock
  <2> QED BY <1>0, <2>1, <2>2, AddTouches
<1> QED BY <1>1, <1>2, <1>3, <1>4, <1>5 DEF PixelList

LEMMA StepTouches ==
  ASSUME IInv, [Next]_vars
  PROVE  Touches(ActingBlock)
<1>0. BlockTypes(Blocks)
  BY DEF IInv, ListsOK, ListTypes
<1>1. CASE Mouse \/ UNCHANGED vars
  BY <1>1 DEF Mouse, Press, Release, vars, lists, Touches
<1>2. CASE PlotWindow
  <2>1. CASE UNCHANGED Blocks /\ UNCHANGED colors
    BY <2>1 DEF Touches
  <2>2. CASE BlockAverage
    BY <1>0, <2>2, Sorts DEF BlockAverage, BlockTypes, Touches
  <2> QED BY <1>2, <2>1, <2>2
       DEF PlotWindow, SetCurrentBlock, EnableBlock, Toggle_Append, Toggle_Cycle, DeleteAll,
           ApplySpecpr, CopyExtendedBlock, BeginReplace, ColorBlocks, lists
<1> QED BY <1>1, <1>2, LoopTouches, ListTouches DEF Next

\* A handler changes the list of one block: the current one in a loop, else
\* the one that the pixel list was made from.
THEOREM OthersUntouched == Spec => OnlyActingBlock
<1>1. IInv /\ [Next]_vars =>
        [\A b \in Color : ToSet(Nodes(b)') # ToSet(Nodes(b)) => b = ActingBlock]_vars
  BY StepTouches DEF Touches, Nodes
<1> QED BY <1>1, IInvHolds, PTL DEF Spec, OnlyActingBlock

\* The pixels of each colour, and who owns a pixel.
Members == [b \in Color |-> ToSet(Nodes(b)) \cap Pixel]

LEMMA MembersOwn ==
  /\ OwnersAgree =>
       Members = [b \in Color |-> {p \in Pixel : b \in ToSet(colors[p])}]
  /\ OwnersAgree' =>
       Members' = [b \in Color |-> {p \in Pixel : b \in ToSet(colors'[p])}]
<1>1. ASSUME OwnersAgree, NEW b \in Color
      PROVE  ToSet(Nodes(b)) \cap Pixel = {p \in Pixel : b \in ToSet(colors[p])}
  BY <1>1 DEF OwnersAgree
<1>2. ASSUME OwnersAgree', NEW b \in Color
      PROVE  ToSet(Nodes(b)') \cap Pixel = {p \in Pixel : b \in ToSet(colors'[p])}
  BY <1>2 DEF OwnersAgree
<1> QED BY <1>1, <1>2 DEF Members

LEMMA TakesClaims ==
  ASSUME ListsOK, ListsOK', NEW b \in Color, NEW p \in Pixel, Takes(b, p)
  PROVE  Ownership!Claim(b, p)
<1> DEFINE cs == colors[p]
           M  == [c \in Color |-> {q \in Pixel : c \in ToSet(colors[q])}]
           M2 == [c \in Color |-> {q \in Pixel : c \in ToSet(colors'[q])}]
<1>1. /\ colors \in [Pixel -> Seq(Color)] /\ cs \in Seq(Color) /\ Distinct(cs)
      /\ Distinct(colors'[p])
  BY DEF ListsOK, ListTypes, OwnersAgree, Distinct
<1>2. Members = M /\ Members' = M2
  BY MembersOwn DEF ListsOK
<1>3. CASE colors' = [colors EXCEPT ![p] = <<b>> \o @]
  <2>1. /\ colors'[p] = <<b>> \o cs /\ Len(cs) \in Nat /\ Len(colors'[p]) = Len(cs) + 1
        /\ \A i \in 1..(Len(cs) + 1) : colors'[p][i] = IF i = 1 THEN b ELSE cs[i - 1]
    BY <1>1, <1>3, ConsElements
  <2>2. b \notin ToSet(cs)
    <3>1. SUFFICES ASSUME NEW i \in 1..Len(cs), cs[i] = b PROVE FALSE
      BY <1>1, ElementsOf
    <3>2. i + 1 \in 1..(Len(cs) + 1) /\ i + 1 # 1 /\ 1 \in 1..(Len(cs) + 1) /\ i + 1 - 1 = i
      BY <2>1
    <3> QED BY <1>1, <2>1, <3>1, <3>2 DEF Distinct
  <2>3. ToSet(colors'[p]) = {b} \cup ToSet(cs)
    BY <1>1, <2>1, ConsSet
  <2>4. p \notin M[b] /\ M2 = [M EXCEPT ![b] = @ \cup {p}]
    BY <1>1, <1>3, <2>2, <2>3
  <2> QED BY <1>2, <1>3, <2>4 DEF Ownership!Claim, Members
<1>4. CASE \E i \in 1..Len(cs) :
             cs[i] = b /\ colors' = [colors EXCEPT ![p] = <<b>> \o RemoveAt(@, i)]
  <2>1. PICK i \in 1..Len(cs) :
          cs[i] = b /\ colors' = [colors EXCEPT ![p] = <<b>> \o RemoveAt(@, i)]
    BY <1>4
  <2>2. RemoveAt(cs, i) \in Seq(Color) /\ ToSet(RemoveAt(cs, i)) = ToSet(cs) \ {b}
    BY <1>1, <2>1, RemoveAtElements, RemoveAtSet
  <2>3. colors'[p] = <<b>> \o RemoveAt(cs, i)
    BY <1>1, <2>1
  <2>4. b \in ToSet(cs) /\ ToSet(colors'[p]) = ToSet(cs)
    <3> HIDE DEF cs
    <3>1. b \in ToSet(cs)
      BY <1>1, <2>1, ElementsOf
    <3>2. ToSet(<<b>> \o RemoveAt(cs, i)) = {b} \cup ToSet(RemoveAt(cs, i))
      BY <2>2, ConsSet
    <3> QED BY <2>2, <2>3, <3>1, <3>2
  <2>5. p \in M[b] /\ M2 = [M EXCEPT ![b] = @ \cup {p}]
    BY <1>1, <2>1, <2>4
  <2>6. i \in DOMAIN cs
    BY <1>1
  <2> QED BY <1>2, <2>1, <2>5, <2>6 DEF Ownership!Claim, Members, RemoveAt, Ownership!RemoveAt
<1> QED BY <1>3, <1>4 DEF Takes

LEMMA GivesYields ==
  ASSUME ListsOK, ListsOK', NEW b \in Color, NEW p \in Pixel, Gives(b, p)
  PROVE  Ownership!Yield(b, p)
<1> DEFINE cs == colors[p]
           M  == [c \in Color |-> {q \in Pixel : c \in ToSet(colors[q])}]
           M2 == [c \in Color |-> {q \in Pixel : c \in ToSet(colors'[q])}]
<1>1. colors \in [Pixel -> Seq(Color)] /\ cs \in Seq(Color) /\ Distinct(cs)
  BY DEF ListsOK, ListTypes, OwnersAgree, Distinct
<1>2. Members = M /\ Members' = M2
  BY MembersOwn DEF ListsOK
<1>3. PICK i \in 1..Len(cs) : cs[i] = b /\ colors' = [colors EXCEPT ![p] = RemoveAt(@, i)]
  BY DEF Gives
<1>4. colors'[p] = RemoveAt(cs, i) /\ ToSet(RemoveAt(cs, i)) = ToSet(cs) \ {b}
  BY <1>1, <1>3, RemoveAtSet
<1>5. b \in ToSet(cs)
  <2> HIDE DEF cs
  <2> QED BY <1>1, <1>3, ElementsOf
<1>6. p \in M[b] /\ M2 = [M EXCEPT ![b] = @ \ {p}]
  BY <1>1, <1>3, <1>4, <1>5, Zenon
<1>7. i \in DOMAIN cs
  BY <1>1
<1> QED BY <1>2, <1>3, <1>6, <1>7 DEF Ownership!Yield, Members, RemoveAt, Ownership!RemoveAt

LEMMA OwnershipStep ==
  ASSUME IInv, [Next]_vars
  PROVE  Ownership!Next \/ UNCHANGED <<colors, Members>>
<1>1. ListsOK /\ ListsOK' /\ Touches(ActingBlock)
  BY IInvStep, StepTouches DEF IInv
<1>2. CASE UNCHANGED colors
  <2>1. Members' = [c \in Color |-> {q \in Pixel : c \in ToSet(colors'[q])}]
    BY <1>1, MembersOwn DEF ListsOK
  <2>2. Members = [c \in Color |-> {q \in Pixel : c \in ToSet(colors[q])}]
    BY <1>1, MembersOwn DEF ListsOK
  <2> QED BY <1>2, <2>1, <2>2
<1>3. ASSUME ActingBlock \in Color,
             NEW p \in Pixel, Takes(ActingBlock, p) \/ Gives(ActingBlock, p)
      PROVE  Ownership!Next
  BY <1>1, <1>3, TakesClaims, GivesYields DEF Ownership!Next
<1> QED BY <1>1, <1>2, <1>3 DEF Touches

LEMMA OwnershipInit == Init => Ownership!Init
<1> SUFFICES ASSUME Init PROVE Ownership!Init
  OBVIOUS
<1>1. \A b \in Color : ToSet(Nodes(b)) \cap Pixel = {}
  BY Sorts DEF Init, Nodes, EmptyBlock, ToSet
<1> QED BY <1>1 DEF Init, Ownership!Init

\* The lists of block.c implement the ownership relation, for every size of
\* picture: each step of each handler is one claim or one yield, in both
\* copies at once.
THEOREM ListsAreOwnership == Spec => ImplementsOwnership
<1>1. IInv /\ [Next]_vars =>
        [Ownership!Next]_<<colors, [b \in Color |-> ToSet(Nodes(b)) \cap Pixel]>>
  BY OwnershipStep DEF Members
<1> QED BY <1>1, OwnershipInit, IInvHolds, PTL DEF Spec, ImplementsOwnership, Ownership!Spec
=============================================================================
