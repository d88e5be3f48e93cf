--------------------------- MODULE BlockSelection ---------------------------
(***************************************************************************)
(* Pixel selection for the spectral plots: src/pw/block.c, the pixel list  *)
(* of src/pw/blockid.c, and the handlers of src/pw/plot.c that replace the *)
(* contents of a block.                                                    *)
(*                                                                         *)
(* A block is a plot colour.  The program keeps every selected pixel twice *)
(* : once in the sorted list of each block that owns it, and once in one   *)
(* sorted list of stack nodes, each with the list of the colours that own  *)
(* the pixel, newest first.  Nothing but the handlers keeps the two in     *)
(* step, and a block may instead hold data nodes with no stack entry.      *)
(*                                                                         *)
(* The program is single-threaded: a mouse release processes a rectangle   *)
(* of pixels one by one before the next event.  op # "idle" is such a loop *)
(* in progress; every other handler waits for it.                          *)
(***************************************************************************)
EXTENDS Integers, Sequences, SequencesExt

CONSTANTS
  Width, Height,  \* the part of the image the magnifier shows
  NBlocks,        \* plot colours 0 .. NBlocks-1 (6 in block.c)
  Buttons         \* the mouse buttons in use, a subset of 1..3

ASSUME SizeAssumption  == Width \in Nat \ {0} /\ Height \in Nat \ {0}
ASSUME BlockAssumption == NBlocks \in Nat \ {0}
ASSUME ButtonAssumption == Buttons \subseteq 1..3

\* A pixel is its position in raster order: the order (y, x) of block.c.
Pixel == 0..(Width * Height - 1)
ExtendedBlock == NBlocks            \* GetExtendedBlock()
Color == 0..(NBlocks - 1)
Block == 0..NBlocks
None  == -1                         \* no block, no colour, no anchor

BK_EXTRACTED == 0
BK_LIBRARY   == 1
BK_AVG       == 2
BK_LIST      == 4
DataType == {BK_LIBRARY, BK_AVG, BK_LIST}

\* A block node is the pixel it was extracted from or, for a node whose
\* stack pointer is NULL, minus its type.
DataNode == {-t : t \in DataType}
Node == Pixel \cup DataNode

VARIABLES
  Blocks,       \* [Block -> [block: list of nodes, nblocks: the counter]]
  stack,        \* the list of stack nodes, as their pixels
  colors,       \* the colour list of each stack node; <<>> where there is none
  CurrentBlock,
  BlockEnabled, BlockAppendReplace, BlockCycle,
  held,         \* mouse buttons pressed in the magnifier
  anchor,       \* the corner where the drag began
  op,           \* the loop in progress: "idle" or what it does
  clearing,     \* the loop is still in delete_all(CurrentBlock)
  todo,         \* pixels the loop has not reached
  shown,        \* the colour the magnifier paints on each pixel
  items,        \* the lines of the Pixel List window
  listBlock,    \* BlockID->ext, the block the list was made from
  selected,     \* the selected line, 0 if none
  fault         \* a NULL stack pointer was followed: the program is gone

lists    == <<Blocks, stack, colors, shown>>
settings == <<BlockEnabled, BlockAppendReplace, BlockCycle>>
mouse    == <<held, anchor>>
loop     == <<op, clearing, todo>>
window   == <<items, listBlock, selected>>
vars == <<lists, CurrentBlock, settings, mouse, loop, window, fault>>

-----------------------------------------------------------------------------
(* Lists *)

\* The position j where a walk along s that starts at `from' stops, looking
\* for p: the last one before an element that is not smaller.
WalkPastEqual(s, from, p, j) ==
  /\ j \in from..Len(s)
  /\ \A i \in (from + 1)..j : s[i] <= p
  /\ j < Len(s) => s[j + 1] > p
WalkMissesEnd(s, from, p, j) ==
  /\ j \in from..(Len(s) - 1)
  /\ \A i \in (from + 1)..j : s[i] < p
  /\ s[j + 1] >= p
WalkStops(s, from, p, j) ==
  /\ j \in from..Len(s)
  /\ \A i \in (from + 1)..j : s[i] < p
  /\ j < Len(s) => s[j + 1] >= p

FoundAfter(s, j, p) == j < Len(s) /\ s[j + 1] = p

\* i is the first position of e in s.
FirstAt(s, i, e) ==
  /\ i \in 1..Len(s)
  /\ s[i] = e
  /\ \A j \in 1..(i - 1) : s[j] # e

\* The colour on top of a colour list
OldestColor(cs) == IF cs = <<>> THEN None ELSE cs[Len(cs)]
TopColor(cs) == IF cs = <<>> THEN None ELSE cs[1]

Nodes(b) == Blocks[b].block

GetBlockType(b) ==
  IF Blocks[b].nblocks = 0 \/ Nodes(b)[1] >= 0 THEN BK_EXTRACTED ELSE -Nodes(b)[1]

\* The first node of b has no stack entry to compare a pixel with.
NoStack(b) == Nodes(b) # <<>> /\ Nodes(b)[1] < 0

EmptyBlock == [block |-> <<>>, nblocks |-> 0]

InsertNode(B, b, k, p) ==
  [B EXCEPT ![b] = [block |-> InsertAt(@.block, k, p), nblocks |-> @.nblocks + 1]]
RemoveKeepsCount(B, b, k) == [B EXCEPT ![b].block = RemoveAt(@, k)]
RemoveLastNode(B, b, k) ==
  [B EXCEPT ![b] = [block |-> RemoveAt(@.block, Len(@.block)), nblocks |-> @.nblocks - 1]]
RemoveNode(B, b, k) ==
  [B EXCEPT ![b] = [block |-> RemoveAt(@.block, k), nblocks |-> @.nblocks - 1]]

-----------------------------------------------------------------------------
(* new_block, delete_block: the stack side of one pixel *)

\* new_block(x, y, s) where s is the stack node of p itself.
PushAgain(b, p) == colors' = [colors EXCEPT ![p] = <<b>> \o @] /\ UNCHANGED stack
MoveToTop(b, p) ==
  /\ \/ \E i \in 1..Len(colors[p]) :
          /\ FirstAt(colors[p], i, b)
          /\ colors' = [colors EXCEPT ![p] = <<b>> \o RemoveAt(@, i)]
     \/ b \notin ToSet(colors[p]) /\ UNCHANGED colors
  /\ UNCHANGED stack

\* new_block(x, y, s) otherwise: find or make the stack node, searching from
\* the hint s (a position in stack, or 0 for NULL), and push the colour.
NewBlock(b, p, hint) ==
  LET from == IF hint = 0 THEN 1 ELSE hint IN
  /\ \/ /\ stack # <<>> => stack[from] > p
        /\ stack' = InsertAt(stack, 1, p)
     \/ /\ stack # <<>> /\ stack[from] = p
        /\ UNCHANGED stack
     \/ /\ stack # <<>> /\ stack[from] < p
        /\ \E j \in 1..Len(stack) :
             /\ WalkStops(stack, from, p, j)
             /\ stack' = IF FoundAfter(stack, j, p) THEN stack
                         ELSE InsertAt(stack, j + 1, p)
  /\ colors' = [colors EXCEPT ![p] = <<b>> \o @]

\* delete_block(n) for the node of p in b, and the colour its callers paint.
DropKeepsPaint(b, p) ==
  /\ \E i \in 1..Len(colors[p]) :
       FirstAt(colors[p], i, b) /\ colors' = [colors EXCEPT ![p] = RemoveAt(@, i)]
  /\ IF colors'[p] = <<>>
     THEN \E j \in 1..Len(stack) : stack[j] = p /\ stack' = RemoveAt(stack, j)
     ELSE UNCHANGED stack
  /\ UNCHANGED shown
DropColor(b, p) ==
  /\ \/ \E i \in 1..Len(colors[p]) :
          /\ FirstAt(colors[p], i, b)
          /\ colors' = [colors EXCEPT ![p] = RemoveAt(@, i)]
     \/ b \notin ToSet(colors[p]) /\ UNCHANGED colors
  /\ IF colors'[p] = <<>>
     THEN \E j \in 1..Len(stack) : stack[j] = p /\ stack' = RemoveAt(stack, j)
     ELSE UNCHANGED stack
  /\ shown' = [shown EXCEPT ![p] = TopColor(colors'[p])]

-----------------------------------------------------------------------------
(* AddPoint, DeletePoint, TogglePoint.  B is Blocks, but for the extended  *)
(* block, which some callers replace in the same event.                    *)

AddPoint(B, b, p) ==
  LET s == B[b].block IN
  /\ \/ /\ s # <<>> => s[1] > p
        /\ NewBlock(b, p, 0)
        /\ Blocks' = InsertNode(B, b, 1, p)
     \/ /\ s # <<>> /\ s[1] = p
        /\ MoveToTop(b, p)
        /\ Blocks' = B
     \/ /\ s # <<>> /\ s[1] < p
        /\ \E k \in 1..Len(s) :
             /\ WalkStops(s, 1, p, k)
             /\ \/ /\ FoundAfter(s, k, p)
                   /\ MoveToTop(b, p)
                   /\ Blocks' = B
                \/ /\ ~FoundAfter(s, k, p)
                   /\ \E h \in 1..Len(stack) : stack[h] = s[k] /\ NewBlock(b, p, h)
                   /\ Blocks' = InsertNode(B, b, k + 1, p)
  /\ shown' = [shown EXCEPT ![p] = b]

\* DeletePoint returns 0: no node of p, nothing is touched.
DeleteMisses(b, p) ==
  LET s == Nodes(b) IN
  \/ s = <<>>
  \/ s # <<>> /\ s[1] > p
  \/ /\ Len(s) > 1 /\ s[1] < p
     /\ \E k \in 1..Len(s) : WalkStops(s, 1, p, k) /\ ~FoundAfter(s, k, p)

\* DeletePoint returns 1: a list of a single smaller node leaves the loop
\* without entering it, and the pixel is uncoloured though no node was found.
DeleteFalls(b, p) == Len(Nodes(b)) = 1 /\ Nodes(b)[1] < p

\* DeletePoint returns 1: the node at position k is deleted.
DeleteHits(b, p, k) ==
  LET s == Nodes(b) IN
  \/ k = 1 /\ s # <<>> /\ s[1] = p
  \/ s # <<>> /\ s[1] < p /\ WalkStops(s, 1, p, k - 1) /\ FoundAfter(s, k - 1, p)

DeletePoint(B, b, p) ==
  \/ /\ DeleteMisses(b, p)
     /\ Blocks' = B
     /\ UNCHANGED <<stack, colors, shown>>
  \/ /\ DeleteFalls(b, p)
     /\ Blocks' = B
     /\ shown' = [shown EXCEPT ![p] = None]
     /\ UNCHANGED <<stack, colors>>
  \/ \E k \in 1..Len(Nodes(b)) :
       /\ DeleteHits(b, p, k)
       /\ DropColor(b, p)
       /\ Blocks' = RemoveNode(B, b, k)

TogglePoint(b, p) ==
  \/ DeleteMisses(b, p) /\ AddPoint(Blocks, b, p)
  \/ ~DeleteMisses(b, p) /\ DeletePoint(Blocks, b, p)

-----------------------------------------------------------------------------
(* BlockMovement: the mouse in the magnifier *)

Idle == op = "idle" /\ ~fault
\* Other windows get no events while a button is held (pointer grab).
Quiet == Idle /\ held = {}

AcceptsExtended ==
  /\ CurrentBlock >= 0 /\ BlockEnabled
  /\ GetBlockType(CurrentBlock) = BK_EXTRACTED
Accepts ==
  /\ CurrentBlock >= 0 /\ CurrentBlock # NBlocks
  /\ BlockEnabled
  /\ GetBlockType(CurrentBlock) = BK_EXTRACTED

Rect(p, q) ==
  LET Between(i, a, b) == (a <= i /\ i <= b) \/ (b <= i /\ i <= a)
  IN {r \in Pixel : /\ Between(r % Width, p % Width, q % Width)
                    /\ Between(r \div Width, p \div Width, q \div Width)}

Press(b, p) ==
  /\ Idle /\ b \notin held
  /\ held' = held \cup {b}
  /\ anchor' = IF Accepts THEN p ELSE anchor
  /\ UNCHANGED <<lists, CurrentBlock, settings, loop, window, fault>>

\* AddBlock, ToggleBlock and DeleteBlock
Gesture == <<"add", "toggle", "delete">>

\* The anchor is dead once no button is held.
Release(b, p) ==
  /\ Idle /\ b \in held
  /\ held' = held \ {b}
  /\ anchor' = IF held' = {} THEN None ELSE anchor
  /\ IF Accepts
     THEN /\ op' = Gesture[b]
          /\ todo' = Rect(anchor, p)
          /\ clearing' = (b = 1 /\ BlockAppendReplace)
     ELSE UNCHANGED loop
  /\ UNCHANGED <<lists, CurrentBlock, settings, window, fault>>

\* AddBlock and ToggleBlock go from the last pixel back, DeleteBlock forward.
IsLast(p)  == p \in todo /\ \A q \in todo : q <= p
IsFirst(p) == p \in todo /\ \A q \in todo : p <= q

LoopBody(p) ==
  /\ ~clearing
  /\ \/ op = "add"    /\ IsLast(p)  /\ AddPoint(Blocks, CurrentBlock, p)
     \/ op = "toggle" /\ IsLast(p)  /\ TogglePoint(CurrentBlock, p)
     \/ op = "delete" /\ IsFirst(p) /\ DeletePoint(Blocks, CurrentBlock, p)
  /\ todo' = todo \ {p}
  /\ UNCHANGED <<CurrentBlock, settings, mouse, op, clearing, window, fault>>

\* One turn of delete_all(CurrentBlock).
ClearStep ==
  /\ clearing /\ Nodes(CurrentBlock) # <<>>
  /\ LET p == Nodes(CurrentBlock)[1] IN
       IF p >= 0 THEN DropColor(CurrentBlock, p) ELSE UNCHANGED <<stack, colors, shown>>
  /\ Blocks' = RemoveNode(Blocks, CurrentBlock, 1)
  /\ UNCHANGED <<CurrentBlock, settings, mouse, loop, window, fault>>

ClearDone ==
  /\ clearing /\ Nodes(CurrentBlock) = <<>>
  /\ clearing' = FALSE
  /\ UNCHANGED <<lists, CurrentBlock, settings, mouse, op, todo, window, fault>>

\* DoAutoCycle
NextBlock == (CurrentBlock + 1) % NBlocks

EndDrag ==
  /\ op \in {"add", "toggle", "delete"} /\ ~clearing /\ todo = {}
  /\ op' = "idle"
  /\ CurrentBlock' = IF BlockCycle THEN NextBlock ELSE CurrentBlock
  /\ UNCHANGED <<lists, settings, mouse, clearing, todo, window, fault>>

-----------------------------------------------------------------------------
(* The plot window *)

SetCurrentBlock(b) ==
  /\ Quiet
  /\ CurrentBlock' = b
  /\ UNCHANGED <<lists, settings, mouse, loop, window, fault>>

EnableBlock ==
  /\ Quiet
  /\ BlockEnabled' = TRUE
  /\ UNCHANGED <<lists, CurrentBlock, BlockAppendReplace, BlockCycle, mouse, loop, window, fault>>

Toggle_Append ==
  /\ Quiet
  /\ BlockAppendReplace' = ~BlockAppendReplace
  /\ UNCHANGED <<lists, CurrentBlock, BlockEnabled, BlockCycle, mouse, loop, window, fault>>

Toggle_Cycle ==
  /\ Quiet
  /\ BlockCycle' = ~BlockCycle
  /\ UNCHANGED <<lists, CurrentBlock, BlockEnabled, BlockAppendReplace, mouse, loop, window, fault>>

\* The handlers that empty the current block and then fill it with a data
\* node, or with nothing: they share the loop of delete_all.
BeginReplace(what) ==
  /\ Quiet
  /\ CurrentBlock # None
  /\ op' = what
  /\ clearing' = TRUE
  /\ UNCHANGED <<lists, CurrentBlock, settings, mouse, todo, window, fault>>

DeleteAll == BeginReplace("empty")

\* Y data from a specpr file
ApplySpecpr == BeginReplace("library")

CopyExtendedBlock ==
  /\ Blocks[ExtendedBlock].nblocks # 0
  /\ CurrentBlock # ExtendedBlock
  /\ BeginReplace("copy")

DataBlock(ts) == [block |-> ts, nblocks |-> Len(ts)]

EndReplace ==
  /\ op \in {"empty", "library", "copy"} /\ ~clearing
  /\ op' = "idle"
  /\ \/ op = "empty" /\ UNCHANGED Blocks
     \/ /\ op = "library"
        /\ Blocks' = [Blocks EXCEPT ![CurrentBlock] = DataBlock(<<-BK_LIBRARY>>)]
     \/ /\ op = "copy"
        /\ Blocks' = [Blocks EXCEPT ![CurrentBlock] = DataBlock(<<-BK_AVG>>),
                                    ![ExtendedBlock] = EmptyBlock]
  /\ UNCHANGED <<stack, colors, shown, CurrentBlock, settings, mouse, clearing, todo, window, fault>>

BlockAverage ==
  /\ Quiet
  /\ CurrentBlock \notin {None, ExtendedBlock}
  /\ Nodes(CurrentBlock) # <<>>
  /\ Blocks' = [Blocks EXCEPT ![ExtendedBlock] = DataBlock(<<-BK_AVG, -BK_AVG, -BK_AVG>>)]
  /\ UNCHANGED <<stack, colors, shown, CurrentBlock, settings, mouse, loop, window, fault>>

\* SetMagnify redraws the magnifier and ColorBlocks paints the stack over it.
ColorBlocks ==
  /\ Idle
  /\ shown' = [p \in Pixel |-> IF p \in ToSet(stack) THEN TopColor(colors[p]) ELSE None]
  /\ UNCHANGED <<Blocks, stack, colors, CurrentBlock, settings, mouse, loop, window, fault>>

-----------------------------------------------------------------------------
(* The Pixel List window *)

UpdateBlockID(b) ==
  /\ Quiet
  /\ listBlock' = b
  /\ selected' = 0
  /\ items' = IF b = None THEN <<>>
              ELSE [i \in 1..Blocks[b].nblocks |-> [node |-> Nodes(b)[i], deleted |-> FALSE]]
  /\ UNCHANGED <<lists, CurrentBlock, settings, mouse, loop, fault>>

\* The NULL pointer case of a handler: nothing else of it matters.
Crash ==
  /\ fault' = TRUE
  /\ UNCHANGED <<lists, CurrentBlock, settings, mouse, loop, window>>

\* do_hilite looks for the pixel in the CURRENT block.
HiliteFaults == CurrentBlock # None /\ NoStack(CurrentBlock)
HiliteBlock  == [Blocks EXCEPT ![ExtendedBlock] = DataBlock(<<-BK_LIST>>)]

SelectItem(i) ==
  LET p == items[i].node IN
  /\ Quiet
  /\ \/ /\ p >= 0 /\ HiliteFaults
        /\ Crash
     \/ /\ ~(p >= 0 /\ HiliteFaults)
        /\ selected' = i
        /\ Blocks' = IF CurrentBlock # None /\ p >= 0 /\ p \in ToSet(Nodes(CurrentBlock))
                     THEN HiliteBlock ELSE Blocks
        /\ UNCHANGED <<stack, colors, shown, CurrentBlock, settings, mouse, loop,
                       items, listBlock, fault>>

\* DecodeBlock finds a pixel in the selected line, deleted or not.
Decodes(deleted) ==
  selected # 0 /\ items[selected].node >= 0 /\ items[selected].deleted = deleted

Mark(deleted) == items' = [items EXCEPT ![selected].deleted = deleted]

\* BlockIDDelete and BlockIDUnDel borrow CurrentBlock for their call.
NotBorrowed == IF CurrentBlock = None THEN listBlock ELSE CurrentBlock
Borrowed == listBlock

BlockIDDelete ==
  /\ Quiet
  /\ Decodes(FALSE)
  /\ \/ NoStack(Borrowed) /\ Crash
     \/ /\ ~NoStack(Borrowed)
        /\ DeletePoint([Blocks EXCEPT ![ExtendedBlock] = EmptyBlock],
                       Borrowed, items[selected].node)
        /\ Mark(TRUE)
        /\ UNCHANGED <<CurrentBlock, settings, mouse, loop, listBlock, selected, fault>>

BlockIDUnDel ==
  LET p == items[selected].node IN
  /\ Quiet
  /\ Decodes(TRUE)
  /\ \/ (NoStack(Borrowed) \/ HiliteFaults) /\ Crash
     \/ /\ ~NoStack(Borrowed) /\ ~HiliteFaults
        /\ AddPoint(IF /\ CurrentBlock # None
                       /\ CurrentBlock = Borrowed \/ p \in ToSet(Nodes(CurrentBlock))
                    THEN HiliteBlock ELSE Blocks,
                    Borrowed, p)
        /\ Mark(FALSE)
        /\ UNCHANGED <<CurrentBlock, settings, mouse, loop, listBlock, selected, fault>>

-----------------------------------------------------------------------------
Init ==
  /\ Blocks = [b \in Block |-> EmptyBlock]
  /\ stack = <<>>
  /\ colors = [p \in Pixel |-> <<>>]
  /\ shown = [p \in Pixel |-> None]
  /\ CurrentBlock = None
  /\ BlockEnabled = FALSE /\ BlockAppendReplace = FALSE /\ BlockCycle = FALSE
  /\ held = {} /\ anchor = None
  /\ op = "idle" /\ clearing = FALSE /\ todo = {}
  /\ items = <<>> /\ listBlock = None /\ selected = 0
  /\ fault = FALSE

\* The rest of a handler whose loop has begun.
LoopStep ==
  \/ \E p \in Pixel : LoopBody(p)
  \/ ClearStep
  \/ ClearDone
  \/ EndDrag
  \/ EndReplace

Mouse == \E b \in Buttons, p \in Pixel : Press(b, p) \/ Release(b, p)

PlotWindow ==
  \/ \E b \in Block \cup {None} : SetCurrentBlock(b)
  \/ EnableBlock \/ Toggle_Append \/ Toggle_Cycle
  \/ DeleteAll
  \/ ApplySpecpr
  \/ CopyExtendedBlock
  \/ BlockAverage
  \/ ColorBlocks

PixelList ==
  \/ \E b \in Color \cup {CurrentBlock} : UpdateBlockID(b)
  \/ \E i \in 1..Len(items) : SelectItem(i)
  \/ BlockIDDelete
  \/ BlockIDUnDel

Next == LoopStep \/ Mouse \/ PlotWindow \/ PixelList

\* A handler, once entered, runs to its end.
Spec == Init /\ [][Next]_vars /\ WF_vars(LoopStep)
-----------------------------------------------------------------------------
(* What must hold *)

TypeOK ==
  /\ Blocks \in [Block -> [block : Seq(Node), nblocks : Nat]]
  /\ stack \in Seq(Pixel)
  /\ colors \in [Pixel -> Seq(Color)]
  /\ shown \in [Pixel -> Color \cup {None}]
  /\ CurrentBlock \in Block \cup {None}
  /\ BlockEnabled \in BOOLEAN /\ BlockAppendReplace \in BOOLEAN /\ BlockCycle \in BOOLEAN
  /\ held \subseteq Buttons /\ anchor \in Pixel \cup {None}
  /\ op \in {"idle", "add", "toggle", "delete", "empty", "library", "copy"}
  /\ clearing \in BOOLEAN /\ todo \subseteq Pixel
  /\ items \in Seq([node : Node, deleted : BOOLEAN])
  /\ listBlock \in Block \cup {None} /\ selected \in 0..Len(items)
  /\ fault \in BOOLEAN

Increasing(s) == \A i, j \in 1..Len(s) : i < j => s[i] < s[j]
Extracted(b)  == \A i \in 1..Len(Nodes(b)) : Nodes(b)[i] >= 0
Data(b)       == \A i \in 1..Len(Nodes(b)) : Nodes(b)[i] < 0

\* The walks of new_block, AddPoint and DeletePoint stop at the first larger
\* pixel: they are right only if the stack and the lists they walk are in
\* strict raster order, which new_block's hint argument must preserve.
ListsSorted ==
  /\ Increasing(stack)
  /\ \A b \in Block : Extracted(b) => Increasing(Nodes(b))

\* A block is either all pixels or all data nodes and the extended block
\* never holds a pixel, so the type of the first node speaks for all
\* (GetBlockType); the counter it trusts is the length of the list.
Homogeneous ==
  /\ \A b \in Block : Extracted(b) \/ Data(b)
  /\ Data(ExtendedBlock)
  /\ \A b \in Block : Blocks[b].nblocks = Len(Nodes(b))

\* The two copies of the selection agree: a pixel is in the list of a colour
\* exactly when the colour is, once, on the pixel's stack, and the stack
\* nodes are the pixels with a colour.  delete_block follows the one to free
\* the other; where they differ it would free a node still in use.
OwnersAgree ==
  /\ \A p \in Pixel, b \in Color :
       b \in ToSet(colors[p]) <=> p \in ToSet(Nodes(b))
  /\ \A p \in Pixel : \A i, j \in 1..Len(colors[p]) :
       i # j => colors[p][i] # colors[p][j]
  /\ ToSet(stack) = {p \in Pixel : colors[p] # <<>>}

\* A colour seen in the magnifier is the newest owner of the pixel: no
\* deletion leaves the paint of a block that no longer owns it, or of one
\* that another covers.
PaintIsTop ==
  \A p \in Pixel : shown[p] # None => colors[p] # <<>> /\ shown[p] = colors[p][1]

\* The pixels of a colour change only by a loop on the current block, or
\* through the pixel list on the block the list was made from, whichever
\* block is current by then (BlockIDDelete borrows CurrentBlock for the call).
ActingBlock == IF op = "idle" THEN listBlock ELSE CurrentBlock
OnlyActingBlock ==
  [][\A b \in Color : ToSet(Nodes(b)') # ToSet(Nodes(b)) => b = ActingBlock]_vars

\* Seen from outside there is one structure, the owners of each pixel from
\* the newest to the oldest: every step of every loop is one claim or one
\* yield of one colour on one pixel, in both copies at once.
Ownership == INSTANCE PixelOwnership WITH
  owners  <- colors,
  members <- [b \in Color |-> ToSet(Nodes(b)) \cap Pixel]
ImplementsOwnership == Ownership!Spec

\* Every drag and every delete_all comes to its end: no walk is left without
\* the node it looks for.
LoopsEnd == op # "idle" ~> op = "idle"

\* What the manual says of the picture: an owned pixel has its owner's colour.
OwnedIsPainted ==
  \A p \in Pixel : colors[p] # <<>> => shown[p] = colors[p][1]
=============================================================================
