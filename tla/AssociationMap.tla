--------------------------- MODULE AssociationMap ---------------------------
(***************************************************************************)
(* The transfer curve of the colour controls: lib/AMap.c and its buttons   *)
(* in pw/ColorControls.c.                                                  *)
(*                                                                         *)
(* The curve is an array of three times the Width of its window; the       *)
(* window shows it from left_edge on.  Flagged points are its handles and  *)
(* the rest is interpolated: XfinterpolateAMap and the drawing walk from   *)
(* handle to handle and stop at the last point, not at the end of the      *)
(* array.  Values are left out, handles are a set of positions.            *)
(*                                                                         *)
(* What a drag has grabbed is kept in static variables between the events. *)
(* The handler asks neither which button an event is about nor whether the *)
(* pointer is in the window: the border of the window is a part of it, and *)
(* while a button is down the other buttons are the window's as well,      *)
(* wherever the pointer is.  And a file letter may be typed in mid-drag.   *)
(***************************************************************************)
EXTENDS Integers, FiniteSetsExt

CONSTANTS
  Width,      \* 130 in pw
  Reach,      \* the columns of the screen, from the left edge of the window
  MaxButtons  \* of the mouse

Column == 0..(Width - 1)
Point == 0..(3 * Width - 1)
Pressable == -1..Width          \* the window with its border of one pixel

ASSUME WidthAssumption == Width \in Nat /\ Width >= 3
ASSUME ReachAssumption == Pressable \subseteq Reach /\ Reach \subseteq Int
ASSUME ButtonsAssumption == MaxButtons \in Nat \ {0}

Mode == {"none", "add", "move", "del", "slide"}

VARIABLES
  handles,               \* positions of the flagged points
  left_edge, action_mode,
  lo_x, hi_x, cur_x,     \* the handle of the drag and its neighbours, as columns
  anchor, old_edge,      \* where a slide began
  button_down,           \* XfAMapAction believes that a drag goes on
  pressed,               \* how many mouse buttons are down that went down in the window
  fault,                 \* the handler left the array
  \* and what came to pass:
  loose,                 \* the drag has no handle of this curve between its neighbours:
                         \* a deletion left it, the curve was replaced under it, or it
                         \* began outside of the window
  strayed                \* a button went down outside of the window

grip == <<lo_x, hi_x, cur_x, anchor, old_edge, button_down, loose>>
mapVars == <<handles, left_edge, action_mode, grip, pressed, fault, strayed>>

held == pressed > 0
Handle(x) == left_edge + x \in handles

\* XfClearAMap
ClearHandles == {0, Width, 2 * Width - 1, 3 * Width - 1}

MapInit ==
  /\ handles = ClearHandles
  /\ left_edge = Width
  /\ action_mode = "none"
  /\ lo_x = 0 /\ hi_x = 0 /\ cur_x = 0 /\ anchor = 0 /\ old_edge = 0
  /\ button_down = FALSE /\ pressed = 0
  /\ fault = FALSE /\ loose = FALSE /\ strayed = FALSE

-----------------------------------------------------------------------------
(* XfAMapAction: the button goes down *)

\* Slips that the properties below would catch
AnyColumn(c) == TRUE
Touches(x) == IF x <= lo_x THEN lo_x ELSE IF x >= hi_x THEN hi_x - 1 ELSE x
AllOfArray == 3 * Width - 1

\* The end points of the window are never moved or deleted.
Interior(c) == c # 0 /\ c # Width - 1

\* The loops from a column to an end of the window stop where they begin if
\* that is beyond the end.
DownFrom(c) == Max({Min({0, c})} \cup {d \in 1..c : Handle(d)})
UpFrom(c) == Min({Max({Width - 1, c})} \cup {d \in c..(Width - 2) : Handle(d)})

\* The nearest handle, or an end of the window; of two equally near the right.
Nearest(x) ==
  LET left == DownFrom(x)  right == UpFrom(x)
  IN IF x - left < right - x THEN left ELSE right

\* The neighbours of c are found, and become handles at the ends of the window.
FindNeighbours(c) ==
  IF Interior(c) THEN lo_x' = DownFrom(c - 1) /\ hi_x' = UpFrom(c + 1)
  ELSE UNCHANGED <<lo_x, hi_x>>

EndsFound(c) ==
  IF Interior(c) THEN ({DownFrom(c - 1)} \cap {0}) \cup ({UpFrom(c + 1)} \cap {Width - 1}) ELSE {}

WithEnds(c) == handles \cup {left_edge + d : d \in EndsFound(c)}

InArray(columns) == \A d \in columns : left_edge + d \in Point

\* XfinterpolateAMap and the drawing walk on until they find the last point.
WalkLeaves(points) == 3 * Width - 1 \notin points

Leaves == fault' = TRUE /\ UNCHANGED <<handles, left_edge, grip>>

\* ADD on a handle does nothing, and leaves the drag as it was.
PressAdd(x) ==
  /\ action_mode = "add"
  /\ \/ ~InArray({x}) /\ Leaves
     \/ InArray({x}) /\ Handle(x) /\ UNCHANGED <<handles, left_edge, grip, fault>>
     \/ /\ InArray({x}) /\ ~Handle(x)
        /\ cur_x' = x /\ FindNeighbours(x)
        /\ handles' = WithEnds(x) \cup {left_edge + x}
        /\ button_down' = TRUE /\ loose' = (x \notin Column)
        /\ UNCHANGED <<left_edge, anchor, old_edge, fault>>

\* MOVE and DEL take the nearest handle off; MOVE puts it where the pointer is.
PressMove(x) ==
  LET c == Nearest(x)
      at == IF Interior(c) THEN x ELSE c
      rest == IF Interior(c) THEN WithEnds(c) \ {left_edge + c} ELSE handles
  IN
  /\ action_mode \in {"move", "del"}
  /\ \/ ~InArray({x}) /\ Leaves
     \/ /\ InArray({x})
        /\ FindNeighbours(c) /\ cur_x' = at
        /\ handles' = IF action_mode = "move" THEN rest \cup {left_edge + at} ELSE rest
        /\ fault' = WalkLeaves(handles')
        /\ button_down' = TRUE /\ loose' = (action_mode = "del" \/ x \notin Column)
        /\ UNCHANGED <<left_edge, anchor, old_edge>>

PressSlide(x) ==
  /\ action_mode = "slide"
  /\ old_edge' = left_edge /\ anchor' = x
  /\ button_down' = TRUE /\ loose' = FALSE
  /\ UNCHANGED <<handles, left_edge, lo_x, hi_x, cur_x, fault>>

PressNone == action_mode = "none" /\ UNCHANGED <<handles, left_edge, grip, fault>>

ButtonPress(x) ==
  /\ x \in (IF held THEN Reach ELSE Pressable)
  /\ pressed < MaxButtons /\ pressed' = pressed + 1
  /\ PressAdd(x) \/ PressMove(x) \/ PressSlide(x) \/ PressNone
  /\ strayed' = (strayed \/ x \notin Column)
  /\ UNCHANGED action_mode

-----------------------------------------------------------------------------
(* ... moves, and comes up *)

Clamped(x) == IF x <= lo_x THEN lo_x + 1 ELSE IF x >= hi_x THEN hi_x - 1 ELSE x

max_left_edge == 2 * Width - 1
SlideTo(x) == Max({0, Min({max_left_edge, old_edge - (x - anchor)})})

Drags == button_down /\ action_mode \in {"add", "move", "slide"}

\* The handle or the curve follows the pointer.
Follow(x) ==
  \/ /\ action_mode = "slide" /\ left_edge' = SlideTo(x)
     /\ UNCHANGED <<handles, cur_x, fault>>
  \/ /\ action_mode # "slide" /\ ~Interior(cur_x)
     /\ UNCHANGED <<handles, left_edge, cur_x, fault>>
  \/ /\ action_mode # "slide" /\ Interior(cur_x)
     /\ IF InArray({cur_x, Clamped(x)})
        THEN /\ handles' = (handles \ {left_edge + cur_x}) \cup {left_edge + Clamped(x)}
             /\ cur_x' = Clamped(x)
             /\ fault' = WalkLeaves(handles')
        ELSE fault' = TRUE /\ UNCHANGED <<handles, cur_x>>
     /\ UNCHANGED left_edge

MotionNotify(x) ==
  /\ held /\ Drags
  /\ Follow(x)
  /\ UNCHANGED <<action_mode, lo_x, hi_x, anchor, old_edge, button_down, loose, pressed, strayed>>

\* The first button that comes up ends the drag.  After a deletion the handler
\* returns before it resets button_down.
ButtonRelease(x) ==
  /\ held /\ pressed' = pressed - 1
  /\ IF Drags
     THEN /\ Follow(x)
          /\ IF action_mode # "slide" /\ Interior(cur_x)
             THEN lo_x' = -1 /\ hi_x' = Width + 1
             ELSE UNCHANGED <<lo_x, hi_x>>
          /\ IF action_mode = "slide" THEN old_edge' = 0 /\ anchor' = 0
             ELSE UNCHANGED <<old_edge, anchor>>
          /\ button_down' = FALSE /\ loose' = FALSE
     ELSE UNCHANGED <<handles, left_edge, grip, fault>>
  /\ UNCHANGED <<action_mode, strayed>>

-----------------------------------------------------------------------------
(* A file letter, typed at any time: load_image replaces the curve by the  *)
(* photograph of another image's, which has the ends of the window, or, if *)
(* it has none, clears it, which makes the ends the only handles.          *)

Show(columns) == {0, 3 * Width - 1} \cup {Width + x : x \in columns}

load_pallate(columns) ==
  /\ {0, Width - 1} \subseteq columns
  /\ handles' = Show(columns)
  /\ left_edge' = Width
  /\ loose' = (loose \/ button_down)
  /\ UNCHANGED <<action_mode, lo_x, hi_x, cur_x, anchor, old_edge, button_down, pressed, fault, strayed>>

-----------------------------------------------------------------------------
(* The buttons beside the curve, which get no event while one is down in   *)
(* its window.                                                             *)

Beside == ~held /\ UNCHANGED <<grip, pressed, fault, strayed>>

\* amap_set_action, or amap_toggle_state back to no action
SetAction(m) ==
  /\ Beside
  /\ m # action_mode /\ action_mode' = m
  /\ UNCHANGED <<handles, left_edge>>

InWindow == {x \in Column : Handle(x)}

\* XfCenterAMap: what is in the window, with its ends, in the middle
amap_center ==
  /\ Beside
  /\ left_edge # Width
  /\ handles' = Show(InWindow \cup {0, Width - 1})
  /\ left_edge' = Width
  /\ UNCHANGED action_mode

amap_clear ==
  /\ Beside
  /\ handles' = ClearHandles
  /\ left_edge' = Width
  /\ UNCHANGED action_mode

\* DoHistRead: the points of a histogram file, which need not have the ends.
XfRestoreAMap(columns) ==
  /\ Beside
  /\ handles' = Show(columns)
  /\ left_edge' = Width
  /\ UNCHANGED action_mode

MapNext ==
  /\ ~fault
  /\ \/ \E x \in Reach : ButtonPress(x) \/ MotionNotify(x) \/ ButtonRelease(x)
     \/ \E columns \in SUBSET Column : load_pallate(columns) \/ XfRestoreAMap(columns)
     \/ \E m \in Mode : SetAction(m)
     \/ amap_center \/ amap_clear

MapSpec == MapInit /\ [][MapNext]_mapVars

-----------------------------------------------------------------------------
(* Properties *)

\* The window stays in the array, and what is in the array are handles of it,
\* whatever a drag has kept from an earlier one.
MapTypeOK ==
  /\ handles \subseteq Point
  /\ left_edge \in 0..(2 * Width - 1)
  /\ action_mode \in Mode
  /\ lo_x \in Int /\ hi_x \in Int /\ cur_x \in Int /\ anchor \in Int
  /\ old_edge \in 0..(2 * Width - 1)
  /\ pressed \in 0..MaxButtons
  /\ button_down \in BOOLEAN /\ fault \in BOOLEAN /\ loose \in BOOLEAN /\ strayed \in BOOLEAN

\* Only a button that goes down outside of the window can make the handler
\* leave the array.  Without one the first and the last point stay handles,
\* where the walks of XfinterpolateAMap and of the drawing begin and end,
\* and no index is out of bounds, even if the curve is replaced in mid-drag
\* or a drag goes on from a deletion with the columns of another curve.
EndsKept == ~strayed => ~fault /\ {0, 3 * Width - 1} \subseteq handles

\* The manual: one may click and drag points.  A drag moves one handle
\* between its two neighbours and never over them, with one button or with
\* several, unless a deletion left it (ADD on a handle goes on with that), the
\* curve was replaced under it, or it began outside of the window.
DragIsLocal ==
  button_down /\ ~loose /\ action_mode \in {"add", "move"} /\ Interior(cur_x) =>
    /\ held
    /\ lo_x < cur_x /\ cur_x < hi_x
    /\ {x \in lo_x..hi_x : Handle(x)} = {lo_x, cur_x, hi_x}
=============================================================================
