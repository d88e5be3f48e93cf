----------------------------- MODULE PlotScale -----------------------------
(***************************************************************************)
(* The scale of the plot and its history: set_plot_scale, UnZoom, GetScale,*)
(* ShiftScale, AutoScale's result and the zoom rectangle of src/pw/plot.c. *)
(*                                                                         *)
(* Scales that were chosen are kept in a ring of RingSize (10) entries.    *)
(* UnZoom computes positions with C's %, whose result is negative for a    *)
(* negative operand.  A read before the array is `scaleFault', after which *)
(* nothing is known.                                                       *)
(*                                                                         *)
(* One axis stands for the two, which the code treats alike.               *)
(***************************************************************************)
EXTENDS Integers, Sequences

CONSTANTS
  RingSize,      \* length of zoom_list, 10 in plot.c
  Limit          \* the bounds of an axis are in 0..Limit

ASSUME RingAssumption  == RingSize \in Nat \ {0, 1}
ASSUME LimitAssumption == Limit \in Nat \ {0}

Coord == 0..Limit
Range2 == [lo : Coord, hi : Coord]
Proper(s) == s.lo < s.hi
Scale == {s \in Range2 : Proper(s)}
Unset == [lo |-> 0, hi |-> 0]           \* an entry of zoom_list never written

VARIABLES
  scale,         \* PlotXMin, PlotXMax
  zoom_list, zl_ptr, zcount,
  zoom_anchor,   \* a zoom rectangle is being drawn
  scaleFault     \* UnZoom read before zoom_list

ring == <<zoom_list, zl_ptr, zcount>>
scaleVars == <<scale, ring, zoom_anchor, scaleFault>>

\* a % n as C computes it, for n > 0
Remainder(a, n) == IF a >= 0 THEN a % n ELSE -((-a) % n)

CountUnbounded(a, b) == a
AtMost(a, b) == IF a < b THEN a ELSE b

\* Slips of set_plot_scale and UnZoom that the properties below would catch.
AllowsEqual(s) == s.lo <= s.hi
CountsRefused(p, c) == zl_ptr' = p /\ zcount' = AtMost(c + 1, RingSize)
StepsBackOne == 1

\* set_plot_scale ignores any other scale
Accepted(s) == Proper(s)
Refuse(p, c) == zl_ptr' = p /\ zcount' = c

\* set_plot_scale when the ring's pointer and counter are p and c
SetPlotScaleAt(s, p, c) ==
  IF Accepted(s)
  THEN LET q == Remainder(p + 1, RingSize) IN
       /\ zcount' = AtMost(c + 1, RingSize)
       /\ zl_ptr' = q
       /\ zoom_list' = [zoom_list EXCEPT ![q] = s]
       /\ scale' = s
  ELSE Refuse(p, c) /\ UNCHANGED <<zoom_list, scale>>

set_plot_scale(s) == SetPlotScaleAt(s, zl_ptr, zcount)

\* After CreateBlockPanel, which sets the first scale.
ScaleInit ==
  /\ scale = [lo |-> 0, hi |-> Limit]
  /\ zoom_list = [[i \in 0..(RingSize - 1) |-> Unset] EXCEPT ![0] = scale]
  /\ zl_ptr = 0
  /\ zcount = 0
  /\ zoom_anchor = FALSE
  /\ scaleFault = FALSE

\* AutoScale, SetCubeImage in channel space, a restored session
Rescale(s) ==
  /\ set_plot_scale(s)
  /\ UNCHANGED <<zoom_anchor, scaleFault>>

\* A bound is typed; the same value again is ignored.
GetScale(f) ==
  /\ \/ f # scale.lo /\ set_plot_scale([scale EXCEPT !.lo = f])
     \/ f # scale.hi /\ set_plot_scale([scale EXCEPT !.hi = f])
  /\ UNCHANGED <<zoom_anchor, scaleFault>>

\* The arrows: one width up or down, and not kept in the ring.
ShiftScale ==
  LET width == scale.hi - scale.lo IN
  /\ \/ scale.hi + width \in Coord /\ scale' = [scale EXCEPT !.hi = @ + width]
     \/ scale.lo - width \in Coord /\ scale' = [scale EXCEPT !.lo = @ - width]
  /\ UNCHANGED <<ring, zoom_anchor, scaleFault>>

ZoomPress == zoom_anchor' = TRUE /\ UNCHANGED <<scale, ring, scaleFault>>

\* The release, which the pointer grab also reports outside of the window;
\* the rectangle may have no width.
ZoomRelease(s) ==
  /\ zoom_anchor
  /\ s.lo <= s.hi
  /\ set_plot_scale(s)
  /\ zoom_anchor' = FALSE
  /\ UNCHANGED scaleFault

StepsBack == 2
UnZoom ==
  /\ zcount > 0
  /\ LET z == Remainder(zl_ptr - 1, RingSize) IN
     IF z < 0
     THEN scaleFault' = TRUE /\ UNCHANGED <<scale, ring>>
     ELSE /\ SetPlotScaleAt(zoom_list[z], Remainder(zl_ptr - StepsBack, RingSize),
                            zcount - StepsBack)
          /\ UNCHANGED scaleFault
  /\ UNCHANGED zoom_anchor

ScaleNext ==
  /\ ~scaleFault
  /\ \/ \E s \in Range2 : Rescale(s) \/ ZoomRelease(s)
     \/ \E f \in Coord : GetScale(f)
     \/ ShiftScale
     \/ ZoomPress
     \/ UnZoom

ScaleSpec == ScaleInit /\ [][ScaleNext]_scaleVars

-----------------------------------------------------------------------------
(* Properties *)

ScaleTypeOK ==
  /\ scale \in Range2
  /\ zoom_list \in [0..(RingSize - 1) -> Range2]
  /\ zl_ptr \in 0..(RingSize - 1)
  /\ zcount \in 0..RingSize
  /\ zoom_anchor \in BOOLEAN
  /\ scaleFault \in BOOLEAN

\* The plot divides by the width of the scale (XScale, YScale) and the ring
\* hands scales back to it: both hold increasing ranges only.
ScalesIncrease ==
  /\ Proper(scale)
  /\ \A i \in 0..zl_ptr : Proper(zoom_list[i])

\* UnZoom leaves zoom_list only after more scales than it holds have been
\* chosen: as long as an entry is unused it is safe to go back.
SafeUntilFull == scaleFault => \A i \in 0..(RingSize - 1) : zoom_list[i] # Unset

\* The ring is a history: what UnZoom shows is the scale chosen before.
History == INSTANCE ZoomHistory
  WITH past <- [i \in 1..(zl_ptr + 1) |-> zoom_list[i - 1]]
KeepsHistory == History!Spec

=============================================================================
