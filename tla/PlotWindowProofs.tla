--------------------------- MODULE PlotWindowProofs ---------------------------
(***************************************************************************)
(* The three parts of the plot window, each for every value of its         *)
(* constants: the ring of scales, the colour buttons and the reader of the *)
(* cube.                                                                   *)
(***************************************************************************)
EXTENDS PlotScale, PlotButtons, CubeReader, SequenceTheorems, TLAPS

-----------------------------------------------------------------------------
(* The ring of scales, for a ring and an axis of any length: its entries up *)
(* to the pointer are a history, which UnZoom follows backwards.            *)
(*                                                                          *)
(* RingInv says when UnZoom may leave the ring: until the ring has been     *)
(* filled, its counter and its pointer are the same number, so that it has  *)
(* nothing to go back to when the pointer is at the first entry.            *)

RingFull == \A i \in 0..(RingSize - 1) : zoom_list[i] # Unset
RingInv == RingFull \/ (zcount = zl_ptr /\ ~scaleFault)

ScaleInv == ScaleTypeOK /\ ScalesIncrease /\ RingInv

\* An increasing range is a scale, and is not the unset one.
LEMMA ProperFacts ==
  /\ Unset \in Range2
  /\ \A s \in Range2 : s.lo \in Coord /\ s.hi \in Coord /\ s.lo \in Int /\ s.hi \in Int
  /\ \A s \in Range2 : Proper(s) => s \in Scale /\ s # Unset
  BY LimitAssumption DEF Unset, Range2, Coord, Proper, Scale

\* The ring's positions, as C computes them
LEMMA RemainderFacts ==
  /\ RingSize \in Nat /\ RingSize > 1
  /\ \A p \in 0..(RingSize - 1) : Remainder(p + 1, RingSize) = IF p = RingSize - 1 THEN 0 ELSE p + 1
  /\ \A p \in 0..(RingSize - 1) : Remainder(p - 1, RingSize) = p - 1
  /\ \A p \in 1..(RingSize - 1) : Remainder(p - 2, RingSize) = p - 2
  /\ Remainder(0, RingSize) = 0
<1>1. RingSize \in Nat /\ RingSize > 1
  BY RingAssumption
<1>2. \A a \in Int : 0 <= a /\ a < RingSize => a % RingSize = a
  BY <1>1
<1>3. RingSize % RingSize = 0
  BY <1>1
<1>4. ASSUME NEW p \in 0..(RingSize - 1)
      PROVE  Remainder(p + 1, RingSize) = IF p = RingSize - 1 THEN 0 ELSE p + 1
  BY <1>1, <1>2, <1>3, <1>4 DEF Remainder
<1>5. Remainder(-1, RingSize) = -1
  <2>1. 1 % RingSize = 1
    BY <1>1, <1>2
  <2> QED BY <2>1 DEF Remainder
<1>6. ASSUME NEW p \in 0..(RingSize - 1) PROVE Remainder(p - 1, RingSize) = p - 1
  <2>1. CASE p = 0
    BY <1>5, <2>1
  <2>2. CASE p > 0
    BY <1>1, <1>2, <2>2 DEF Remainder
  <2> QED BY <2>1, <2>2
<1>7. ASSUME NEW p \in 1..(RingSize - 1) PROVE Remainder(p - 2, RingSize) = p - 2
  <2>1. CASE p = 1
    BY <1>5, <2>1
  <2>2. CASE p > 1
    BY <1>1, <1>2, <2>2 DEF Remainder
  <2> QED BY <2>1, <2>2
<1> QED BY <1>1, <1>2, <1>4, <1>6, <1>7 DEF Remainder

\* set_plot_scale: nothing happens, or the scale is added after the pointer.
LEMMA SetScale ==
  ASSUME ScaleInv, NEW s \in Range2, set_plot_scale(s)
  PROVE  \/ UNCHANGED <<scale, ring>>
         \/ /\ Proper(s) /\ scale' = s
            /\ zl_ptr' = IF zl_ptr = RingSize - 1 THEN 0 ELSE zl_ptr + 1
            /\ zcount' = IF zcount + 1 < RingSize THEN zcount + 1 ELSE RingSize
            /\ zoom_list' = [zoom_list EXCEPT ![zl_ptr'] = s]
<1>1. Remainder(zl_ptr + 1, RingSize) = IF zl_ptr = RingSize - 1 THEN 0 ELSE zl_ptr + 1
  BY RemainderFacts DEF ScaleInv, ScaleTypeOK
<1>2. CASE Proper(s)
  BY <1>1, <1>2 DEF set_plot_scale, SetPlotScaleAt, Accepted, AtMost
<1>3. CASE ~Proper(s)
  BY <1>3 DEF set_plot_scale, SetPlotScaleAt, Accepted, Refuse, ring
<1> QED BY <1>2, <1>3

\* ... which keeps the invariant.
LEMMA SetScaleKeepsInv ==
  ASSUME ScaleInv, ~scaleFault, NEW s \in Range2, set_plot_scale(s),
         zoom_anchor' \in BOOLEAN, scaleFault' = scaleFault
  PROVE  ScaleInv'
<1> USE RemainderFacts
<1>1. CASE UNCHANGED <<scale, ring>>
  BY <1>1 DEF ring, ScaleInv, ScaleTypeOK, ScalesIncrease, RingInv, RingFull
<1>2. CASE /\ Proper(s) /\ scale' = s
           /\ zl_ptr' = IF zl_ptr = RingSize - 1 THEN 0 ELSE zl_ptr + 1
           /\ zcount' = IF zcount + 1 < RingSize THEN zcount + 1 ELSE RingSize
           /\ zoom_list' = [zoom_list EXCEPT ![zl_ptr'] = s]
  <2>1. ScaleTypeOK'
    BY <1>2 DEF ScaleInv, ScaleTypeOK
  <2>2. \A i \in 0..(RingSize - 1) : zoom_list'[i] = IF i = zl_ptr' THEN s ELSE zoom_list[i]
    BY <1>2, <2>1 DEF ScaleInv, ScaleTypeOK
  <2>3. ScalesIncrease'
    <3>1. ASSUME NEW i \in 0..zl_ptr' PROVE Proper(zoom_list'[i])
      <4>1. i \in 0..(RingSize - 1)
        BY <2>1 DEF ScaleTypeOK
      <4>2. i # zl_ptr' => i \in 0..zl_ptr
        BY <1>2 DEF ScaleInv, ScaleTypeOK
      <4> QED BY <1>2, <2>2, <4>1, <4>2 DEF ScaleInv, ScalesIncrease
    <3> QED BY <1>2, <3>1 DEF ScalesIncrease
  <2>4. RingInv'
    <3>1. CASE RingFull
      BY <1>2, <2>2, <3>1, ProperFacts DEF RingInv, RingFull
    <3>2. CASE zcount = zl_ptr /\ zl_ptr < RingSize - 1
      BY <1>2, <3>2 DEF RingInv, ScaleInv, ScaleTypeOK
    <3>3. CASE zl_ptr = RingSize - 1
      <4>1. RingFull
        BY <3>3, ProperFacts DEF ScaleInv, ScaleTypeOK, ScalesIncrease, RingFull
      <4> QED BY <3>1, <4>1
    <3> QED BY <3>1, <3>2, <3>3 DEF ScaleInv, RingInv, ScaleTypeOK
  <2> QED BY <2>1, <2>3, <2>4 DEF ScaleInv
<1> QED BY <1>1, <1>2, SetScale

\* UnZoom goes one entry back, and leaves the ring from its first one.
LEMMA UnZoomIs ==
  ASSUME ScaleInv, UnZoom
  PROVE  /\ zoom_anchor' = zoom_anchor
         /\ \/ zl_ptr = 0 /\ scaleFault' = TRUE /\ UNCHANGED <<scale, ring>>
            \/ /\ zl_ptr > 0 /\ zl_ptr' = zl_ptr - 1
               /\ zcount > 0 /\ zcount' = zcount - 1
               /\ scale' = zoom_list[zl_ptr - 1] /\ zoom_list' = zoom_list
               /\ scaleFault' = scaleFault
<1> DEFINE z == Remainder(zl_ptr - 1, RingSize)
<1>1. z = zl_ptr - 1 /\ zl_ptr \in 0..(RingSize - 1)
  BY RemainderFacts DEF ScaleInv, ScaleTypeOK
<1>2. CASE zl_ptr = 0
  BY <1>1, <1>2 DEF UnZoom
<1>3. CASE zl_ptr > 0
  <2>1. /\ SetPlotScaleAt(zoom_list[z], Remainder(zl_ptr - 2, RingSize), zcount - 2)
        /\ scaleFault' = scaleFault /\ zoom_anchor' = zoom_anchor
    BY <1>1, <1>3 DEF UnZoom, StepsBack
  <2>2. Remainder(zl_ptr - 2, RingSize) = zl_ptr - 2
    BY <1>1, <1>3, RemainderFacts
  <2>3. Remainder(zl_ptr - 2 + 1, RingSize) = zl_ptr - 1
    <3>1. zl_ptr - 2 + 1 = zl_ptr - 1
      BY <1>1
    <3> QED BY <1>1, <3>1
  <2>4. Accepted(zoom_list[z])
    BY <1>1, <1>3 DEF ScaleInv, ScalesIncrease, Accepted
  <2>5. /\ zcount' = AtMost(zcount - 2 + 1, RingSize)
        /\ zl_ptr' = zl_ptr - 1
        /\ zoom_list' = [zoom_list EXCEPT ![zl_ptr - 1] = zoom_list[z]]
        /\ scale' = zoom_list[z]
    BY <2>1, <2>2, <2>3, <2>4 DEF SetPlotScaleAt
  <2>6. zcount \in 0..RingSize /\ zcount > 0
    BY DEF ScaleInv, ScaleTypeOK, UnZoom
  <2>7. zcount' = zcount - 1
    BY <2>5, <2>6, RemainderFacts DEF AtMost
  <2>8. zoom_list' = zoom_list
    BY <1>1, <1>3, <2>5 DEF ScaleInv, ScaleTypeOK
  <2> QED BY <1>1, <1>3, <2>1, <2>5, <2>6, <2>7, <2>8
<1>4. zl_ptr = 0 \/ zl_ptr > 0
  BY <1>1, RemainderFacts
<1> QED BY <1>2, <1>3, <1>4, Zenon

\* UnZoom keeps the invariant; it can only leave a ring that is full.
LEMMA UnZoomKeepsInv ==
  ASSUME ScaleInv, ~scaleFault, UnZoom
  PROVE  ScaleInv'
<1>1. CASE zl_ptr = 0 /\ scaleFault' = TRUE /\ UNCHANGED <<scale, ring>>
  <2>1. zcount > 0
    BY DEF UnZoom
  <2>2. RingFull
    BY <1>1, <2>1 DEF ScaleInv, RingInv
  <2> QED BY <1>1, <2>2, UnZoomIs DEF ring, ScaleInv, ScaleTypeOK, ScalesIncrease, RingInv, RingFull
<1>2. CASE /\ zl_ptr > 0 /\ zl_ptr' = zl_ptr - 1
           /\ zcount > 0 /\ zcount' = zcount - 1
           /\ scale' = zoom_list[zl_ptr - 1] /\ zoom_list' = zoom_list
           /\ scaleFault' = scaleFault
  <2>4. zl_ptr - 1 \in 0..(RingSize - 1) /\ zcount - 1 \in 0..RingSize
    BY <1>2, RemainderFacts DEF ScaleInv, ScaleTypeOK
  <2>5. zoom_list[zl_ptr - 1] \in Range2
    BY <2>4 DEF ScaleInv, ScaleTypeOK
  <2>6. scale' \in Range2 /\ zl_ptr' \in 0..(RingSize - 1) /\ zcount' \in 0..RingSize
    BY <1>2, <2>4, <2>5
  <2>7. zoom_anchor' = zoom_anchor
    BY UnZoomIs
  <2>1. ScaleTypeOK'
    BY <1>2, <2>6, <2>7 DEF ScaleInv, ScaleTypeOK
  <2>2. ScalesIncrease'
    BY <1>2, RemainderFacts DEF ScaleInv, ScaleTypeOK, ScalesIncrease
  <2>3. RingInv'
    BY <1>2, RemainderFacts DEF ScaleInv, ScaleTypeOK, RingInv, RingFull
  <2> QED BY <2>1, <2>2, <2>3 DEF ScaleInv
<1> QED BY <1>1, <1>2, UnZoomIs

\* The scales that the other handlers pass to set_plot_scale are ranges.
LEMMA HandlersSetScale ==
  /\ \A s \in Range2 : Rescale(s) =>
        set_plot_scale(s) /\ zoom_anchor' = zoom_anchor /\ scaleFault' = scaleFault
  /\ \A s \in Range2 : ZoomRelease(s) =>
        set_plot_scale(s) /\ zoom_anchor' = FALSE /\ scaleFault' = scaleFault
  /\ \A f \in Coord : scale \in Range2 /\ GetScale(f) =>
        /\ \E s \in Range2 : set_plot_scale(s)
        /\ zoom_anchor' = zoom_anchor /\ scaleFault' = scaleFault
<1>1. ASSUME NEW f \in Coord, scale \in Range2, GetScale(f)
      PROVE  /\ \E s \in Range2 : set_plot_scale(s)
             /\ zoom_anchor' = zoom_anchor /\ scaleFault' = scaleFault
  <2>1. [scale EXCEPT !.lo = f] \in Range2 /\ [scale EXCEPT !.hi = f] \in Range2
    BY <1>1 DEF Range2
  <2> QED BY <1>1, <2>1 DEF GetScale
<1> QED BY <1>1 DEF Rescale, ZoomRelease

\* An arrow moves one bound away from the other.
LEMMA ShiftKeepsProper ==
  ASSUME ScaleInv, ShiftScale
  PROVE  scale' \in Range2 /\ Proper(scale') /\ UNCHANGED <<ring, zoom_anchor, scaleFault>>
<1> DEFINE width == scale.hi - scale.lo
<1>1. scale \in Range2 /\ Proper(scale) /\ scale.lo \in Int /\ scale.hi \in Int
  BY ProperFacts DEF ScaleInv, ScaleTypeOK, ScalesIncrease
<1>2. width \in Int /\ width > 0
  BY <1>1 DEF Proper
<1>3. CASE scale.hi + width \in Coord /\ scale' = [scale EXCEPT !.hi = @ + width]
  BY <1>1, <1>2, <1>3 DEF Range2, Proper, ShiftScale
<1>4. CASE scale.lo - width \in Coord /\ scale' = [scale EXCEPT !.lo = @ - width]
  BY <1>1, <1>2, <1>4 DEF Range2, Proper, ShiftScale
<1> QED BY <1>3, <1>4 DEF ShiftScale

\* Initially the first entry is the scale shown.
LEMMA ScaleInitInv == ScaleInit => ScaleInv
<1> SUFFICES ASSUME ScaleInit PROVE ScaleInv
  OBVIOUS
<1>1. scale \in Range2 /\ Proper(scale)
  BY LimitAssumption DEF ScaleInit, Range2, Coord, Proper
<1>5. zoom_list \in [0..(RingSize - 1) -> Range2]
  BY <1>1, ProperFacts DEF ScaleInit
<1>6. zl_ptr \in 0..(RingSize - 1) /\ zcount \in 0..RingSize
  BY RemainderFacts DEF ScaleInit
<1>7. zoom_anchor \in BOOLEAN /\ scaleFault \in BOOLEAN
  BY DEF ScaleInit
<1>2. ScaleTypeOK
  BY <1>1, <1>5, <1>6, <1>7 DEF ScaleTypeOK
<1>3. ScalesIncrease
  BY <1>1, RemainderFacts DEF ScaleInit, ScalesIncrease
<1>4. RingInv
  BY DEF ScaleInit, RingInv
<1> QED BY <1>2, <1>3, <1>4 DEF ScaleInv

\* Every step keeps the invariant.
LEMMA ScaleStepInv == ScaleInv /\ [ScaleNext]_scaleVars => ScaleInv'
<1> SUFFICES ASSUME ScaleInv, [ScaleNext]_scaleVars PROVE ScaleInv'
  OBVIOUS
<1>0. scale \in Range2 /\ zoom_anchor \in BOOLEAN /\ scaleFault \in BOOLEAN
  BY DEF ScaleInv, ScaleTypeOK
<1>1. CASE UNCHANGED scaleVars
  BY <1>1 DEF scaleVars, ring, ScaleInv, ScaleTypeOK, ScalesIncrease, RingInv, RingFull
<1>2. CASE ScaleNext
  <2>0. ~scaleFault
    BY <1>2 DEF ScaleNext
  <2>1. ASSUME NEW s \in Range2, Rescale(s) \/ ZoomRelease(s) PROVE ScaleInv'
    BY <1>0, <2>0, <2>1, HandlersSetScale, SetScaleKeepsInv
  <2>2. ASSUME NEW f \in Coord, GetScale(f) PROVE ScaleInv'
    BY <1>0, <2>0, <2>2, HandlersSetScale, SetScaleKeepsInv
  <2>3. CASE ShiftScale
    <3>1. ScaleTypeOK' /\ ScalesIncrease'
      BY <2>3, ShiftKeepsProper DEF ring, ScaleInv, ScaleTypeOK, ScalesIncrease
    <3>2. RingInv'
      BY <2>3, ShiftKeepsProper DEF ring, ScaleInv, RingInv, RingFull
    <3> QED BY <3>1, <3>2 DEF ScaleInv
  <2>4. CASE ZoomPress
    BY <2>4 DEF ZoomPress, ring, ScaleInv, ScaleTypeOK, ScalesIncrease, RingInv, RingFull
  <2>5. CASE UnZoom
    BY <2>0, <2>5, UnZoomKeepsInv
  <2> QED BY <1>2, <2>1, <2>2, <2>3, <2>4, <2>5 DEF ScaleNext
<1> QED BY <1>1, <1>2

\* The invariant of set_plot_scale, UnZoom, GetScale, ShiftScale and zoom.
THEOREM ScaleInvHolds == ScaleSpec => []ScaleInv
  BY ScaleInitInv, ScaleStepInv, PTL DEF ScaleSpec

\* Every variable of the scale keeps its type: the pointer stays in the ring,
\* the counter within its length.
THEOREM ScaleTypes == ScaleSpec => []ScaleTypeOK
  BY ScaleInvHolds, PTL DEF ScaleInv

\* The scale and the ring hold increasing ranges only, so that the plot never
\* divides by a width of zero.
THEOREM ScalesAlwaysIncrease == ScaleSpec => []ScalesIncrease
  BY ScaleInvHolds, PTL DEF ScaleInv

\* UnZoom reads before zoom_list only when all of its entries are in use.
THEOREM RingIsSafeUntilFull == ScaleSpec => []SafeUntilFull
<1>1. ScaleInv => SafeUntilFull
  BY DEF ScaleInv, RingInv, RingFull, SafeUntilFull
<1> QED BY <1>1, ScaleInvHolds, PTL

-----------------------------------------------------------------------------
(* The ring as a history *)

Past(list, p) == [i \in 1..(p + 1) |-> list[i - 1]]
ProperUpTo(list, p) ==
  list \in [0..(RingSize - 1) -> Range2] /\ \A i \in 0..p : Proper(list[i])

\* The refinement mapping: the entries up to the pointer are scales in order.
LEMMA PastFacts ==
  ASSUME NEW p \in 0..(RingSize - 1), NEW list, ProperUpTo(list, p)
  PROVE  /\ Past(list, p) \in Seq(Scale) /\ Len(Past(list, p)) = p + 1
         /\ \A i \in 1..(p + 1) : Past(list, p)[i] = list[i - 1] /\ list[i - 1] \in Scale
<1>1. p \in Nat /\ p + 1 <= RingSize /\ RingSize \in Nat
  BY RemainderFacts
<1>2. ASSUME NEW i \in 1..(p + 1) PROVE list[i - 1] \in Scale
  <2>1. i - 1 \in 0..p /\ i - 1 \in 0..(RingSize - 1)
    BY <1>1
  <2> QED BY <2>1, ProperFacts DEF ProperUpTo
<1> QED BY <1>1, <1>2 DEF Past

Following(p) == IF p = RingSize - 1 THEN 0 ELSE p + 1

\* A scale written after the pointer is put after the others, or, in the
\* first entry again, instead of them.
LEMMA WriteIsAppend ==
  ASSUME NEW p \in 0..(RingSize - 1), NEW list, ProperUpTo(list, p), NEW s \in Scale,
         NEW list2, list2 = [list EXCEPT ![Following(p)] = s]
  PROVE  \E k \in 1..(Len(Past(list, p)) + 1) :
            Past(list2, Following(p)) = Append(SubSeq(Past(list, p), k, Len(Past(list, p))), s)
<1> DEFINE old == Past(list, p)
           n == p + 1
           q == Following(p)
<1>0. q = IF p = RingSize - 1 THEN 0 ELSE p + 1
  BY DEF Following
<1> HIDE DEF q
<1>1. /\ old \in Seq(Scale) /\ Len(old) = n /\ n \in Nat /\ n > 0
      /\ \A i \in 1..n : old[i] = list[i - 1]
  BY PastFacts, RemainderFacts
<1>2. DOMAIN list = 0..(RingSize - 1) /\ q \in 0..(RingSize - 1)
  BY <1>0, RemainderFacts DEF ProperUpTo
<1>3. \A i \in 0..(RingSize - 1) : list2[i] = IF i = q THEN s ELSE list[i]
  BY <1>2 DEF ProperUpTo, q
<1> HIDE DEF old
<1>4. CASE p = RingSize - 1
  <2>1. SubSeq(old, n + 1, n) = <<>>
    BY <1>1
  <2>2. Append(<<>>, s) \in Seq(Scale) /\ Len(Append(<<>>, s)) = 1 /\ Append(<<>>, s)[1] = s
    <3>1. <<>> \in Seq(Scale) /\ Len(<<>>) = 0
      BY EmptySeq
    <3> QED BY <3>1, AppendProperties
  <2>3. q = 0 /\ list2[0] = s
    BY <1>0, <1>2, <1>3, <1>4
  <2>4. Past(list2, q) \in Seq(Scale) /\ Len(Past(list2, q)) = 1 /\ Past(list2, q)[1] = s
    BY <2>3 DEF Past
  <2>5. Past(list2, q) = Append(<<>>, s)
    BY <2>2, <2>4, SeqEqual
  <2>6. n + 1 \in 1..(n + 1)
    BY <1>1
  <2> QED BY <1>1, <2>1, <2>5, <2>6 DEF old, q
<1>5. CASE p # RingSize - 1
  <2>1. q = n /\ n \in 0..(RingSize - 1)
    BY <1>0, <1>2, <1>5
  <2>2. SubSeq(old, 1, n) = old
    BY <1>1
  <2>3. /\ Append(old, s) \in Seq(Scale) /\ Len(Append(old, s)) = n + 1
        /\ \A i \in 1..n : Append(old, s)[i] = old[i]
        /\ Append(old, s)[n + 1] = s
    BY <1>1, AppendProperties
  <2>4. \A i \in 1..(n + 1) : list2[i - 1] = IF i = n + 1 THEN s ELSE old[i]
    BY <1>1, <1>3, <2>1, RemainderFacts
  <2>5. /\ Past(list2, q) \in Seq(Scale) /\ Len(Past(list2, q)) = n + 1
        /\ \A i \in 1..(n + 1) : Past(list2, q)[i] = list2[i - 1]
    <3>1. ProperUpTo(list2, q)
      <4>1. s \in Range2 /\ Proper(s)
        BY DEF Scale
      <4>2. list2 \in [0..(RingSize - 1) -> Range2]
        BY <4>1, <1>2 DEF ProperUpTo
      <4>3. ASSUME NEW i \in 0..q PROVE Proper(list2[i])
        <5>1. i \in 0..(RingSize - 1) /\ (i # q => i \in 0..p)
          BY <2>1, RemainderFacts
        <5> QED BY <5>1, <1>3, <4>1 DEF ProperUpTo
      <4> QED BY <4>2, <4>3 DEF ProperUpTo
    <3>2. /\ Past(list2, q) \in Seq(Scale) /\ Len(Past(list2, q)) = q + 1
          /\ \A i \in 1..(q + 1) : Past(list2, q)[i] = list2[i - 1]
      BY <1>2, <3>1, PastFacts, ZenonT(30)
    <3> QED BY <2>1, <3>2
  <2>6. Past(list2, q) = Append(old, s)
    <3>1. \A i \in 1..(n + 1) : Past(list2, q)[i] = Append(old, s)[i]
      <4> HIDE DEF n
      <4>1. \A i \in 1..(n + 1) : i # n + 1 => i \in 1..n
        BY <1>1
      <4> QED BY <2>3, <2>4, <2>5, <4>1
    <3> QED BY <2>3, <2>5, <3>1, SeqEqual
  <2>7. 1 \in 1..(n + 1)
    BY <1>1
  <2> QED BY <1>1, <2>2, <2>6, <2>7 DEF old, q
<1> QED BY <1>4, <1>5

\* The pointer one entry back takes the last scale off.
LEMMA BackIsPrefix ==
  ASSUME NEW p \in 1..(RingSize - 1), NEW list, ProperUpTo(list, p)
  PROVE  /\ Len(Past(list, p)) > 1
         /\ Past(list, p - 1) = SubSeq(Past(list, p), 1, Len(Past(list, p)) - 1)
         /\ list[p - 1] = Past(list, p)[Len(Past(list, p)) - 1]
<1> DEFINE old == Past(list, p)
<1>1. p \in 0..(RingSize - 1) /\ p \in Nat /\ p >= 1
  BY RemainderFacts
<1>2. /\ old \in Seq(Scale) /\ Len(old) = p + 1
      /\ \A i \in 1..(p + 1) : old[i] = list[i - 1]
  BY <1>1, PastFacts
<1> HIDE DEF old
<1>3. SubSeq(old, 1, p) = [i \in 1..p |-> old[i]]
  BY <1>1, <1>2
<1>4. \A i \in 1..p : old[i] = list[i - 1]
  BY <1>1, <1>2
<1>5. Past(list, p - 1) = [i \in 1..p |-> list[i - 1]]
  <2>1. p - 1 + 1 = p
    BY <1>1
  <2> QED BY <2>1 DEF Past
<1>6. Past(list, p - 1) = SubSeq(old, 1, p)
  BY <1>3, <1>4, <1>5
<1>7. Len(old) - 1 = p /\ Len(old) > 1 /\ old[p] = list[p - 1]
  BY <1>1, <1>2
<1> QED BY <1>6, <1>7 DEF old

\* A scale that set_plot_scale accepts is chosen in the history.
LEMMA SetScaleChooses ==
  ASSUME ScaleInv, NEW s \in Range2, set_plot_scale(s)
  PROVE  \/ s \in Scale /\ History!Choose(s)
         \/ UNCHANGED <<scale, Past(zoom_list, zl_ptr)>>
<1>1. CASE UNCHANGED <<scale, ring>>
  BY <1>1 DEF ring
<1>2. CASE /\ Proper(s) /\ scale' = s
           /\ zl_ptr' = IF zl_ptr = RingSize - 1 THEN 0 ELSE zl_ptr + 1
           /\ zcount' = IF zcount + 1 < RingSize THEN zcount + 1 ELSE RingSize
           /\ zoom_list' = [zoom_list EXCEPT ![zl_ptr'] = s]
  <2>1. zl_ptr \in 0..(RingSize - 1) /\ ProperUpTo(zoom_list, zl_ptr) /\ s \in Scale
    BY <1>2, ProperFacts DEF ScaleInv, ScaleTypeOK, ScalesIncrease, ProperUpTo
  <2> DEFINE old == Past(zoom_list, zl_ptr)
  <2>2. \E k \in 1..(Len(old) + 1) :
           Past(zoom_list', zl_ptr') = Append(SubSeq(old, k, Len(old)), s)
    <3>1. zl_ptr' = Following(zl_ptr) /\ zoom_list' = [zoom_list EXCEPT ![Following(zl_ptr)] = s]
      BY <1>2 DEF Following
    <3>2. \E k \in 1..(Len(old) + 1) :
             Past(zoom_list', Following(zl_ptr)) = Append(SubSeq(old, k, Len(old)), s)
      BY <2>1, <3>1, WriteIsAppend, ZenonT(30)
    <3> QED BY <3>1, <3>2
  <2> QED BY <1>2, <2>1, <2>2 DEF History!Choose, Past
<1> QED BY <1>1, <1>2, SetScale

\* Initially the history is the one scale.
LEMMA HistoryInit == ScaleInit => History!Init
<1> SUFFICES ASSUME ScaleInit PROVE History!Init
  OBVIOUS
<1>1. ScaleInv
  BY ScaleInitInv
<1>2. scale \in Scale /\ zl_ptr = 0 /\ zoom_list[0] = scale
  BY <1>1, ProperFacts, RemainderFacts DEF ScaleInit, ScaleInv, ScaleTypeOK, ScalesIncrease
<1>3. <<scale>> = Past(zoom_list, zl_ptr)
  <2>1. Past(zoom_list, 0) \in Seq(Scale) /\ Len(Past(zoom_list, 0)) = 1
        /\ Past(zoom_list, 0)[1] = scale
    BY <1>2 DEF Past
  <2>2. <<scale>> \in Seq(Scale) /\ Len(<<scale>>) = 1 /\ <<scale>>[1] = scale
    BY <1>2
  <2> QED BY <1>2, <2>1, <2>2, SeqEqual
<1> QED BY <1>2, <1>3 DEF History!Init, Past

\* Every step is a choice, a shift or a step back, or shows nothing.
LEMMA HistoryStep ==
  ASSUME ScaleInv, [ScaleNext]_scaleVars
  PROVE  History!Next \/ UNCHANGED <<scale, Past(zoom_list, zl_ptr)>>
<1> DEFINE old == Past(zoom_list, zl_ptr)
<1>1. CASE UNCHANGED <<scale, ring>>
  BY <1>1 DEF ring
<1>2. ASSUME NEW s \in Range2, set_plot_scale(s)
      PROVE  History!Next \/ UNCHANGED <<scale, old>>
  BY <1>2, SetScaleChooses DEF History!Next
<1>3. CASE ShiftScale
  <2>1. scale' \in Scale /\ UNCHANGED ring
    BY <1>3, ShiftKeepsProper, ProperFacts
  <2>2. History!Shift(scale')
    BY <2>1 DEF History!Shift, ring
  <2> QED BY <2>1, <2>2 DEF History!Next
<1>4. CASE UnZoom
  <2>1. CASE zl_ptr = 0 /\ scaleFault' = TRUE /\ UNCHANGED <<scale, ring>>
    BY <1>1, <2>1
  <2>2. CASE /\ zl_ptr > 0 /\ zl_ptr' = zl_ptr - 1
             /\ scale' = zoom_list[zl_ptr - 1] /\ zoom_list' = zoom_list
    <3>1. zl_ptr \in 1..(RingSize - 1) /\ ProperUpTo(zoom_list, zl_ptr)
      BY <2>2, RemainderFacts DEF ScaleInv, ScaleTypeOK, ScalesIncrease, ProperUpTo
    <3>2. /\ Len(old) > 1
          /\ Past(zoom_list, zl_ptr - 1) = SubSeq(old, 1, Len(old) - 1)
          /\ zoom_list[zl_ptr - 1] = old[Len(old) - 1]
      BY <3>1, BackIsPrefix
    <3>3. Past(zoom_list', zl_ptr') = SubSeq(old, 1, Len(old) - 1) /\ scale' = old[Len(old) - 1]
      BY <2>2, <3>2
    <3>4. History!GoBack
      BY <3>2, <3>3 DEF History!GoBack, Past
    <3> QED BY <3>4 DEF History!Next
  <2> QED BY <1>4, <2>1, <2>2, UnZoomIs
<1>5. CASE UNCHANGED scaleVars
  BY <1>1, <1>5 DEF scaleVars, ring
<1>6. CASE ScaleNext
  <2>1. ASSUME NEW s \in Range2, Rescale(s) \/ ZoomRelease(s)
        PROVE  History!Next \/ UNCHANGED <<scale, old>>
    BY <1>2, <2>1, HandlersSetScale
  <2>2. ASSUME NEW f \in Coord, GetScale(f)
        PROVE  History!Next \/ UNCHANGED <<scale, old>>
    <3>1. scale \in Range2
      BY DEF ScaleInv, ScaleTypeOK
    <3> QED BY <1>2, <2>2, <3>1, HandlersSetScale
  <2>3. CASE ZoomPress
    BY <1>1, <2>3 DEF ZoomPress, ring
  <2> QED BY <1>3, <1>4, <1>6, <2>1, <2>2, <2>3 DEF ScaleNext
<1> QED BY <1>5, <1>6

\* The ring implements the history, for a ring and an axis of any length: the
\* scale that UnZoom shows is always the one chosen before.
THEOREM RingIsHistory == ScaleSpec => KeepsHistory
<1>1. ScaleInv /\ [ScaleNext]_scaleVars =>
        [History!Next]_<<scale, [i \in 1..(zl_ptr + 1) |-> zoom_list[i - 1]]>>
  BY HistoryStep DEF Past
<1> QED BY <1>1, HistoryInit, ScaleInvHolds, PTL DEF ScaleSpec, KeepsHistory, History!Spec

-----------------------------------------------------------------------------
(* The colour buttons, for any number of colours: types, the lit button and *)
(* the hidden colours.  The two invariants hold each other up: a handler    *)
(* that draws a block draws the active one, and the active one is not       *)
(* hidden because its button is lit.                                        *)

ButtonsInv == ButtonsTypeOK /\ LitIsActive /\ HiddenStaysOff

\* The colours are buttons and the two special values are neither.
LEMMA ColorFacts ==
  /\ Color \subseteq Button
  /\ Extended \in Button /\ Extended \notin Color
  /\ NoColor \notin Button
  /\ \A b \in Color : NextColor(b) \in Color
  BY NBlocksAssumption DEF Color, Button, Extended, NoColor, NextColor

\* Initially no button is lit and no colour active.
LEMMA ButtonsInitInv == ButtonsInit => ButtonsInv
<1> SUFFICES ASSUME ButtonsInit PROVE ButtonsInv
  OBVIOUS
<1>1. ButtonsTypeOK
  BY DEF ButtonsInit, ButtonsTypeOK
<1>2. LitIsActive /\ HiddenStaysOff
  BY ColorFacts DEF ButtonsInit, LitIsActive, HiddenStaysOff, Off, Lit, Hidden
<1> QED BY <1>1, <1>2 DEF ButtonsInv

\* A click on a colour's button lights it, hides it or leaves it.
LEMMA ClickKeepsInv ==
  ASSUME ButtonsInv, NEW b \in Button, NEW fast \in BOOLEAN, BlockButtonCallback(b, fast)
  PROVE  ButtonsInv'
<1> USE ColorFacts DEF ButtonsInv
<1>1. /\ DimOther(b) \in [Button -> {Off, Lit, Hidden}]
      /\ \A c \in Button : c # b => DimOther(b)[c] = IF c = current THEN Off ELSE lit[c]
      /\ DimOther(b)[b] = lit[b]
  BY DEF ButtonsTypeOK, DimOther, Off, Lit, Hidden
<1>2. ButtonsTypeOK'
  BY <1>1 DEF ButtonsTypeOK, BlockButtonCallback, SetBlockState, Deactivated, Off, Lit, Hidden, NoBlock
<1>3. LitIsActive'
  BY <1>1 DEF ButtonsTypeOK, LitIsActive, BlockButtonCallback, Deactivated, Off, Lit, Hidden
<1>4. HiddenStaysOff'
  BY <1>1 DEF ButtonsTypeOK, HiddenStaysOff, LitIsActive, BlockButtonCallback, SetBlockState,
              Off, Lit, Hidden, NoBlock
<1> QED BY <1>2, <1>3, <1>4

\* A rectangle in the magnifier draws the active colour and may pass the
\* light on to the next.
LEMMA MovementKeepsInv ==
  ASSUME ButtonsInv, BlockMovement
  PROVE  ButtonsInv'
<1> USE ColorFacts DEF ButtonsInv
<1>0. /\ current \in Color /\ current \in Button
      /\ UNCHANGED <<switch, quick, enabled, cycle, elsewhere>>
  BY DEF BlockMovement
<1>1. /\ state' \in [Button -> {NoBlock, 0, 1, 2}]
      /\ \A c \in Button : c # current => state'[c] = state[c]
      /\ state[current] # NoBlock => state' = state
  BY <1>0 DEF BlockMovement, ButtonsTypeOK, SetBlockState, NoBlock
<1>2. content' \in [Button -> {"none", "pixels", "data"}]
  BY <1>0 DEF BlockMovement, ButtonsTypeOK
<1>3. /\ lit' \in [Button -> {Off, Lit, Hidden}] /\ current' \in Button
      /\ ~elsewhere => \A c \in Button : lit'[c] = Lit <=> current' = c
      /\ \A c \in Button : lit'[c] = Hidden => lit[c] = Hidden
  <2>1. CASE ~cycle
    BY <1>0, <2>1 DEF BlockMovement, ButtonsTypeOK, LitIsActive
  <2>2. CASE cycle
    BY <1>0, <2>2 DEF BlockMovement, ButtonsTypeOK, LitIsActive, LitAfterCycle, Off, Lit, Hidden
  <2> QED BY <2>1, <2>2
<1>4. HiddenStaysOff'
  BY <1>0, <1>1, <1>3 DEF HiddenStaysOff, LitIsActive, ButtonsTypeOK, Lit, Hidden, NoBlock
<1> QED BY <1>0, <1>1, <1>2, <1>3, <1>4 DEF ButtonsTypeOK, LitIsActive, BlockMovement

\* The routines that fill a block with data make it visible; it is the active
\* one or the extended block, which no double click hides from the colours.
LEMMA DataKeepsInv ==
  ASSUME ButtonsInv, ReadY \/ BlockAverage \/ CopyExtendedBlock \/ DeleteAll
  PROVE  ButtonsInv'
<1> USE ColorFacts DEF ButtonsInv
<1>1. CASE ReadY
  BY <1>1 DEF ReadY, SetBlockData, SetBlockState, ButtonsTypeOK, LitIsActive, HiddenStaysOff,
              Lit, Hidden, NoColor
<1>2. CASE BlockAverage
  BY <1>2 DEF BlockAverage, SetBlockData, SetBlockState, ButtonsTypeOK, LitIsActive, HiddenStaysOff
<1>3. CASE CopyExtendedBlock
  BY <1>3 DEF CopyExtendedBlock, SetBlockState, ButtonsTypeOK, LitIsActive, HiddenStaysOff,
              Lit, Hidden
<1>4. CASE DeleteAll
  BY <1>4 DEF DeleteAll, ButtonsTypeOK, LitIsActive, HiddenStaysOff
<1> QED BY <1>1, <1>2, <1>3, <1>4

\* The rose window and a restored session only have types to keep: they are
\* what the invariants except.
LEMMA ElsewhereKeepsInv ==
  ASSUME ButtonsInv,
         \/ \E b \in Color, button \in 1..3 : switches(b, button)
         \/ \E given \in SUBSET Button : RestoreBlocks(given)
  PROVE  ButtonsInv'
<1> USE ColorFacts DEF ButtonsInv
<1>1. ASSUME NEW b \in Color, NEW button \in 1..3, switches(b, button)
      PROVE  ButtonsInv'
  <2>1. ASSUME NEW st \in [Button -> {NoBlock, 0, 1, 2}], NEW sw \in [Color -> {0, 1, 2}],
               OneOn(b, st, sw)
        PROVE  state' \in [Button -> {NoBlock, 0, 1, 2}] /\ switch' \in [Color -> {0, 1, 2}]
    BY <2>1 DEF OneOn
  <2>2. \A i \in {0, 1, 2} : /\ SetBlockState(b, i) \in [Button -> {NoBlock, 0, 1, 2}]
                             /\ [switch EXCEPT ![b] = i] \in [Color -> {0, 1, 2}]
    BY DEF SetBlockState, ButtonsTypeOK
  <2>3. state' \in [Button -> {NoBlock, 0, 1, 2}] /\ switch' \in [Color -> {0, 1, 2}]
    <3>1. CASE button = 1
      <4> DEFINE i == IF GetBlockState(b) = 1 THEN 0 ELSE 1
      <4>1. i \in {0, 1, 2} /\ OneOn(b, SetBlockState(b, i), [switch EXCEPT ![b] = i])
        BY <1>1, <3>1 DEF switches
      <4> HIDE DEF i
      <4> QED BY <4>1, <2>1, <2>2
    <3>2. CASE button = 2
      <4> DEFINE i == IF switch[b] = 2 THEN 0 ELSE 2
      <4>1. i \in {0, 1, 2} /\ OneOn(b, SetBlockState(b, i), [switch EXCEPT ![b] = i])
        BY <1>1, <3>2 DEF switches
      <4> HIDE DEF i
      <4> QED BY <4>1, <2>1, <2>2
    <3>3. CASE button = 3
      BY <1>1, <3>3, <2>1 DEF switches, ButtonsTypeOK
    <3> QED BY <3>1, <3>2, <3>3
  <2>4. current' \in Button \cup {NoColor} /\ elsewhere' = TRUE
        /\ UNCHANGED <<lit, content, quick, enabled, cycle>>
    BY <1>1 DEF switches, ButtonsTypeOK
  <2> QED BY <2>3, <2>4 DEF ButtonsTypeOK, LitIsActive, HiddenStaysOff
<1>2. ASSUME NEW given \in SUBSET Button, RestoreBlocks(given)
      PROVE  ButtonsInv'
  BY <1>2 DEF RestoreBlocks, ButtonsTypeOK, LitIsActive, HiddenStaysOff
<1> QED BY <1>1, <1>2

\* Every step keeps the invariant.
LEMMA ButtonsStepInv == ButtonsInv /\ [ButtonsNext]_buttonVars => ButtonsInv'
<1> SUFFICES ASSUME ButtonsInv, [ButtonsNext]_buttonVars PROVE ButtonsInv'
  OBVIOUS
<1>1. CASE \E b \in Button, fast \in BOOLEAN : BlockButtonCallback(b, fast)
  BY <1>1, ClickKeepsInv
<1>2. CASE TimePasses \/ EnableBlock \/ Toggle_Cycle \/ UNCHANGED buttonVars
  BY <1>2 DEF TimePasses, EnableBlock, Toggle_Cycle, buttonVars, ButtonsInv, ButtonsTypeOK,
              LitIsActive, HiddenStaysOff
<1>3. CASE BlockMovement
  BY <1>3, MovementKeepsInv
<1>4. CASE ReadY \/ BlockAverage \/ CopyExtendedBlock \/ DeleteAll
  BY <1>4, DataKeepsInv
<1>5. CASE \/ \E b \in Color, button \in 1..3 : switches(b, button)
           \/ \E given \in SUBSET Button : RestoreBlocks(given)
  BY <1>5, ElsewhereKeepsInv
<1> QED BY <1>1, <1>2, <1>3, <1>4, <1>5 DEF ButtonsNext

\* The invariant of the colour buttons (BlockButtonCallback, DoAutoCycle,
\* SetBlockState and the callers of them in block.c, plot.c and rose.c).
THEOREM ButtonsInvHolds == ButtonsSpec => []ButtonsInv
  BY ButtonsInitInv, ButtonsStepInv, PTL DEF ButtonsSpec

\* Every variable of the buttons keeps its type.
THEOREM ButtonsTypes == ButtonsSpec => []ButtonsTypeOK
  BY ButtonsInvHolds, PTL DEF ButtonsInv

\* The lit button is the active colour's while only the plot window and the
\* magnifier choose it, for any number of colours.
THEOREM LitButtonIsActive == ButtonsSpec => []LitIsActive
  BY ButtonsInvHolds, PTL DEF ButtonsInv

\* A hidden colour is drawn by none of the handlers of the plot window, for
\* any number of colours.
THEOREM HiddenColorsStayOff == ButtonsSpec => []HiddenStaysOff
  BY ButtonsInvHolds, PTL DEF ButtonsInv

-----------------------------------------------------------------------------
(* The plot's line of the cube, for any number of slots, files and lines.   *)
(*                                                                          *)
(* SpectrumIsRight speaks of one answer of get_block_data; what makes the   *)
(* next one right is what the three caches hold meanwhile (CacheOK).  No    *)
(* line is freed without another unless a file fails to open (NeverFreed).  *)

NoCubeYet == CubeImage = NoCube => CubeImageFd = NULL /\ lr_y = NoLine /\ ~changed

CacheOK ==
  ~changed /\ ~failed =>
    /\ CubeImage # NoCube => file[CubeImage] # NULL
    /\ CubeImageFd # NULL => CubeImageFd = file[CubeImage]
    /\ lr_y # NoLine => idata = <<file[CubeImage], file[CubeImage], lr_y>>

NeverFreed == ~failed => idata # Freed

CubeInv == CubeTypeOK /\ NoCubeYet /\ CacheOK /\ NeverFreed /\ SpectrumIsRight

\* What tells the special values from the others.
LEMMA Values ==
  /\ NoCube \notin Slot /\ NoLine \notin Line
  /\ NULL \notin Files /\ NULL \notin Spectrum
  /\ Freed \notin Spectrum /\ NULL # Freed
<1>1. NoCube \notin Slot /\ NoLine \notin Line
  BY NIMAGEAssumption, NLinesAssumption DEF NoCube, NoLine, Slot, Line
<1>2. Spectrum \subseteq Files \X Files \X (0..NLines)
  BY NLinesAssumption DEF Spectrum, Line
<1>3. Freed \notin Spectrum
  BY DEF Freed, Spectrum
<1>4. NULL # Freed
  BY NULLAssumption DEF Freed
<1> QED BY <1>1, <1>2, <1>3, <1>4, NULLAssumption

\* No cube is chosen at first and nothing is kept.
LEMMA CubeInitInv == CubeInit => CubeInv
<1> SUFFICES ASSUME CubeInit PROVE CubeInv
  OBVIOUS
<1>1. CubeTypeOK
  BY DEF CubeInit, CubeTypeOK
<1>2. NoCubeYet /\ CacheOK /\ SpectrumIsRight
  BY DEF CubeInit, NoCubeYet, CacheOK, SpectrumIsRight, FromSelectedCube
<1>3. NeverFreed
  BY Values DEF CubeInit, NeverFreed
<1> QED BY <1>1, <1>2, <1>3 DEF CubeInv

\* A key in the cube's box closes the file and forgets the line; the cube's
\* slot is as it was chosen again.
LEMMA KeyKeepsInv ==
  ASSUME CubeInv, ~fault, NEW i \in Slot, CubeKey(i)
  PROVE  CubeInv'
<1> USE Values DEF CubeInv
<1>0. /\ lr_y' = NoLine /\ spectrum' = NULL
      /\ UNCHANGED <<file, onDisk, idata, asked, fault, failed>>
  BY DEF CubeKey
<1>1. CASE file[i] = NULL
  <2>1. UNCHANGED <<CubeImage, CubeImageFd, changed>>
    BY <1>1 DEF CubeKey, SetCubeImage, CubeTypeOK
  <2>2. CubeTypeOK'
    BY <1>0, <2>1 DEF CubeTypeOK
  <2>4. NoCubeYet' /\ NeverFreed'
    BY <1>0, <2>1 DEF NoCubeYet, NeverFreed
  <2>3. CacheOK' /\ SpectrumIsRight'
    BY <1>0, <2>1 DEF CacheOK, SpectrumIsRight, FromSelectedCube
  <2> QED BY <2>2, <2>3, <2>4
<1>2. CASE file[i] # NULL
  <2>1. CubeImage' = i /\ CubeImageFd' = NULL /\ changed' = FALSE
    BY <1>2 DEF CubeKey, SetCubeImage, Closed, CubeTypeOK
  <2>2. CubeTypeOK'
    BY <1>0, <2>1 DEF CubeTypeOK
  <2>4. NoCubeYet' /\ NeverFreed'
    BY <1>0, <2>1 DEF NoCubeYet, NeverFreed
  <2>3. CacheOK'
    BY <1>0, <1>2, <2>1 DEF CacheOK
  <2>5. SpectrumIsRight'
    BY <1>0 DEF SpectrumIsRight, FromSelectedCube
  <2> QED BY <2>2, <2>3, <2>4, <2>5
<1> QED BY <1>1, <1>2

\* A line is answered from the cache or read, and the file may not open.
LEMMA ReadKeepsInv ==
  ASSUME CubeInv, ~fault, NEW y \in Line, get_block_data(y)
  PROVE  CubeInv'
<1> USE Values DEF CubeInv
<1> DEFINE f == file[CubeImage]
<1>0. /\ CubeImage \in Slot /\ CubeImage # NoCube
      /\ f \in Files \cup {NULL}
      /\ UNCHANGED <<file, onDisk, CubeImage, changed>>
      /\ asked' = y
  BY DEF get_block_data, CubeTypeOK
<1>1. CASE f = NULL
  <2>1. fault' = TRUE /\ spectrum' = NULL /\ UNCHANGED <<CubeImageFd, idata, lr_y, failed>>
    BY <1>1 DEF get_block_data
  <2>2. CubeTypeOK'
    BY <1>0, <2>1 DEF CubeTypeOK
  <2>3. NoCubeYet' /\ CacheOK' /\ NeverFreed'
    BY <1>0, <2>1 DEF NoCubeYet, CacheOK, NeverFreed
  <2>4. SpectrumIsRight'
    BY <1>0, <1>1, <2>1 DEF CacheOK, SpectrumIsRight
  <2> QED BY <2>2, <2>3, <2>4
<1>2. CASE f # NULL /\ y = lr_y
  <2>1. /\ fault' = (idata = Freed)
        /\ spectrum' = IF idata = Freed THEN NULL ELSE idata
        /\ UNCHANGED <<CubeImageFd, idata, lr_y, failed>>
    BY <1>2 DEF get_block_data
  <2>2. CubeTypeOK'
    BY <1>0, <2>1 DEF CubeTypeOK
  <2>3. NoCubeYet' /\ CacheOK' /\ NeverFreed'
    BY <1>0, <2>1 DEF NoCubeYet, CacheOK, NeverFreed
  <2>4. SpectrumIsRight'
    BY <1>0, <1>2, <2>1 DEF CacheOK, NeverFreed, SpectrumIsRight, FromSelectedCube
  <2> QED BY <2>2, <2>3, <2>4
<1>3. CASE f # NULL /\ y # lr_y
  <2>1. fault' = (idata = Freed) /\ CubeImageFd' = Opened(f) /\ Opened(f) \in Files \cup {NULL}
    BY <1>0, <1>3 DEF get_block_data, Opened, CubeTypeOK
  <2>2. CASE Opened(f) = NULL
    <3>1. /\ idata' = IF idata = NULL THEN NULL ELSE Freed
          /\ spectrum' = NULL /\ failed' = TRUE /\ lr_y' = lr_y
      BY <1>3, <2>2 DEF get_block_data
    <3>2. CubeTypeOK'
      BY <1>0, <2>1, <3>1 DEF CubeTypeOK
    <3> QED BY <1>0, <3>1, <3>2 DEF NoCubeYet, CacheOK, NeverFreed, SpectrumIsRight
  <2>3. CASE Opened(f) # NULL
    <3>1. /\ idata' = <<Opened(f), f, y>> /\ spectrum' = <<Opened(f), f, y>>
          /\ lr_y' = y /\ failed' = failed
      BY <1>3, <2>3 DEF get_block_data, KeepLine
    <3>2. <<Opened(f), f, y>> \in Spectrum
      BY <1>0, <1>3, <2>1, <2>3 DEF Spectrum
    <3>3. CubeTypeOK'
      BY <1>0, <2>1, <3>1, <3>2 DEF CubeTypeOK
    <3>4. ~changed /\ ~failed => Opened(f) = f
      BY <1>3, <2>3 DEF CacheOK, Opened
    <3>5. NoCubeYet' /\ NeverFreed'
      BY <1>0, <3>1, <3>2 DEF NoCubeYet, NeverFreed
    <3>6. CacheOK'
      BY <1>0, <1>3, <2>1, <3>1, <3>4 DEF CacheOK
    <3>7. SpectrumIsRight'
      BY <1>0, <2>1, <3>1, <3>4 DEF NeverFreed, SpectrumIsRight, FromSelectedCube
    <3> QED BY <3>3, <3>5, <3>6, <3>7
  <2> QED BY <2>2, <2>3
<1> QED BY <1>1, <1>2, <1>3

\* The Files Window changes one slot; if it is the cube's, nothing more is
\* promised.
LEMMA SlotKeepsInv ==
  ASSUME CubeInv, ~fault, NEW i \in Slot, NEW f \in Files \cup {NULL}, SetSlot(i, f)
  PROVE  CubeInv'
<1> USE Values DEF CubeInv
<1>0. /\ spectrum' = NULL
      /\ changed' = (changed \/ i = CubeImage)
      /\ file' = [file EXCEPT ![i] = f]
      /\ UNCHANGED <<onDisk, CubeImage, CubeImageFd, idata, lr_y, asked, fault, failed>>
  BY DEF SetSlot
<1>1. CubeTypeOK'
  BY <1>0 DEF CubeTypeOK
<1>2. NoCubeYet' /\ NeverFreed'
  BY <1>0 DEF NoCubeYet, NeverFreed
<1>3. i # CubeImage => file'[CubeImage] = file[CubeImage] \/ CubeImage = NoCube
  BY <1>0 DEF CubeTypeOK
<1>4. CubeImage = NoCube => CubeImageFd = NULL /\ lr_y = NoLine
  BY DEF NoCubeYet
<1>5. CacheOK'
  BY <1>0, <1>3, <1>4 DEF CacheOK
<1>6. SpectrumIsRight'
  BY <1>0 DEF SpectrumIsRight, FromSelectedCube
<1> QED BY <1>1, <1>2, <1>5, <1>6

\* A restored session, which may choose the first cube
LEMMA RestoreKeepsInv ==
  ASSUME CubeInv, ~fault, NEW slots \in [Slot -> Files \cup {NULL}],
         NEW c \in Slot \cup {NoCube}, RestoreSlots(slots, c)
  PROVE  CubeInv'
<1> USE Values DEF CubeInv
<1>0. /\ spectrum' = NULL /\ file' = slots
      /\ changed' = (changed \/ CubeImage # NoCube)
      /\ UNCHANGED <<onDisk, idata, lr_y, asked, fault, failed>>
  BY DEF RestoreSlots
<1>1. \/ UNCHANGED <<CubeImage, CubeImageFd>>
      \/ c \in Slot /\ slots[c] # NULL /\ CubeImage' = c /\ CubeImageFd' = NULL
  BY DEF RestoreSlots, SetCubeImage, Closed
<1>2. CubeTypeOK'
  BY <1>0, <1>1 DEF CubeTypeOK
<1>3. NoCubeYet' /\ NeverFreed'
  BY <1>0, <1>1 DEF NoCubeYet, NeverFreed
<1>4. CacheOK'
  BY <1>0, <1>1 DEF CacheOK, NoCubeYet
<1>5. SpectrumIsRight'
  BY <1>0 DEF SpectrumIsRight, FromSelectedCube
<1> QED BY <1>2, <1>3, <1>4, <1>5

\* Every step keeps the invariant.
LEMMA CubeStepInv == CubeInv /\ [CubeNext]_cubeVars => CubeInv'
<1> SUFFICES ASSUME CubeInv, [CubeNext]_cubeVars PROVE CubeInv'
  OBVIOUS
<1>1. CASE UNCHANGED cubeVars
  BY <1>1 DEF cubeVars, CubeInv, CubeTypeOK, NoCubeYet, CacheOK, NeverFreed, SpectrumIsRight,
              FromSelectedCube
<1>2. CASE CubeNext
  <2>0. ~fault
    BY <1>2 DEF CubeNext
  <2>1. ASSUME NEW i \in Slot, CubeKey(i) PROVE CubeInv'
    BY <2>0, <2>1, KeyKeepsInv
  <2>2. CASE CubeClick
    BY <2>2, Values DEF CubeClick, CubeInv, CubeTypeOK, NoCubeYet, CacheOK, NeverFreed,
                SpectrumIsRight, FromSelectedCube
  <2>3. ASSUME NEW y \in Line, get_block_data(y) PROVE CubeInv'
    BY <2>0, <2>3, ReadKeepsInv
  <2>4. ASSUME NEW y \in Line, GetNothing(y) PROVE CubeInv'
    <3>1. /\ spectrum' = NULL /\ asked' = y
          /\ UNCHANGED <<file, onDisk, CubeImage, CubeImageFd, idata, lr_y, fault, changed, failed>>
      BY <2>4 DEF GetNothing
    <3>2. CubeTypeOK'
      BY <3>1 DEF CubeInv, CubeTypeOK
    <3>3. NoCubeYet' /\ CacheOK' /\ NeverFreed'
      BY <3>1 DEF CubeInv, NoCubeYet, CacheOK, NeverFreed
    <3>4. SpectrumIsRight'
      BY <2>0, <3>1 DEF SpectrumIsRight, FromSelectedCube
    <3> QED BY <3>2, <3>3, <3>4 DEF CubeInv
  <2>5. ASSUME NEW i \in Slot, NEW f \in Files \cup {NULL}, SetSlot(i, f) PROVE CubeInv'
    BY <2>0, <2>5, SlotKeepsInv
  <2>6. ASSUME NEW slots \in [Slot -> Files \cup {NULL}], NEW c \in Slot \cup {NoCube},
               RestoreSlots(slots, c)
        PROVE  CubeInv'
    BY <2>0, <2>6, RestoreKeepsInv
  <2>7. ASSUME NEW f \in Files, Remove(f) PROVE CubeInv'
    BY <2>7 DEF Remove, CubeInv, CubeTypeOK, NoCubeYet, CacheOK, NeverFreed, SpectrumIsRight,
                FromSelectedCube
  <2> QED BY <1>2, <2>1, <2>2, <2>3, <2>4, <2>5, <2>6, <2>7, Zenon DEF CubeNext
<1> QED BY <1>1, <1>2

\* The invariant of the caches of get_block_data, SetCube and SetCubeImage.
THEOREM CubeInvHolds == CubeSpec => []CubeInv
  BY CubeInitInv, CubeStepInv, PTL DEF CubeSpec

\* Every variable of the cube keeps its type.
THEOREM CubeTypes == CubeSpec => []CubeTypeOK
  BY CubeInvHolds, PTL DEF CubeInv

\* The kept line is transparent as long as the cube's slot is left alone, for
\* any number of slots, files and lines.
THEOREM SpectraAreRight == CubeSpec => []SpectrumIsRight
  BY CubeInvHolds, PTL DEF CubeInv
=============================================================================
