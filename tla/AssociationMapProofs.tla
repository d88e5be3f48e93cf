------------------------ MODULE AssociationMapProofs ------------------------
(***************************************************************************)
(* The transfer curve, for a window of any width, a screen of any size and *)
(* a mouse with any number of buttons.                                     *)
(*                                                                         *)
(* DragIsLocal is about one drag; what it needs of the time before is that *)
(* button_down means a drag in progress unless the drag is loose (HeldOK). *)
(* EndsKept must also stand the drags that go on with the columns of a     *)
(* deletion or of another curve: BoundsOK says that these were columns     *)
(* once, if no button has gone down outside of the window or the drag that *)
(* goes on is not loose.                                                   *)
(***************************************************************************)
EXTENDS AssociationMap, WellFoundedInduction, TLAPS

HeldOK == button_down /\ ~loose => held /\ action_mode \in {"add", "move", "slide"}

InBounds == lo_x \in 0..(Width - 2) /\ hi_x \in 1..(Width - 1) /\ cur_x \in Column

BoundsOK ==
  /\ ~strayed \/ ~loose
  /\ button_down /\ Interior(cur_x) /\ ~(action_mode = "slide" /\ held)
  => InBounds

MapInv == MapTypeOK /\ EndsKept /\ HeldOK /\ BoundsOK /\ DragIsLocal

-----------------------------------------------------------------------------
(* Max and Min *)

\* A set of naturals has a least element.
LEMMA MinIs ==
  ASSUME NEW S \in SUBSET Nat, S # {}
  PROVE  Min(S) \in S /\ \A y \in S : Min(S) <= y
<1>1. PICK x \in S : \A y \in S : ~(<<y, x>> \in OpToRel(<, Nat))
  BY NatLessThanWellFounded, WFMin, Zenon
<1>2. \A y \in S : ~(y < x)
  BY <1>1 DEF OpToRel
<1>3. \A y \in S : x <= y
  BY <1>2
<1> QED
  BY <1>3, Zenon DEF Min

\* So has a set of integers with a lower bound.
LEMMA MinFrom ==
  ASSUME NEW b \in Int, NEW S \in SUBSET Int, S # {}, \A y \in S : b <= y
  PROVE  Min(S) \in S /\ \A y \in S : Min(S) <= y
<1> DEFINE T == {y - b : y \in S}
<1>0. \A y \in S : y - b \in Nat
  OBVIOUS
<1>1. T \in SUBSET Nat /\ T # {}
  BY <1>0
<1>2. PICK t \in T : \A y \in T : t <= y
  <2> HIDE DEF T
  <2> QED BY <1>1, MinIs
<1>3. PICK x \in S : t = x - b
  OBVIOUS
<1>4. ASSUME NEW y \in S PROVE x <= y
  <2>1. y - b \in T
    OBVIOUS
  <2>2. x - b <= y - b
    BY <2>1, <1>2, <1>3
  <2> QED BY <2>2
<1>5. \A y \in S : x <= y
  BY <1>4
<1> QED BY <1>5, Zenon DEF Min

\* A set of naturals below a bound has a greatest element: the least of what
\* its elements lack of the bound.
LEMMA MaxIs ==
  ASSUME NEW n \in Nat, NEW S \in SUBSET (0..n), S # {}
  PROVE  Max(S) \in S /\ \A y \in S : y <= Max(S)
<1> DEFINE T == {n - y : y \in S}
<1>0. \A y \in S : n - y \in Nat
  OBVIOUS
<1>1. T \in SUBSET Nat /\ T # {}
  BY <1>0
<1>2. PICK t \in T : \A y \in T : t <= y
  <2> HIDE DEF T
  <2> QED BY <1>1, MinIs
<1>3. PICK x \in S : t = n - x
  OBVIOUS
<1>4. ASSUME NEW y \in S PROVE y <= x
  <2>1. n - y \in T
    OBVIOUS
  <2>2. n - x <= n - y
    BY <2>1, <1>2, <1>3
  <2>3. x \in 0..n /\ y \in 0..n
    OBVIOUS
  <2> QED BY <2>2, <2>3
<1>5. \A y \in S : x >= y
  BY <1>4
<1>6. \E z \in S : \A y \in S : z >= y
  BY <1>5
<1>7. Max(S) \in S /\ \A y \in S : Max(S) >= y
  BY <1>6, Zenon DEF Max
<1> QED BY <1>7

\* Slides keep the window in the array.
LEMMA SlideInArray ==
  ASSUME NEW x \in Int, anchor \in Int, old_edge \in Int
  PROVE  SlideTo(x) \in 0..(2 * Width - 1)
<1> DEFINE e == old_edge - (x - anchor)
           m == 2 * Width - 1
<1>0. e \in Int /\ m \in Nat
  BY WidthAssumption
<1> HIDE DEF e, m
<1>1. \A a, b \in Int : Max({a, b}) = IF a >= b THEN a ELSE b
  BY DEF Max
<1>2. \A a, b \in Int : Min({a, b}) = IF a <= b THEN a ELSE b
  BY DEF Min
<1>3. Min({m, e}) = IF m <= e THEN m ELSE e
  BY <1>0, <1>2
<1>4. Max({0, Min({m, e})}) \in 0..m
  BY <1>0, <1>1, <1>3
<1> QED BY <1>4 DEF SlideTo, max_left_edge, e, m

-----------------------------------------------------------------------------
(* Neighbours *)

\* The walks to the ends of the window end at a column of the screen.
LEMMA Ranges ==
  ASSUME NEW c \in Int
  PROVE  DownFrom(c) \in Int /\ UpFrom(c) \in Int
<1>0. Width \in Nat /\ Width >= 3
  BY WidthAssumption
<1>1. DownFrom(c) \in Int
  <2> DEFINE D == {d \in 1..c : Handle(d)}
  <2>1. CASE c > 0
    <3>1. Min({0, c}) = 0
      BY <2>1 DEF Min
    <3>2. c \in Nat /\ {0} \cup D \in SUBSET (0..c) /\ {0} \cup D # {}
      BY <2>1
    <3>3. Max({0} \cup D) \in {0} \cup D
      <4> HIDE DEF D
      <4> QED BY <3>2, MaxIs
    <3>4. Max({0} \cup D) \in Int
      <4> DEFINE m == Max({0} \cup D)
      <4>1. m \in {0} \cup D
        BY <3>3
      <4> HIDE DEF m
      <4>2. m \in Int
        BY <4>1
      <4> QED BY <4>2 DEF m
    <3> QED BY <3>1, <3>4 DEF DownFrom
  <2>2. CASE c <= 0
    <3>1. Min({0, c}) = c
      BY <2>2 DEF Min
    <3>2. D = {}
      BY <2>2
    <3>3. Max({c} \cup D) = c
      BY <3>2 DEF Max
    <3> QED BY <3>1, <3>3 DEF DownFrom
  <2> QED BY <2>1, <2>2
<1>2. UpFrom(c) \in Int
  <2> DEFINE D == {d \in c..(Width - 2) : Handle(d)}
             e == Max({Width - 1, c})
  <2>1. e = IF c > Width - 1 THEN c ELSE Width - 1
    BY <1>0 DEF Max
  <2> HIDE DEF e
  <2>2. e \in Int /\ e >= c
    BY <1>0, <2>1
  <2> DEFINE S == {e} \cup D
  <2>3. S \in SUBSET Int /\ S # {} /\ \A y \in S : c <= y
    BY <1>0, <2>2
  <2>4. Min(S) \in S
    <3> HIDE DEF S
    <3> QED BY <2>3, MinFrom
  <2> DEFINE m == Min(S)
  <2> HIDE DEF m
  <2>5. m \in Int
    <3>1. m \in S
      BY <2>4 DEF m
    <3> QED BY <2>3, <3>1
  <2> QED BY <2>5 DEF m, e, UpFrom
<1> QED BY <1>1, <1>2

\* From a column down: the nearest handle, or the left end of the window
LEMMA DownIs ==
  ASSUME NEW c \in Column
  PROVE  /\ DownFrom(c) \in 0..c
         /\ DownFrom(c) = 0 \/ Handle(DownFrom(c))
         /\ \A d \in (DownFrom(c) + 1)..c : ~Handle(d)
<1>0. c \in Nat
  BY WidthAssumption DEF Column
<1> DEFINE L == {0} \cup {d \in 1..c : Handle(d)}
           m == DownFrom(c)
<1>1. L \in SUBSET (0..c) /\ L # {}
  BY <1>0
<1>2. Max(L) \in L /\ \A y \in L : y <= Max(L)
  <2> HIDE DEF L
  <2> QED BY <1>0, <1>1, MaxIs
<1>3. Min({0, c}) = 0
  BY <1>0 DEF Min
<1>4. DownFrom(c) = Max(L)
  BY <1>3 DEF DownFrom
<1>5. m \in L /\ \A y \in L : y <= m
  <2> HIDE DEF L
  <2> QED BY <1>2, <1>4
<1> HIDE DEF m
<1>6. m \in 0..c /\ (m = 0 \/ Handle(m))
  BY <1>0, <1>5
<1>7. ASSUME NEW d \in (m + 1)..c PROVE ~Handle(d)
  BY <1>0, <1>5, <1>6
<1> QED BY <1>6, <1>7 DEF m

\* From a column up: the nearest handle, or the right end of the window
LEMMA UpIs ==
  ASSUME NEW c \in Column
  PROVE  /\ UpFrom(c) \in c..(Width - 1)
         /\ UpFrom(c) = Width - 1 \/ Handle(UpFrom(c))
         /\ \A d \in c..(UpFrom(c) - 1) : ~Handle(d)
<1>0. c \in 0..(Width - 1) /\ Width \in Nat
  BY WidthAssumption DEF Column
<1> DEFINE R == {Width - 1} \cup {d \in c..(Width - 2) : Handle(d)}
           m == UpFrom(c)
<1>1. R \in SUBSET Nat /\ R # {}
  BY <1>0
<1>2. Min(R) \in R /\ \A y \in R : Min(R) <= y
  <2> HIDE DEF R
  <2> QED BY <1>1, MinIs
<1>3. Max({Width - 1, c}) = Width - 1
  BY <1>0 DEF Max
<1>4. UpFrom(c) = Min(R)
  BY <1>3 DEF UpFrom
<1>5. m \in R /\ \A y \in R : m <= y
  <2> HIDE DEF R
  <2> QED BY <1>2, <1>4
<1> HIDE DEF m
<1>6. m \in c..(Width - 1) /\ (m = Width - 1 \/ Handle(m))
  BY <1>0, <1>5
<1>7. ASSUME NEW d \in c..(m - 1) PROVE ~Handle(d)
  BY <1>0, <1>5, <1>6
<1> QED BY <1>6, <1>7 DEF m

\* The neighbours of a column: the nearest handles on either side of it, or
\* the ends of the window.
LEMMA Neighbours ==
  ASSUME NEW c \in Column, Interior(c)
  PROVE  /\ DownFrom(c - 1) \in 0..(c - 1)
         /\ DownFrom(c - 1) = 0 \/ Handle(DownFrom(c - 1))
         /\ \A d \in (DownFrom(c - 1) + 1)..(c - 1) : ~Handle(d)
         /\ UpFrom(c + 1) \in (c + 1)..(Width - 1)
         /\ UpFrom(c + 1) = Width - 1 \/ Handle(UpFrom(c + 1))
         /\ \A d \in (c + 1)..(UpFrom(c + 1) - 1) : ~Handle(d)
<1>1. c - 1 \in Column /\ c + 1 \in Column
  BY WidthAssumption DEF Column, Interior
<1> QED BY <1>1, DownIs, UpIs

\* The handle that MOVE takes, if it is not an end of the window, has the
\* pointer between its neighbours.
LEMMA NearestHandle ==
  ASSUME NEW x \in Column
  PROVE  /\ Nearest(x) \in Column
         /\ Interior(Nearest(x)) =>
              /\ DownFrom(Nearest(x) - 1) < x /\ x < UpFrom(Nearest(x) + 1)
              /\ \A d \in (DownFrom(Nearest(x) - 1) + 1)..(UpFrom(Nearest(x) + 1) - 1) :
                   Handle(d) => d = Nearest(x)
<1>0. x \in 0..(Width - 1) /\ Width \in Nat /\ Width >= 3
  BY WidthAssumption DEF Column
<1> DEFINE left == DownFrom(x)
           right == UpFrom(x)
           c == Nearest(x)
<1>4. c = IF x - left < right - x THEN left ELSE right
  BY DEF Nearest
<1>5. /\ left \in 0..x /\ (left = 0 \/ Handle(left))
      /\ \A d \in (left + 1)..x : ~Handle(d)
  BY DownIs
<1>6. /\ right \in x..(Width - 1) /\ (right = Width - 1 \/ Handle(right))
      /\ \A d \in x..(right - 1) : ~Handle(d)
  BY UpIs
<1> HIDE DEF left, right, c
<1>7. c \in Column
  BY <1>0, <1>4, <1>5, <1>6 DEF Column
<1>8. ASSUME Interior(c)
      PROVE  /\ DownFrom(c - 1) < x /\ x < UpFrom(c + 1)
             /\ \A d \in (DownFrom(c - 1) + 1)..(UpFrom(c + 1) - 1) : Handle(d) => d = c
  <2> DEFINE lo == DownFrom(c - 1)
             hi == UpFrom(c + 1)
  <2>1. /\ lo \in 0..(c - 1) /\ (lo = 0 \/ Handle(lo))
        /\ \A d \in (lo + 1)..(c - 1) : ~Handle(d)
        /\ hi \in (c + 1)..(Width - 1) /\ (hi = Width - 1 \/ Handle(hi))
        /\ \A d \in (c + 1)..(hi - 1) : ~Handle(d)
    BY <1>7, <1>8, Neighbours
  <2> HIDE DEF lo, hi
  <2>2. c \in 1..(Width - 2)
    BY <1>0, <1>7, <1>8 DEF Column, Interior
  <2>3. lo < x
    BY <1>0, <1>4, <1>5, <1>6, <2>1, <2>2
  <2>4. x < hi
    BY <1>0, <1>4, <1>5, <1>6, <2>1, <2>2
  <2>5. ASSUME NEW d \in (lo + 1)..(hi - 1), Handle(d) PROVE d = c
    BY <1>0, <2>1, <2>2, <2>5
  <2> QED BY <2>3, <2>4, <2>5 DEF lo, hi
<1> QED BY <1>7, <1>8 DEF c

\* Wherever the pointer is, the nearest handle is a column of the screen.
LEMMA NearestRange ==
  ASSUME NEW x \in Int
  PROVE  Nearest(x) \in Int
<1>1. Nearest(x) = DownFrom(x) \/ Nearest(x) = UpFrom(x)
  BY DEF Nearest
<1> QED BY <1>1, Ranges

-----------------------------------------------------------------------------
(* The actions *)

\* What the columns of the window have to do with the points of the array
LEMMA Points ==
  ASSUME MapTypeOK
  PROVE  /\ Width \in Nat /\ Width >= 3 /\ left_edge \in 0..(2 * Width - 1)
         /\ \A d \in Column : left_edge + d \in Point
         /\ \A d \in Column : Interior(d) => left_edge + d \notin {0, 3 * Width - 1}
         /\ \A d \in Column : Interior(d) <=> d \in 1..(Width - 2)
         /\ Column \subseteq Int /\ {0, Width - 1} \subseteq Column
  BY WidthAssumption DEF MapTypeOK, Column, Point, Interior

OnlyHandles(edge, S, lo, x, hi) == {d \in lo..hi : edge + d \in S} = {lo, x, hi}
Ordered(edge, lo, x, hi) == edge \in Int /\ lo \in Int /\ x \in Int /\ hi \in Int /\ lo < x /\ x < hi
NoneBetween(edge, S, lo, hi) == \A d \in (lo + 1)..(hi - 1) : edge + d \notin S
WithThree(edge, S, lo, x, hi) == S \cup {edge + lo, edge + hi, edge + x}

\* A handle put between two others, with none in between
LEMMA OnlyThree ==
  ASSUME NEW edge, NEW lo, NEW x, NEW hi, NEW S,
         Ordered(edge, lo, x, hi), NoneBetween(edge, S, lo, hi)
  PROVE  OnlyHandles(edge, WithThree(edge, S, lo, x, hi), lo, x, hi)
<1> DEFINE T == WithThree(edge, S, lo, x, hi)
<1>0. edge \in Int /\ lo \in Int /\ x \in Int /\ hi \in Int /\ lo < x /\ x < hi
  BY DEF Ordered
<1>1. ASSUME NEW d \in lo..hi, edge + d \in T PROVE d = lo \/ d = x \/ d = hi
  <2>1. CASE d = lo \/ d = hi
    BY <2>1
  <2>2. CASE d \in (lo + 1)..(hi - 1)
    <3>1. edge + d \notin S
      BY <2>2 DEF NoneBetween
    <3>2. edge + d = edge + lo \/ edge + d = edge + hi \/ edge + d = edge + x
      BY <1>1, <3>1 DEF WithThree
    <3> QED BY <1>0, <2>2, <3>2
  <2> QED BY <1>0, <2>1, <2>2
<1>2. lo \in lo..hi /\ x \in lo..hi /\ hi \in lo..hi
  BY <1>0
<1>3. edge + lo \in T /\ edge + x \in T /\ edge + hi \in T
  BY DEF WithThree
<1> QED BY <1>1, <1>2, <1>3 DEF OnlyHandles

\* A button that is down more is held.
LEMMA PressHolds ==
  ASSUME MapTypeOK, pressed < MaxButtons, pressed' = pressed + 1
  PROVE  held' /\ pressed' \in 0..MaxButtons
  BY ButtonsAssumption DEF MapTypeOK, held

\* Initially nothing is dragged.
LEMMA MapInitInv == MapInit => MapInv
<1> SUFFICES ASSUME MapInit PROVE MapInv
  OBVIOUS
<1>1. MapTypeOK
  <2>1. handles \subseteq Point
    BY WidthAssumption DEF MapInit, ClearHandles, Point
  <2>2. left_edge \in 0..(2 * Width - 1) /\ action_mode \in Mode
    BY WidthAssumption DEF MapInit, Mode
  <2>3. /\ lo_x \in Int /\ hi_x \in Int /\ cur_x \in Int /\ anchor \in Int
        /\ old_edge \in 0..(2 * Width - 1) /\ pressed \in 0..MaxButtons
    BY WidthAssumption, ButtonsAssumption DEF MapInit
  <2>4. button_down \in BOOLEAN /\ fault \in BOOLEAN /\ loose \in BOOLEAN /\ strayed \in BOOLEAN
    BY DEF MapInit
  <2> QED BY <2>1, <2>2, <2>3, <2>4 DEF MapTypeOK
<1>2. EndsKept
  BY DEF MapInit, EndsKept, ClearHandles
<1>3. HeldOK /\ BoundsOK /\ DragIsLocal
  BY DEF MapInit, HeldOK, BoundsOK, DragIsLocal
<1> QED BY <1>1, <1>2, <1>3 DEF MapInv

\* What a press does to the points: whatever the column, they stay points of
\* the array, since the ends of the window are.
LEMMA FoundTypes ==
  ASSUME MapTypeOK, NEW c \in Int, FindNeighbours(c)
  PROVE  /\ lo_x' \in Int /\ hi_x' \in Int
         /\ WithEnds(c) \subseteq Point /\ handles \subseteq WithEnds(c)
<1>1. DownFrom(c - 1) \in Int /\ UpFrom(c + 1) \in Int
  BY Ranges
<1>2. lo_x' \in Int /\ hi_x' \in Int
  BY <1>1 DEF FindNeighbours, MapTypeOK
<1>3. EndsFound(c) \subseteq {0, Width - 1}
  BY DEF EndsFound
<1>4. WithEnds(c) \subseteq Point
  BY <1>3, Points DEF WithEnds, MapTypeOK
<1> QED BY <1>2, <1>4 DEF WithEnds

\* The columns of FindNeighbours and the points of WithEnds, for a column of
\* the window
LEMMA Found ==
  ASSUME MapTypeOK, NEW c \in Column, Interior(c), FindNeighbours(c)
  PROVE  /\ lo_x' = DownFrom(c - 1) /\ hi_x' = UpFrom(c + 1)
         /\ lo_x' \in 0..(c - 1) /\ hi_x' \in (c + 1)..(Width - 1)
         /\ lo_x' \in 0..(Width - 2) /\ hi_x' \in 1..(Width - 1)
         /\ WithEnds(c) = handles \cup {left_edge + lo_x', left_edge + hi_x'}
<1>1. lo_x' = DownFrom(c - 1) /\ hi_x' = UpFrom(c + 1)
  BY DEF FindNeighbours
<1>2. c \in 1..(Width - 2) /\ Width \in Nat
  BY Points
<1>3. /\ lo_x' \in 0..(c - 1) /\ hi_x' \in (c + 1)..(Width - 1)
      /\ lo_x' = 0 \/ left_edge + lo_x' \in handles
      /\ hi_x' = Width - 1 \/ left_edge + hi_x' \in handles
  BY <1>1, Neighbours DEF Handle
<1>4. lo_x' \in 0..(Width - 2) /\ hi_x' \in 1..(Width - 1)
  BY <1>2, <1>3
<1>5. WithEnds(c) = handles \cup {left_edge + lo_x', left_edge + hi_x'}
  <2>1. EndsFound(c) = ({lo_x'} \cap {0}) \cup ({hi_x'} \cap {Width - 1})
    BY <1>1 DEF EndsFound
  <2> DEFINE E == EndsFound(c)
             l == lo_x'
             h == hi_x'
  <2>2. \A d : d \in E <=> (d = l /\ l = 0) \/ (d = h /\ h = Width - 1)
    BY <2>1
  <2>3. (l = 0 \/ left_edge + l \in handles) /\ (h = Width - 1 \/ left_edge + h \in handles)
    BY <1>3
  <2>4. WithEnds(c) = handles \cup {left_edge + d : d \in E}
    BY DEF WithEnds
  <2> HIDE DEF E, l, h
  <2>5. \A p : p \in {left_edge + d : d \in E} =>
                 p \in handles \cup {left_edge + l, left_edge + h}
    BY <2>2
  <2>6. l \in E \/ left_edge + l \in handles
    BY <2>2, <2>3
  <2>7. h \in E \/ left_edge + h \in handles
    BY <2>2, <2>3
  <2>8. WithEnds(c) = handles \cup {left_edge + l, left_edge + h}
    BY <2>4, <2>5, <2>6, <2>7
  <2> QED BY <2>8 DEF l, h
<1> QED BY <1>1, <1>3, <1>4, <1>5

\* The drag stays as it was: only buttons have been counted.
LEMMA SameDrag ==
  ASSUME MapInv, held', UNCHANGED <<handles, left_edge, action_mode, grip>>,
         pressed' \in 0..MaxButtons, fault' \in BOOLEAN, strayed' \in BOOLEAN,
         strayed => strayed', ~strayed' => ~fault'
  PROVE  MapInv'
<1>0. UNCHANGED <<lo_x, hi_x, cur_x, anchor, old_edge, button_down, loose>>
  BY DEF grip
<1>1. MapTypeOK'
  BY <1>0 DEF MapInv, MapTypeOK
<1>2. EndsKept'
  BY DEF MapInv, EndsKept
<1>3. HeldOK'
  BY <1>0 DEF MapInv, HeldOK
<1>4. BoundsOK'
  BY <1>0 DEF MapInv, BoundsOK, HeldOK, InBounds, Interior
<1>5. DragIsLocal'
  BY <1>0 DEF MapInv, DragIsLocal, Interior, Handle
<1> QED BY <1>1, <1>2, <1>3, <1>4, <1>5 DEF MapInv

\* What every press has in common
Press(x) ==
  /\ pressed < MaxButtons /\ pressed' = pressed + 1
  /\ strayed' = (strayed \/ x \notin Column)
  /\ UNCHANGED action_mode

\* A press that leaves the array, wherever else it is, is not in the window.
LEMMA PressLeaves ==
  ASSUME MapInv, NEW x \in Int, Press(x), ~InArray({x}), Leaves
  PROVE  MapInv'
<1>1. x \notin Column
  BY Points DEF MapInv, InArray
<1>2. held' /\ pressed' \in 0..MaxButtons /\ strayed'
  BY <1>1, PressHolds DEF MapInv, Press
<1> QED BY <1>2, SameDrag DEF Leaves, Press

\* A press outside of the window: of its drag nothing is known, but that it is
\* loose, and that the handles are points of the array.
LEMMA StrayPress ==
  ASSUME MapInv, NEW x \in Int, Press(x), x \notin Column,
         handles' \subseteq Point, lo_x' \in Int, hi_x' \in Int, cur_x' \in Int,
         fault' \in BOOLEAN, button_down' = TRUE, loose' = TRUE,
         UNCHANGED <<left_edge, anchor, old_edge>>
  PROVE  MapInv'
<1>1. held' /\ pressed' \in 0..MaxButtons /\ strayed' = TRUE /\ UNCHANGED action_mode
  BY PressHolds DEF MapInv, Press
<1>2. MapTypeOK'
  BY <1>1 DEF MapInv, MapTypeOK
<1>3. EndsKept' /\ HeldOK' /\ BoundsOK' /\ DragIsLocal'
  BY <1>1 DEF EndsKept, HeldOK, BoundsOK, DragIsLocal
<1> QED BY <1>2, <1>3 DEF MapInv


\* Pressing the button in mode ADD
LEMMA AddKeepsInv ==
  ASSUME MapInv, NEW x \in Int, Press(x), PressAdd(x)
  PROVE  MapInv'
<1> USE DEF MapInv
<1>0. /\ action_mode = "add" /\ held' /\ pressed' \in 0..MaxButtons /\ UNCHANGED action_mode
      /\ strayed => strayed'
  BY PressHolds DEF PressAdd, Press
<1>1. CASE ~InArray({x}) /\ Leaves
  BY <1>1, PressLeaves
<1>2. CASE UNCHANGED <<handles, left_edge, grip, fault>>
  <2>1. UNCHANGED <<handles, left_edge, action_mode, grip>>
    BY <1>0, <1>2
  <2>2. fault' \in BOOLEAN /\ strayed' \in BOOLEAN /\ (~strayed' => ~fault')
    BY <1>0, <1>2 DEF Press, MapTypeOK, EndsKept
  <2> QED BY <1>0, <2>1, <2>2, SameDrag
<1>3. CASE ~(~InArray({x}) /\ Leaves) /\ ~UNCHANGED <<handles, left_edge, grip, fault>>
  <2>1. /\ InArray({x}) /\ ~Handle(x) /\ cur_x' = x /\ FindNeighbours(x)
        /\ handles' = WithEnds(x) \cup {left_edge + x}
        /\ button_down' = TRUE /\ loose' = (x \notin Column)
        /\ UNCHANGED <<left_edge, anchor, old_edge, fault>>
    BY <1>3 DEF PressAdd
  <2>2. left_edge + x \in Point
    BY <2>1 DEF InArray
  <2>3. /\ handles' \subseteq Point /\ handles \subseteq handles' 
        /\ lo_x' \in Int /\ hi_x' \in Int
    BY <2>1, <2>2, FoundTypes
  <2>4. CASE x \notin Column
    <3>1. loose' = TRUE /\ fault' \in BOOLEAN /\ cur_x' \in Int
      BY <2>1, <2>4 DEF MapTypeOK
    <3> QED BY <2>1, <2>3, <2>4, <3>1, StrayPress
  <2>5. CASE x \in Column
    <3>0. loose' = FALSE /\ strayed' = strayed
      BY <2>1, <2>5 DEF Press, MapTypeOK
    <3>1. MapTypeOK'
      BY <1>0, <2>1, <2>3, <3>0 DEF MapTypeOK
    <3>2. EndsKept' /\ HeldOK'
      BY <1>0, <2>1, <2>3, <3>0 DEF EndsKept, HeldOK
    <3>3. ASSUME Interior(x)
          PROVE  /\ lo_x' \in 0..(Width - 2) /\ hi_x' \in 1..(Width - 1)
                 /\ lo_x' < x /\ x < hi_x'
                 /\ {d \in lo_x'..hi_x' : left_edge + d \in handles'} = {lo_x', x, hi_x'}
      <4>1. x \in 1..(Width - 2) /\ Width \in Nat /\ left_edge \in Int
        BY <2>5, <3>3, Points
      <4>2. /\ lo_x' \in 0..(x - 1) /\ hi_x' \in (x + 1)..(Width - 1)
            /\ lo_x' \in 0..(Width - 2) /\ hi_x' \in 1..(Width - 1)
            /\ handles' = handles \cup {left_edge + lo_x', left_edge + hi_x', left_edge + x}
        BY <2>1, <2>5, <3>3, Found
      <4>3. NoneBetween(left_edge, handles, lo_x', hi_x')
        <5>1. left_edge + x \notin handles
          BY <2>1 DEF Handle
        <5>2. /\ \A d \in (DownFrom(x - 1) + 1)..(x - 1) : left_edge + d \notin handles
              /\ \A d \in (x + 1)..(UpFrom(x + 1) - 1) : left_edge + d \notin handles
          BY <2>5, <3>3, Neighbours DEF Handle
        <5>3. DownFrom(x - 1) \in 0..(x - 1) /\ UpFrom(x + 1) \in (x + 1)..(Width - 1)
          BY <2>5, <3>3, Neighbours
        <5>4. ASSUME NEW d \in (DownFrom(x - 1) + 1)..(UpFrom(x + 1) - 1)
              PROVE  left_edge + d \notin handles
          BY <4>1, <5>1, <5>2, <5>3
        <5> QED BY <2>1, <2>5, <3>3, <5>4, Found DEF NoneBetween
      <4>4. Ordered(left_edge, lo_x', x, hi_x')
        BY <4>1, <4>2 DEF Ordered
      <4>5. handles' = WithThree(left_edge, handles, lo_x', x, hi_x')
        BY <4>2 DEF WithThree
      <4>6. {d \in lo_x'..hi_x' : left_edge + d \in handles'} = {lo_x', x, hi_x'}
        <5>1. OnlyHandles(left_edge, WithThree(left_edge, handles, lo_x', x, hi_x'), lo_x', x, hi_x')
          BY <4>3, <4>4, OnlyThree, Zenon
        <5>2. OnlyHandles(left_edge, handles', lo_x', x, hi_x')
          BY <4>5, <5>1, Zenon
        <5> QED BY <5>2 DEF OnlyHandles
      <4> QED BY <4>1, <4>2, <4>6
    <3>4. BoundsOK'
      BY <2>1, <2>5, <3>3 DEF BoundsOK, InBounds, Interior
    <3>5. DragIsLocal'
      <4>1. left_edge' = left_edge
        BY <2>1
      <4> QED BY <1>0, <2>1, <3>3, <4>1 DEF DragIsLocal, Interior, Handle
    <3> QED BY <3>1, <3>2, <3>4, <3>5
  <2> QED BY <2>4, <2>5
<1> QED BY <1>1, <1>2, <1>3 DEF PressAdd

\* Pressing it in modes MOVE and DEL
LEMMA MoveKeepsInv ==
  ASSUME MapInv, NEW x \in Int, Press(x), PressMove(x)
  PROVE  MapInv'
<1> DEFINE c == Nearest(x)
           at == IF Interior(c) THEN x ELSE c
           rest == IF Interior(c) THEN WithEnds(c) \ {left_edge + c} ELSE handles
<1>0. /\ MapTypeOK /\ EndsKept /\ action_mode \in {"move", "del"}
      /\ held' /\ pressed' \in 0..MaxButtons /\ UNCHANGED action_mode
  BY PressHolds DEF MapInv, PressMove, Press
<1>1. CASE ~InArray({x}) /\ Leaves
  BY <1>1, PressLeaves
<1>2. CASE ~(~InArray({x}) /\ Leaves)
  <2>1. /\ InArray({x}) /\ FindNeighbours(c) /\ cur_x' = at
        /\ handles' = IF action_mode = "move" THEN rest \cup {left_edge + at} ELSE rest
        /\ fault' = WalkLeaves(handles')
        /\ button_down' = TRUE /\ loose' = (action_mode = "del" \/ x \notin Column)
        /\ UNCHANGED <<left_edge, anchor, old_edge>>
    BY <1>2 DEF PressMove
  <2>2. c \in Int /\ at \in Int
    BY NearestRange
  <2>3. /\ lo_x' \in Int /\ hi_x' \in Int
        /\ WithEnds(c) \subseteq Point /\ handles \subseteq WithEnds(c)
    <3> HIDE DEF c
    <3> QED BY <1>0, <2>1, <2>2, FoundTypes
  <2>4. left_edge + at \in Point
    <3>1. CASE Interior(c)
      BY <2>1, <3>1 DEF InArray
    <3>2. CASE ~Interior(c)
      <4>1. at \in {0, Width - 1}
        BY <3>2 DEF Interior
      <4> QED BY <1>0, <4>1, Points
    <3> QED BY <3>1, <3>2
  <2>5. handles' \subseteq Point /\ fault' \in BOOLEAN /\ loose' \in BOOLEAN
    BY <1>0, <2>1, <2>3, <2>4 DEF WalkLeaves, MapTypeOK
  <2>6. CASE x \notin Column
    <3>1. loose' = TRUE /\ cur_x' \in Int
      BY <2>1, <2>2, <2>6
    <3> QED BY <2>1, <2>3, <2>5, <2>6, <3>1, StrayPress
  <2>7. CASE x \in Column
    <3>0. strayed' = strayed /\ loose' = (action_mode = "del")
      BY <1>0, <2>1, <2>7 DEF Press, MapTypeOK
    <3>1. MapTypeOK'
      BY <1>0, <2>1, <2>2, <2>3, <2>5, <3>0 DEF MapTypeOK
    <3>2. /\ c \in Column
          /\ Interior(c) => /\ DownFrom(c - 1) < x /\ x < UpFrom(c + 1)
                            /\ \A d \in (DownFrom(c - 1) + 1)..(UpFrom(c + 1) - 1) :
                                 Handle(d) => d = c
      BY <2>7, NearestHandle
    <3> HIDE DEF c, at, rest
    <3>3. Interior(c) =>
            /\ lo_x' = DownFrom(c - 1) /\ hi_x' = UpFrom(c + 1)
            /\ lo_x' \in 0..(c - 1) /\ hi_x' \in (c + 1)..(Width - 1)
            /\ lo_x' \in 0..(Width - 2) /\ hi_x' \in 1..(Width - 1)
            /\ WithEnds(c) = handles \cup {left_edge + lo_x', left_edge + hi_x'}
      BY <1>0, <2>1, <3>2, Found
    <3>4. EndsKept'
      <4> SUFFICES ASSUME ~strayed PROVE ~fault' /\ {0, 3 * Width - 1} \subseteq handles'
        BY <3>0 DEF EndsKept
      <4>1. {0, 3 * Width - 1} \subseteq handles
        BY <1>0 DEF EndsKept
      <4>2. {0, 3 * Width - 1} \subseteq rest
        <5>1. CASE Interior(c)
          <6>1. left_edge + c \notin {0, 3 * Width - 1}
            BY <1>0, <3>2, <5>1, Points
          <6> QED BY <2>3, <4>1, <5>1, <6>1 DEF rest
        <5>2. CASE ~Interior(c)
          BY <4>1, <5>2 DEF rest
        <5> QED BY <5>1, <5>2
      <4>3. {0, 3 * Width - 1} \subseteq handles'
        BY <2>1, <4>2
      <4> QED BY <2>1, <4>3 DEF WalkLeaves
    <3>5. HeldOK'
      BY <1>0, <2>1, <3>0 DEF HeldOK
    <3>6. Interior(cur_x') => Interior(c)
      BY <2>1 DEF at
    <3>7. BoundsOK'
      <4>1. cur_x' \in Column
        BY <2>1, <2>7, <3>2 DEF at
      <4> QED BY <3>3, <3>6, <4>1 DEF BoundsOK, InBounds, Interior
    <3>8. DragIsLocal'
      <4>1. CASE action_mode = "del"
        BY <1>0, <4>1 DEF DragIsLocal
      <4>2. CASE ~Interior(c)
        BY <3>6, <4>2 DEF DragIsLocal, Interior
      <4>3. CASE action_mode = "move" /\ Interior(c)
        <5>1. /\ cur_x' = x /\ left_edge \in Int /\ Width \in Nat /\ c \in 1..(Width - 2)
              /\ x \in 0..(Width - 1)
          BY <1>0, <2>1, <2>7, <3>2, <4>3, Points DEF at, Column
        <5>2. lo_x' \in 0..(c - 1) /\ hi_x' \in (c + 1)..(Width - 1) /\ lo_x' < x /\ x < hi_x'
          BY <3>2, <3>3, <4>3
        <5> DEFINE S == handles \ {left_edge + c}
        <5>3. handles' = WithThree(left_edge, S, lo_x', x, hi_x')
          <6>1. handles' = (WithEnds(c) \ {left_edge + c}) \cup {left_edge + x}
            BY <2>1, <4>3 DEF rest, at
          <6>2. left_edge + lo_x' # left_edge + c /\ left_edge + hi_x' # left_edge + c
            <7>1. lo_x' \in Int /\ hi_x' \in Int /\ c \in Int /\ lo_x' # c /\ hi_x' # c
              BY <5>1, <5>2
            <7>2. \A a, b, e \in Int : a # b => e + a # e + b
              OBVIOUS
            <7> QED BY <5>1, <7>1, <7>2, Zenon
          <6> QED BY <3>3, <4>3, <6>1, <6>2 DEF WithThree
        <5>4. NoneBetween(left_edge, S, lo_x', hi_x')
          <6>1. \A d \in (DownFrom(c - 1) + 1)..(UpFrom(c + 1) - 1) : left_edge + d \notin S
            BY <3>2, <4>3 DEF Handle
          <6> QED BY <3>3, <4>3, <6>1 DEF NoneBetween
        <5>5. Ordered(left_edge, lo_x', x, hi_x')
          BY <5>1, <5>2 DEF Ordered
        <5> HIDE DEF S
        <5>6. OnlyHandles(left_edge, WithThree(left_edge, S, lo_x', x, hi_x'), lo_x', x, hi_x')
          BY <5>4, <5>5, OnlyThree, Zenon
        <5>7. OnlyHandles(left_edge, handles', lo_x', x, hi_x')
          BY <5>3, <5>6, Zenon
        <5>8. left_edge' = left_edge
          BY <2>1
        <5> QED BY <1>0, <5>1, <5>2, <5>7, <5>8 DEF OnlyHandles, DragIsLocal, Handle
      <4> QED BY <1>0, <4>1, <4>2, <4>3
    <3> QED BY <3>1, <3>4, <3>5, <3>7, <3>8 DEF MapInv
  <2> QED BY <2>6, <2>7
<1> QED BY <1>1, <1>2

\* Pressing it in mode SLIDE, and in no mode
LEMMA OtherPressesKeepInv ==
  ASSUME MapInv, NEW x \in Int, Press(x), PressSlide(x) \/ PressNone
  PROVE  MapInv'
<1>0. /\ held' /\ pressed' \in 0..MaxButtons /\ UNCHANGED action_mode
      /\ strayed' \in BOOLEAN /\ (strayed => strayed')
  BY PressHolds DEF MapInv, MapTypeOK, Press
<1>1. CASE PressSlide(x)
  <2>1. /\ action_mode = "slide" /\ old_edge' = left_edge /\ anchor' = x
        /\ button_down' = TRUE /\ loose' = FALSE
        /\ UNCHANGED <<handles, left_edge, lo_x, hi_x, cur_x, fault>>
    BY <1>1 DEF PressSlide
  <2>2. MapTypeOK'
    <3>1. button_down' \in BOOLEAN /\ loose' \in BOOLEAN
      BY <2>1
    <3> QED BY <1>0, <2>1, <3>1 DEF MapInv, MapTypeOK
  <2>3. EndsKept'
    BY <1>0, <2>1 DEF MapInv, EndsKept
  <2>4. HeldOK' /\ BoundsOK' /\ DragIsLocal'
    BY <1>0, <2>1 DEF HeldOK, BoundsOK, DragIsLocal
  <2> QED BY <2>2, <2>3, <2>4 DEF MapInv
<1>2. CASE PressNone
  <2>0. UNCHANGED <<handles, left_edge, grip, fault>>
    BY <1>2 DEF PressNone
  <2>1. UNCHANGED <<handles, left_edge, action_mode, grip>>
    BY <1>0, <2>0
  <2>2. fault' \in BOOLEAN /\ (~strayed' => ~fault')
    BY <1>0, <2>0 DEF MapInv, MapTypeOK, EndsKept
  <2> QED BY <1>0, <2>1, <2>2, SameDrag
<1> QED BY <1>1, <1>2


\* A drag that goes on keeps its handle a point of the array, and if nothing
\* has led it astray, between its neighbours.
LEMMA FollowKeeps ==
  ASSUME MapInv, NEW x \in Int, held, Drags, Follow(x), UNCHANGED strayed
  PROVE  /\ handles' \subseteq Point /\ EndsKept' /\ cur_x' \in Int /\ fault' \in BOOLEAN
         /\ left_edge' \in 0..(2 * Width - 1)
         /\ action_mode # "slide" /\ Interior(cur_x') => Interior(cur_x)
         /\ (~strayed \/ ~loose) /\ action_mode # "slide" /\ Interior(cur_x) =>
              InBounds /\ cur_x' \in Column
         /\ action_mode # "slide" /\ ~loose /\ Interior(cur_x) =>
              /\ lo_x < cur_x' /\ cur_x' < hi_x /\ left_edge' = left_edge
              /\ OnlyHandles(left_edge, handles', lo_x, cur_x', hi_x)
<1>0. MapTypeOK /\ EndsKept /\ BoundsOK /\ DragIsLocal /\ Width \in Nat
  BY WidthAssumption DEF MapInv
<1>1. CASE action_mode = "slide"
  <2>1. left_edge' = SlideTo(x) /\ UNCHANGED <<handles, cur_x, fault>>
    BY <1>1 DEF Follow
  <2>2. x \in Int /\ anchor \in Int /\ old_edge \in Int
    BY <1>0 DEF MapTypeOK
  <2>3. left_edge' \in 0..(2 * Width - 1)
    BY <2>1, <2>2, SlideInArray
  <2> QED BY <1>0, <1>1, <2>1, <2>3 DEF MapTypeOK, EndsKept
<1>2. CASE action_mode # "slide" /\ ~Interior(cur_x)
  <2>1. UNCHANGED <<handles, left_edge, cur_x, fault>>
    BY <1>2 DEF Follow
  <2> QED BY <1>0, <1>2, <2>1 DEF MapTypeOK, EndsKept
<1>3. CASE action_mode # "slide" /\ Interior(cur_x)
  <2>1. /\ left_edge' = left_edge
        /\ IF InArray({cur_x, Clamped(x)})
           THEN /\ handles' = (handles \ {left_edge + cur_x}) \cup {left_edge + Clamped(x)}
                /\ cur_x' = Clamped(x)
                /\ fault' = WalkLeaves(handles')
           ELSE fault' = TRUE /\ UNCHANGED <<handles, cur_x>>
    BY <1>3 DEF Follow
  <2>2. Clamped(x) \in Int
    BY <1>0 DEF MapTypeOK, Clamped
  <2>3. /\ handles' \subseteq Point /\ cur_x' \in Int /\ fault' \in BOOLEAN
        /\ left_edge' \in 0..(2 * Width - 1)
    BY <1>0, <2>1, <2>2 DEF MapTypeOK, InArray, WalkLeaves
  <2>4. ASSUME ~strayed \/ ~loose
        PROVE  /\ InBounds /\ Clamped(x) \in Column /\ left_edge \in Int
               /\ handles' = (handles \ {left_edge + cur_x}) \cup {left_edge + Clamped(x)}
               /\ cur_x' = Clamped(x) /\ fault' = WalkLeaves(handles')
               /\ left_edge + cur_x \notin {0, 3 * Width - 1}
    <3>1. InBounds
      BY <1>0, <1>3, <2>4 DEF BoundsOK, Drags
    <3>2. Clamped(x) \in Column
      BY <1>0, <2>2, <3>1 DEF InBounds, Clamped, Column
    <3>3. InArray({cur_x, Clamped(x)}) /\ left_edge \in Int
      BY <1>0, <3>1, <3>2, Points DEF InBounds, InArray
    <3>4. left_edge + cur_x \notin {0, 3 * Width - 1}
      BY <1>0, <1>3, <3>1, Points DEF InBounds
    <3> QED BY <2>1, <3>1, <3>2, <3>3, <3>4
  <2>5. EndsKept'
    <3> SUFFICES ASSUME ~strayed PROVE ~fault' /\ {0, 3 * Width - 1} \subseteq handles'
      BY DEF EndsKept
    <3>1. {0, 3 * Width - 1} \subseteq handles'
      BY <1>0, <2>4 DEF EndsKept
    <3> QED BY <2>4, <3>1 DEF WalkLeaves
  <2>6. ASSUME ~loose
        PROVE  /\ lo_x < Clamped(x) /\ Clamped(x) < hi_x
               /\ OnlyHandles(left_edge, handles', lo_x, Clamped(x), hi_x)
    <3>1. /\ lo_x < cur_x /\ cur_x < hi_x
          /\ {d \in lo_x..hi_x : left_edge + d \in handles} = {lo_x, cur_x, hi_x}
      <4>1. action_mode \in {"add", "move"} /\ button_down
        BY <1>3 DEF Drags
      <4> QED BY <1>0, <1>3, <2>6, <4>1 DEF DragIsLocal, Handle
    <3>2. cur_x \in Int /\ lo_x \in Int /\ hi_x \in Int /\ left_edge \in Int
      BY <1>0 DEF MapTypeOK
    <3>3. lo_x < Clamped(x) /\ Clamped(x) < hi_x /\ Clamped(x) \in Int
      BY <3>1, <3>2 DEF Clamped
    <3> DEFINE S == handles \ {left_edge + cur_x}
    <3>4. NoneBetween(left_edge, S, lo_x, hi_x)
      <4>1. ASSUME NEW d \in (lo_x + 1)..(hi_x - 1), left_edge + d \in handles
            PROVE  d = cur_x
        <5>1. d \in lo_x..hi_x /\ d # lo_x /\ d # hi_x
          BY <3>2
        <5> QED BY <3>1, <4>1, <5>1
      <4> QED BY <4>1 DEF NoneBetween
    <3>5. handles' = WithThree(left_edge, S, lo_x, Clamped(x), hi_x)
      <4>1. lo_x \in {lo_x, cur_x, hi_x} /\ hi_x \in {lo_x, cur_x, hi_x}
        OBVIOUS
      <4>2. left_edge + lo_x \in handles /\ left_edge + hi_x \in handles
        BY <3>1, <4>1
      <4>3. left_edge + lo_x # left_edge + cur_x /\ left_edge + hi_x # left_edge + cur_x
        BY <3>1, <3>2
      <4>4. handles' = S \cup {left_edge + Clamped(x)}
        BY <2>4, <2>6
      <4> QED BY <4>2, <4>3, <4>4 DEF WithThree
    <3>6. Ordered(left_edge, lo_x, Clamped(x), hi_x)
      BY <3>2, <3>3 DEF Ordered
    <3> HIDE DEF S
    <3>7. OnlyHandles(left_edge, WithThree(left_edge, S, lo_x, Clamped(x), hi_x),
                      lo_x, Clamped(x), hi_x)
      BY <3>4, <3>6, OnlyThree, Zenon
    <3> QED BY <3>3, <3>5, <3>7, Zenon
  <2> QED BY <1>3, <2>1, <2>3, <2>4, <2>5, <2>6
<1> QED BY <1>1, <1>2, <1>3

\* Moving the pointer
LEMMA MotionKeepsInv ==
  ASSUME MapInv, NEW x \in Int, MotionNotify(x)
  PROVE  MapInv'
<1>1. /\ held /\ Drags /\ Follow(x)
      /\ UNCHANGED <<action_mode, lo_x, hi_x, anchor, old_edge, button_down, loose, pressed, strayed>>
  BY DEF MotionNotify
<1>2. /\ handles' \subseteq Point /\ EndsKept' /\ cur_x' \in Int /\ fault' \in BOOLEAN
      /\ left_edge' \in 0..(2 * Width - 1)
      /\ action_mode # "slide" /\ Interior(cur_x') => Interior(cur_x)
      /\ (~strayed \/ ~loose) /\ action_mode # "slide" /\ Interior(cur_x) =>
           InBounds /\ cur_x' \in Column
      /\ action_mode # "slide" /\ ~loose /\ Interior(cur_x) =>
           /\ lo_x < cur_x' /\ cur_x' < hi_x /\ left_edge' = left_edge
           /\ OnlyHandles(left_edge, handles', lo_x, cur_x', hi_x)
  BY <1>1, FollowKeeps
<1>3. MapTypeOK'
  BY <1>1, <1>2 DEF MapInv, MapTypeOK
<1>4. held' /\ HeldOK'
  BY <1>1 DEF MapInv, HeldOK, held
<1>5. Interior(cur_x)' <=> Interior(cur_x')
  BY DEF Interior
<1>6. BoundsOK'
  BY <1>1, <1>2, <1>4, <1>5 DEF BoundsOK, InBounds
<1>7. DragIsLocal'
  <2> SUFFICES ASSUME ~loose, action_mode \in {"add", "move"}, Interior(cur_x')
               PROVE  /\ held' /\ lo_x < cur_x' /\ cur_x' < hi_x
                      /\ {d \in lo_x..hi_x : left_edge' + d \in handles'} = {lo_x, cur_x', hi_x}
    BY <1>1, <1>5 DEF DragIsLocal, Handle
  <2>1. action_mode # "slide" /\ Interior(cur_x) /\ left_edge' = left_edge
    BY <1>2
  <2> QED BY <1>2, <1>4, <2>1 DEF OnlyHandles
<1> QED BY <1>2, <1>3, <1>4, <1>6, <1>7 DEF MapInv

\* Letting a button go; a deletion leaves button_down behind.
LEMMA ReleaseKeepsInv ==
  ASSUME MapInv, NEW x \in Int, ButtonRelease(x)
  PROVE  MapInv'
<1>0. /\ held /\ UNCHANGED <<action_mode, strayed>>
      /\ pressed' \in 0..MaxButtons /\ (held' => held)
  BY ButtonsAssumption DEF ButtonRelease, MapInv, MapTypeOK, held
<1>1. CASE Drags
  <2>1. /\ Follow(x) /\ button_down' = FALSE /\ loose' = FALSE
        /\ lo_x' = lo_x \/ lo_x' = -1
        /\ hi_x' = hi_x \/ hi_x' = Width + 1
        /\ old_edge' = old_edge \/ old_edge' = 0
        /\ anchor' = anchor \/ anchor' = 0
    BY <1>1 DEF ButtonRelease
  <2>2. /\ handles' \subseteq Point /\ EndsKept' /\ cur_x' \in Int /\ fault' \in BOOLEAN
        /\ left_edge' \in 0..(2 * Width - 1)
    BY <1>0, <1>1, <2>1, FollowKeeps
  <2>3. /\ lo_x' \in Int /\ hi_x' \in Int
        /\ anchor' \in Int /\ old_edge' \in 0..(2 * Width - 1)
    BY <2>1, WidthAssumption DEF MapInv, MapTypeOK
  <2>4. MapTypeOK'
    BY <1>0, <2>1, <2>2, <2>3 DEF MapInv, MapTypeOK
  <2>5. HeldOK' /\ BoundsOK' /\ DragIsLocal'
    BY <2>1 DEF HeldOK, BoundsOK, DragIsLocal
  <2> QED BY <2>2, <2>4, <2>5 DEF MapInv
<1>2. CASE ~Drags
  <2>1. UNCHANGED <<handles, left_edge, grip, fault>>
    BY <1>2 DEF ButtonRelease
  <2>2. UNCHANGED <<lo_x, hi_x, cur_x, old_edge, anchor, button_down, loose>>
    BY <2>1 DEF grip
  <2>3. MapTypeOK' /\ EndsKept'
    BY <1>0, <2>1, <2>2 DEF MapInv, MapTypeOK, EndsKept
  <2>4. ~button_down \/ loose
    BY <1>2 DEF MapInv, HeldOK, Drags
  <2>5. HeldOK' /\ DragIsLocal'
    BY <2>2, <2>4 DEF HeldOK, DragIsLocal
  <2>6. BoundsOK'
    BY <1>0, <1>2, <2>2 DEF MapInv, BoundsOK, InBounds, Interior, Drags
  <2> QED BY <2>3, <2>5, <2>6 DEF MapInv
<1> QED BY <1>1, <1>2

\* What is shown in the middle of the array, with the array's ends
LEMMA ShownInArray ==
  ASSUME NEW columns \in SUBSET Column
  PROVE  Show(columns) \subseteq Point /\ {0, 3 * Width - 1} \subseteq Show(columns)
         /\ Width \in 0..(2 * Width - 1)
<1>1. \A d \in Column : Width + d \in Point
  BY WidthAssumption DEF Column, Point
<1>2. 0 \in Point /\ 3 * Width - 1 \in Point /\ Width \in 0..(2 * Width - 1)
  BY WidthAssumption DEF Point
<1> QED BY <1>1, <1>2 DEF Show

\* A photograph of another curve in mid-drag: the drag is loose from there on.
LEMMA LoadKeepsInv ==
  ASSUME MapInv, NEW columns \in SUBSET Column, load_pallate(columns)
  PROVE  MapInv'
<1>1. /\ handles' = Show(columns) /\ left_edge' = Width /\ loose' = (loose \/ button_down)
      /\ UNCHANGED <<action_mode, lo_x, hi_x, cur_x, anchor, old_edge, button_down>>
      /\ UNCHANGED <<pressed, fault, strayed>>
  BY DEF load_pallate
<1>2. Show(columns) \subseteq Point /\ {0, 3 * Width - 1} \subseteq Show(columns)
      /\ Width \in 0..(2 * Width - 1)
  BY ShownInArray
<1>3. loose' \in BOOLEAN
  BY <1>1 DEF MapInv, MapTypeOK
<1>4. MapTypeOK' /\ EndsKept'
  BY <1>1, <1>2, <1>3 DEF MapInv, MapTypeOK, EndsKept
<1>5. HeldOK' /\ DragIsLocal'
  BY <1>1 DEF HeldOK, DragIsLocal
<1>6. BoundsOK'
  <2>1. held' <=> held
    BY <1>1 DEF held
  <2>2. (~strayed' \/ ~loose') /\ button_down => ~strayed
    BY <1>1
  <2> QED BY <1>1, <2>1, <2>2 DEF MapInv, BoundsOK, InBounds, Interior
<1> QED BY <1>4, <1>5, <1>6 DEF MapInv

\* The buttons beside the curve change the handles, never the drag.
LEMMA BesideKeepsInv ==
  ASSUME MapInv, Beside, handles' \subseteq Point, EndsKept',
         left_edge' \in 0..(2 * Width - 1), action_mode' \in Mode
  PROVE  MapInv'
<1>1. ~held /\ UNCHANGED <<lo_x, hi_x, cur_x, anchor, old_edge, button_down, loose, pressed, fault, strayed>>
  BY DEF Beside, grip
<1>2. MapTypeOK'
  BY <1>1 DEF MapInv, MapTypeOK
<1>3. ~button_down \/ loose
  BY <1>1 DEF MapInv, HeldOK
<1>4. HeldOK' /\ DragIsLocal'
  BY <1>1, <1>3 DEF HeldOK, DragIsLocal
<1>5. BoundsOK'
  BY <1>1 DEF MapInv, BoundsOK, InBounds, Interior
<1> QED BY <1>2, <1>4, <1>5 DEF MapInv

\* Every step of the curve keeps the invariant.
LEMMA MapStepInv == MapInv /\ [MapNext]_mapVars => MapInv'
<1> SUFFICES ASSUME MapInv, [MapNext]_mapVars PROVE MapInv'
  OBVIOUS
<1>1. ASSUME NEW x \in Reach, ButtonPress(x) PROVE MapInv'
  <2>1. x \in Int
    BY ReachAssumption
  <2>2. Press(x) /\ (PressAdd(x) \/ PressMove(x) \/ PressSlide(x) \/ PressNone)
    BY <1>1 DEF ButtonPress, Press
  <2> QED BY <2>1, <2>2, AddKeepsInv, MoveKeepsInv, OtherPressesKeepInv
<1>2. ASSUME NEW x \in Reach, MotionNotify(x) \/ ButtonRelease(x) PROVE MapInv'
  <2>1. x \in Int
    BY ReachAssumption
  <2> QED BY <1>2, <2>1, MotionKeepsInv, ReleaseKeepsInv
<1>3. ASSUME NEW columns \in SUBSET Column, load_pallate(columns) PROVE MapInv'
  BY <1>3, LoadKeepsInv
<1>4. ASSUME NEW columns \in SUBSET Column, XfRestoreAMap(columns) PROVE MapInv'
  <2>1. Beside /\ UNCHANGED action_mode /\ left_edge' = Width /\ handles' = Show(columns)
    BY <1>4 DEF XfRestoreAMap
  <2>2. handles' \subseteq Point /\ EndsKept' /\ left_edge' \in 0..(2 * Width - 1)
    BY <2>1, ShownInArray DEF MapInv, EndsKept, Beside
  <2>3. action_mode' \in Mode
    BY <2>1 DEF MapInv, MapTypeOK
  <2> QED BY <2>1, <2>2, <2>3, BesideKeepsInv
<1>5. ASSUME NEW m \in Mode, SetAction(m) PROVE MapInv'
  <2>1. Beside /\ UNCHANGED <<handles, left_edge>> /\ action_mode' \in Mode
    BY <1>5 DEF SetAction
  <2>2. handles' \subseteq Point /\ EndsKept' /\ left_edge' \in 0..(2 * Width - 1)
    BY <2>1 DEF MapInv, MapTypeOK, EndsKept, Beside
  <2> QED BY <2>1, <2>2, BesideKeepsInv
<1>6. CASE amap_center
  <2>1. /\ Beside /\ UNCHANGED action_mode /\ left_edge' = Width
        /\ handles' = Show(InWindow \cup {0, Width - 1})
    BY <1>6 DEF amap_center
  <2>2. InWindow \cup {0, Width - 1} \in SUBSET Column
    BY WidthAssumption DEF InWindow, Column
  <2>3. handles' \subseteq Point /\ EndsKept' /\ left_edge' \in 0..(2 * Width - 1)
    BY <2>1, <2>2, ShownInArray DEF MapInv, EndsKept, Beside
  <2>4. action_mode' \in Mode
    BY <2>1 DEF MapInv, MapTypeOK
  <2> QED BY <2>1, <2>3, <2>4, BesideKeepsInv
<1>7. CASE amap_clear
  <2>1. Beside /\ UNCHANGED action_mode /\ left_edge' = Width /\ handles' = ClearHandles
    BY <1>7 DEF amap_clear
  <2>2. ClearHandles \subseteq Point /\ {0, 3 * Width - 1} \subseteq ClearHandles
    BY WidthAssumption DEF ClearHandles, Point
  <2>3. handles' \subseteq Point /\ EndsKept' /\ left_edge' \in 0..(2 * Width - 1)
    BY <2>1, <2>2, WidthAssumption DEF MapInv, EndsKept, Beside
  <2>4. action_mode' \in Mode
    BY <2>1 DEF MapInv, MapTypeOK
  <2> QED BY <2>1, <2>3, <2>4, BesideKeepsInv
<1>8. CASE UNCHANGED mapVars
  <2>1. UNCHANGED <<handles, left_edge, action_mode, grip, pressed, fault, strayed>>
    BY <1>8 DEF mapVars
  <2>2. UNCHANGED <<lo_x, hi_x, cur_x, anchor, old_edge, button_down, loose>>
    BY <2>1 DEF grip
  <2>3. MapTypeOK' /\ EndsKept'
    BY <2>1, <2>2 DEF MapInv, MapTypeOK, EndsKept
  <2>4. held' <=> held
    BY <2>1 DEF held
  <2>5. HeldOK' /\ BoundsOK'
    BY <2>1, <2>2, <2>4 DEF MapInv, HeldOK, BoundsOK, InBounds, Interior
  <2>6. DragIsLocal'
    BY <2>1, <2>2, <2>4 DEF MapInv, DragIsLocal, Handle, Interior
  <2> QED BY <2>3, <2>5, <2>6 DEF MapInv
<1> QED BY <1>1, <1>2, <1>3, <1>4, <1>5, <1>6, <1>7, <1>8 DEF MapNext

-----------------------------------------------------------------------------
(* The theorems *)

\* The invariant holds in every behaviour.
THEOREM MapInvHolds == MapSpec => []MapInv
  BY MapInitInv, MapStepInv, PTL DEF MapSpec

\* The handles stay points of the array and the window stays in it, whichever
\* buttons go down and wherever, until the handler itself leaves the array.
THEOREM MapTypes == MapSpec => []MapTypeOK
<1>1. MapInv => MapTypeOK
  BY DEF MapInv
<1> QED BY <1>1, MapInvHolds, PTL

\* Unless a button goes down outside of the window, the handler never leaves
\* the array, and the points where the walks along the curve begin and end
\* stay handles: not even a drag that goes on from a deletion, or with the
\* columns of a curve that was replaced under it, takes them off.
THEOREM EndsStay == MapSpec => []EndsKept
<1>1. MapInv => EndsKept
  BY DEF MapInv
<1> QED BY <1>1, MapInvHolds, PTL

\* A drag that is not loose moves one handle, between its two neighbours,
\* whatever went before it and whichever buttons it is made with.
THEOREM DragsAreLocal == MapSpec => []DragIsLocal
<1>1. MapInv => DragIsLocal
  BY DEF MapInv
<1> QED BY <1>1, MapInvHolds, PTL
=============================================================================
