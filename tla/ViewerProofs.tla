---------------------------- MODULE ViewerProofs ----------------------------
(***************************************************************************)
(* Theorems about the slots (ImageTable), the windows over them (Viewer)   *)
(* and a session that is saved and restored (Restart), for any number of   *)
(* slots, planes and colours: types, live pointers, windows that agree,    *)
(* overlays that can be taken off, tables that fit, colours that suffice,  *)
(* and orderly sessions that come back.                                    *)
(*                                                                         *)
(* The type of an image needs that a sum of colours and the highest index  *)
(* of a display are numbers: CollectionLemmas has what sums and maxima     *)
(* return.                                                                 *)
(***************************************************************************)
EXTENDS Restart, ImageTableProofs

-----------------------------------------------------------------------------
(* Sums of colours *)

LEMMA SumInNat ==
  ASSUME NEW T, NEW S, IsFiniteSet(S), \A k \in S : T[k].ncolors \in Nat
  PROVE  ColorsIn(T, S) \in Nat
<1> DEFINE g == [k \in S |-> T[k].ncolors]
<1>1. \A k \in S : g[k] \in Nat
  OBVIOUS
<1>2. ColorsIn(T, S) = Total(g, S)
  BY DEF ColorsIn, SumFunction, Total
<1> HIDE DEF g
<1>3. QED
  BY <1>1, <1>2, SumType

-----------------------------------------------------------------------------
(* Images and tables of images, typed *)

\* Overlays can be taken off img again.
Undoable(img) ==
  /\ img.hold # NULL => img.hold.over = {}
  /\ img.sdata # NULL /\ img.hold = NULL => img.sdata.over = {}

Good(img) == img \in Image /\ Undoable(img)
Sound(T)  == T \in [Slot -> Image \cup {NULL}] /\ \A j \in Slot : T[j] # NULL => Undoable(T[j])

\* a is an edit of b that keeps its kind and has indices if b has.
SameKind(a, b) ==
  /\ a.composite = b.composite
  /\ b.sdata # NULL => a.sdata # NULL

\* U has the images of T, and what was shown can still be.
Same(T, U) ==
  \A j \in Slot : /\ T[j] = NULL <=> U[j] = NULL
                  /\ T[j] # NULL => SameKind(U[j], T[j]) /\ U[j].data = T[j].data

LEMMA ImageFields ==
  ASSUME NEW img \in Image
  PROVE  /\ img.composite \in BOOLEAN /\ img.header \in BOOLEAN /\ img.band \in BOOLEAN
         /\ img.data \in BOOLEAN /\ img.ncolors \in 1..NColors
         /\ img.rgb \in [Slot -> 0..NPlanes] /\ img.overlays \subseteq Slot
         /\ img.sdata \in Indices \cup {NULL} /\ img.hold \in Indices \cup {NULL}
         /\ img.quant \in 0..NColors /\ img.map \in 0..NColors /\ img.lut \in 0..NColors
BY DEF Image

LEMMA IndicesFields ==
  ASSUME NEW s \in Indices
  PROVE  s.top \in Nat /\ s.over \subseteq Slot /\ s.fresh \in BOOLEAN
BY DEF Indices

LEMMA MakeIndices ==
  ASSUME NEW t \in Nat, NEW o \in SUBSET Slot, NEW f \in BOOLEAN
  PROVE  [top |-> t, over |-> o, fresh |-> f] \in Indices
BY DEF Indices

LEMMA SetColors ==
  ASSUME NEW img \in Image, NEW n \in 1..NColors
  PROVE  LET new == [img EXCEPT !.ncolors = n] IN
         /\ new \in Image /\ new.sdata = img.sdata /\ new.hold = img.hold
         /\ new.composite = img.composite /\ new.data = img.data
BY DEF Image

LEMMA LoadInfoImage ==
  ASSUME NEW img \in Image
  PROVE  LET new == load_info(img) IN
         /\ new \in Image /\ new.sdata = img.sdata /\ new.hold = img.hold
         /\ new.composite = img.composite /\ new.data = img.data
<1> DEFINE n == IF img.ncolors >= NColors THEN NColors - 1 ELSE img.ncolors
<1>1. img # NULL
  BY NullAssumption
<1>2. n \in 1..NColors
  BY ImageFields, ColorAssumption
<1>3. load_info(img) = [img EXCEPT !.ncolors = n]
  BY <1>1 DEF load_info
<1> HIDE DEF n
<1>4. QED
  BY <1>2, <1>3, SetColors

LEMMA StretchGray ==
  ASSUME NEW img \in Image
  PROVE  LET new == stretch_gray(img) IN
         /\ Good(new) /\ new.sdata # NULL
         /\ new.composite = img.composite /\ new.data = img.data
<1> DEFINE s == [top |-> img.ncolors + 1, over |-> {}, fresh |-> TRUE]
<1>1. s \in Indices /\ s # NULL
  <2>1. img.ncolors + 1 \in Nat
    BY ImageFields, ColorAssumption
  <2>2. QED
    BY <2>1, MakeIndices, NullAssumption
<1>2. s.over = {}
  OBVIOUS
<1> HIDE DEF s
<1>3. stretch_gray(img) = [img EXCEPT !.sdata = s, !.hold = NULL, !.quant = 0]
  BY DEF stretch_gray, s
<1>4. [img EXCEPT !.sdata = s, !.hold = NULL, !.quant = 0] \in Image
  <2>1. 0 \in 0..NColors /\ s \in Indices \cup {NULL} /\ NULL \in Indices \cup {NULL}
    BY <1>1, ColorAssumption
  <2>2. QED
    BY <2>1 DEF Image
<1>5. LET new == [img EXCEPT !.sdata = s, !.hold = NULL, !.quant = 0] IN
      /\ new.sdata = s /\ new.hold = NULL
      /\ new.composite = img.composite /\ new.data = img.data
  BY DEF Image
<1>6. QED
  BY <1>1, <1>2, <1>3, <1>4, <1>5 DEF Good, Undoable

LEMMA StretchColor ==
  ASSUME NEW img \in Image, Undoable(img), NEW n \in 1..img.ncolors
  PROVE  LET new == stretch_color(img, n) IN
         /\ Good(new) /\ new.sdata # NULL
         /\ new.composite = img.composite /\ new.data = img.data
<1> DEFINE s == [top |-> n + 1, over |-> {}, fresh |-> TRUE]
           h == IF img.hold = NULL THEN NULL ELSE [img.hold EXCEPT !.fresh = FALSE]
<1>1. n \in 1..NColors /\ n \in 0..NColors /\ n + 1 \in Nat
  <2>1. img.ncolors \in 1..NColors
    BY ImageFields
  <2>2. QED
    BY <2>1, ColorAssumption
<1>2. s \in Indices /\ s # NULL /\ s.over = {}
  BY <1>1, MakeIndices, NullAssumption
<1>3. h \in Indices \cup {NULL} /\ (h # NULL => h.over = {})
  <2>1. CASE img.hold = NULL
    BY <2>1
  <2>2. CASE img.hold # NULL
    <3>1. img.hold \in Indices /\ img.hold.over = {}
      BY <2>2, ImageFields DEF Undoable
    <3>2. [img.hold EXCEPT !.fresh = FALSE] \in Indices
          /\ [img.hold EXCEPT !.fresh = FALSE].over = {}
      BY <3>1 DEF Indices
    <3>3. QED
      BY <2>2, <3>2
  <2>3. QED
    BY <2>1, <2>2
<1>4. stretch_color(img, n) = [img EXCEPT !.sdata = s, !.hold = h, !.ncolors = n, !.lut = n]
  BY DEF stretch_color
<1> HIDE DEF s, h
<1>5. [img EXCEPT !.sdata = s, !.hold = h, !.ncolors = n, !.lut = n] \in Image
  <2>1. s \in Indices \cup {NULL}
    BY <1>2
  <2>2. QED
    BY <1>1, <1>3, <2>1 DEF Image
<1>6. LET new == [img EXCEPT !.sdata = s, !.hold = h, !.ncolors = n, !.lut = n] IN
      /\ new.sdata = s /\ new.hold = h
      /\ new.composite = img.composite /\ new.data = img.data
  BY DEF Image
<1>7. QED
  BY <1>2, <1>3, <1>4, <1>5, <1>6 DEF Good, Undoable

\* create_image, up to the painting.
LEMMA StretchedImage ==
  ASSUME NEW T, NEW j \in Slot, T[j] \in Image, Undoable(T[j]), NEW img \in Stretched(T, j)
  PROVE  /\ Good(img) /\ SameKind(img, T[j]) /\ img.data = T[j].data
         /\ ~T[j].composite /\ T[j].data => img.sdata # NULL
<1>1. CASE img = T[j] /\ ~(~T[j].composite /\ T[j].data)
  BY <1>1 DEF Good, SameKind
<1>2. CASE img = stretch_gray(T[j])
  BY <1>2, StretchGray DEF SameKind
<1>3. ASSUME NEW n \in 1..T[j].ncolors, img = stretch_color(T[j], n), T[j].composite
      PROVE  Good(img) /\ SameKind(img, T[j]) /\ img.data = T[j].data
  BY <1>3, StretchColor DEF SameKind
<1>4. QED
  BY <1>1, <1>2, <1>3 DEF Stretched

-----------------------------------------------------------------------------
(* update_display *)

LEMMA SlotsFinite == IsFiniteSet(Slot) /\ \A S \in SUBSET Slot : IsFiniteSet(S)
<1>1. IsFiniteSet(Slot)
  BY SlotAssumption, FS_Interval DEF Slot
<1>2. QED
  BY <1>1, FS_Subset

LEMMA BaseIsIndices ==
  ASSUME NEW T, NEW j \in Slot, Sound(T), T[j] # NULL, T[j].sdata # NULL
  PROVE  Base(T, j) \in Indices /\ Base(T, j) # NULL /\ Base(T, j).over = {}
<1>1. T[j] \in Image /\ Undoable(T[j])
  BY DEF Sound
<1>2. T[j].sdata \in Indices /\ T[j].hold \in Indices \cup {NULL}
  BY <1>1, ImageFields
<1>3. QED
  BY <1>1, <1>2, NullAssumption DEF Base, Undoable

LEMMA StartInNat ==
  ASSUME NEW T, NEW j \in Slot, NEW i \in Slot, Sound(T), T[j] # NULL,
         \A k \in T[j].overlays : T[k] # NULL
  PROVE  Start(T, j, i) \in Nat
<1> DEFINE S == {k \in T[j].overlays : k < i}
<1>1. T[j] \in Image
  BY DEF Sound
<1>2. T[j].ncolors \in Nat /\ T[j].overlays \in SUBSET Slot
  BY <1>1, ImageFields, ColorAssumption
<1>3. \A k \in S : T[k].ncolors \in Nat
  <2> TAKE k \in S
  <2>1. T[k] \in Image
    BY <1>2 DEF Sound
  <2>2. QED
    BY <2>1, ImageFields, ColorAssumption
<1>4. IsFiniteSet(S)
  BY <1>2, SlotsFinite
<1> HIDE DEF S
<1>5. ColorsIn(T, S) \in Nat
  BY <1>3, <1>4, SumInNat
<1>6. QED
  BY <1>2, <1>5 DEF Start, S

LEMMA TopInNat ==
  ASSUME NEW T, NEW j \in Slot, Sound(T), T[j] # NULL, T[j].sdata # NULL,
         \A k \in T[j].overlays : T[k] # NULL,
         NEW painted \in SUBSET T[j].overlays
  PROVE  /\ Top(T, j, painted) \in Nat
         /\ Top(T, j, painted) \in
              {Base(T, j).top} \cup {Start(T, j, i) + T[i].ncolors + 1 : i \in painted}
<1> DEFINE F == {Start(T, j, i) + T[i].ncolors + 1 : i \in painted}
<1>1. T[j].overlays \subseteq Slot
  <2>1. T[j] \in Image
    BY DEF Sound
  <2>2. QED
    BY <2>1, ImageFields
<1>2. \A i \in painted : Start(T, j, i) + T[i].ncolors + 1 \in Nat
  <2> TAKE i \in painted
  <2>1. i \in Slot /\ T[i] \in Image
    BY <1>1 DEF Sound
  <2>2. T[i].ncolors \in Nat
    BY <2>1, ImageFields, ColorAssumption
  <2>3. Start(T, j, i) \in Nat
    BY <2>1, StartInNat
  <2>4. QED
    BY <2>2, <2>3
<1>3. IsFiniteSet(painted)
  BY <1>1, SlotsFinite
<1>4. IsFiniteSet(F)
  <2> DEFINE f == [i \in painted |-> Start(T, j, i) + T[i].ncolors + 1]
  <2>1. f \in Surjection(painted, F)
    BY DEF Surjection
  <2> HIDE DEF f, F
  <2>2. QED
    BY <1>3, <2>1, FS_Surjection
<1>5. Base(T, j).top \in Nat
  BY BaseIsIndices, IndicesFields
<1>6. F \subseteq Nat
  BY <1>2
<1> HIDE DEF F
<1>7. {Base(T, j).top} \cup F \in SUBSET Nat /\ IsFiniteSet({Base(T, j).top} \cup F)
  BY <1>4, <1>5, <1>6, FS_Singleton, FS_Union
<1>8. /\ Max({Base(T, j).top} \cup F) \in Nat
      /\ Max({Base(T, j).top} \cup F) \in {Base(T, j).top} \cup F
  BY <1>7, MaxInSet
<1>9. QED
  BY <1>8 DEF Top, F

LEMMA QuantizedSound ==
  ASSUME NEW T, NEW j \in Slot, Sound(T), T[j] # NULL,
         \A k \in T[j].overlays : T[k] # NULL
  PROVE  /\ Sound(Quantized(T, j)) /\ Same(T, Quantized(T, j))
         /\ \A i \in Slot : T[i] # NULL =>
              /\ Quantized(T, j)[i].sdata = T[i].sdata
              /\ Quantized(T, j)[i].overlays = T[i].overlays
<1> DEFINE V == Quantized(T, j)
<1>1. ASSUME NEW i \in Slot
      PROVE  /\ V[i] \in Image \cup {NULL} /\ (T[i] = NULL <=> V[i] = NULL)
             /\ T[i] # NULL => /\ Undoable(V[i]) /\ SameKind(V[i], T[i])
                               /\ V[i].data = T[i].data /\ V[i].sdata = T[i].sdata
                               /\ V[i].overlays = T[i].overlays
  <2>1. CASE ~(i \in T[j].overlays /\ T[i].quant = 0)
    <3>1. V[i] = T[i]
      BY <2>1 DEF Quantized
    <3>2. QED
      BY <3>1 DEF Sound, SameKind
  <2>2. CASE i \in T[j].overlays /\ T[i].quant = 0
    <3> DEFINE m == IF T[i].map = 0 THEN T[i].ncolors ELSE T[i].map
    <3>1. T[i] \in Image /\ Undoable(T[i])
      BY <2>2 DEF Sound
    <3>2. T[i].ncolors \in 0..NColors /\ m \in 0..NColors
      BY <3>1, ImageFields, ColorAssumption
    <3>3. V[i] = [T[i] EXCEPT !.quant = T[i].ncolors, !.map = m]
      BY <2>2 DEF Quantized
    <3> HIDE DEF m, V
    <3>4. /\ V[i] \in Image /\ V[i].sdata = T[i].sdata /\ V[i].hold = T[i].hold
          /\ V[i].composite = T[i].composite /\ V[i].data = T[i].data
          /\ V[i].overlays = T[i].overlays
      BY <3>1, <3>2, <3>3 DEF Image
    <3>5. QED
      BY <3>1, <3>4, NullAssumption DEF SameKind, Undoable
  <2>3. QED
    BY <2>1, <2>2
<1>2. V = [i \in Slot |-> V[i]]
  BY DEF Quantized
<1> HIDE DEF V
<1>3. V \in [Slot -> Image \cup {NULL}]
  BY <1>1, <1>2
<1>4. \A i \in Slot : V[i] # NULL => Undoable(V[i])
  BY <1>1
<1>5. QED
  BY <1>1, <1>3, <1>4 DEF Sound, Same, V

LEMMA SameTrans ==
  ASSUME NEW T, NEW U, NEW V, Same(T, U), Same(U, V)
  PROVE  Same(T, V)
BY DEF Same, SameKind

\* One image of a sound table is replaced by another.
LEMMA PutSound ==
  ASSUME NEW T, Sound(T), NEW j \in Slot, NEW img, img = NULL \/ Good(img)
  PROVE  /\ Sound([T EXCEPT ![j] = img])
         /\ [T EXCEPT ![j] = img][j] = img
         /\ \A k \in Slot \ {j} : [T EXCEPT ![j] = img][k] = T[k]
BY DEF Sound, Good

LEMMA PutSame ==
  ASSUME NEW T, Sound(T), NEW j \in Slot, T[j] # NULL, NEW img, img # NULL,
         SameKind(img, T[j]), img.data = T[j].data
  PROVE  Same(T, [T EXCEPT ![j] = img])
BY DEF Sound, Same, SameKind

LEMMA UpdateSound ==
  ASSUME NEW T, NEW j \in Slot, Sound(T), T[j] # NULL, T[j].sdata # NULL, ~OverlayFaults(T, j)
  PROVE  Sound(update_display(T, j)) /\ Same(T, update_display(T, j))
<1> DEFINE V == Quantized(T, j)
           s == [Base(T, j) EXCEPT !.over = @ \cup Paints(T, j),
                                   !.top  = Top(T, j, Paints(T, j))]
           h == IF T[j].overlays = {} THEN NULL ELSE Base(T, j)
<1>1. T[j] \in Image /\ Undoable(T[j])
  BY DEF Sound
<1>2. T[j].overlays \subseteq Slot
  BY <1>1, ImageFields
<1>3. \A k \in T[j].overlays : T[k] # NULL
  BY <1>2 DEF OverlayFaults
<1>4. Paints(T, j) \in SUBSET T[j].overlays
  BY DEF Paints
<1>5. Top(T, j, Paints(T, j)) \in Nat
  BY <1>3, <1>4, TopInNat
<1>6. Base(T, j) \in Indices /\ Base(T, j) # NULL /\ Base(T, j).over = {}
  BY BaseIsIndices
<1>7. s \in Indices /\ s.over = Paints(T, j)
  <2> HIDE DEF V, h
  <2>1. Paints(T, j) \subseteq Slot
    BY <1>2, <1>4
  <2>2. QED
    BY <1>5, <1>6, <2>1 DEF Indices
<1>8. Sound(V) /\ Same(T, V) /\ V[j] # NULL /\ V[j].sdata = T[j].sdata
  BY <1>3, QuantizedSound DEF Same
<1>9. V[j] \in Image
  BY <1>8 DEF Sound
<1>10. update_display(T, j) = [V EXCEPT ![j].sdata = s, ![j].hold = h]
  BY DEF update_display
<1>11. h \in Indices \cup {NULL} /\ (h # NULL => h.over = {}) /\ (h = NULL => Paints(T, j) = {})
  BY <1>4, <1>6
<1>12. s # NULL /\ s \in Indices \cup {NULL}
  BY <1>7, NullAssumption
<1> DEFINE new == [V[j] EXCEPT !.sdata = s, !.hold = h]
<1> HIDE DEF V, s, h
<1>13. update_display(T, j) = [V EXCEPT ![j] = new]
  BY <1>8, <1>10 DEF Sound
<1>14. /\ new \in Image /\ new.sdata = s /\ new.hold = h
       /\ new.composite = V[j].composite /\ new.data = V[j].data
  BY <1>9, <1>11, <1>12 DEF new, Image
<1> HIDE DEF new
<1>15. Good(new) /\ new # NULL /\ SameKind(new, V[j])
  BY <1>7, <1>11, <1>12, <1>14, NullAssumption DEF Good, Undoable, SameKind
<1>16. Sound([V EXCEPT ![j] = new]) /\ Same(V, [V EXCEPT ![j] = new])
  BY <1>8, <1>14, <1>15, PutSound, PutSame
<1>17. QED
  BY <1>8, <1>13, <1>16, SameTrans

-----------------------------------------------------------------------------
(* The Files Window and the command line *)

TableInv == TypeOK /\ Sound(Images)

\* Slot i still has indices to show if it had.
StaysShown(i) ==
  Exists(i) /\ Images[i].sdata # NULL => Exists(i)' /\ Images'[i].sdata # NULL

\* Handlers that change no more than one image end here.
LEMMA EditTable ==
  ASSUME TableInv, NEW j \in Slot, NEW img, img = NULL \/ Good(img),
         Images' = [Images EXCEPT ![j] = img]
  PROVE  /\ Sound(Images)'
         /\ \A i \in Slot \ {j} : StaysShown(i)
         /\ img # NULL /\ Images[j] # NULL /\ (Images[j].sdata # NULL => img.sdata # NULL)
              => StaysShown(j)
<1>1. Sound([Images EXCEPT ![j] = img])
  BY PutSound DEF TableInv
<1>2. Images'[j] = img /\ \A k \in Slot \ {j} : Images'[k] = Images[k]
  BY PutSound DEF TableInv
<1>3. QED
  BY <1>1, <1>2 DEF StaysShown, Exists, Sound

\* No letter turns red over an empty slot, and no slot is emptied under a
\* red letter.
LettersFollow ==
  \A i \in Slot : letter'[i] = 1 /\ Images'[i] = NULL => letter[i] = 1 /\ Images[i] = NULL

\* An image is put in slot j, or j is emptied and loses its letter.
LEMMA PutFollows ==
  ASSUME TableInv, NEW j \in Slot, NEW img, Images' = [Images EXCEPT ![j] = img],
         \/ img # NULL /\ (FlagForLoad(j) \/ UNCHANGED letter)
         \/ img = NULL /\ UnFlagForLoad(j)
         \/ img = NULL /\ Images[j] = NULL /\ UNCHANGED letter
  PROVE  LettersFollow
<1>1. Images'[j] = img /\ \A i \in Slot \ {j} : Images'[i] = Images[i]
  BY DEF TableInv, TypeOK
<1>2. letter \in [Slot -> {0, 1}]
  BY DEF TableInv, TypeOK
<1>3. QED
  BY <1>1, <1>2 DEF LettersFollow, FlagForLoad, UnFlagForLoad

LEMMA SameTable ==
  ASSUME TableInv, UNCHANGED Images
  PROVE  Sound(Images)' /\ \A i \in Slot : StaysShown(i)
BY DEF TableInv, Sound, StaysShown, Exists

LEMMA DieOK ==
  ASSUME TableInv, NEW handler \in Handler, Die(handler)
  PROVE  TableInv' /\ LettersFollow /\ \A i \in Slot : StaysShown(i)
<1>1. UNCHANGED <<Images, sel, rgbs, comps, letter, args>> /\ fault' \in Handler
  BY DEF Die, buttons
<1>2. Sound(Images)' /\ \A i \in Slot : StaysShown(i)
  BY <1>1, SameTable
<1>3. TypeOK'
  BY <1>1 DEF TableInv, TypeOK
<1>4. LettersFollow
  BY <1>1 DEF LettersFollow
<1>5. QED
  BY <1>2, <1>3, <1>4 DEF TableInv

LEMMA ButtonsTyped ==
  ASSUME NEW T, Sound(T), NEW n \in Slot, UpdatePushButtons(T, n)
  PROVE  rgbs' \in [Slot -> 0..(NPlanes + 1)] /\ comps' \in [Slot -> 0..2]
<1>1. ASSUME NEW i \in Slot, T[n] # NULL PROVE T[n].rgb[i] \in 0..(NPlanes + 1)
  <2>1. T[n] \in Image
    BY <1>1 DEF Sound
  <2>2. T[n].rgb \in [Slot -> 0..NPlanes]
    BY <2>1, ImageFields
  <2>3. QED
    BY <2>2, SlotAssumption
<1>2. 0 \in 0..(NPlanes + 1) /\ NPlanes + 1 \in 0..(NPlanes + 1)
  BY SlotAssumption
<1>3. QED
  BY <1>1, <1>2 DEF UpdatePushButtons

\* The images that handlers make.
LEMMA FreshGood ==
  /\ Good(NewComposite)
  /\ \A kind : Good(FileImage(kind))
  /\ \A kind, n : n \in 1..NColors => Good([FileImage(kind) EXCEPT !.ncolors = n])
<1>1. /\ DefaultColors \in 1..NColors /\ NColors \in 1..NColors /\ 0 \in 0..NColors
      /\ [i \in Slot |-> 0] \in [Slot -> 0..NPlanes]
  BY ColorAssumption, SlotAssumption
<1>2. allocate_image \in Image /\ allocate_image.sdata = NULL /\ allocate_image.hold = NULL
  BY <1>1 DEF allocate_image, Image
<1>3. Good(NewComposite)
  BY <1>1, <1>2 DEF NewComposite, Good, Undoable, Image
<1>4. ASSUME NEW kind
      PROVE  /\ FileImage(kind) \in Image
             /\ FileImage(kind).sdata = NULL /\ FileImage(kind).hold = NULL
  <2>1. (kind # "none") \in BOOLEAN /\ (kind \in {"single", "band"}) \in BOOLEAN
    OBVIOUS
  <2>2. QED
    BY <1>2, <2>1 DEF FileImage, Image
<1>5. ASSUME NEW kind, NEW n \in 1..NColors PROVE Good([FileImage(kind) EXCEPT !.ncolors = n])
  BY <1>4, SetColors DEF Good, Undoable
<1>6. QED
  BY <1>3, <1>4, <1>5 DEF Good, Undoable

LEMMA LoadInfoGood ==
  ASSUME NEW img, Good(img)
  PROVE  Good(load_info(img)) /\ load_info(img) # NULL /\ load_info(img).sdata = img.sdata
BY LoadInfoImage, NullAssumption DEF Good, Undoable

LEMMA ExistingGood ==
  ASSUME TableInv, NEW i \in Slot, Images[i] # NULL
  PROVE  Good(Images[i]) /\ Images[i] \in Image
BY DEF TableInv, Sound, Good

LEMMA SelectSlotOK ==
  ASSUME TableInv, NEW i \in Slot, SelectSlot(i)
  PROVE  TableInv' /\ LettersFollow /\ \A k \in Slot : StaysShown(k)
<1> DEFINE img == load_info(Images[i])
<1>1. img = NULL \/ Good(img)
  BY ExistingGood, LoadInfoGood DEF load_info
<1>2. Images[i] = NULL => img = NULL
  BY DEF load_info
<1>3. Images[i] # NULL => img # NULL /\ img.sdata = Images[i].sdata
  BY ExistingGood, LoadInfoGood
<1> HIDE DEF img
<1>4. Images' = [Images EXCEPT ![i] = img]
  BY DEF SelectSlot, img
<1>5. Sound(Images)' /\ \A k \in Slot : StaysShown(k)
  <2>1. CASE Images[i] = NULL
    BY <1>1, <1>4, <2>1, EditTable DEF StaysShown, Exists
  <2>2. CASE Images[i] # NULL
    BY <1>1, <1>3, <1>4, <2>2, EditTable
  <2>3. QED
    BY <2>1, <2>2
<1>6. rgbs' \in [Slot -> 0..(NPlanes + 1)] /\ comps' \in [Slot -> 0..2]
  BY ButtonsTyped DEF SelectSlot, TableInv
<1>7. LettersFollow
  BY <1>2, <1>3, <1>4, PutFollows DEF SelectSlot
<1>8. QED
  BY <1>5, <1>6, <1>7 DEF SelectSlot, TableInv, TypeOK, Sound

LEMMA CommandLineOK ==
  ASSUME TableInv, CommandLine
  PROVE  TableInv' /\ LettersFollow
<1>0. UNCHANGED <<Images, letter>> => LettersFollow
  BY DEF LettersFollow
<1>1. CASE EndOfArgs
  BY <1>0, <1>1, SameTable, SlotAssumption DEF EndOfArgs, TableInv, TypeOK, buttons
<1>2. ASSUME NEW kind \in StartFiles, NEW n \in ColorChoices \cup {DefaultColors},
             off_load_filename(kind, n)
      PROVE  TableInv' /\ LettersFollow
  <2>1. args \in Slot /\ args + 1 \in 0..NIMAGE
    BY <1>2, SlotAssumption DEF off_load_filename, TableInv, TypeOK, Slot
  <2>2. CASE kind = "missing"
    BY <1>0, <1>2, <2>1, <2>2, SameTable DEF off_load_filename, TableInv, TypeOK, buttons
  <2>3. CASE kind # "missing"
    <3> DEFINE new == [FileImage(kind) EXCEPT !.ncolors = n]
               img == IF kind = "none" THEN new ELSE load_info(new)
               T == [Images EXCEPT ![args] = img]
    <3>1. n \in 1..NColors
      BY ColorAssumption
    <3>2. Good(new)
      BY <3>1, FreshGood
    <3>3. Good(img)
      BY <3>2, LoadInfoGood
    <3> HIDE DEF new, img
    <3>4. Images' = T /\ UpdatePushButtons(T, args)
      BY <1>2, <2>3 DEF off_load_filename, img, new
    <3>5. Sound(T)
      BY <2>1, <3>3, PutSound DEF TableInv
    <3>6. rgbs' \in [Slot -> 0..(NPlanes + 1)] /\ comps' \in [Slot -> 0..2]
      BY <2>1, <3>4, <3>5, ButtonsTyped
    <3>7. sel' \in Slot /\ letter' \in [Slot -> {0, 1}] /\ args' \in 0..NIMAGE /\ fault' \in Handler
      BY <1>2, <2>1, <2>3 DEF off_load_filename, FlagForLoad, TableInv, TypeOK
    <3>8. LettersFollow
      <4>1. img # NULL /\ (UNCHANGED letter \/ FlagForLoad(args))
        BY <1>2, <2>3, <3>3, NullAssumption DEF Good, off_load_filename
      <4>2. QED
        BY <2>1, <3>4, <4>1, PutFollows
    <3> HIDE DEF T
    <3>9. QED
      BY <3>4, <3>5, <3>6, <3>7, <3>8 DEF TableInv, TypeOK, Sound
  <2>4. QED
    BY <2>2, <2>3
<1>3. QED
  BY <1>1, <1>2 DEF CommandLine

LEMMA NewFileOK ==
  ASSUME TableInv, NEW kind \in OpenFiles, NewFile(kind)
  PROVE  TableInv' /\ LettersFollow /\ \A k \in Slot \ {sel} : StaysShown(k)
<1> DEFINE new == FileImage(kind)
           img == IF kind = "none" THEN new ELSE load_info(new)
           T == [Images EXCEPT ![sel] = img]
<1>1. sel \in Slot
  BY DEF TableInv, TypeOK
<1>2. Good(img)
  BY FreshGood, LoadInfoGood
<1> HIDE DEF img
<1>3. Images' = T /\ UpdatePushButtons(T, sel)
  BY DEF NewFile, img
<1>4. Sound(T) /\ \A k \in Slot \ {sel} : StaysShown(k)
  BY <1>1, <1>2, <1>3, EditTable, PutSound DEF TableInv
<1>5. rgbs' \in [Slot -> 0..(NPlanes + 1)] /\ comps' \in [Slot -> 0..2]
  BY <1>1, <1>3, <1>4, ButtonsTyped
<1>6. sel' \in Slot /\ letter' \in [Slot -> {0, 1}] /\ args' \in 0..NIMAGE /\ fault' \in Handler
  BY DEF NewFile, FlagForLoad, TableInv, TypeOK
<1>7. LettersFollow
  <2>1. img # NULL /\ FlagForLoad(sel)
    BY <1>2, NullAssumption DEF Good, NewFile
  <2>2. QED
    BY <1>1, <1>3, <2>1, PutFollows
<1> HIDE DEF T
<1>8. QED
  BY <1>3, <1>4, <1>5, <1>6, <1>7 DEF TableInv, TypeOK, Sound

LEMMA DeleteImageOK ==
  ASSUME TableInv, DeleteImage
  PROVE  TableInv' /\ \A k \in Slot \ {sel} : StaysShown(k)
<1>1. sel \in Slot /\ Images' = [Images EXCEPT ![sel] = NULL]
  BY DEF DeleteImage, TableInv, TypeOK
<1>2. Sound(Images)' /\ \A k \in Slot \ {sel} : StaysShown(k)
  BY <1>1, EditTable
<1>3. QED
  BY <1>2 DEF DeleteImage, TableInv, TypeOK, Sound, buttons

\* What the handlers of the header and the colours have in common.
LEMMA FieldOK ==
  ASSUME TableInv, Images[sel] # NULL, NEW img, Good(img), img.sdata = Images[sel].sdata,
         Images' = [Images EXCEPT ![sel] = img], FlagForLoad(sel),
         UNCHANGED <<sel, buttons, args, fault>>
  PROVE  TableInv' /\ LettersFollow /\ \A k \in Slot : StaysShown(k)
<1>1. sel \in Slot /\ img # NULL
  BY NullAssumption DEF TableInv, TypeOK, Good
<1>2. Sound(Images)' /\ \A k \in Slot : StaysShown(k)
  BY <1>1, EditTable
<1>3. LettersFollow
  BY <1>1, PutFollows
<1>4. QED
  BY <1>1, <1>2, <1>3 DEF TableInv, TypeOK, Sound, buttons, FlagForLoad

LEMMA FieldsOK ==
  ASSUME TableInv,
         \/ load_band
         \/ \E n \in ColorChoices : load_ncolors(n)
         \/ \E bands \in BOOLEAN : GetInput(bands)
  PROVE  TableInv' /\ LettersFollow /\ \A k \in Slot : StaysShown(k)
<1> DEFINE old == Images[sel]
<1>0. old # NULL => Good(old) /\ old \in Image
  BY ExistingGood DEF TableInv, TypeOK
<1>1. CASE load_band
  <2>0. CASE ~Exists(sel)
    <3>1. Die("load_band")
      BY <1>1, <2>0 DEF load_band, IsGray, Exists
    <3>2. "load_band" \in Handler
      BY DEF Handler
    <3>3. QED
      BY <3>1, <3>2, DieOK, Zenon
  <2>1. CASE Exists(sel)
    <3>1. old # NULL
      BY <2>1 DEF Exists
    <3> DEFINE img == [old EXCEPT !.band = TRUE, !.data = FALSE]
    <3>2. img \in Image /\ img.sdata = old.sdata /\ img.hold = old.hold
      BY <1>0, <3>1 DEF Image
    <3>3. Good(img)
      BY <1>0, <3>1, <3>2 DEF Good, Undoable
    <3>4. Images' = [Images EXCEPT ![sel] = img]
      BY <1>1, <2>1 DEF load_band, TableInv, Sound
    <3>5. FlagForLoad(sel) /\ UNCHANGED <<sel, buttons, args, fault>>
      BY <1>1, <2>1 DEF load_band
    <3> HIDE DEF img
    <3>6. QED
      BY <3>1, <3>2, <3>3, <3>4, <3>5, FieldOK
  <2>2. QED
    BY <2>0, <2>1
<1>2. ASSUME NEW n \in ColorChoices, load_ncolors(n)
      PROVE  TableInv' /\ LettersFollow /\ \A k \in Slot : StaysShown(k)
  <2>1. old # NULL
    BY <1>2 DEF load_ncolors, Exists
  <2> DEFINE new == [old EXCEPT !.ncolors = n]
             img == load_info(new)
  <2>2. new \in Image /\ new.sdata = old.sdata /\ new.hold = old.hold
    BY <1>0, <2>1, ColorAssumption DEF Image
  <2>3. Good(new)
    BY <1>0, <2>1, <2>2 DEF Good, Undoable
  <2> HIDE DEF new
  <2>4. Good(img) /\ img.sdata = old.sdata
    BY <2>2, <2>3, LoadInfoGood
  <2>5. Images' = [Images EXCEPT ![sel] = img]
    BY <1>2 DEF load_ncolors, new
  <2> HIDE DEF img
  <2>6. QED
    BY <1>2, <2>1, <2>4, <2>5, FieldOK DEF load_ncolors
<1>3. ASSUME NEW bands \in BOOLEAN, GetInput(bands)
      PROVE  TableInv' /\ LettersFollow /\ \A k \in Slot : StaysShown(k)
  <2>1. CASE ~Exists(sel)
    <3>1. Die("GetInput")
      BY <1>3, <2>1 DEF GetInput
    <3>2. "GetInput" \in Handler
      BY DEF Handler
    <3>3. QED
      BY <3>1, <3>2, DieOK, Zenon
  <2>2. CASE Exists(sel)
    <3> DEFINE img == [old EXCEPT !.header = bands]
    <3>1. img \in Image /\ img.sdata = old.sdata /\ img.hold = old.hold
      BY <1>0, <2>2 DEF Image, Exists
    <3>2. Good(img)
      BY <1>0, <2>2, <3>1 DEF Good, Undoable, Exists
    <3>3. Images' = [Images EXCEPT ![sel] = img]
      BY <1>3, <2>2 DEF GetInput
    <3> HIDE DEF img
    <3>4. FlagForLoad(sel) /\ UNCHANGED <<sel, buttons, args, fault>>
      BY <1>3, <2>2 DEF GetInput
    <3>5. QED
      BY <2>2, <3>1, <3>2, <3>3, <3>4, FieldOK DEF Exists
  <2>3. QED
    BY <2>1, <2>2
<1>4. QED
  BY <1>1, <1>2, <1>3

LEMMA RGBOK ==
  ASSUME TableInv, NEW i \in Slot, RGB_pushbutton(i)
  PROVE  /\ TableInv' /\ LettersFollow
         /\ \A k \in Slot \ {sel} : StaysShown(k)
         /\ Images'[sel] # NULL => StaysShown(sel)
<1> DEFINE img == IF Exists(sel) THEN Images[sel] ELSE NewComposite
           p == NextPlane(img.rgb, rgbs[i])
           new == SetPlane(img, i, p)
           empty == \A k \in Slot : new.rgb[k] = 0
           result == IF empty THEN NULL ELSE load_info(new)
<1>1. sel \in Slot
  BY DEF TableInv, TypeOK
<1>2. Good(img) /\ img \in Image /\ (Images[sel] # NULL => img = Images[sel])
  BY <1>1, ExistingGood, FreshGood DEF Good, Exists
<1>3. p \in 0..NPlanes
  <2>1. img.rgb \in [Slot -> 0..NPlanes]
    BY <1>2, ImageFields
  <2>2. rgbs[i] \in 0..NPlanes
    BY DEF RGB_pushbutton
  <2> HIDE DEF img
  <2>3. QED
    BY <2>1, <2>2, NextPlaneIsFree
<1> HIDE DEF img, p
<1>4. new \in Image /\ new.sdata = img.sdata /\ new.hold = img.hold
  <2>1. img.overlays \ {i} \in SUBSET Slot
    BY <1>2, ImageFields
  <2>2. QED
    BY <1>2, <1>3, <2>1 DEF SetPlane, Image
<1>5. Good(new)
  BY <1>2, <1>4 DEF Good, Undoable
<1> HIDE DEF new
<1>6. /\ result = NULL \/ Good(result)
      /\ result # NULL => result.sdata = new.sdata
      /\ result = NULL <=> empty
  BY <1>5, LoadInfoGood
<1>7. /\ Images' = [Images EXCEPT ![sel] = result]
      /\ rgbs' = [rgbs EXCEPT ![i] = p] /\ comps' = [comps EXCEPT ![i] = 0]
      /\ IF empty THEN UnFlagForLoad(sel) ELSE FlagForLoad(sel)
      /\ UNCHANGED <<sel, args, fault>>
  BY DEF RGB_pushbutton, img, p, new
<1> HIDE DEF result, empty
<1>8. Images'[sel] = result
  BY <1>1, <1>7 DEF TableInv, TypeOK
<1>9. /\ Sound(Images)'
      /\ \A k \in Slot \ {sel} : StaysShown(k)
      /\ Images'[sel] # NULL => StaysShown(sel)
  <2>1. Sound(Images)' /\ \A k \in Slot \ {sel} : StaysShown(k)
    BY <1>1, <1>6, <1>7, EditTable
  <2>2. ASSUME result # NULL PROVE StaysShown(sel)
    <3>1. CASE Images[sel] = NULL
      BY <3>1 DEF StaysShown, Exists
    <3>2. CASE Images[sel] # NULL
      BY <1>1, <1>2, <1>4, <1>6, <1>7, <2>2, <3>2, EditTable
    <3>3. QED
      BY <3>1, <3>2
  <2>3. QED
    BY <1>8, <2>1, <2>2
<1>10. TypeOK'
  <2>1. Images' \in [Slot -> Image \cup {NULL}]
    BY <1>9 DEF Sound
  <2>2. p \in 0..(NPlanes + 1)
    BY <1>3, SlotAssumption
  <2>3. rgbs' \in [Slot -> 0..(NPlanes + 1)] /\ comps' \in [Slot -> 0..2]
    BY <1>7, <2>2 DEF TableInv, TypeOK
  <2>4. letter' \in [Slot -> {0, 1}]
    BY <1>7 DEF UnFlagForLoad, FlagForLoad, TableInv, TypeOK
  <2>5. QED
    BY <1>7, <2>1, <2>3, <2>4 DEF TableInv, TypeOK
<1>11. LettersFollow
  BY <1>1, <1>6, <1>7, PutFollows
<1>12. QED
  BY <1>9, <1>10, <1>11 DEF TableInv

LEMMA OverlayOK ==
  ASSUME TableInv, NEW i \in Slot, overlay_pushbutton(i)
  PROVE  TableInv' /\ LettersFollow /\ \A k \in Slot : StaysShown(k)
<1> DEFINE kept == IF comps[i] = 0 THEN Images[sel].overlays \cup {i} ELSE Images[sel].overlays \ {i}
           taken == IF TooMany(Images[sel].ncolors + ColorsIn(Images, kept)) THEN kept \ {i} ELSE kept
           new == [Images[sel] EXCEPT !.rgb[i] = 0, !.overlays = taken]
<1>1. sel \in Slot /\ Images[sel] # NULL
  BY DEF overlay_pushbutton, Exists, TableInv, TypeOK
<1>2. Good(Images[sel]) /\ Images[sel] \in Image
  BY <1>1, ExistingGood
<1>3. CASE Die("overlay_pushbutton")
  <2>1. "overlay_pushbutton" \in Handler
    BY DEF Handler
  <2>2. QED
    BY <1>3, <2>1, DieOK, Zenon
<1>4. CASE ~Die("overlay_pushbutton")
  <2>1. taken \in SUBSET Slot
    <3>1. Images[sel].overlays \subseteq Slot
      BY <1>2, ImageFields
    <3>2. QED
      BY <3>1
  <2>2. /\ Images' = [Images EXCEPT ![sel].rgb[i] = 0, ![sel].overlays = taken]
        /\ rgbs'  = [rgbs EXCEPT ![i] = 0]
        /\ comps' = [comps EXCEPT ![i] = IF i \in taken THEN 1 ELSE 0]
        /\ UNCHANGED <<sel, letter, args, fault>>
    BY <1>4, Zenon DEF overlay_pushbutton
  <2> HIDE DEF taken
  <2>3. Images' = [Images EXCEPT ![sel] = new]
    BY <1>1, <2>2 DEF TableInv, TypeOK
  <2>4. new \in Image /\ new.sdata = Images[sel].sdata /\ new.hold = Images[sel].hold
    <3>1. 0 \in 0..NPlanes
      BY SlotAssumption
    <3>2. QED
      BY <1>2, <2>1, <3>1 DEF Image
  <2>5. Good(new) /\ new # NULL
    BY <1>2, <2>4, NullAssumption DEF Good, Undoable
  <2> HIDE DEF new
  <2>6. Sound(Images)' /\ \A k \in Slot : StaysShown(k)
    BY <1>1, <2>3, <2>4, <2>5, EditTable
  <2>7. TypeOK'
    <3>1. 0 \in 0..(NPlanes + 1) /\ 0 \in 0..2 /\ 1 \in 0..2
      BY SlotAssumption
    <3>2. rgbs' \in [Slot -> 0..(NPlanes + 1)] /\ comps' \in [Slot -> 0..2]
      BY <2>2, <3>1 DEF TableInv, TypeOK
    <3>3. QED
      BY <2>2, <2>6, <3>2 DEF TableInv, TypeOK, Sound
  <2>8. LettersFollow
    BY <1>1, <2>2, <2>3, <2>5, PutFollows
  <2>9. QED
    BY <2>6, <2>7, <2>8 DEF TableInv
<1>5. QED
  BY <1>3, <1>4

LEMMA ReadDataGood ==
  ASSUME NEW img, Good(img), NEW reads \in BOOLEAN
  PROVE  /\ Good(ReadData(img, reads)) /\ ReadData(img, reads) \in Image
         /\ SameKind(ReadData(img, reads), img)
<1> DEFINE d == img.data \/ (reads /\ ~img.composite)
<1>1. img \in Image /\ d \in BOOLEAN
  BY DEF Good
<1>2. ReadData(img, reads) = [img EXCEPT !.data = d]
  BY DEF ReadData
<1> HIDE DEF d
<1>3. LET new == [img EXCEPT !.data = d] IN
      /\ new \in Image /\ new.sdata = img.sdata /\ new.hold = img.hold
      /\ new.composite = img.composite
  BY <1>1 DEF Image
<1>4. QED
  BY <1>2, <1>3 DEF Good, Undoable, SameKind

\* Slot i is read and stretched, which may leave it with indices, in T; the
\* rest of create_image paints it.
LEMMA LoadSteps ==
  ASSUME TableInv, NEW i \in Slot, Images[i] # NULL, NEW reads \in BOOLEAN,
         NEW img \in Stretched([Images EXCEPT ![i] = ReadData(@, reads)], i)
  PROVE  /\ Good(img) /\ img # NULL /\ SameKind(img, Images[i])
         /\ LET U == [Images EXCEPT ![i] = img] IN
            /\ [[Images EXCEPT ![i] = ReadData(@, reads)] EXCEPT ![i] = img] = U
            /\ Sound(U) /\ U[i] = img
<1> DEFINE T == [Images EXCEPT ![i] = ReadData(@, reads)]
           U == [Images EXCEPT ![i] = img]
<1>1. Sound(Images) /\ Images \in [Slot -> Image \cup {NULL}]
  BY DEF TableInv, TypeOK
<1>2. /\ Good(ReadData(Images[i], reads)) /\ ReadData(Images[i], reads) \in Image
      /\ SameKind(ReadData(Images[i], reads), Images[i])
  BY ExistingGood, ReadDataGood
<1>3. T = [Images EXCEPT ![i] = ReadData(Images[i], reads)]
  OBVIOUS
<1>4. T[i] \in Image /\ Undoable(T[i]) /\ SameKind(T[i], Images[i])
  BY <1>1, <1>2, <1>3 DEF Good
<1>5. [T EXCEPT ![i] = img] = U
  BY <1>1, <1>3
<1> HIDE DEF T
<1>6. img \in Stretched(T, i)
  BY DEF T
<1>7. Good(img) /\ SameKind(img, T[i])
  BY <1>4, <1>6, StretchedImage
<1>8. img # NULL /\ SameKind(img, Images[i])
  BY <1>4, <1>7, NullAssumption DEF Good, SameKind
<1>9. Sound(U) /\ U[i] = img
  BY <1>1, <1>7, PutSound
<1>10. QED
  BY <1>5, <1>7, <1>8, <1>9 DEF T

LEMMA LoadImageOK ==
  ASSUME TableInv, NEW i \in Slot, LoadImage(i)
  PROVE  TableInv' /\ LettersFollow /\ \A k \in Slot : StaysShown(k)
<1>1. CASE Die("LoadImage")
  <2>1. "LoadImage" \in Handler
    BY DEF Handler
  <2>2. QED
    BY <1>1, <2>1, DieOK, Zenon
<1>2. CASE Die("create_image")
  <2>1. "create_image" \in Handler
    BY DEF Handler
  <2>2. QED
    BY <1>2, <2>1, DieOK, Zenon
<1>3. CASE ~Die("LoadImage") /\ ~Die("create_image")
  <2> DEFINE T(reads) == [Images EXCEPT ![i] = ReadData(@, reads)]
             U(reads, img) == [T(reads) EXCEPT ![i] = img]
             Ends(reads, img) ==
               /\ Shows(img) => ~OverlayFaults(U(reads, img), i)
               /\ Images' = IF Shows(img) THEN update_display(U(reads, img), i) ELSE U(reads, img)
               /\ UnFlagForLoad(i)
               /\ UNCHANGED <<sel, buttons, args, fault>>
  <2>1. Images[i] # NULL /\ \E reads \in Reads : \E img \in Stretched(T(reads), i) : Ends(reads, img)
    BY <1>3, Zenon DEF LoadImage, Exists
  <2>2. PICK reads \in Reads : \E img \in Stretched(T(reads), i) : Ends(reads, img)
    BY <2>1, Zenon
  <2>3. PICK img \in Stretched(T(reads), i) : Ends(reads, img)
    BY <2>2, Zenon
  <2>4. reads \in BOOLEAN
    BY FileAssumption
  <2> DEFINE W == [Images EXCEPT ![i] = img]
  <2>5. /\ Good(img) /\ img # NULL /\ SameKind(img, Images[i])
        /\ U(reads, img) = W /\ Sound(W) /\ W[i] = img
    BY <2>1, <2>3, <2>4, LoadSteps, Zenon
  <2>6. /\ Shows(img) => ~OverlayFaults(W, i)
        /\ Images' = IF Shows(img) THEN update_display(W, i) ELSE W
        /\ UnFlagForLoad(i)
        /\ UNCHANGED <<sel, buttons, args, fault>>
    BY <2>3, <2>5, Zenon
  <2>7. \A k \in Slot \ {i} : W[k] = Images[k]
    BY DEF TableInv, TypeOK
  <2> HIDE DEF W, U, T, Ends
  <2>8. /\ Sound(Images')
        /\ \A k \in Slot : W[k] # NULL => Images'[k] # NULL
        /\ \A k \in Slot : W[k] # NULL /\ W[k].sdata # NULL => Images'[k].sdata # NULL
    <3>1. CASE Shows(img)
      <4>1. img.sdata # NULL
        BY <3>1 DEF Shows
      <4>2. Sound(update_display(W, i)) /\ Same(W, update_display(W, i))
        BY <2>5, <2>6, <3>1, <4>1, UpdateSound
      <4>3. QED
        BY <2>6, <3>1, <4>2 DEF Same, SameKind
    <3>2. CASE ~Shows(img)
      BY <2>5, <2>6, <3>2
    <3>3. QED
      BY <3>1, <3>2
  <2>9. ASSUME NEW k \in Slot PROVE StaysShown(k)
    <3>1. Images[k] # NULL /\ Images[k].sdata # NULL => W[k] # NULL /\ W[k].sdata # NULL
      BY <2>5, <2>7 DEF SameKind
    <3>2. QED
      BY <2>8, <3>1 DEF StaysShown, Exists
  <2>10. TypeOK'
    BY <2>6, <2>8 DEF TableInv, TypeOK, Sound, buttons, UnFlagForLoad
  <2>11. LettersFollow
    <3>1. \A k \in Slot : letter'[k] = 1 => letter[k] = 1
      BY <2>6 DEF UnFlagForLoad, TableInv, TypeOK
    <3>2. \A k \in Slot : Images[k] # NULL => Images'[k] # NULL
      BY <2>5, <2>7, <2>8
    <3>3. QED
      BY <3>1, <3>2 DEF LettersFollow
  <2>12. QED
    BY <2>8, <2>9, <2>10, <2>11 DEF TableInv, Sound
<1>4. QED
  BY <1>1, <1>2, <1>3

LEMMA TableInit == ASSUME Init PROVE TableInv
<1>1. Images \in [Slot -> Image \cup {NULL}] /\ \A j \in Slot : Images[j] = NULL
  BY DEF Init
<1>2. 0 \in Slot /\ 0 \in 0..(NPlanes + 1) /\ 0 \in 0..2 /\ 0 \in 0..NIMAGE /\ "none" \in Handler
  BY SlotAssumption DEF Slot, Handler
<1>3. QED
  BY <1>1, <1>2 DEF Init, TableInv, TypeOK, Sound

LEMMA TableStep ==
  ASSUME TableInv, [Next]_vars
  PROVE  TableInv' /\ (DeleteImage \/ LettersFollow)
<1>1. CASE UNCHANGED vars
  BY <1>1, SameTable DEF vars, buttons, TableInv, TypeOK, LettersFollow
<1>2. CASE CommandLine
  BY <1>2, CommandLineOK
<1>3. CASE FilesWindow
  <2>1. ASSUME NEW i \in Slot,
               SelectSlot(i) \/ RGB_pushbutton(i) \/ overlay_pushbutton(i) \/ LoadImage(i)
        PROVE  TableInv' /\ LettersFollow
    BY <2>1, SelectSlotOK, RGBOK, OverlayOK, LoadImageOK
  <2>2. ASSUME NEW kind \in OpenFiles, NewFile(kind) PROVE TableInv' /\ LettersFollow
    BY <2>2, NewFileOK
  <2>3. CASE \/ load_band
             \/ \E n \in ColorChoices : load_ncolors(n)
             \/ \E bands \in BOOLEAN : GetInput(bands)
    BY <2>3, FieldsOK
  <2>4. CASE DeleteImage
    BY <2>4, DeleteImageOK
  <2>5. QED
    BY <1>3, <2>1, <2>2, <2>3, <2>4, Zenon DEF FilesWindow
<1>4. QED
  BY <1>1, <1>2, <1>3 DEF Next

\* Every image of the table keeps its type, whatever is opened, combined,
\* painted over and deleted, and whether data files can be read or not
\* (composite.c).
THEOREM TableTypes == Spec => []TypeOK
<1>1. Init => TableInv
  BY TableInit
<1>2. TableInv /\ [Next]_vars => TableInv'
  BY TableStep
<1>3. TableInv => TypeOK
  BY DEF TableInv
<1>4. QED
  BY <1>1, <1>2, <1>3, PTL DEF Spec

\* image_hold never has an overlay in it, and indices without one were never
\* painted: update_display (composite.c) can always go back.
THEOREM OverlaysComeOff == Spec => []OverlaysUndoable
<1>1. Init => TableInv
  BY TableInit
<1>2. TableInv /\ [Next]_vars => TableInv'
  BY TableStep
<1>3. TableInv => OverlaysUndoable
  BY DEF TableInv, Sound, OverlaysUndoable, Undoable, Exists
<1>4. QED
  BY <1>1, <1>2, <1>3, PTL DEF Spec

\* A letter is red over an empty slot only if DELETE has emptied it: every
\* other handler that loses an image takes the letter with it.
THEOREM OnlyDeleteStrands == Spec => LetterFollowsImage
<1>1. TableInv /\ [Next]_vars =>
        [\A i \in Slot : letter'[i] = 1 /\ Images'[i] = NULL =>
            DeleteImage \/ (letter[i] = 1 /\ Images[i] = NULL)]_vars
  BY TableStep DEF LettersFollow
<1>2. Init => TableInv
  BY TableInit
<1>3. TableInv /\ [Next]_vars => TableInv'
  BY TableStep
<1>4. QED
  BY <1>1, <1>2, <1>3, PTL DEF Spec, LetterFollowsImage

-----------------------------------------------------------------------------
(* The windows *)

WindowTypes ==
  /\ cc \in Slot \cup {None} /\ mag \in Slot \cup {None}
  /\ spread \in 0..NColors
  /\ iimage \in Slot \cup {None, Dangling} /\ pan \in Slot \cup {None, Dangling}

\* No image is shown before the command line has been read.
NotYet == args < NIMAGE => cc = None /\ mag = None

WindowInv == TableInv /\ WindowTypes /\ PointersLive /\ NotYet

LEMMA NotSlots == None \notin Slot /\ Dangling \notin Slot /\ None # Dangling
BY SlotAssumption DEF Slot, None, Dangling

\* What a handler may do to the pointers, given what it does to the images.
LEMMA WindowsKept ==
  ASSUME WindowInv, UNCHANGED window, \A k \in Slot : StaysShown(k)
  PROVE  WindowTypes' /\ PointersLive' /\ (WindowsAgree => WindowsAgree')
BY NotSlots DEF WindowInv, WindowTypes, window, PointersLive, WindowsAgree, StaysShown

LEMMA WindowsFreed ==
  ASSUME WindowInv, NEW i \in Slot, free_image(i), \A k \in Slot \ {i} : StaysShown(k)
  PROVE  WindowTypes' /\ PointersLive' /\ (WindowsAgree => WindowsAgree')
<1>1. WindowTypes' /\ (WindowsAgree => WindowsAgree')
  BY NotSlots DEF WindowInv, WindowTypes, WindowsAgree, free_image, Loses
<1>2. PointersLive'
  BY NotSlots DEF WindowInv, WindowTypes, PointersLive, free_image, StaysShown
<1>3. QED
  BY <1>1, <1>2

LEMMA WindowsReplaced ==
  ASSUME WindowInv, NEW i \in Slot, Replaces(i), \A k \in Slot : StaysShown(k)
  PROVE  WindowTypes' /\ PointersLive' /\ (WindowsAgree => WindowsAgree')
<1>1. WindowTypes' /\ (WindowsAgree => WindowsAgree')
  BY NotSlots DEF WindowInv, WindowTypes, WindowsAgree, Replaces, Loses
<1>2. PointersLive'
  BY NotSlots DEF WindowInv, WindowTypes, PointersLive, Replaces, StaysShown
<1>3. QED
  BY <1>1, <1>2

LEMMA TableStepWindows ==
  ASSUME WindowInv, Table
  PROVE  WindowInv' /\ (WindowsAgree => WindowsAgree')
<1> DEFINE Goal == WindowInv' /\ (WindowsAgree => WindowsAgree')
<1>0. sel \in Slot /\ TableInv
  BY DEF WindowInv, TableInv, TypeOK
<1>1. ASSUME NEW i \in Slot, SelectSlot(i) \/ overlay_pushbutton(i), UNCHANGED window PROVE Goal
  <2>1. TableInv' /\ (\A k \in Slot : StaysShown(k)) /\ UNCHANGED args
    BY <1>0, <1>1, SelectSlotOK, OverlayOK DEF SelectSlot, overlay_pushbutton, Die
  <2>2. QED
    BY <1>1, <2>1, WindowsKept DEF WindowInv, NotYet, window
<1>2. ASSUME NEW i \in Slot, RGB_pushbutton(i),
             IF Images'[sel] = NULL THEN free_image(sel) ELSE UNCHANGED window
      PROVE  Goal
  <2>1. /\ TableInv' /\ \A k \in Slot \ {sel} : StaysShown(k)
        /\ Images'[sel] # NULL => StaysShown(sel)
        /\ UNCHANGED args /\ args = NIMAGE
    BY <1>0, <1>2, RGBOK DEF RGB_pushbutton, Ready
  <2>2. NotYet'
    BY <2>1, SlotAssumption DEF NotYet
  <2>3. QED
    BY <1>0, <1>2, <2>1, <2>2, WindowsFreed, WindowsKept DEF WindowInv
<1>3. ASSUME free_image(sel), DeleteImage \/ \E kind \in OpenFiles : NewFile(kind) PROVE Goal
  <2>1. /\ TableInv' /\ \A k \in Slot \ {sel} : StaysShown(k)
        /\ UNCHANGED args /\ args = NIMAGE
    BY <1>0, <1>3, DeleteImageOK, NewFileOK DEF DeleteImage, NewFile, Ready
  <2>2. NotYet'
    BY <2>1, SlotAssumption DEF NotYet
  <2>3. QED
    BY <1>0, <1>3, <2>1, <2>2, WindowsFreed DEF WindowInv
<1>4. ASSUME \/ load_band
             \/ \E n \in ColorChoices : load_ncolors(n)
             \/ \E bands \in BOOLEAN : GetInput(bands),
             UNCHANGED window
      PROVE  Goal
  <2>1. TableInv' /\ (\A k \in Slot : StaysShown(k)) /\ UNCHANGED args
    BY <1>0, <1>4, FieldsOK DEF load_band, load_ncolors, GetInput, Die
  <2>2. QED
    BY <1>4, <2>1, WindowsKept DEF WindowInv, NotYet, window
<1>5. ASSUME NEW i \in Slot, LoadImage(i),
             IF fault' = "none" /\ Shows(Images'[i]) THEN Replaces(i) ELSE UNCHANGED window
      PROVE  Goal
  <2>1. TableInv' /\ (\A k \in Slot : StaysShown(k)) /\ UNCHANGED args
    BY <1>0, <1>5, LoadImageOK DEF LoadImage, Die
  <2>2. UNCHANGED <<cc, mag>>
    BY <1>5 DEF Replaces, window
  <2>3. QED
    BY <1>5, <2>1, <2>2, WindowsKept, WindowsReplaced DEF WindowInv, NotYet
<1>6. ASSUME CommandLine, UNCHANGED window PROVE Goal
  <2>1. TableInv'
    BY <1>0, <1>6, CommandLineOK
  <2>2. args < NIMAGE
    BY <1>6 DEF CommandLine, off_load_filename, EndOfArgs
  <2>3. cc = None /\ mag = None
    BY <2>2 DEF WindowInv, NotYet
  <2>4. QED
    BY <1>6, <2>1, <2>3 DEF WindowInv, WindowTypes, PointersLive, NotYet, WindowsAgree, window
<1>7. QED
  BY <1>1, <1>2, <1>3, <1>4, <1>5, <1>6, Zenon DEF Table, Files

\* colorspread makes at most a transfer map.
LEMMA SpreadSound ==
  ASSUME NEW T, NEW i \in Slot, Sound(T), T[i] # NULL, NEW n \in 0..NColors
  PROVE  LET U == Spread(T, i, n) IN
         Sound(U) /\ Same(T, U) /\ U[i].sdata = T[i].sdata
<1>1. CASE T[i].composite
  <2>1. Spread(T, i, n) = T
    BY <1>1 DEF Spread
  <2>2. QED
    BY <2>1 DEF Same, SameKind
<1>2. CASE ~T[i].composite
  <2> DEFINE new == [T[i] EXCEPT !.map = n]
  <2>1. T[i] \in Image /\ Undoable(T[i])
    BY DEF Sound
  <2>2. /\ new \in Image /\ new.sdata = T[i].sdata /\ new.hold = T[i].hold
        /\ new.composite = T[i].composite /\ new.data = T[i].data
    BY <2>1 DEF Image
  <2>3. Spread(T, i, n) = [T EXCEPT ![i] = new]
    BY <1>2 DEF Spread
  <2> HIDE DEF new
  <2>4. Good(new) /\ new # NULL /\ SameKind(new, T[i])
    BY <2>1, <2>2, NullAssumption DEF Good, Undoable, SameKind
  <2>5. Sound([T EXCEPT ![i] = new]) /\ [T EXCEPT ![i] = new][i] = new
    BY <2>4, PutSound
  <2>6. Same(T, [T EXCEPT ![i] = new])
    BY <2>2, <2>4, PutSame
  <2>7. QED
    BY <2>2, <2>3, <2>5, <2>6
<1>3. QED
  BY <1>1, <1>2

\* Image i is painted again, with n colours in its map.
LEMMA PaintedOK ==
  ASSUME TableInv, NEW i \in Slot, Images[i] # NULL, Images[i].sdata # NULL,
         NEW T, Sound(T), Same(Images, T), ~OverlayFaults(T, i),
         Images' = update_display(T, i),
         UNCHANGED <<sel, buttons, letter, args, fault>>
  PROVE  TableInv' /\ (\A k \in Slot : StaysShown(k)) /\ Exists(i)' /\ Images'[i].sdata # NULL
<1>1. T[i] # NULL /\ T[i].sdata # NULL
  BY DEF Same, SameKind
<1>2. Sound(Images)' /\ Same(T, Images')
  BY <1>1, UpdateSound
<1>3. Same(Images, Images')
  BY <1>2, SameTrans
<1>4. \A k \in Slot : StaysShown(k)
  BY <1>3 DEF Same, SameKind, StaysShown, Exists
<1>5. TypeOK'
  BY <1>2 DEF TableInv, TypeOK, Sound, buttons
<1>6. QED
  BY <1>2, <1>4, <1>5 DEF TableInv, StaysShown, Exists

LEMMA FailsOK ==
  ASSUME WindowInv, NEW handler \in Handler, Fails(handler)
  PROVE  WindowInv' /\ (WindowsAgree => WindowsAgree')
<1>1. Die(handler) /\ UNCHANGED window
  BY DEF Fails
<1>2. TableInv' /\ (\A k \in Slot : StaysShown(k)) /\ UNCHANGED args
  BY <1>1, DieOK DEF WindowInv, Die
<1>3. QED
  BY <1>1, <1>2, WindowsKept DEF WindowInv, NotYet, window

LEMMA ShowImageOK ==
  ASSUME WindowInv, NEW i \in Slot, load_image(i)
  PROVE  WindowInv' /\ (WindowsAgree => WindowsAgree')
<1> DEFINE T == Spread(Images, i, Images[i].ncolors)
<1>1. TableInv /\ Sound(Images) /\ Ready /\ Images[i] # NULL /\ Images[i].sdata # NULL
  BY DEF load_image, WindowInv, TableInv, Exists
<1>2. Images[i] \in Image
  BY <1>1, ExistingGood
<1>3. Images[i].ncolors \in 0..NColors
  BY <1>2, ImageFields, ColorAssumption
<1>4. Sound(T) /\ Same(Images, T)
  BY <1>1, <1>3, SpreadSound
<1> HIDE DEF T
<1>5. CASE Fails("load_image")
  <2>1. "load_image" \in Handler
    BY DEF Handler
  <2>2. QED
    BY <1>5, <2>1, FailsOK, Zenon
<1>6. CASE ~Fails("load_image")
  <2>1. /\ ~OverlayFaults(T, i) /\ Images' = update_display(T, i)
        /\ ShownIn(i) /\ spread' = Images[i].ncolors
        /\ UNCHANGED <<sel, buttons, letter, args, fault>>
    BY <1>6, Zenon DEF load_image, T
  <2>2. TableInv' /\ Exists(i)' /\ Images'[i].sdata # NULL
    BY <1>1, <1>4, <2>1, PaintedOK
  <2>3. WindowTypes' /\ PointersLive' /\ WindowsAgree'
    BY <1>3, <2>1, <2>2 DEF ShownIn, WindowTypes, PointersLive, WindowsAgree
  <2>4. NotYet'
    BY <1>1, <2>1, SlotAssumption DEF Ready, NotYet
  <2>5. QED
    BY <2>2, <2>3, <2>4 DEF WindowInv
<1>7. QED
  BY <1>5, <1>6

\* The image of the controls is painted again, in some of the windows.
LEMMA RepaintOK ==
  ASSUME WindowInv, Ready, cc # None,
         NEW T, Sound(T), Same(Images, T), ~OverlayFaults(T, cc),
         Images' = update_display(T, cc),
         iimage' = cc, pan' \in {pan, cc},
         UNCHANGED <<sel, buttons, letter, args, fault, cc, mag, spread>>
  PROVE  WindowInv' /\ (WindowsAgree => WindowsAgree')
<1>1. TableInv /\ cc \in Slot /\ Images[cc] # NULL /\ Images[cc].sdata # NULL
  BY DEF WindowInv, WindowTypes, PointersLive, Exists
<1>2. TableInv' /\ \A k \in Slot : StaysShown(k)
  BY <1>1, PaintedOK
<1>3. WindowTypes' /\ (WindowsAgree => WindowsAgree')
  BY <1>1 DEF WindowInv, WindowTypes, WindowsAgree
<1>4. PointersLive'
  BY <1>2, NotSlots DEF WindowInv, WindowTypes, PointersLive, StaysShown
<1>5. NotYet'
  BY DEF WindowInv, NotYet
<1>6. QED
  BY <1>2, <1>3, <1>4, <1>5 DEF WindowInv

LEMMA ControlsOK ==
  ASSUME WindowInv, colorspread \/ Redisplay
  PROVE  WindowInv' /\ (WindowsAgree => WindowsAgree')
<1>1. Ready /\ cc # None
  BY DEF colorspread, Redisplay
<1>2. /\ cc \in Slot /\ Images[cc] # NULL /\ Sound(Images) /\ spread \in 0..NColors
      /\ Same(Images, Images)
  BY <1>1 DEF WindowInv, WindowTypes, PointersLive, Exists, TableInv, Same, SameKind
<1>3. "colorspread" \in Handler /\ "Redisplay" \in Handler
  BY DEF Handler
<1>4. CASE Fails("colorspread") \/ Fails("Redisplay")
  BY <1>3, <1>4, FailsOK, Zenon
<1>5. CASE colorspread /\ ~Fails("colorspread")
  <2> DEFINE T == Spread(Images, cc, spread)
  <2>1. Sound(T) /\ Same(Images, T)
    BY <1>2, SpreadSound
  <2> HIDE DEF T
  <2>2. /\ ~OverlayFaults(T, cc) /\ Images' = update_display(T, cc)
        /\ iimage' = cc /\ pan' = cc
        /\ UNCHANGED <<sel, buttons, letter, args, fault, cc, mag, spread>>
    BY <1>5, Zenon DEF colorspread, T
  <2>3. QED
    BY <1>1, <2>1, <2>2, RepaintOK
<1>6. CASE Redisplay /\ ~Fails("Redisplay")
  <2>1. /\ ~OverlayFaults(Images, cc) /\ Images' = update_display(Images, cc)
        /\ iimage' = cc
        /\ UNCHANGED <<sel, buttons, letter, args, fault, cc, mag, spread, pan>>
    BY <1>6, Zenon DEF Redisplay
  <2>2. QED
    BY <1>1, <1>2, <2>1, RepaintOK
<1>7. QED
  BY <1>4, <1>5, <1>6

LEMMA PointersOK ==
  ASSUME WindowInv, Resize \/ SetMagnify \/ pan_image
  PROVE  WindowInv' /\ (WindowsAgree => WindowsAgree')
<1>1. "iwindow_callback" \in Handler /\ "pan_image" \in Handler
  BY DEF Handler
<1>2. CASE Fails("iwindow_callback") \/ Fails("pan_image")
  BY <1>1, <1>2, FailsOK, Zenon
<1>3. CASE ~Fails("iwindow_callback") /\ ~Fails("pan_image")
  <2>1. /\ UNCHANGED <<vars, cc, spread>> /\ mag' \in {mag, cc}
        /\ iimage' \in {iimage, cc} /\ pan' \in {pan, cc}
    BY <1>3 DEF Resize, SetMagnify, pan_image
  <2>2. TableInv' /\ \A k \in Slot : StaysShown(k)
    BY <2>1, SameTable DEF vars, buttons, WindowInv, TableInv, TypeOK
  <2>3. WindowTypes' /\ (WindowsAgree => WindowsAgree')
    BY <2>1 DEF WindowInv, WindowTypes, WindowsAgree
  <2>4. PointersLive'
    BY <2>1, <2>2, NotSlots DEF WindowInv, WindowTypes, PointersLive, StaysShown
  <2>5. NotYet'
    BY <2>1 DEF WindowInv, NotYet, vars
  <2>6. QED
    BY <2>2, <2>3, <2>4, <2>5 DEF WindowInv
<1>4. QED
  BY <1>2, <1>3

LEMMA WindowsStep ==
  ASSUME WindowInv, Windows
  PROVE  WindowInv' /\ (WindowsAgree => WindowsAgree')
BY ShowImageOK, ControlsOK, PointersOK, Zenon DEF Windows

LEMMA ViewerStart == ASSUME ViewerInit PROVE WindowInv /\ WindowsAgree
<1>1. TableInv
  BY TableInit DEF ViewerInit
<1>2. QED
  BY <1>1, ColorAssumption DEF ViewerInit, WindowInv, WindowTypes, PointersLive, NotYet, WindowsAgree

LEMMA ViewerStep ==
  ASSUME WindowInv, [ViewerNext]_<<vars, window>>
  PROVE  WindowInv' /\ (WindowsAgree => WindowsAgree')
<1>1. CASE UNCHANGED <<vars, window>>
  <2>1. TableInv' /\ (\A k \in Slot : StaysShown(k)) /\ UNCHANGED window
    BY <1>1, SameTable DEF vars, buttons, WindowInv, TableInv, TypeOK
  <2>2. QED
    BY <1>1, <2>1, WindowsKept DEF WindowInv, NotYet, vars, window
<1>2. QED
  BY <1>1, TableStepWindows, WindowsStep, Zenon DEF ViewerNext

\* The images and the pointers of the windows keep their types, in the whole
\* viewer: composite.c, buttons.c, ColorControls.c and mag.c.
THEOREM ViewerTypes == ViewerSpec => []ViewerTypeOK
<1>1. WindowInv => ViewerTypeOK
  BY DEF WindowInv, WindowTypes, TableInv, ViewerTypeOK
<1>2. ViewerInit => WindowInv
  BY ViewerStart
<1>3. WindowInv /\ [ViewerNext]_<<vars, window>> => WindowInv'
  BY ViewerStep
<1>4. QED
  BY <1>1, <1>2, <1>3, PTL DEF ViewerSpec

\* CC->image and Mag->image never outlive their image, which always has
\* indices to show (free_image in composite.c, SetMagnify in mag.c).
THEOREM PointersStayLive == ViewerSpec => []PointersLive
<1>1. WindowInv => PointersLive
  BY DEF WindowInv
<1>2. ViewerInit => WindowInv
  BY ViewerStart
<1>3. WindowInv /\ [ViewerNext]_<<vars, window>> => WindowInv'
  BY ViewerStep
<1>4. QED
  BY <1>1, <1>2, <1>3, PTL DEF ViewerSpec

\* The magnifier, the image window and the pan window show the image that the
\* controls edit, or none, or what has been freed: no handler sets one and
\* leaves another on a second image.
THEOREM WindowsStayTogether == ViewerSpec => []WindowsAgree
<1>1. ViewerInit => WindowInv /\ WindowsAgree
  BY ViewerStart
<1>2. WindowInv /\ WindowsAgree /\ [ViewerNext]_<<vars, window>> => (WindowInv /\ WindowsAgree)'
  BY ViewerStep
<1>3. QED
  BY <1>1, <1>2, PTL DEF ViewerSpec

-----------------------------------------------------------------------------
(* Saving and restoring *)

Descr == [composite : BOOLEAN, header : BOOLEAN, band : BOOLEAN, ncolors : 1..NColors,
          rgb : [Slot -> 0..NPlanes], overlays : SUBSET Slot]

\* The composites before slot n can be shown.
PaintedTo(n) ==
  \A i \in Slot : i < n /\ Images[i] # NULL /\ Images[i].composite => Images[i].sdata # NULL

\* The gray images before slot n that have been read have been stretched.
HasIndices(T, k) == T[k] # NULL /\ ~T[k].composite /\ T[k].data => T[k].sdata # NULL
ReadTo(n) == \A k \in Slot : k < n => HasIndices(Images, k)

RestartInv ==
  /\ WindowInv
  /\ WindowsAgreeAgain
  /\ saved \in [Slot -> Descr \cup {NULL}]
  /\ at \in 0..NIMAGE
  /\ phase # "first" => args = NIMAGE
  /\ phase = "reading" => ReadTo(at)
  /\ phase = "painting" => ReadTo(NIMAGE) /\ PaintedTo(at)
  /\ phase = "ready" => PaintedTo(NIMAGE)

LEMMA DescriptionTyped ==
  ASSUME TableInv
  PROVE  [i \in Slot |-> Description(Images[i])] \in [Slot -> Descr \cup {NULL}]
<1>1. ASSUME NEW i \in Slot PROVE Description(Images[i]) \in Descr \cup {NULL}
  <2>1. CASE Images[i] = NULL
    BY <2>1 DEF Description
  <2>2. CASE Images[i] # NULL
    <3>1. Images[i] \in Image
      BY <2>2, ExistingGood
    <3>2. QED
      BY <2>2, <3>1, ImageFields DEF Description, Descr
  <2>3. QED
    BY <2>1, <2>2
<1>2. QED
  BY <1>1

\* The planes that sscanf leaves unset are read from somewhere, but are
\* numbers of planes.
LEMMA PlanesTyped ==
  ASSUME NEW rgb \in [Slot -> 0..NPlanes], NEW r \in ReadPlanes(rgb)
  PROVE  r \in [Slot -> 0..NPlanes]
<1> DEFINE m == Missing(rgb)
           Letters == {p \in [1..m -> 1..NPlanes] : m > 0 => p[1] = NPlanes}
           At(v, k) == {n \in 1..m : v[n] = k}
<1>1. m \in Int
  <2>1. IsFiniteSet({k \in Slot : rgb[k] # 0})
    BY SlotsFinite
  <2>2. Cardinality({k \in Slot : rgb[k] # 0}) \in Nat
    BY <2>1, FS_CardinalityType
  <2>3. QED
    BY <2>2, SlotAssumption DEF Missing
<1>2. PICK v \in [1..m -> Slot], p \in Letters :
        r = [k \in Slot |-> IF \E n \in 1..m : v[n] = k THEN p[Max(At(v, k))] ELSE rgb[k]]
  BY DEF ReadPlanes
<1> HIDE DEF m
<1>3. ASSUME NEW k \in Slot, \E n \in 1..m : v[n] = k
      PROVE  p[Max(At(v, k))] \in 0..NPlanes
  <2>1. IsFiniteSet(1..m)
    BY <1>1, FS_Interval
  <2>2. IsFiniteSet(At(v, k))
    BY <2>1, FS_Subset
  <2>3. At(v, k) # {} /\ At(v, k) \in SUBSET Nat
    <3>1. 1..m \subseteq Nat
      BY <1>1
    <3>2. At(v, k) # {} /\ At(v, k) \subseteq 1..m
      BY <1>3
    <3>3. QED
      BY <3>1, <3>2
  <2>4. Max(At(v, k)) \in At(v, k)
    BY <2>2, <2>3, MaxInSet
  <2>5. Max(At(v, k)) \in 1..m
    BY <2>4
  <2>6. p \in [1..m -> 1..NPlanes]
    OBVIOUS
  <2>7. QED
    BY <2>5, <2>6, SlotAssumption
<1> HIDE DEF At, Letters
<1>4. QED
  BY <1>2, <1>3

LEMMA DescribedGood ==
  ASSUME NEW d \in Descr, NEW r \in [Slot -> 0..NPlanes]
  PROVE  Good(Described(d, r)) /\ Described(d, r).sdata = NULL
<1>1. /\ d.composite \in BOOLEAN /\ d.header \in BOOLEAN /\ d.band \in BOOLEAN
      /\ d.ncolors \in 1..NColors /\ d.overlays \in SUBSET Slot
  BY DEF Descr
<1>2. /\ DefaultColors \in 1..NColors /\ 0 \in 0..NColors
      /\ [i \in Slot |-> 0] \in [Slot -> 0..NPlanes]
  BY ColorAssumption, SlotAssumption
<1>3. allocate_image \in Image /\ allocate_image.sdata = NULL /\ allocate_image.hold = NULL
  BY <1>2 DEF allocate_image, Image
<1>4. LET new == Described(d, r) IN new \in Image /\ new.sdata = NULL /\ new.hold = NULL
  BY <1>1, <1>3 DEF Described, Image
<1>5. QED
  BY <1>4 DEF Good, Undoable

\* create_image and load_image of image i of a sound table.
LEMMA LoadedSound ==
  ASSUME NEW T, NEW i \in Slot, Sound(T), T[i] # NULL, Shows(T[i]), ~ShowFaults(T, i)
  PROVE  LET U == Loaded(Create(T, i), i) IN Sound(U) /\ Same(T, U)
<1> DEFINE V == update_display(T, i)
           W == Spread(V, i, V[i].ncolors)
<1>1. T[i].sdata # NULL /\ ~OverlayFaults(T, i) /\ Create(T, i) = V
  BY DEF Shows, ShowFaults, Create
<1>2. Sound(V) /\ Same(T, V)
  BY <1>1, UpdateSound
<1>3. V[i] # NULL /\ V[i].sdata # NULL
  BY <1>1, <1>2 DEF Same, SameKind
<1>4. Loaded(V, i) = update_display(W, i) /\ ~OverlayFaults(W, i)
  BY <1>1 DEF Loaded, ShowFaults
<1> HIDE DEF V
<1>5. V[i].ncolors \in 0..NColors
  <2>1. V[i] \in Image
    BY <1>2, <1>3 DEF Sound
  <2>2. QED
    BY <2>1, ImageFields, ColorAssumption
<1>6. Sound(W) /\ Same(V, W) /\ W[i].sdata = V[i].sdata
  BY <1>2, <1>3, <1>5, SpreadSound
<1> HIDE DEF W
<1>7. W[i] # NULL
  BY <1>3, <1>6 DEF Same
<1>8. Sound(update_display(W, i)) /\ Same(W, update_display(W, i))
  BY <1>3, <1>4, <1>6, <1>7, UpdateSound
<1>9. Same(T, update_display(W, i))
  BY <1>2, <1>6, <1>8, SameTrans
<1>10. QED
  BY <1>1, <1>4, <1>8, <1>9

\* A step of the first loop: slot i is replaced, and freed or shown.
LEMMA ReplacedOK ==
  ASSUME WindowInv, args = NIMAGE, NEW i \in Slot,
         Sound(Images)', \A k \in Slot \ {i} : StaysShown(k),
         \/ free_image(i)
         \/ /\ ShownIn(i) /\ spread' \in 0..NColors
            /\ Images'[i] # NULL /\ Images'[i].sdata # NULL,
         rgbs' \in [Slot -> 0..(NPlanes + 1)], comps' \in [Slot -> 0..2],
         sel' \in Slot, UNCHANGED <<letter, args, fault>>
  PROVE  WindowInv'
<1>1. TableInv'
  BY DEF WindowInv, TableInv, TypeOK, Sound
<1>2. NotYet'
  BY SlotAssumption DEF NotYet
<1>3. CASE free_image(i)
  BY <1>1, <1>2, <1>3, WindowsFreed DEF WindowInv
<1>4. CASE /\ ShownIn(i) /\ spread' \in 0..NColors
           /\ Images'[i] # NULL /\ Images'[i].sdata # NULL
  BY <1>1, <1>2, <1>4 DEF ShownIn, WindowInv, WindowTypes, PointersLive, Exists
<1>5. QED
  BY <1>3, <1>4

LEMMA ReadOneMore ==
  ASSUME NEW i \in Slot, i = at, at' = at + 1, ReadTo(at),
         HasIndices(Images', i),
         \A k \in Slot \ {i} : HasIndices(Images, k) => HasIndices(Images', k)
  PROVE  ReadTo(at)'
<1>1. \A k \in Slot : k < at + 1 => k < at \/ k = i
  BY DEF Slot
<1>2. \A k \in Slot : k < at + 1 => HasIndices(Images', k)
  BY <1>1 DEF ReadTo
<1>3. QED
  BY <1>2 DEF ReadTo, HasIndices

LEMMA ReadEmptyOK ==
  ASSUME WindowInv, args = NIMAGE, NEW i \in Slot, ReadEmpty(i), UNCHANGED <<sel, letter, args>>,
         i = at, at' = at + 1, ReadTo(at)
  PROVE  WindowInv' /\ ReadTo(at)'
<1>1. /\ Images' = [Images EXCEPT ![i] = NULL] /\ UpdatePushButtons(Images', i)
      /\ free_image(i) /\ UNCHANGED fault
  BY DEF ReadEmpty
<1>2. Sound(Images)' /\ \A k \in Slot \ {i} : StaysShown(k)
  BY <1>1, EditTable DEF WindowInv
<1>3. rgbs' \in [Slot -> 0..(NPlanes + 1)] /\ comps' \in [Slot -> 0..2]
  <2>1. Sound(Images')
    BY <1>2 DEF Sound
  <2>2. QED
    BY <1>1, <2>1, ButtonsTyped
<1>4. WindowInv'
  BY <1>1, <1>2, <1>3, ReplacedOK DEF WindowInv, TableInv, TypeOK
<1>5. Images'[i] = NULL /\ \A k \in Slot \ {i} : Images'[k] = Images[k]
  BY <1>1 DEF WindowInv, TableInv, TypeOK
<1>6. ReadTo(at)'
  BY <1>5, ReadOneMore DEF HasIndices
<1>7. QED
  BY <1>4, <1>6

LEMMA ReadCompositeOK ==
  ASSUME WindowInv, args = NIMAGE, saved \in [Slot -> Descr \cup {NULL}],
         NEW i \in Slot, ReadComposite(i), UNCHANGED <<sel, letter, args>>,
         i = at, at' = at + 1, ReadTo(at)
  PROVE  WindowInv' /\ ReadTo(at)'
<1>1. PICK r \in ReadPlanes(saved[i].rgb) : Images' = [Images EXCEPT ![i] = Described(saved[i], r)]
  BY DEF ReadComposite
<1>2. free_image(i) /\ UNCHANGED <<buttons, fault>> /\ saved[i] \in Descr
  BY DEF ReadComposite
<1>3. saved[i].rgb \in [Slot -> 0..NPlanes]
  BY <1>2 DEF Descr
<1>4. Good(Described(saved[i], r))
  BY <1>2, <1>3, PlanesTyped, DescribedGood
<1>5. Sound(Images)' /\ \A k \in Slot \ {i} : StaysShown(k)
  BY <1>1, <1>4, EditTable DEF WindowInv
<1>6. WindowInv'
  BY <1>2, <1>5, ReplacedOK DEF WindowInv, TableInv, TypeOK, buttons
<1>7. saved[i].composite /\ Described(saved[i], r).composite = saved[i].composite
  BY DEF ReadComposite, Described, allocate_image
<1>8. Images'[i].composite /\ \A k \in Slot \ {i} : Images'[k] = Images[k]
  BY <1>1, <1>7 DEF WindowInv, TableInv, TypeOK
<1>9. ReadTo(at)'
  BY <1>8, ReadOneMore DEF HasIndices
<1>10. QED
  BY <1>6, <1>9

LEMMA ReadGrayOK ==
  ASSUME WindowInv, args = NIMAGE, saved \in [Slot -> Descr \cup {NULL}],
         NEW i \in Slot, ReadGray(i), UNCHANGED <<sel, letter, args>>,
         i = at, at' = at + 1, ReadTo(at)
  PROVE  WindowInv' /\ ReadTo(at)'
<1> DEFINE img(reads) == ReadData(Described(saved[i], saved[i].rgb), reads)
           T(new) == [Images EXCEPT ![i] = new]
           Ends(new) ==
             /\ ~ShowFaults(T(new), i)
             /\ IF Shows(new)
                THEN Images' = Loaded(Create(T(new), i), i) /\ ShownIn(i) /\ spread' = new.ncolors
                ELSE Images' = T(new) /\ free_image(i)
<1>1. \E reads \in Reads : \E new \in Stretched(T(img(reads)), i) : Ends(new)
  BY Zenon DEF ReadGray
<1>2. PICK reads \in Reads : \E new \in Stretched(T(img(reads)), i) : Ends(new)
  BY <1>1, Zenon
<1>3. PICK new \in Stretched(T(img(reads)), i) : Ends(new)
  BY <1>2, Zenon
<1>4. saved[i] \in Descr /\ UpdatePushButtons(Images', i) /\ UNCHANGED fault
  BY DEF ReadGray
<1>5. Good(img(reads)) /\ img(reads) \in Image
  <2>1. saved[i].rgb \in [Slot -> 0..NPlanes] /\ reads \in BOOLEAN
    BY <1>4, FileAssumption DEF Descr
  <2>2. Good(Described(saved[i], saved[i].rgb))
    BY <1>4, <2>1, DescribedGood
  <2>3. QED
    BY <2>1, <2>2, ReadDataGood
<1> DEFINE W == [Images EXCEPT ![i] = new]
<1>6. ~ShowFaults(W, i) /\ IF Shows(new)
                           THEN Images' = Loaded(Create(W, i), i) /\ ShownIn(i) /\ spread' = new.ncolors
                           ELSE Images' = W /\ free_image(i)
  BY <1>3
<1> HIDE DEF img, Ends
<1>7. /\ Good(new) /\ new \in Image /\ new # NULL
      /\ ~new.composite /\ new.data => new.sdata # NULL
  <2>1. Images \in [Slot -> Image \cup {NULL}]
    BY DEF WindowInv, TableInv, TypeOK
  <2>2. T(img(reads))[i] \in Image /\ Undoable(T(img(reads))[i])
    BY <1>5, <2>1 DEF Good
  <2> HIDE DEF T
  <2>3. /\ Good(new)
        /\ ~new.composite /\ new.data => new.sdata # NULL
    BY <1>3, <2>2, StretchedImage DEF SameKind
  <2>4. QED
    BY <2>3, NullAssumption DEF Good
<1>8. Sound(W) /\ W[i] = new /\ \A k \in Slot \ {i} : W[k] = Images[k]
  <2>1. Sound(Images)
    BY DEF WindowInv, TableInv
  <2> HIDE DEF W, T
  <2>2. /\ Sound([Images EXCEPT ![i] = new]) /\ [Images EXCEPT ![i] = new][i] = new
        /\ \A k \in Slot \ {i} : [Images EXCEPT ![i] = new][k] = Images[k]
    BY <1>7, <2>1, PutSound
  <2>3. QED
    BY <2>2 DEF W
<1> HIDE DEF W, T
<1>9. /\ Sound(Images')
      /\ \A k \in Slot : W[k] # NULL /\ W[k].sdata # NULL => Images'[k] # NULL /\ Images'[k].sdata # NULL
      /\ \A k \in Slot : HasIndices(W, k) => HasIndices(Images', k)
  <2>1. CASE Shows(new)
    <3>1. Sound(Images') /\ Same(W, Images')
      BY <1>6, <1>7, <1>8, <2>1, LoadedSound
    <3>2. QED
      BY <3>1 DEF Same, SameKind, HasIndices
  <2>2. CASE ~Shows(new)
    BY <1>6, <1>8, <2>2
  <2>3. QED
    BY <2>1, <2>2
<1>10. Sound(Images)' /\ \A k \in Slot \ {i} : StaysShown(k)
  BY <1>8, <1>9 DEF Sound, StaysShown, Exists
<1>11. rgbs' \in [Slot -> 0..(NPlanes + 1)] /\ comps' \in [Slot -> 0..2]
  BY <1>4, <1>9, ButtonsTyped
<1>12. \/ free_image(i)
       \/ /\ ShownIn(i) /\ spread' \in 0..NColors
          /\ Images'[i] # NULL /\ Images'[i].sdata # NULL
  <2>1. CASE Shows(new)
    <3>1. new.sdata # NULL /\ new.ncolors \in 0..NColors
      BY <1>7, <2>1, ImageFields, ColorAssumption DEF Shows
    <3>2. QED
      BY <1>6, <1>7, <1>8, <1>9, <2>1, <3>1
  <2>2. CASE ~Shows(new)
    BY <1>6, <2>2
  <2>3. QED
    BY <2>1, <2>2
<1>13. WindowInv'
  BY <1>4, <1>10, <1>11, <1>12, ReplacedOK DEF WindowInv, TableInv, TypeOK
<1>14. HasIndices(W, i) /\ \A k \in Slot \ {i} : HasIndices(Images, k) => HasIndices(W, k)
  BY <1>7, <1>8 DEF HasIndices
<1>15. ReadTo(at)'
  BY <1>9, <1>14, ReadOneMore
<1>16. QED
  BY <1>13, <1>15

LEMMA RestartDies ==
  ASSUME RestartInv, Dies
  PROVE  WindowInv' /\ UNCHANGED <<Images, args, saved, phase, at>>
<1>1. "read_restart" \in Handler
  BY DEF Handler
<1>2. Fails("read_restart") /\ UNCHANGED <<Images, args, saved, phase, at>>
  BY DEF Dies, Fails, Die
<1>3. WindowInv'
  BY <1>1, <1>2, FailsOK, Zenon DEF RestartInv
<1>4. QED
  BY <1>2, <1>3

LEMMA FirstSessionOK ==
  ASSUME RestartInv, phase = "first", Files \/ Windows, UNCHANGED <<saved, phase, at>>
  PROVE  RestartInv'
<1>1. WindowInv' /\ (WindowsAgree => WindowsAgree')
  BY TableStepWindows, WindowsStep DEF RestartInv, Table
<1>2. QED
  BY <1>1 DEF RestartInv, WindowsAgreeAgain

LEMMA WriteOK ==
  ASSUME RestartInv, write_restart
  PROVE  RestartInv'
<1>1. UNCHANGED <<vars, window, at>> /\ phase = "first" /\ phase' = "saved" /\ args = NIMAGE
  BY DEF write_restart, Ready
<1>2. WindowInv' /\ (WindowsAgree => WindowsAgree')
  BY <1>1, ViewerStep DEF RestartInv
<1>3. saved' \in [Slot -> Descr \cup {NULL}]
  BY DescriptionTyped DEF write_restart, RestartInv, WindowInv
<1>4. UNCHANGED args
  BY <1>1 DEF vars
<1>5. QED
  BY <1>1, <1>2, <1>3, <1>4 DEF RestartInv, WindowsAgreeAgain

LEMMA QuitOK ==
  ASSUME RestartInv, Quit
  PROVE  RestartInv'
<1>1. phase = "saved" /\ UNCHANGED <<args, fault, saved, phase, at>>
  BY DEF Quit
<1>2. Images' = [i \in Slot |-> NULL]
  BY DEF Quit
<1>3. Sound(Images')
  BY <1>2 DEF Sound
<1>4. TypeOK'
  <2>1. 0 \in Slot /\ 0 \in 0..(NPlanes + 1) /\ 0 \in 0..2
    BY SlotAssumption DEF Slot
  <2>2. QED
    BY <1>1, <1>2, <2>1 DEF Quit, TypeOK, RestartInv, WindowInv, TableInv
<1>5. WindowTypes' /\ PointersLive' /\ NotYet' /\ WindowsAgree'
  BY ColorAssumption DEF Quit, WindowTypes, PointersLive, NotYet, WindowsAgree
<1>6. WindowInv'
  BY <1>3, <1>4, <1>5 DEF WindowInv, TableInv, Sound
<1>7. QED
  BY <1>1, <1>5, <1>6 DEF RestartInv, WindowsAgreeAgain

\* cc is forgotten, and nothing else changes.
LEMMA ForgetsOK ==
  ASSUME WindowInv, args = NIMAGE, UNCHANGED <<vars, mag, spread, iimage, pan>>, cc' = None
  PROVE  WindowInv'
<1>1. TableInv' /\ \A k \in Slot : StaysShown(k)
  BY SameTable DEF vars, buttons, WindowInv, TableInv, TypeOK
<1>2. WindowTypes' /\ PointersLive'
  BY <1>1, NotSlots DEF WindowInv, WindowTypes, PointersLive, StaysShown
<1>3. NotYet'
  BY SlotAssumption DEF NotYet, vars
<1>4. QED
  BY <1>1, <1>2, <1>3 DEF WindowInv

LEMMA StartReadOK ==
  ASSUME RestartInv, StartRead
  PROVE  RestartInv'
<1>1. /\ phase = "saved" /\ phase' = "reading" /\ at' = 0 /\ cc' = None
      /\ UNCHANGED <<vars, mag, spread, iimage, pan, saved>>
  BY DEF StartRead
<1>2. args = NIMAGE /\ UNCHANGED args
  BY <1>1 DEF RestartInv, vars
<1>3. WindowInv'
  BY <1>1, <1>2, ForgetsOK DEF RestartInv
<1>4. at' \in 0..NIMAGE /\ ReadTo(at)'
  BY <1>1, SlotAssumption DEF ReadTo, Slot
<1>5. QED
  BY <1>1, <1>2, <1>3, <1>4 DEF RestartInv, WindowsAgreeAgain

LEMMA ReadSlotOK ==
  ASSUME RestartInv, ReadSlot
  PROVE  RestartInv'
<1>1. /\ phase = "reading" /\ args = NIMAGE /\ at \in 0..NIMAGE
      /\ saved \in [Slot -> Descr \cup {NULL}] /\ ReadTo(at)
  BY DEF ReadSlot, RestartInv
<1>2. CASE Dies
  <2>1. WindowInv' /\ UNCHANGED <<Images, args, saved, phase, at>>
    BY <1>2, RestartDies
  <2>2. ReadTo(at)'
    BY <1>1, <2>1 DEF ReadTo, HasIndices
  <2>3. QED
    BY <1>1, <2>1, <2>2 DEF RestartInv, WindowsAgreeAgain
<1>3. CASE /\ at < NIMAGE
           /\ ReadEmpty(at) \/ ReadComposite(at) \/ ReadGray(at)
           /\ at' = at + 1
           /\ UNCHANGED <<sel, letter, args, saved, phase>>
  <2>1. at \in Slot /\ at' \in 0..NIMAGE
    BY <1>1, <1>3, SlotAssumption DEF Slot
  <2>2. WindowInv' /\ ReadTo(at)'
    BY <1>1, <1>3, <2>1, ReadEmptyOK, ReadCompositeOK, ReadGrayOK DEF RestartInv
  <2>3. QED
    BY <1>1, <1>3, <2>1, <2>2 DEF RestartInv, WindowsAgreeAgain
<1>4. CASE /\ at = NIMAGE
           /\ phase' = "painting" /\ at' = 0
           /\ UNCHANGED <<vars, window, saved>>
  <2>1. WindowInv'
    BY <1>4, ViewerStep DEF RestartInv
  <2>2. at' \in 0..NIMAGE /\ UNCHANGED args
    BY <1>4, SlotAssumption DEF vars
  <2>3. PaintedTo(at)' /\ ReadTo(NIMAGE)'
    BY <1>1, <1>4 DEF PaintedTo, Slot, ReadTo, HasIndices, vars
  <2>4. QED
    BY <1>1, <1>4, <2>1, <2>2, <2>3 DEF RestartInv, WindowsAgreeAgain
<1>5. QED
  BY <1>2, <1>3, <1>4, Zenon DEF ReadSlot

\* Slot i is painted, and the pointers to what it shows may be lost.
LEMMA PaintsOK ==
  ASSUME WindowInv, args = NIMAGE, NEW i \in Slot, Images[i] # NULL,
         NEW T, Sound(T), Same(Images, T), T[i].sdata # NULL, ~OverlayFaults(T, i),
         Images' = update_display(T, i),
         iimage' = Loses(iimage, i), pan' \in {pan, Loses(pan, i)},
         UNCHANGED <<sel, buttons, letter, args, fault, cc, mag, spread>>
  PROVE  WindowInv' /\ Same(Images, Images') /\ Images'[i].sdata # NULL
<1>1. TableInv /\ T[i] # NULL
  BY DEF WindowInv, Same
<1>2. Sound(Images') /\ Same(T, Images')
  BY <1>1, UpdateSound
<1>3. Same(Images, Images') /\ Images'[i].sdata # NULL
  BY <1>1, <1>2, SameTrans DEF Same, SameKind
<1>4. \A k \in Slot : StaysShown(k)
  BY <1>3 DEF Same, SameKind, StaysShown, Exists
<1>5. TableInv'
  BY <1>1, <1>2 DEF TableInv, TypeOK, Sound, buttons
<1>6. WindowTypes'
  BY DEF WindowInv, WindowTypes, Loses
<1>7. PointersLive'
  BY <1>4, NotSlots DEF WindowInv, WindowTypes, PointersLive, StaysShown
<1>8. NotYet'
  BY SlotAssumption DEF NotYet
<1>9. QED
  BY <1>3, <1>5, <1>6, <1>7, <1>8 DEF WindowInv

LEMMA PaintedStays ==
  ASSUME Same(Images, Images'), NEW n, PaintedTo(n)
  PROVE  \A i \in Slot : i < n /\ Images'[i] # NULL /\ Images'[i].composite => Images'[i].sdata # NULL
BY DEF Same, SameKind, PaintedTo

LEMMA ReadStays ==
  ASSUME Same(Images, Images'), ReadTo(NIMAGE)
  PROVE  ReadTo(NIMAGE)'
BY DEF Same, SameKind, ReadTo, HasIndices

LEMMA PaintCompositeOK ==
  ASSUME WindowInv, args = NIMAGE, ReadTo(NIMAGE), PaintedTo(at),
         NEW i \in Slot, i = at, PaintComposite(i)
  PROVE  \/ Dies
         \/ /\ WindowInv' /\ ReadTo(NIMAGE)' /\ PaintedTo(at)' /\ at' = at + 1
            /\ UNCHANGED <<args, saved, phase>>
<1> DEFINE T(img) == [Images EXCEPT ![i] = img]
           follows(img) == img.sdata = NULL \/ OverlayFaults(T(img), i)
           Ends(img) == /\ ~follows(img)
                        /\ Images' = update_display(T(img), i)
                        /\ Replaces(i)
                        /\ at' = at + 1
                        /\ UNCHANGED <<sel, buttons, letter, args, fault, saved, phase>>
<1>1. Images[i] # NULL /\ (Dies \/ \E img \in Stretched(Images, i) : Ends(img))
  BY Zenon DEF PaintComposite, Exists
<1>2. SUFFICES ASSUME NEW img \in Stretched(Images, i), Ends(img)
               PROVE  /\ WindowInv' /\ ReadTo(NIMAGE)' /\ PaintedTo(at)' /\ at' = at + 1
                      /\ UNCHANGED <<args, saved, phase>>
  BY <1>1, Zenon
<1> DEFINE W == [Images EXCEPT ![i] = img]
<1>3. /\ img.sdata # NULL /\ ~OverlayFaults(W, i)
      /\ Images' = update_display(W, i) /\ Replaces(i) /\ at' = at + 1
      /\ UNCHANGED <<sel, buttons, letter, args, fault, saved, phase>>
  BY <1>2
<1> HIDE DEF T, Ends, follows
<1>4. Sound(Images) /\ Images[i] \in Image /\ Undoable(Images[i])
  BY <1>1, ExistingGood DEF WindowInv, TableInv, Good
<1>5. Good(img) /\ img # NULL /\ SameKind(img, Images[i]) /\ img.data = Images[i].data
  BY <1>2, <1>4, StretchedImage, NullAssumption DEF Good
<1> HIDE DEF W
<1>6. Sound(W) /\ W[i] = img
  <2>1. Sound([Images EXCEPT ![i] = img]) /\ [Images EXCEPT ![i] = img][i] = img
    BY <1>4, <1>5, PutSound
  <2>2. QED
    BY <2>1 DEF W
<1>7. Same(Images, W)
  BY <1>1, <1>4, <1>5, PutSame DEF W
<1>8. WindowInv' /\ Same(Images, Images') /\ Images'[i].sdata # NULL
  BY <1>1, <1>3, <1>6, <1>7, PaintsOK DEF Replaces
<1>9. PaintedTo(at)'
  <2>1. i \in Int
    BY DEF Slot
  <2>2. \A k \in Slot : k < i /\ Images'[k] # NULL /\ Images'[k].composite => Images'[k].sdata # NULL
    BY <1>8, PaintedStays
  <2>3. \A k \in Slot : k < i + 1 => k < i \/ k = i
    BY <2>1 DEF Slot
  <2>4. QED
    BY <1>3, <1>8, <2>2, <2>3 DEF PaintedTo
<1>10. ReadTo(NIMAGE)'
  BY <1>8, ReadStays
<1>11. QED
  BY <1>3, <1>8, <1>9, <1>10

LEMMA PaintSlotOK ==
  ASSUME RestartInv, PaintSlot
  PROVE  RestartInv'
<1>1. /\ phase = "painting" /\ args = NIMAGE /\ at \in 0..NIMAGE
      /\ saved \in [Slot -> Descr \cup {NULL}] /\ PaintedTo(at) /\ ReadTo(NIMAGE) /\ WindowInv
  BY DEF PaintSlot, RestartInv
<1>2. CASE Dies
  <2>1. WindowInv' /\ UNCHANGED <<Images, args, saved, phase, at>>
    BY <1>2, RestartDies
  <2>2. PaintedTo(at)' /\ ReadTo(NIMAGE)'
    BY <1>1, <2>1 DEF PaintedTo, ReadTo, HasIndices
  <2>3. QED
    BY <1>1, <2>1, <2>2 DEF RestartInv, WindowsAgreeAgain
<1>3. ASSUME WindowInv', ReadTo(NIMAGE)', PaintedTo(at)', at' = at + 1, at < NIMAGE, UNCHANGED <<args, saved, phase>>
      PROVE  RestartInv'
  <2>1. at' \in 0..NIMAGE
    BY <1>1, <1>3, SlotAssumption
  <2>2. QED
    BY <1>1, <1>3, <2>1 DEF RestartInv, WindowsAgreeAgain
<1>4. CASE at < NIMAGE /\ PaintComposite(at)
  <2>1. at \in Slot
    BY <1>1, <1>4, SlotAssumption DEF Slot
  <2>2. QED
    BY <1>1, <1>2, <1>3, <1>4, <2>1, PaintCompositeOK
<1>5. CASE at < NIMAGE /\ PaintGray(at) /\ ~Dies
  <2>1. at \in Slot
    BY <1>1, <1>5, SlotAssumption DEF Slot
  <2>2. /\ IsGray(at) /\ Images[at].data /\ ~OverlayFaults(Images, at)
        /\ Images' = update_display(Images, at)
        /\ iimage' = Loses(iimage, at) /\ at' = at + 1
        /\ UNCHANGED <<sel, buttons, letter, args, fault, cc, mag, spread, pan, saved, phase>>
    BY <1>5, Zenon DEF PaintGray
  <2>3. Sound(Images) /\ Same(Images, Images) /\ Images[at] # NULL /\ ~Images[at].composite
    BY <1>1, <2>2 DEF WindowInv, TableInv, Same, SameKind, IsGray
  <2>4. Images[at].sdata # NULL
    BY <1>1, <1>5, <2>1, <2>2, <2>3 DEF ReadTo, HasIndices
  <2>5. WindowInv' /\ Same(Images, Images')
    BY <1>1, <2>1, <2>2, <2>3, <2>4, PaintsOK
  <2>6. ReadTo(NIMAGE)'
    BY <1>1, <2>5, ReadStays
  <2>7. PaintedTo(at)'
    <3>1. \A k \in Slot : k < at /\ Images'[k] # NULL /\ Images'[k].composite => Images'[k].sdata # NULL
      BY <1>1, <2>5, PaintedStays
    <3>2. ~Images'[at].composite
      BY <2>1, <2>3, <2>5 DEF Same, SameKind
    <3>3. \A k \in Slot : k < at + 1 => k < at \/ k = at
      BY <2>1 DEF Slot
    <3>4. QED
      BY <2>2, <3>1, <3>2, <3>3 DEF PaintedTo
  <2>8. QED
    BY <1>3, <1>5, <2>2, <2>5, <2>6, <2>7
<1>6. CASE at < NIMAGE /\ PaintNothing(at)
  <2>1. at \in Slot
    BY <1>1, <1>6, SlotAssumption DEF Slot
  <2>2. /\ Images[at] = NULL \/ ~Images[at].composite
        /\ at' = at + 1 /\ UNCHANGED <<vars, window, saved, phase>>
    BY <1>6 DEF PaintNothing, Exists, IsGray
  <2>3. WindowInv'
    BY <1>1, <2>2, ViewerStep
  <2>4. UNCHANGED <<Images, args>>
    BY <2>2 DEF vars
  <2>5. PaintedTo(at)' /\ ReadTo(NIMAGE)'
    <3>1. \A k \in Slot : k < at + 1 => k < at \/ k = at
      BY <2>1 DEF Slot
    <3>2. QED
      BY <1>1, <2>2, <2>4, <3>1 DEF PaintedTo, ReadTo, HasIndices
  <2>6. QED
    BY <1>3, <1>6, <2>2, <2>3, <2>4, <2>5
<1>7. CASE /\ at = NIMAGE
           /\ phase' = "ready" /\ at' = 0
           /\ cc' = None
           /\ UNCHANGED <<vars, mag, spread, iimage, pan, saved>>
  <2>1. WindowInv'
    BY <1>1, <1>7, ForgetsOK
  <2>2. UNCHANGED <<Images, args>> /\ at' \in 0..NIMAGE
    BY <1>7, SlotAssumption DEF vars
  <2>3. PaintedTo(NIMAGE)'
    BY <1>1, <1>7, <2>2 DEF PaintedTo
  <2>4. QED
    BY <1>1, <1>7, <2>1, <2>2, <2>3 DEF RestartInv, WindowsAgreeAgain
<1>8. QED
  BY <1>2, <1>4, <1>5, <1>6, <1>7, Zenon DEF PaintSlot

\* The read ends with an image in every window, if the file of slot a could
\* be read; a composite there has been shown to be complete.
LEMMA ReadRestartOK ==
  ASSUME RestartInv, ReadRestart
  PROVE  RestartInv'
<1>1. /\ phase = "ready" /\ args = NIMAGE /\ at \in 0..NIMAGE /\ 0 \in Slot
      /\ saved \in [Slot -> Descr \cup {NULL}] /\ PaintedTo(NIMAGE) /\ WindowInv
  BY SlotAssumption DEF ReadRestart, RestartInv, Slot
<1>2. CASE Dies
  <2>1. WindowInv' /\ UNCHANGED <<Images, args, saved, phase, at>>
    BY <1>2, RestartDies
  <2>2. PaintedTo(NIMAGE)'
    BY <1>1, <2>1 DEF PaintedTo
  <2>3. QED
    BY <1>1, <2>1, <2>2 DEF RestartInv, WindowsAgreeAgain
<1>3. CASE ~Dies
  <2> DEFINE T(img) == [Images EXCEPT ![0] = img]
             Ends(img) ==
               /\ ~ShowFaults(T(img), 0)
               /\ IF Shows(img)
                  THEN Images' = Loaded(Create(T(img), 0), 0) /\ ShownIn(0) /\ spread' = img.ncolors
                  ELSE UNCHANGED <<Images, window>>
               /\ UpdatePushButtons(Images', 0)
               /\ sel' = 0 /\ phase' = "done"
               /\ UNCHANGED <<letter, args, fault, saved, at>>
  <2>1. Images[0] # NULL /\ \E img \in Stretched(Images, 0) : Ends(img)
    BY <1>3, Zenon DEF ReadRestart, Exists
  <2>2. PICK img \in Stretched(Images, 0) : Ends(img)
    BY <2>1, Zenon
  <2> DEFINE W == [Images EXCEPT ![0] = img]
  <2>3. /\ ~ShowFaults(W, 0)
        /\ Shows(img) => Images' = Loaded(Create(W, 0), 0) /\ ShownIn(0) /\ spread' = img.ncolors
        /\ ~Shows(img) => UNCHANGED <<Images, window>>
        /\ UpdatePushButtons(Images', 0)
        /\ sel' = 0 /\ phase' = "done"
        /\ UNCHANGED <<letter, args, fault, saved, at>>
    BY <2>2
  <2> HIDE DEF T, Ends
  <2>4. Sound(Images) /\ Images[0] \in Image /\ Undoable(Images[0])
    BY <1>1, <2>1, ExistingGood DEF WindowInv, TableInv, Good
  <2>5. /\ Good(img) /\ img \in Image /\ img # NULL
        /\ SameKind(img, Images[0]) /\ img.data = Images[0].data
        /\ ~Images[0].composite /\ Images[0].data => img.sdata # NULL
    BY <1>1, <2>2, <2>4, StretchedImage, NullAssumption DEF Good
  <2> HIDE DEF W
  <2>6. Sound(W) /\ W[0] = img
    <3>1. Sound([Images EXCEPT ![0] = img]) /\ [Images EXCEPT ![0] = img][0] = img
      BY <1>1, <2>4, <2>5, PutSound
    <3>2. QED
      BY <3>1 DEF W
  <2>7. \A k \in Slot \ {0} : W[k] = Images[k]
    BY <1>1, <2>4 DEF W, Sound
  <2>8. CASE Shows(img)
    <3>1. Sound(Images') /\ Same(W, Images')
      BY <1>1, <2>3, <2>5, <2>6, <2>8, LoadedSound
    <3>2. Images'[0] # NULL /\ Images'[0].sdata # NULL
      BY <1>1, <2>5, <2>6, <2>8, <3>1 DEF Same, SameKind, Shows
    <3>3. Sound(Images)' /\ \A k \in Slot \ {0} : StaysShown(k)
      BY <2>7, <3>1 DEF Same, SameKind, Sound, StaysShown, Exists
    <3>4. rgbs' \in [Slot -> 0..(NPlanes + 1)] /\ comps' \in [Slot -> 0..2]
      BY <1>1, <2>3, <3>1, ButtonsTyped
    <3>5. ShownIn(0) /\ spread' \in 0..NColors
      BY <2>3, <2>5, <2>8, ImageFields, ColorAssumption
    <3>6. WindowInv'
      BY <1>1, <2>3, <3>2, <3>3, <3>4, <3>5, ReplacedOK
    <3>7. WindowsAgree'
      BY <3>5 DEF ShownIn, WindowsAgree
    <3>8. QED
      BY <1>1, <2>3, <3>6, <3>7 DEF RestartInv, WindowsAgreeAgain
  <2>9. CASE ~Shows(img)
    <3>1. UNCHANGED <<Images, window>>
      BY <2>3, <2>9
    <3>2. rgbs' \in [Slot -> 0..(NPlanes + 1)] /\ comps' \in [Slot -> 0..2]
      BY <1>1, <2>3, <2>4, <3>1, ButtonsTyped
    <3>3. TableInv' /\ \A k \in Slot : StaysShown(k)
      BY <1>1, <2>3, <3>1, <3>2, SameTable DEF WindowInv, TableInv, TypeOK
    <3>4. WindowInv'
      BY <1>1, <2>3, <3>1, <3>3, WindowsKept DEF WindowInv, NotYet, window
    <3>5. ~FilesThere'
      <4>1. ~Images[0].composite
        BY <1>1, <2>1, <2>5, <2>9, SlotAssumption DEF PaintedTo, SameKind, Shows
      <4>2. ~Images[0].data
        BY <2>5, <2>9, <4>1 DEF SameKind, Shows
      <4>3. QED
        BY <1>1, <2>1, <2>3, <3>1, <4>1, <4>2 DEF FilesThere, IsGray
    <3>6. QED
      BY <1>1, <2>3, <3>4, <3>5 DEF RestartInv, WindowsAgreeAgain
  <2>10. QED
    BY <2>8, <2>9
<1>4. QED
  BY <1>2, <1>3

LEMMA RestartStart == RestartInit => RestartInv
<1> SUFFICES ASSUME RestartInit PROVE RestartInv
  OBVIOUS
<1>1. WindowInv /\ WindowsAgree
  BY ViewerStart DEF RestartInit
<1>2. /\ saved \in [Slot -> Descr \cup {NULL}] /\ at \in 0..NIMAGE /\ phase = "first"
  BY SlotAssumption DEF RestartInit
<1>3. QED
  BY <1>1, <1>2 DEF RestartInv, WindowsAgreeAgain

LEMMA RestartStep == RestartInv /\ [RestartNext]_restartVars => RestartInv'
<1> SUFFICES ASSUME RestartInv, [RestartNext]_restartVars PROVE RestartInv'
  OBVIOUS
<1>1. CASE UNCHANGED restartVars
  <2>1. UNCHANGED <<vars, window>> /\ UNCHANGED <<saved, phase, at>>
    BY <1>1 DEF restartVars
  <2>2. WindowInv' /\ (WindowsAgree => WindowsAgree')
    BY <2>1, ViewerStep DEF RestartInv
  <2>3. UNCHANGED <<Images, args>>
    BY <2>1 DEF vars
  <2>4. /\ phase = "reading" => ReadTo(at)'
        /\ phase = "painting" => ReadTo(NIMAGE)' /\ PaintedTo(at)'
        /\ phase = "ready" => PaintedTo(NIMAGE)'
    BY <2>1, <2>3 DEF RestartInv, ReadTo, HasIndices, PaintedTo
  <2>5. WindowsAgreeAgain'
    BY <2>1, <2>2, <2>3 DEF RestartInv, WindowsAgreeAgain, FilesThere, IsGray
  <2>6. QED
    BY <2>1, <2>2, <2>3, <2>4, <2>5 DEF RestartInv
<1>2. CASE phase = "first" /\ (Files \/ Windows) /\ UNCHANGED <<saved, phase, at>>
  BY <1>2, FirstSessionOK
<1>3. CASE write_restart \/ Quit \/ StartRead
  BY <1>3, WriteOK, QuitOK, StartReadOK
<1>4. CASE ReadSlot \/ PaintSlot \/ ReadRestart
  BY <1>4, ReadSlotOK, PaintSlotOK, ReadRestartOK
<1>5. QED
  BY <1>1, <1>2, <1>3, <1>4 DEF RestartNext

\* Saving, leaving and restoring keep the types of images and pointers, though
\* read_restart (restart.c) fills the planes of an incomplete composite from
\* variables that were never set.
THEOREM RestartTypes == RestartSpec => []ViewerTypeOK
<1>1. RestartInv => ViewerTypeOK
  BY DEF RestartInv, WindowInv, WindowTypes, TableInv, ViewerTypeOK
<1>2. QED
  BY <1>1, RestartStart, RestartStep, PTL DEF RestartSpec

\* The pointers of the controls and the magnifier are live at every step of a
\* read, while slots of the old session are freed and filled one by one.
THEOREM RestartPointersLive == RestartSpec => []PointersLive
<1>1. RestartInv => PointersLive
  BY DEF RestartInv, WindowInv
<1>2. QED
  BY <1>1, RestartStart, RestartStep, PTL DEF RestartSpec

\* Overlays can be taken off again in a restored session as in the first.
THEOREM RestartOverlaysComeOff == RestartSpec => []OverlaysUndoable
<1>1. RestartInv => OverlaysUndoable
  BY DEF RestartInv, WindowInv, TableInv, Sound, OverlaysUndoable, Undoable, Exists
<1>2. QED
  BY <1>1, RestartStart, RestartStep, PTL DEF RestartSpec

\* The windows agree before a session is read and, if its files could be read,
\* when it has been (ReadRestart in restart.c): slot a ends up in all of them,
\* whatever the loop showed before.
THEOREM WindowsTogetherAgain == RestartSpec => []WindowsAgreeAgain
<1>1. RestartInv => WindowsAgreeAgain
  BY DEF RestartInv
<1>2. QED
  BY <1>1, RestartStart, RestartStep, PTL DEF RestartSpec

-----------------------------------------------------------------------------
(* Tables and indices *)

\* No gray image has more colours than load_info leaves it.
Clamped(img) == img # NULL /\ ~img.composite => img.ncolors < NColors

\* The indices and the overlay table of a gray image are for its colours.
TablesMatch(img) ==
  img # NULL /\ ~img.composite /\ img.sdata # NULL =>
    /\ (IF img.hold # NULL THEN img.hold ELSE img.sdata).top = img.ncolors + 1
    /\ img.quant \in {0, img.ncolors}

FitInv ==
  /\ TableInv
  /\ \A i \in Slot : Clamped(Images[i]) /\ (letter[i] = 0 => TablesMatch(Images[i]))

\* b shows what a showed, in as many colours.
Alike(a, b) ==
  /\ b.composite = a.composite /\ b.ncolors = a.ncolors
  /\ b.sdata = a.sdata /\ b.hold = a.hold /\ b.quant = a.quant

LEMMA AlikeFits ==
  ASSUME NEW a \in Image, NEW b \in Image, Alike(a, b)
  PROVE  (Clamped(a) => Clamped(b)) /\ (TablesMatch(a) => TablesMatch(b))
BY NullAssumption DEF Alike, Clamped, TablesMatch

LEMMA LoadInfoFits ==
  ASSUME NEW img \in Image
  PROVE  /\ Clamped(load_info(img))
         /\ Clamped(img) /\ TablesMatch(img) => TablesMatch(load_info(img))
<1> DEFINE n == IF img.ncolors >= NColors THEN NColors - 1 ELSE img.ncolors
           new == [img EXCEPT !.ncolors = n]
<1>1. img # NULL /\ load_info(img) = new
  BY NullAssumption DEF load_info
<1>2. n \in 1..NColors /\ n < NColors /\ (img.ncolors < NColors => n = img.ncolors)
  BY ImageFields, ColorAssumption
<1> HIDE DEF n
<1>3. /\ new \in Image /\ new.ncolors = n /\ new.composite = img.composite
      /\ new.sdata = img.sdata /\ new.hold = img.hold /\ new.quant = img.quant
  BY <1>2 DEF Image
<1> HIDE DEF new
<1>4. Clamped(new)
  BY <1>2, <1>3 DEF Clamped
<1>5. ASSUME Clamped(img), TablesMatch(img) PROVE TablesMatch(new)
  <2>1. CASE img.composite
    BY <1>3, <2>1 DEF TablesMatch
  <2>2. CASE ~img.composite
    <3>1. Alike(img, new)
      BY <1>1, <1>2, <1>3, <1>5, <2>2 DEF Clamped, Alike
    <3>2. QED
      BY <1>3, <1>5, <3>1, AlikeFits
  <2>3. QED
    BY <2>1, <2>2
<1>6. QED
  BY <1>1, <1>4, <1>5

\* Painting puts new indices in one image and makes tables for its overlays.
LEMMA UpdateFields ==
  ASSUME NEW T, NEW j \in Slot, Sound(T), T[j] # NULL, T[j].sdata # NULL, ~OverlayFaults(T, j),
         NEW i \in Slot, T[i] # NULL
  PROVE  LET U == update_display(T, j) IN
         /\ U[i].composite = T[i].composite /\ U[i].ncolors = T[i].ncolors
         /\ U[i].overlays = T[i].overlays /\ U[i].rgb = T[i].rgb
         /\ U[i].band = T[i].band /\ U[i].data = T[i].data
         /\ U[i].quant = T[i].quant \/ U[i].quant = T[i].ncolors
         /\ \/ U[i].quant = T[i].quant /\ U[i].map = T[i].map
            \/ /\ U[i].quant = T[i].ncolors
               /\ U[i].map = IF T[i].map = 0 THEN T[i].ncolors ELSE T[i].map
         /\ i # j => U[i].sdata = T[i].sdata /\ U[i].hold = T[i].hold
         /\ i = j => /\ U[i].sdata.top = Top(T, j, Paints(T, j))
                     /\ U[i].sdata.over = Paints(T, j)
                     /\ U[i].hold = IF T[j].overlays = {} THEN NULL ELSE Base(T, j)
<1> DEFINE V == Quantized(T, j)
           s == [Base(T, j) EXCEPT !.over = @ \cup Paints(T, j),
                                   !.top  = Top(T, j, Paints(T, j))]
           h == IF T[j].overlays = {} THEN NULL ELSE Base(T, j)
           new == [V[j] EXCEPT !.sdata = s, !.hold = h]
           U == update_display(T, j)
<1>1. T[i] \in Image /\ T[j] \in Image
  BY DEF Sound
<1>2. /\ V[i].composite = T[i].composite /\ V[i].ncolors = T[i].ncolors
      /\ V[i].sdata = T[i].sdata /\ V[i].hold = T[i].hold /\ V[i].overlays = T[i].overlays
      /\ V[i].rgb = T[i].rgb /\ V[i].band = T[i].band /\ V[i].data = T[i].data
      /\ \/ V[i].quant = T[i].quant /\ V[i].map = T[i].map
         \/ /\ V[i].quant = T[i].ncolors
            /\ V[i].map = IF T[i].map = 0 THEN T[i].ncolors ELSE T[i].map
  <2>1. CASE ~(i \in T[j].overlays /\ T[i].quant = 0)
    <3>1. V[i] = T[i]
      BY <2>1 DEF Quantized
    <3>2. QED
      BY <3>1
  <2>2. CASE i \in T[j].overlays /\ T[i].quant = 0
    <3> DEFINE m == IF T[i].map = 0 THEN T[i].ncolors ELSE T[i].map
    <3>1. V[i] = [T[i] EXCEPT !.quant = T[i].ncolors, !.map = m]
      BY <2>2 DEF Quantized
    <3> HIDE DEF m, V
    <3>2. /\ V[i].composite = T[i].composite /\ V[i].ncolors = T[i].ncolors
          /\ V[i].sdata = T[i].sdata /\ V[i].hold = T[i].hold /\ V[i].overlays = T[i].overlays
          /\ V[i].rgb = T[i].rgb /\ V[i].band = T[i].band /\ V[i].data = T[i].data
          /\ V[i].quant = T[i].ncolors /\ V[i].map = m
      BY <1>1, <3>1 DEF Image
    <3>3. QED
      BY <3>2 DEF m
  <2>3. QED
    BY <2>1, <2>2
<1>3. U = [V EXCEPT ![j].sdata = s, ![j].hold = h] /\ V = [k \in Slot |-> V[k]]
  BY DEF update_display, Quantized
<1>4. V[j] \in Image
  <2>1. T[j].overlays \subseteq Slot
    BY <1>1, ImageFields
  <2>2. \A k \in T[j].overlays : T[k] # NULL
    BY <2>1 DEF OverlayFaults
  <2>3. QED
    BY <2>2, QuantizedSound DEF Same, Sound
<1>5. s.top = Top(T, j, Paints(T, j)) /\ s.over = Paints(T, j)
  <2>1. Base(T, j) \in Indices /\ Base(T, j).over = {}
    BY BaseIsIndices
  <2> HIDE DEF V, U, h
  <2>2. QED
    BY <2>1 DEF Indices
<1> HIDE DEF V, s, h, U
<1>6. CASE i # j
  <2>1. U[i] = V[i]
    BY <1>3, <1>6
  <2>2. QED
    BY <1>2, <1>6, <2>1 DEF U
<1>7. CASE i = j
  <2>1. U[i] = new
    BY <1>3, <1>7
  <2>2. /\ new.composite = V[i].composite /\ new.ncolors = V[i].ncolors
        /\ new.quant = V[i].quant /\ new.overlays = V[i].overlays
        /\ new.map = V[i].map /\ new.rgb = V[i].rgb /\ new.band = V[i].band /\ new.data = V[i].data
        /\ new.sdata = s /\ new.hold = h
    BY <1>4, <1>7 DEF Image
  <2> HIDE DEF new
  <2>3. QED
    BY <1>2, <1>5, <1>7, <2>1, <2>2 DEF U, h
<1>8. QED
  BY <1>6, <1>7

\* Painting makes tables for the colours there are and leaves the indices
\* under the overlays.
LEMMA UpdateFits ==
  ASSUME NEW T, NEW j \in Slot, Sound(T), T[j] # NULL, T[j].sdata # NULL, ~OverlayFaults(T, j),
         NEW i \in Slot
  PROVE  /\ Clamped(T[i]) => Clamped(update_display(T, j)[i])
         /\ TablesMatch(T[i]) => TablesMatch(update_display(T, j)[i])
<1> DEFINE U == update_display(T, j)
<1>1. CASE T[i] = NULL
  <2>1. U[i] = NULL
    BY <1>1, UpdateSound DEF Same
  <2>2. QED
    BY <2>1 DEF Clamped, TablesMatch
<1>2. CASE T[i] # NULL
  <2>1. /\ U[i].composite = T[i].composite /\ U[i].ncolors = T[i].ncolors
        /\ U[i].quant = T[i].quant \/ U[i].quant = T[i].ncolors
        /\ i # j => U[i].sdata = T[i].sdata /\ U[i].hold = T[i].hold
        /\ i = j => /\ U[i].sdata.top = Top(T, j, Paints(T, j))
                    /\ U[i].hold = IF T[j].overlays = {} THEN NULL ELSE Base(T, j)
    BY <1>2, UpdateFields
  <2>2. Base(T, j) # NULL
    BY BaseIsIndices
  <2>3. ASSUME T[j].overlays = {} PROVE Top(T, j, Paints(T, j)) = Base(T, j).top
    <3>1. Paints(T, j) = {} /\ {} \in SUBSET T[j].overlays /\ \A k \in T[j].overlays : T[k] # NULL
      BY <2>3 DEF Paints
    <3>2. Top(T, j, {}) \in {Base(T, j).top} \cup {Start(T, j, k) + T[k].ncolors + 1 : k \in {}}
      BY <3>1, TopInNat
    <3>3. QED
      BY <3>1, <3>2
  <2> HIDE DEF U
  <2>4. CASE i # j
    BY <1>2, <2>1, <2>4 DEF Clamped, TablesMatch, U
  <2>5. CASE i = j
    <3>1. (IF U[i].hold # NULL THEN U[i].hold ELSE U[i].sdata).top = Base(T, j).top
      BY <2>1, <2>2, <2>3, <2>5
    <3>2. QED
      BY <1>2, <2>1, <2>5, <3>1 DEF Clamped, TablesMatch, Base, U
  <2>6. QED
    BY <2>4, <2>5
<1>3. QED
  BY <1>1, <1>2

\* One image is replaced, and no other loses its red letter.
LEMMA PutFits ==
  ASSUME FitInv, TableInv', NEW j \in Slot, NEW img, Images' = [Images EXCEPT ![j] = img],
         Clamped(img), letter'[j] = 0 => TablesMatch(img),
         \A k \in Slot \ {j} : letter'[k] \in {letter[k], 1}
  PROVE  FitInv'
<1>1. Images'[j] = img /\ \A k \in Slot \ {j} : Images'[k] = Images[k]
  BY DEF FitInv, TableInv, TypeOK
<1>2. ASSUME NEW i \in Slot PROVE Clamped(Images'[i]) /\ (letter'[i] = 0 => TablesMatch(Images'[i]))
  BY <1>1 DEF FitInv
<1>3. QED
  BY <1>2 DEF FitInv

LEMMA KeptFits ==
  ASSUME FitInv, TableInv', UNCHANGED Images, \A k \in Slot : letter'[k] \in {letter[k], 1}
  PROVE  FitInv'
<1>1. ASSUME NEW i \in Slot PROVE Clamped(Images'[i]) /\ (letter'[i] = 0 => TablesMatch(Images'[i]))
  BY DEF FitInv
<1>2. QED
  BY <1>1 DEF FitInv

\* Images without indices
LEMMA FreshFits ==
  /\ Clamped(NULL) /\ TablesMatch(NULL)
  /\ \A kind : Clamped(FileImage(kind))
<1>1. Clamped(NULL) /\ TablesMatch(NULL)
  BY DEF Clamped, TablesMatch
<1>2. ASSUME NEW kind PROVE FileImage(kind).ncolors = DefaultColors
  BY DEF FileImage, allocate_image
<1>3. QED
  BY <1>1, <1>2, ColorAssumption DEF Clamped

\* A letter is red again, or the colours are clamped, wherever they change.
LEMMA EditsFit ==
  ASSUME FitInv, TableInv',
         \/ \E i \in Slot : SelectSlot(i) \/ RGB_pushbutton(i) \/ overlay_pushbutton(i)
         \/ \E kind \in OpenFiles : NewFile(kind)
         \/ load_band
         \/ \E n \in ColorChoices : load_ncolors(n)
         \/ \E bands \in BOOLEAN : GetInput(bands)
         \/ DeleteImage
  PROVE  FitInv'
<1>1. sel \in Slot /\ letter \in [Slot -> {0, 1}] /\ TableInv
  BY DEF FitInv, TableInv, TypeOK
<1>2. /\ \A i \in Slot : Images[i] # NULL => Images[i] \in Image
      /\ \A i \in Slot : Clamped(Images[i]) /\ (letter[i] = 0 => TablesMatch(Images[i]))
  BY <1>1, ExistingGood DEF FitInv
<1>3. CASE UNCHANGED Images /\ UNCHANGED letter
  BY <1>3, KeptFits
<1>4. ASSUME NEW i \in Slot, SelectSlot(i) PROVE FitInv'
  <2> DEFINE img == load_info(Images[i])
  <2>1. Clamped(img) /\ (letter[i] = 0 => TablesMatch(img))
    <3>1. CASE Images[i] = NULL
      BY <3>1, FreshFits DEF load_info
    <3>2. CASE Images[i] # NULL
      BY <1>2, <3>2, LoadInfoFits
    <3>3. QED
      BY <3>1, <3>2
  <2>2. Images' = [Images EXCEPT ![i] = img] /\ UNCHANGED letter
    BY <1>4 DEF SelectSlot
  <2> HIDE DEF img
  <2>3. QED
    BY <2>1, <2>2, PutFits
<1>5. ASSUME NEW i \in Slot, RGB_pushbutton(i) PROVE FitInv'
  <2> DEFINE img == IF Exists(sel) THEN Images[sel] ELSE NewComposite
             new == SetPlane(img, i, NextPlane(img.rgb, rgbs[i]))
             result == IF \A k \in Slot : new.rgb[k] = 0 THEN NULL ELSE load_info(new)
  <2>1. img \in Image /\ img.composite
    <3>1. CASE Exists(sel)
      BY <1>1, <1>2, <1>5, <3>1 DEF RGB_pushbutton, Exists
    <3>2. CASE ~Exists(sel)
      <4>1. NewComposite \in Image
        BY FreshGood DEF Good
      <4>2. NewComposite.composite
        BY DEF NewComposite, allocate_image
      <4>3. QED
        BY <3>2, <4>1, <4>2
    <3>3. QED
      BY <3>1, <3>2
  <2> HIDE DEF img
  <2> DEFINE c == IF new.ncolors >= NColors THEN NColors - 1 ELSE new.ncolors
  <2>2. new.composite /\ [new EXCEPT !.ncolors = c].composite
    <3> HIDE DEF c
    <3>1. QED
      BY <2>1 DEF SetPlane, Image
  <2>3. Images' = [Images EXCEPT ![sel] = result]
    BY <1>5 DEF RGB_pushbutton, img
  <2>4. load_info(new) = NULL \/ load_info(new) = [new EXCEPT !.ncolors = c]
    BY DEF load_info
  <2> HIDE DEF new, c
  <2>5. result = NULL \/ result.composite
    BY <2>2, <2>4
  <2> HIDE DEF result
  <2>6. Clamped(result) /\ TablesMatch(result)
    BY <2>5 DEF Clamped, TablesMatch
  <2>7. \A k \in Slot \ {sel} : letter'[k] = letter[k]
    BY <1>1, <1>5 DEF RGB_pushbutton, FlagForLoad, UnFlagForLoad
  <2>8. QED
    BY <1>1, <2>3, <2>6, <2>7, PutFits
<1>6. ASSUME NEW i \in Slot, overlay_pushbutton(i) PROVE FitInv'
  <2> DEFINE kept == IF comps[i] = 0 THEN Images[sel].overlays \cup {i} ELSE Images[sel].overlays \ {i}
             taken == IF TooMany(Images[sel].ncolors + ColorsIn(Images, kept)) THEN kept \ {i} ELSE kept
             new == [Images[sel] EXCEPT !.rgb[i] = 0, !.overlays = taken]
  <2>1. CASE Die("overlay_pushbutton")
    BY <1>3, <2>1 DEF Die
  <2>2. CASE ~Die("overlay_pushbutton")
    <3>1. /\ Images' = [Images EXCEPT ![sel].rgb[i] = 0, ![sel].overlays = taken]
          /\ UNCHANGED letter /\ Images[sel] # NULL
      BY <1>6, <2>2, Zenon DEF overlay_pushbutton, Exists
    <3>2. Images[sel] \in Image
      BY <1>1, <1>2, <3>1
    <3>3. taken \in SUBSET Slot
      <4>1. Images[sel].overlays \subseteq Slot
        BY <3>2, ImageFields
      <4>2. QED
        BY <4>1
    <3> HIDE DEF taken
    <3>4. Images' = [Images EXCEPT ![sel] = new]
      BY <1>1, <3>1 DEF TableInv, TypeOK
    <3>5. new \in Image /\ Alike(Images[sel], new)
      <4>1. 0 \in 0..NPlanes
        BY SlotAssumption
      <4>2. QED
        BY <3>2, <3>3, <4>1 DEF Alike, Image
    <3> HIDE DEF new
    <3>6. Clamped(new) /\ (letter[sel] = 0 => TablesMatch(new))
      BY <1>1, <1>2, <3>2, <3>5, AlikeFits
    <3>7. QED
      BY <1>1, <3>1, <3>4, <3>6, PutFits
  <2>3. QED
    BY <2>1, <2>2
<1>7. ASSUME NEW kind \in OpenFiles, NewFile(kind) PROVE FitInv'
  <2> DEFINE img == IF kind = "none" THEN FileImage(kind) ELSE load_info(FileImage(kind))
  <2>1. FileImage(kind) \in Image
    BY FreshGood DEF Good
  <2>2. Clamped(img)
    BY <2>1, FreshFits, LoadInfoFits
  <2>3. Images' = [Images EXCEPT ![sel] = img] /\ FlagForLoad(sel)
    BY <1>7 DEF NewFile
  <2> HIDE DEF img
  <2>4. letter'[sel] # 0 /\ \A k \in Slot \ {sel} : letter'[k] \in {letter[k], 1}
    BY <1>1, <2>3 DEF FlagForLoad
  <2>5. QED
    BY <1>1, <2>2, <2>3, <2>4, PutFits, Zenon
<1>8. ASSUME NEW img, Clamped(img), Images' = [Images EXCEPT ![sel] = img], FlagForLoad(sel)
      PROVE  FitInv'
  <2>1. letter'[sel] # 0 /\ \A k \in Slot \ {sel} : letter'[k] \in {letter[k], 1}
    BY <1>1, <1>8 DEF FlagForLoad
  <2>2. QED
    BY <1>1, <1>8, <2>1, PutFits, Zenon
<1>9. CASE load_band
  <2>1. CASE ~Exists(sel)
    BY <1>3, <1>9, <2>1 DEF load_band, IsGray, Exists, Die
  <2>2. CASE Exists(sel)
    <3> DEFINE img == [Images[sel] EXCEPT !.band = TRUE, !.data = FALSE]
    <3>1. Images[sel] \in Image
      BY <1>1, <1>2, <2>2 DEF Exists
    <3>2. img \in Image /\ Alike(Images[sel], img)
      BY <3>1 DEF Alike, Image
    <3>3. Images' = [Images EXCEPT ![sel] = img] /\ FlagForLoad(sel)
      BY <1>1, <1>9, <2>2 DEF load_band, TableInv, Sound
    <3> HIDE DEF img
    <3>4. Clamped(img)
      BY <1>1, <1>2, <3>1, <3>2, AlikeFits
    <3>5. QED
      BY <1>8, <3>3, <3>4
  <2>3. QED
    BY <2>1, <2>2
<1>10. ASSUME NEW n \in ColorChoices, load_ncolors(n) PROVE FitInv'
  <2> DEFINE new == [Images[sel] EXCEPT !.ncolors = n]
  <2>1. Images[sel] \in Image
    BY <1>1, <1>2, <1>10 DEF load_ncolors, Exists
  <2>2. new \in Image
    BY <2>1, ColorAssumption DEF Image
  <2>3. Images' = [Images EXCEPT ![sel] = load_info(new)]
    BY <1>10 DEF load_ncolors
  <2> HIDE DEF new
  <2>4. Clamped(load_info(new))
    BY <2>2, LoadInfoFits
  <2>5. QED
    BY <1>8, <1>10, <2>3, <2>4 DEF load_ncolors
<1>11. ASSUME NEW bands \in BOOLEAN, GetInput(bands) PROVE FitInv'
  <2>1. CASE ~Exists(sel)
    BY <1>3, <1>11, <2>1 DEF GetInput, Die
  <2>2. CASE Exists(sel)
    <3> DEFINE img == [Images[sel] EXCEPT !.header = bands]
    <3>1. Images[sel] \in Image
      BY <1>1, <1>2, <2>2 DEF Exists
    <3>2. img \in Image /\ Alike(Images[sel], img)
      BY <3>1 DEF Alike, Image
    <3>3. Images' = [Images EXCEPT ![sel] = img] /\ FlagForLoad(sel)
      BY <1>1, <1>11, <2>2 DEF GetInput, TableInv, Sound
    <3> HIDE DEF img
    <3>4. Clamped(img)
      BY <1>1, <1>2, <3>1, <3>2, AlikeFits
    <3>5. QED
      BY <1>8, <3>3, <3>4
  <2>3. QED
    BY <2>1, <2>2
<1>12. CASE DeleteImage
  BY <1>1, <1>12, FreshFits, PutFits DEF DeleteImage
<1>13. QED
  BY <1>4, <1>5, <1>6, <1>7, <1>9, <1>10, <1>11, <1>12, Zenon

\* A file named on the command line has its header read, and is clamped.
LEMMA CommandLineFits ==
  ASSUME FitInv, TableInv', CommandLine, "none" \notin StartFiles
  PROVE  FitInv'
<1>1. CASE EndOfArgs
  BY <1>1, KeptFits DEF EndOfArgs
<1>2. ASSUME NEW kind \in StartFiles, NEW n \in ColorChoices \cup {DefaultColors},
             off_load_filename(kind, n)
      PROVE  FitInv'
  <2>1. args \in Slot /\ letter \in [Slot -> {0, 1}]
    BY <1>2, SlotAssumption DEF off_load_filename, FitInv, TableInv, TypeOK, Slot
  <2>2. CASE kind = "missing"
    BY <1>2, <2>2, KeptFits DEF off_load_filename
  <2>3. CASE kind # "missing"
    <3> DEFINE new == [FileImage(kind) EXCEPT !.ncolors = n]
    <3>1. new \in Image
      BY ColorAssumption, FreshGood DEF Good
    <3> HIDE DEF new
    <3>2. Images' = [Images EXCEPT ![args] = load_info(new)] /\ FlagForLoad(args)
      BY <1>2, <2>3 DEF off_load_filename, new
    <3>3. letter'[args] # 0 /\ \A k \in Slot \ {args} : letter'[k] \in {letter[k], 1}
      BY <2>1, <3>2 DEF FlagForLoad
    <3>4. Clamped(load_info(new))
      BY <3>1, LoadInfoFits
    <3>5. QED
      BY <2>1, <3>2, <3>3, <3>4, PutFits, Zenon
  <2>4. QED
    BY <2>2, <2>3
<1>3. QED
  BY <1>1, <1>2 DEF CommandLine

\* A gray image that has been read is stretched to its colours.
LEMMA LoadImageFits ==
  ASSUME FitInv, TableInv', NEW i \in Slot, LoadImage(i), FALSE \notin Reads
  PROVE  FitInv'
<1>1. CASE Die("LoadImage") \/ Die("create_image")
  BY <1>1, KeptFits DEF Die
<1>2. CASE ~Die("LoadImage") /\ ~Die("create_image")
  <2> DEFINE T(reads) == [Images EXCEPT ![i] = ReadData(@, reads)]
             U(reads, img) == [T(reads) EXCEPT ![i] = img]
             Ends(reads, img) ==
               /\ Shows(img) => ~OverlayFaults(U(reads, img), i)
               /\ Images' = IF Shows(img) THEN update_display(U(reads, img), i) ELSE U(reads, img)
               /\ UnFlagForLoad(i)
               /\ UNCHANGED <<sel, buttons, args, fault>>
  <2>1. Images[i] # NULL /\ \E reads \in Reads : \E img \in Stretched(T(reads), i) : Ends(reads, img)
    BY <1>2, Zenon DEF LoadImage, Exists
  <2>2. PICK reads \in Reads : \E img \in Stretched(T(reads), i) : Ends(reads, img)
    BY <2>1, Zenon
  <2>3. PICK img \in Stretched(T(reads), i) : Ends(reads, img)
    BY <2>2, Zenon
  <2>4. reads = TRUE /\ reads \in BOOLEAN
    BY FileAssumption
  <2> DEFINE W == [Images EXCEPT ![i] = img]
  <2>5. /\ Good(img) /\ img # NULL /\ SameKind(img, Images[i])
        /\ U(reads, img) = W /\ Sound(W) /\ W[i] = img
    BY <2>1, <2>3, <2>4, LoadSteps, Zenon DEF FitInv
  <2>6. /\ Shows(img) => ~OverlayFaults(W, i)
        /\ Images' = IF Shows(img) THEN update_display(W, i) ELSE W
        /\ UnFlagForLoad(i)
    BY <2>3, <2>5, Zenon
  <2>7. \A k \in Slot \ {i} : W[k] = Images[k]
    BY DEF FitInv, TableInv, TypeOK
  <2>8. Images[i] \in Image
    BY <2>1, ExistingGood DEF FitInv
  <2>9. Clamped(img) /\ TablesMatch(img)
    <3>1. CASE Images[i].composite
      BY <2>5, <3>1 DEF SameKind, Clamped, TablesMatch
    <3>2. CASE ~Images[i].composite
      <4> DEFINE old == ReadData(Images[i], reads)
      <4>1. old \in Image /\ ~old.composite /\ old.data /\ old.ncolors = Images[i].ncolors
        BY <2>4, <2>8, <3>2 DEF ReadData, Image
      <4>2. T(reads)[i] = old
        BY DEF FitInv, TableInv, TypeOK
      <4> HIDE DEF T, U, W, Ends, old
      <4>3. img = stretch_gray(old)
        BY <2>3, <4>1, <4>2 DEF Stretched
      <4>4. old.ncolors + 1 \in Nat
        BY <4>1, ImageFields, ColorAssumption
      <4>5. img.ncolors = old.ncolors /\ ~img.composite /\ img.quant = 0 /\ img.hold = NULL
            /\ img.sdata.top = old.ncolors + 1
        BY <4>1, <4>3 DEF stretch_gray, Image
      <4>6. Clamped(Images[i])
        BY DEF FitInv
      <4>7. QED
        BY <2>1, <3>2, <4>1, <4>5, <4>6 DEF Clamped, TablesMatch
    <3>3. QED
      BY <3>1, <3>2
  <2> HIDE DEF W, U, T, Ends
  <2>10. ASSUME NEW k \in Slot
         PROVE  /\ Clamped(W[k]) => Clamped(Images'[k])
                /\ TablesMatch(W[k]) => TablesMatch(Images'[k])
    <3>1. CASE Shows(img)
      <4>1. W[i] # NULL /\ W[i].sdata # NULL
        BY <2>5, <3>1 DEF Shows
      <4>2. QED
        BY <2>5, <2>6, <3>1, <4>1, UpdateFits
    <3>2. CASE ~Shows(img)
      BY <2>6, <3>2
    <3>3. QED
      BY <3>1, <3>2
  <2>11. \A k \in Slot \ {i} : letter'[k] = letter[k]
    BY <2>6 DEF UnFlagForLoad, FitInv, TableInv, TypeOK
  <2>12. ASSUME NEW k \in Slot
         PROVE  Clamped(Images'[k]) /\ (letter'[k] = 0 => TablesMatch(Images'[k]))
    <3>1. CASE k = i
      BY <2>5, <2>9, <2>10, <3>1
    <3>2. CASE k # i
      BY <2>7, <2>10, <2>11, <3>2 DEF FitInv
    <3>3. QED
      BY <3>1, <3>2
  <2>13. QED
    BY <2>12 DEF FitInv
<1>3. QED
  BY <1>1, <1>2

\* A white letter means that indices and overlay tables are for the colours
\* the image has (composite.c, quant.c), if every file named on the command
\* line has a header and every data file can be read.
THEOREM TablesAlwaysFit ==
  ASSUME "none" \notin StartFiles, FALSE \notin Reads
  PROVE  Spec => []TablesFit
<1>1. Init => FitInv
  <2>1. Init => \A i \in Slot : Images[i] = NULL
    BY DEF Init
  <2>2. QED
    BY <2>1, TableInit, FreshFits DEF FitInv
<1>2. FitInv /\ [Next]_vars => FitInv'
  <2> SUFFICES ASSUME FitInv, [Next]_vars PROVE FitInv'
    OBVIOUS
  <2>1. TableInv'
    BY TableStep DEF FitInv
  <2>2. CASE UNCHANGED vars
    BY <2>1, <2>2, KeptFits DEF vars
  <2>3. CASE CommandLine
    BY <2>1, <2>3, CommandLineFits
  <2>4. CASE \E i \in Slot : LoadImage(i)
    BY <2>1, <2>4, LoadImageFits
  <2>5. CASE /\ FilesWindow /\ ~\E i \in Slot : LoadImage(i)
    BY <2>1, <2>5, EditsFit, Zenon DEF FilesWindow
  <2>6. QED
    BY <2>2, <2>3, <2>4, <2>5 DEF Next
<1>3. FitInv => TablesFit
  BY DEF FitInv, Clamped, TablesMatch, TablesFit, IsGray, Base
<1>4. QED
  BY <1>1, <1>2, <1>3, PTL DEF Spec

-----------------------------------------------------------------------------
(* The colours there are *)

\* What a set of overlays takes when every image has the colours it came with.
Share(S) == SumFunction([k \in S |-> DefaultColors])

\* img and what lies over it fit in the colours there are, and so do the
\* indices it shows.
Frugal(img) ==
  img # NULL =>
    /\ ~img.composite => img.ncolors = DefaultColors
    /\ img.ncolors + Share(img.overlays) <= NColors
    /\ img.sdata # NULL => img.sdata.top <= NColors + 1
    /\ img.hold # NULL => img.hold.top <= NColors + 1

Gray(T, k) == T[k] # NULL /\ ~T[k].composite

OverlaysGray(T) == \A j \in Slot : T[j] # NULL => \A k \in T[j].overlays : Gray(T, k)

Frugality(T) == (\A j \in Slot : Frugal(T[j])) /\ OverlaysGray(T)

BudgetInv == TableInv /\ Frugality(Images)

LEMMA ShareFacts ==
  ASSUME NEW S \in SUBSET Slot
  PROVE  /\ Share(S) \in Nat /\ (S = {} => Share(S) = 0)
         /\ \A R \in SUBSET S : Share(R) <= Share(S)
         /\ \A x \in S : Share(S) = DefaultColors + Share(S \ {x})
<1> DEFINE c == [k \in Slot |-> DefaultColors]
<1>1. DefaultColors \in Nat /\ \A k \in Slot : c[k] = DefaultColors
  BY ColorAssumption
<1>2. ASSUME NEW R \in SUBSET Slot PROVE IsFiniteSet(R) /\ Share(R) = Total(c, R) /\ Share(R) \in Nat
  <2> DEFINE g == [k \in R |-> DefaultColors]
  <2>1. IsFiniteSet(R)
    BY SlotsFinite
  <2>2. Share(R) = Total(g, R)
    BY DEF Share, SumFunction, Total
  <2>3. \A k \in R : c[k] \in Int /\ g[k] = c[k]
    BY <1>1
  <2>4. \A k \in R : c[k] \in Nat
    BY <1>1
  <2> HIDE DEF c, g
  <2>5. Total(g, R) = Total(c, R)
    BY <2>1, <2>3, SumSame
  <2>6. Total(c, R) \in Nat
    BY <2>1, <2>4, SumType
  <2>7. QED
    BY <2>1, <2>2, <2>5, <2>6
<1> HIDE DEF c
<1>3. S = {} => Share(S) = 0
  BY <1>2, SumApart
<1>4. ASSUME NEW R \in SUBSET S PROVE Share(R) <= Share(S)
  <2>1. R \cup (S \ R) = S /\ R \cap (S \ R) = {} /\ \A k \in R \cup (S \ R) : c[k] \in Int
    BY <1>1
  <2>2. IsFiniteSet(R) /\ IsFiniteSet(S \ R)
    BY <1>2
  <2>3. Total(c, R \cup (S \ R)) = Total(c, R) + Total(c, S \ R)
    BY <2>1, <2>2, SumUnion
  <2>4. /\ Share(S) = Total(c, S) /\ Share(R) = Total(c, R) /\ Share(S \ R) = Total(c, S \ R)
        /\ Share(S) \in Nat /\ Share(R) \in Nat /\ Share(S \ R) \in Nat
    BY <1>2
  <2>5. Share(S) = Share(R) + Share(S \ R)
    BY <2>1, <2>3, <2>4
  <2>6. QED
    BY <2>4, <2>5
<1>5. ASSUME NEW x \in S PROVE Share(S) = DefaultColors + Share(S \ {x})
  <2>1. IsFiniteSet(S) /\ \A k \in S : c[k] \in Int
    BY <1>1, <1>2
  <2>2. Total(c, S) = c[x] + Total(c, S \ {x})
    BY <2>1, SumPick
  <2>3. Share(S) = Total(c, S) /\ Share(S \ {x}) = Total(c, S \ {x}) /\ c[x] = DefaultColors
    BY <1>1, <1>2
  <2>4. QED
    BY <2>2, <2>3
<1>6. QED
  BY <1>2, <1>3, <1>4, <1>5

\* The sum over the overlays is what they share.
LEMMA OverlayColors ==
  ASSUME NEW T, Frugality(T), NEW S \in SUBSET Slot, \A k \in S : Gray(T, k)
  PROVE  ColorsIn(T, S) = Share(S)
<1>1. \A k \in S : T[k].ncolors = DefaultColors
  BY DEF Frugality, Frugal, Gray
<1>2. QED
  BY <1>1 DEF ColorsIn, Share

\* An edit that takes nothing more leaves an image frugal.
LEMMA FrugalEdit ==
  ASSUME NEW a \in Image, Frugal(a), NEW b \in Image,
         b.composite = a.composite, b.overlays \subseteq a.overlays,
         b.ncolors <= a.ncolors, ~a.composite => b.ncolors = a.ncolors,
         b.sdata \in {a.sdata, NULL}, b.hold \in {a.hold, NULL}
  PROVE  Frugal(b)
<1>1. a.overlays \in SUBSET Slot /\ a.ncolors \in 1..NColors /\ b.ncolors \in 1..NColors
  BY ImageFields
<1>2. b.overlays \in SUBSET Slot
  BY ImageFields
<1>3. Share(b.overlays) <= Share(a.overlays) /\ Share(a.overlays) \in Nat /\ Share(b.overlays) \in Nat
  BY <1>1, <1>2, ShareFacts
<1>4. a # NULL
  BY NullAssumption
<1>5. b.ncolors + Share(b.overlays) <= NColors
  BY <1>1, <1>3, <1>4, ColorAssumption DEF Frugal
<1>6. QED
  BY <1>4, <1>5 DEF Frugal

LEMMA LoadInfoFrugal ==
  ASSUME NEW img \in Image, Frugal(img)
  PROVE  /\ Frugal(load_info(img)) /\ load_info(img) # NULL
         /\ load_info(img).composite = img.composite
         /\ load_info(img).overlays = img.overlays
<1> DEFINE n == IF img.ncolors >= NColors THEN NColors - 1 ELSE img.ncolors
           new == [img EXCEPT !.ncolors = n]
<1>1. img # NULL /\ load_info(img) = new
  BY NullAssumption DEF load_info
<1>2. /\ n \in 1..NColors /\ n <= img.ncolors
      /\ ~img.composite => n = img.ncolors
  <2>1. ~img.composite => img.ncolors < NColors
    BY <1>1, ColorAssumption DEF Frugal
  <2>2. QED
    BY <2>1, ImageFields, ColorAssumption
<1> HIDE DEF n
<1>3. /\ new \in Image /\ new.ncolors = n /\ new.composite = img.composite
      /\ new.overlays = img.overlays /\ new.sdata = img.sdata /\ new.hold = img.hold
  BY <1>2 DEF Image
<1> HIDE DEF new
<1>4. Frugal(new)
  BY <1>2, <1>3, FrugalEdit
<1>5. QED
  BY <1>1, <1>3, <1>4, NullAssumption

LEMMA FreshFrugal ==
  /\ \A kind : Frugal(FileImage(kind)) /\ FileImage(kind) \in Image
               /\ ~FileImage(kind).composite /\ FileImage(kind).overlays = {}
  /\ Frugal(NewComposite) /\ NewComposite \in Image
  /\ NewComposite.composite /\ NewComposite.overlays = {}
<1>1. Share({}) = 0
  BY ShareFacts
<1>2. ASSUME NEW kind
      PROVE  /\ FileImage(kind) \in Image /\ ~FileImage(kind).composite
             /\ FileImage(kind).overlays = {} /\ FileImage(kind).ncolors = DefaultColors
             /\ FileImage(kind).sdata = NULL /\ FileImage(kind).hold = NULL
  <2>1. FileImage(kind) \in Image
    BY FreshGood DEF Good
  <2>2. QED
    BY <2>1 DEF FileImage, allocate_image
<1>3. /\ NewComposite \in Image /\ NewComposite.composite
      /\ NewComposite.overlays = {} /\ NewComposite.ncolors = NColors
      /\ NewComposite.sdata = NULL /\ NewComposite.hold = NULL
  <2>1. NewComposite \in Image
    BY FreshGood DEF Good
  <2>2. QED
    BY <2>1 DEF NewComposite, allocate_image
<1>4. DefaultColors + 0 <= NColors /\ NColors + 0 <= NColors
  BY ColorAssumption
<1>5. QED
  BY <1>1, <1>2, <1>3, <1>4 DEF Frugal

\* One image is replaced by a frugal one over overlays that were there, and
\* what lies over the others is still there.
LEMMA PutFrugal ==
  ASSUME BudgetInv, TableInv', OverlaysStay, NEW j \in Slot, NEW img,
         Images' = [Images EXCEPT ![j] = img], Frugal(img),
         img # NULL => \A k \in img.overlays : k \in Slot /\ Gray(Images, k),
         Gray(Images, j) => img = NULL \/ ~img.composite
  PROVE  BudgetInv'
<1>1. Images'[j] = img /\ \A k \in Slot \ {j} : Images'[k] = Images[k]
  BY DEF BudgetInv, TableInv, TypeOK
<1>2. \A k \in Slot : Frugal(Images'[k])
  BY <1>1 DEF BudgetInv, Frugality
<1>3. ASSUME NEW m \in Slot, Images'[m] # NULL, NEW k \in Images'[m].overlays
      PROVE  Gray(Images', k)
  <2>1. k \in Slot /\ Gray(Images, k) /\ Images'[k] # NULL
    <3>1. CASE m = j
      BY <1>1, <1>3, <3>1 DEF Gray
    <3>2. CASE m # j
      <4>1. Images'[m] = Images[m]
        BY <1>1, <3>2
      <4>2. Images[m] \in Image
        BY <1>3, <4>1, ExistingGood DEF BudgetInv
      <4>3. k \in Slot
        BY <1>3, <4>1, <4>2, ImageFields
      <4>4. QED
        BY <1>3, <4>1, <4>3 DEF BudgetInv, Frugality, OverlaysGray, OverlaysStay, Exists
    <3>3. QED
      BY <3>1, <3>2
  <2>2. QED
    BY <1>1, <2>1 DEF Gray
<1>4. QED
  BY <1>2, <1>3 DEF BudgetInv, Frugality, OverlaysGray

LEMMA KeptFrugal ==
  ASSUME BudgetInv, TableInv', UNCHANGED Images
  PROVE  BudgetInv'
BY DEF BudgetInv, Frugality, OverlaysGray, Gray

\* The overlays of an image in a frugal table
LEMMA OverlaysThere ==
  ASSUME BudgetInv, NEW j \in Slot, Images[j] # NULL
  PROVE  /\ Images[j] \in Image /\ Frugal(Images[j])
         /\ \A k \in Images[j].overlays : k \in Slot /\ Gray(Images, k)
<1>1. Images[j] \in Image
  BY ExistingGood DEF BudgetInv
<1>2. QED
  BY <1>1, ImageFields DEF BudgetInv, Frugality, OverlaysGray

\* The push buttons: a plane takes nothing, an overlay only what is left.
LEMMA PlaneFrugal ==
  ASSUME BudgetInv, TableInv', OverlaysStay, NEW i \in Slot, RGB_pushbutton(i)
  PROVE  BudgetInv'
<1> DEFINE img == IF Exists(sel) THEN Images[sel] ELSE NewComposite
           p == NextPlane(img.rgb, rgbs[i])
           new == SetPlane(img, i, p)
           result == IF \A k \in Slot : new.rgb[k] = 0 THEN NULL ELSE load_info(new)
<1>1. sel \in Slot
  BY DEF BudgetInv, TableInv, TypeOK
<1>2. /\ img \in Image /\ Frugal(img) /\ img.composite
      /\ \A k \in img.overlays : k \in Slot /\ Gray(Images, k)
  <2>1. CASE Exists(sel)
    BY <1>1, <2>1, OverlaysThere DEF Exists, RGB_pushbutton
  <2>2. CASE ~Exists(sel)
    BY <2>2, FreshFrugal
  <2>3. QED
    BY <2>1, <2>2
<1>3. p \in 0..NPlanes
  <2>1. img.rgb \in [Slot -> 0..NPlanes]
    BY <1>2, ImageFields
  <2>2. rgbs[i] \in 0..NPlanes
    BY DEF RGB_pushbutton
  <2> HIDE DEF img
  <2>3. QED
    BY <2>1, <2>2, NextPlaneIsFree
<1>4. Images' = [Images EXCEPT ![sel] = result] /\ (Exists(sel) => Images[sel].composite)
  BY DEF RGB_pushbutton
<1> HIDE DEF img, p
<1>5. /\ new \in Image /\ new.composite = img.composite /\ new.ncolors = img.ncolors
      /\ new.overlays = img.overlays \ {i} /\ new.sdata = img.sdata /\ new.hold = img.hold
  <2>1. img.overlays \ {i} \in SUBSET Slot
    BY <1>2, ImageFields
  <2>2. QED
    BY <1>2, <1>3, <2>1 DEF SetPlane, Image
<1> HIDE DEF new
<1>6. Frugal(new)
  <2>1. new.ncolors <= img.ncolors /\ (~img.composite => new.ncolors = img.ncolors)
    BY <1>2, <1>5, ImageFields
  <2>2. /\ new.overlays \subseteq img.overlays
        /\ new.sdata \in {img.sdata, NULL} /\ new.hold \in {img.hold, NULL}
    BY <1>5
  <2>3. QED
    BY <1>2, <1>5, <2>1, <2>2, FrugalEdit, Zenon
<1>7. /\ Frugal(result)
      /\ result # NULL => \A k \in result.overlays : k \in Slot /\ Gray(Images, k)
  <2>1. result = NULL \/ result = load_info(new)
    OBVIOUS
  <2>2. Frugal(NULL)
    BY DEF Frugal
  <2> HIDE DEF result
  <2>3. QED
    BY <1>2, <1>5, <1>6, <2>1, <2>2, LoadInfoFrugal
<1>8. ~Gray(Images, sel)
  BY <1>4 DEF Gray, Exists
<1> HIDE DEF result
<1>9. QED
  BY <1>1, <1>4, <1>7, <1>8, PutFrugal

LEMMA OverlayFrugal ==
  ASSUME BudgetInv, TableInv', OverlaysStay, NEW i \in Slot, overlay_pushbutton(i)
  PROVE  BudgetInv'
<1> DEFINE old == Images[sel]
           kept == IF comps[i] = 0 THEN old.overlays \cup {i} ELSE old.overlays \ {i}
           taken == IF TooMany(old.ncolors + ColorsIn(Images, kept)) THEN kept \ {i} ELSE kept
           new == [old EXCEPT !.rgb[i] = 0, !.overlays = taken]
<1>1. sel \in Slot /\ old # NULL /\ Gray(Images, i)
  BY DEF overlay_pushbutton, Exists, IsGray, Gray, BudgetInv, TableInv, TypeOK
<1>2. /\ old \in Image /\ Frugal(old) /\ old.ncolors \in Nat
      /\ \A k \in old.overlays : k \in Slot /\ Gray(Images, k)
  BY <1>1, OverlaysThere, ImageFields, ColorAssumption
<1>3. CASE UNCHANGED Images
  BY <1>3, KeptFrugal
<1>4. CASE ~UNCHANGED Images
  <2>1. Images' = [Images EXCEPT ![sel].rgb[i] = 0, ![sel].overlays = taken]
    BY <1>4, Zenon DEF overlay_pushbutton, Die
  <2>2. /\ kept \in SUBSET Slot /\ \A k \in kept : k \in Slot /\ Gray(Images, k)
        /\ kept \ {i} \in SUBSET old.overlays
    BY <1>1, <1>2
  <2> HIDE DEF kept
  <2>3. taken \in SUBSET kept /\ taken \in SUBSET Slot
    BY <2>2
  <2>4. old.ncolors + Share(taken) <= NColors
    <3>1. ColorsIn(Images, kept) = Share(kept) /\ Share(kept) \in Nat
      BY <2>2, OverlayColors, ShareFacts DEF BudgetInv
    <3>2. CASE TooMany(old.ncolors + ColorsIn(Images, kept))
      <4>1. taken \in SUBSET old.overlays /\ old.overlays \in SUBSET Slot
        BY <1>2, <2>2, <3>2
      <4>2. Share(taken) <= Share(old.overlays) /\ Share(taken) \in Nat /\ Share(old.overlays) \in Nat
        BY <2>3, <4>1, ShareFacts
      <4>3. old.ncolors + Share(old.overlays) <= NColors
        BY <1>1, <1>2 DEF Frugal
      <4> HIDE DEF taken, old
      <4>4. QED
        BY <1>2, <4>2, <4>3, ColorAssumption
    <3>3. CASE ~TooMany(old.ncolors + ColorsIn(Images, kept))
      <4>1. taken = kept
        BY <3>3
      <4>2. old.ncolors + Share(kept) <= NColors
        BY <1>2, <3>1, <3>3, ColorAssumption DEF TooMany
      <4>3. QED
        BY <4>1, <4>2
    <3>4. QED
      BY <3>2, <3>3
  <2> HIDE DEF taken
  <2>5. Images' = [Images EXCEPT ![sel] = new]
    BY <1>1, <2>1 DEF BudgetInv, TableInv, TypeOK
  <2>6. /\ new.composite = old.composite /\ new.ncolors = old.ncolors /\ new.overlays = taken
        /\ new.sdata = old.sdata /\ new.hold = old.hold
    BY <1>2 DEF Image
  <2> HIDE DEF new
  <2>7. Frugal(new)
    BY <1>1, <1>2, <2>4, <2>6 DEF Frugal
  <2>8. /\ \A k \in new.overlays : k \in Slot /\ Gray(Images, k)
        /\ Gray(Images, sel) => ~new.composite
    BY <2>2, <2>3, <2>6 DEF Gray
  <2>9. QED
    BY <1>1, <2>5, <2>7, <2>8, PutFrugal
<1>5. QED
  BY <1>3, <1>4

\* The other handlers that edit one image
LEMMA EditsFrugal ==
  ASSUME BudgetInv, TableInv', OverlaysStay, ColorChoices = {},
         \/ \E i \in Slot : SelectSlot(i)
         \/ \E kind \in OpenFiles : NewFile(kind)
         \/ load_band
         \/ \E n \in ColorChoices : load_ncolors(n)
         \/ \E bands \in BOOLEAN : GetInput(bands)
         \/ DeleteImage
         \/ CommandLine
  PROVE  BudgetInv'
<1>1. sel \in Slot /\ Images \in [Slot -> Image \cup {NULL}]
  BY DEF BudgetInv, TableInv, TypeOK
<1>2. CASE UNCHANGED Images
  BY <1>2, KeptFrugal
<1>3. Frugal(NULL)
  BY DEF Frugal
<1>4. ASSUME NEW j \in Slot, NEW kind, NEW img \in {FileImage(kind), load_info(FileImage(kind))},
             Images' = [Images EXCEPT ![j] = img]
      PROVE  BudgetInv'
  <2>1. Frugal(img) /\ ~img.composite /\ img.overlays = {}
    BY <1>4, FreshFrugal, LoadInfoFrugal
  <2>2. QED
    BY <1>4, <2>1, PutFrugal
<1>5. ASSUME NEW img \in Image, Images[sel] # NULL, img.composite = Images[sel].composite,
             img.ncolors = Images[sel].ncolors, img.overlays = Images[sel].overlays,
             img.sdata = Images[sel].sdata, img.hold = Images[sel].hold,
             Images' = [Images EXCEPT ![sel] = img]
      PROVE  BudgetInv'
  <2>1. /\ Images[sel] \in Image /\ Frugal(Images[sel])
        /\ \A k \in Images[sel].overlays : k \in Slot /\ Gray(Images, k)
    BY <1>1, <1>5, OverlaysThere
  <2>2. Images[sel].ncolors \in Int
    BY <2>1, ImageFields
  <2>3. Frugal(img)
    BY <1>5, <2>1, <2>2, FrugalEdit
  <2>4. QED
    BY <1>1, <1>5, <2>1, <2>3, PutFrugal DEF Gray
<1>6. ASSUME NEW i \in Slot, SelectSlot(i) PROVE BudgetInv'
  <2>1. Images' = [Images EXCEPT ![i] = load_info(Images[i])]
    BY <1>6 DEF SelectSlot
  <2>2. CASE Images[i] = NULL
    <3>1. load_info(Images[i]) = NULL
      BY <2>2 DEF load_info
    <3>2. QED
      BY <1>3, <2>1, <3>1, PutFrugal
  <2>3. CASE Images[i] # NULL
    <3>1. /\ Images[i] \in Image /\ Frugal(Images[i])
          /\ \A k \in Images[i].overlays : k \in Slot /\ Gray(Images, k)
      BY <2>3, OverlaysThere
    <3> DEFINE img == load_info(Images[i])
    <3>2. Frugal(img) /\ img.composite = Images[i].composite /\ img.overlays = Images[i].overlays
      BY <3>1, LoadInfoFrugal
    <3>3. Images' = [Images EXCEPT ![i] = img]
      BY <2>1
    <3> HIDE DEF img
    <3>4. QED
      BY <3>1, <3>2, <3>3, PutFrugal DEF Gray
  <2>4. QED
    BY <2>2, <2>3
<1>7. ASSUME NEW kind \in OpenFiles, NewFile(kind) PROVE BudgetInv'
  <2>1. PICK img \in {FileImage(kind), load_info(FileImage(kind))} :
          Images' = [Images EXCEPT ![sel] = img]
    BY <1>7 DEF NewFile
  <2>2. QED
    BY <1>1, <1>4, <2>1
<1>8. CASE load_band /\ ~UNCHANGED Images
  <2> DEFINE img == [Images[sel] EXCEPT !.band = TRUE, !.data = FALSE]
  <2>0. Exists(sel)
    BY <1>8 DEF load_band, IsGray, Exists, Die
  <2>1. Images[sel] \in Image /\ Images[sel] # NULL
    BY <1>1, <2>0, NullAssumption DEF Exists
  <2>2. /\ img \in Image /\ img.composite = Images[sel].composite
        /\ img.ncolors = Images[sel].ncolors /\ img.overlays = Images[sel].overlays
        /\ img.sdata = Images[sel].sdata /\ img.hold = Images[sel].hold
    BY <2>1 DEF Image
  <2>3. Images' = [Images EXCEPT ![sel] = img]
    BY <1>1, <1>8, <2>0 DEF load_band
  <2> HIDE DEF img
  <2>4. QED
    BY <1>5, <2>1, <2>2, <2>3
<1>9. ASSUME NEW bands \in BOOLEAN, GetInput(bands), ~UNCHANGED Images PROVE BudgetInv'
  <2> DEFINE img == [Images[sel] EXCEPT !.header = bands]
  <2>1. Exists(sel) /\ Images' = [Images EXCEPT ![sel] = img]
    BY <1>1, <1>9 DEF GetInput, Die
  <2>2. Images[sel] \in Image /\ Images[sel] # NULL
    BY <1>1, <2>1, NullAssumption DEF Exists
  <2>3. /\ img \in Image /\ img.composite = Images[sel].composite
        /\ img.ncolors = Images[sel].ncolors /\ img.overlays = Images[sel].overlays
        /\ img.sdata = Images[sel].sdata /\ img.hold = Images[sel].hold
    BY <2>2 DEF Image
  <2> HIDE DEF img
  <2>4. QED
    BY <1>5, <2>1, <2>2, <2>3
<1>10. CASE DeleteImage
  BY <1>1, <1>3, <1>10, PutFrugal DEF DeleteImage
<1>11. ASSUME NEW kind \in StartFiles, off_load_filename(kind, DefaultColors), ~UNCHANGED Images
       PROVE  BudgetInv'
  <2>1. args \in Slot
    BY <1>11, SlotAssumption DEF off_load_filename, BudgetInv, TableInv, TypeOK, Slot
  <2>2. [FileImage(kind) EXCEPT !.ncolors = DefaultColors] = FileImage(kind)
    <3> DEFINE img == FileImage(kind)
    <3>1. img \in Image /\ img.ncolors = DefaultColors
      <4>1. img \in Image
        BY FreshFrugal
      <4>2. QED
        BY <4>1 DEF FileImage, allocate_image
    <3> HIDE DEF img
    <3>2. [img EXCEPT !.ncolors = DefaultColors] = img
      BY <3>1 DEF Image
    <3>3. QED
      BY <3>2 DEF img
  <2>3. PICK img \in {FileImage(kind), load_info(FileImage(kind))} :
          Images' = [Images EXCEPT ![args] = img]
    BY <1>11, <2>2 DEF off_load_filename
  <2>4. QED
    BY <1>4, <2>1, <2>3
<1>12. CASE CommandLine
  BY <1>2, <1>11, <1>12 DEF CommandLine, EndOfArgs
<1>13. QED
  BY <1>2, <1>6, <1>7, <1>8, <1>9, <1>10, <1>12

\* The overlays of an image are painted in the colours it leaves.
LEMMA TopFrugal ==
  ASSUME NEW T, NEW j \in Slot, Sound(T), Frugality(T), T[j] # NULL, T[j].sdata # NULL
  PROVE  Base(T, j).top <= NColors + 1 /\ Top(T, j, Paints(T, j)) <= NColors + 1
<1>1. /\ T[j] \in Image /\ Frugal(T[j])
      /\ T[j].overlays \in SUBSET Slot /\ \A k \in T[j].overlays : Gray(T, k)
  <2>1. T[j] \in Image
    BY DEF Sound
  <2>2. QED
    BY <2>1, ImageFields DEF Frugality, OverlaysGray
<1>2. T[j].ncolors \in Nat /\ DefaultColors \in Nat
  BY <1>1, ImageFields, ColorAssumption
<1>3. Base(T, j).top <= NColors + 1
  BY <1>1 DEF Base, Frugal
<1>4. ASSUME NEW i \in T[j].overlays PROVE Start(T, j, i) + T[i].ncolors + 1 <= NColors + 1
  <2> DEFINE B == {k \in T[j].overlays : k < i}
             C == B \cup {i}
  <2>1. /\ B \in SUBSET Slot /\ \A k \in B : Gray(T, k)
        /\ C \in SUBSET T[j].overlays /\ C \in SUBSET Slot /\ i \in C
    BY <1>1
  <2>2. C \ {i} = B
    <3>1. ~(i < i)
      BY <1>1 DEF Slot
    <3>2. QED
      BY <3>1
  <2>3. Start(T, j, i) = T[j].ncolors + ColorsIn(T, B)
    BY DEF Start
  <2>4. T[i].ncolors = DefaultColors
    BY <1>1 DEF Frugality, Frugal, Gray
  <2> HIDE DEF B, C
  <2>5. ColorsIn(T, B) = Share(B)
    BY <2>1, OverlayColors
  <2>6. Share(C) = DefaultColors + Share(B)
    BY <2>1, <2>2, ShareFacts
  <2>7. Share(C) <= Share(T[j].overlays) /\ Share(B) \in Nat /\ Share(T[j].overlays) \in Nat
    BY <1>1, <2>1, ShareFacts
  <2>8. T[j].ncolors + Share(T[j].overlays) <= NColors
    BY <1>1 DEF Frugal
  <2>9. QED
    BY <1>2, <2>3, <2>4, <2>5, <2>6, <2>7, <2>8, ColorAssumption
<1>5. /\ Paints(T, j) \in SUBSET T[j].overlays
      /\ \A k \in T[j].overlays : T[k] # NULL
  BY <1>1 DEF Paints, Gray
<1>6. Top(T, j, Paints(T, j)) \in
        {Base(T, j).top} \cup {Start(T, j, i) + T[i].ncolors + 1 : i \in Paints(T, j)}
  BY <1>5, TopInNat
<1>7. QED
  BY <1>3, <1>4, <1>5, <1>6

LEMMA UpdateFrugal ==
  ASSUME NEW T, NEW j \in Slot, Sound(T), Frugality(T), T[j] # NULL, T[j].sdata # NULL,
         ~OverlayFaults(T, j)
  PROVE  Frugality(update_display(T, j))
<1> DEFINE U == update_display(T, j)
<1>1. ASSUME NEW i \in Slot
      PROVE  /\ Frugal(U[i]) /\ (U[i] = NULL <=> T[i] = NULL)
             /\ T[i] # NULL => U[i].composite = T[i].composite /\ U[i].overlays = T[i].overlays
  <2>1. U[i] = NULL <=> T[i] = NULL
    BY UpdateSound DEF Same
  <2>2. CASE T[i] = NULL
    BY <2>1, <2>2 DEF Frugal
  <2>3. CASE T[i] # NULL
    <3>1. /\ U[i].composite = T[i].composite /\ U[i].ncolors = T[i].ncolors
          /\ U[i].overlays = T[i].overlays
          /\ i # j => U[i].sdata = T[i].sdata /\ U[i].hold = T[i].hold
          /\ i = j => /\ U[i].sdata.top = Top(T, j, Paints(T, j))
                      /\ U[i].hold = IF T[j].overlays = {} THEN NULL ELSE Base(T, j)
      BY <2>3, UpdateFields
    <3>2. Frugal(T[i])
      BY DEF Frugality
    <3>3. Base(T, j).top <= NColors + 1 /\ Top(T, j, Paints(T, j)) <= NColors + 1
      BY TopFrugal
    <3> HIDE DEF U
    <3>4. Frugal(U[i])
      BY <2>3, <3>1, <3>2, <3>3 DEF Frugal
    <3>5. QED
      BY <2>1, <3>1, <3>4
  <2>4. QED
    BY <2>1, <2>2, <2>3
<1> HIDE DEF U
<1>2. OverlaysGray(U)
  <2>1. ASSUME NEW m \in Slot, U[m] # NULL, NEW k \in U[m].overlays PROVE Gray(U, k)
    <3>1. T[m] # NULL /\ k \in T[m].overlays
      BY <1>1, <2>1
    <3>2. T[m] \in Image
      BY <3>1 DEF Sound
    <3>3. k \in Slot /\ Gray(T, k)
      BY <3>1, <3>2, ImageFields DEF Frugality, OverlaysGray
    <3>4. QED
      BY <1>1, <3>3 DEF Gray
  <2>2. QED
    BY <2>1 DEF OverlaysGray
<1>3. QED
  BY <1>1, <1>2 DEF Frugality, U

\* A composite takes no more colours than it had, a band as many.
LEMMA StretchFrugal ==
  ASSUME NEW T, NEW j \in Slot, T[j] \in Image, Frugal(T[j]), NEW img \in Stretched(T, j)
  PROVE  Frugal(img) /\ img.composite = T[j].composite /\ img.overlays = T[j].overlays
<1> DEFINE old == T[j]
<1>1. /\ old \in Image /\ Frugal(old) /\ old # NULL
      /\ old.ncolors \in 1..NColors /\ old.overlays \in SUBSET Slot
  BY ImageFields, NullAssumption
<1>2. Share(old.overlays) \in Nat /\ old.ncolors + Share(old.overlays) <= NColors
  BY <1>1, ShareFacts DEF Frugal
<1> HIDE DEF old
<1>3. CASE img = old
  BY <1>1, <1>3 DEF old
<1>4. CASE img = stretch_gray(old)
  <2>1. /\ img.composite = old.composite /\ img.ncolors = old.ncolors
        /\ img.overlays = old.overlays /\ img.hold = NULL
        /\ img.sdata = [top |-> old.ncolors + 1, over |-> {}, fresh |-> TRUE]
    BY <1>1, <1>4 DEF stretch_gray, Image
  <2>2. img.sdata.top = old.ncolors + 1 /\ old.ncolors + 1 <= NColors + 1
    BY <1>1, <2>1, ColorAssumption
  <2>3. Frugal(img)
    BY <1>1, <1>2, <2>1, <2>2 DEF Frugal
  <2>4. QED
    BY <2>1, <2>3 DEF old
<1>5. ASSUME NEW n \in 1..old.ncolors, img = stretch_color(old, n), old.composite
      PROVE  Frugal(img) /\ img.composite = old.composite /\ img.overlays = old.overlays
  <2> DEFINE s == [top |-> n + 1, over |-> {}, fresh |-> TRUE]
             h == IF old.hold = NULL THEN NULL ELSE [old.hold EXCEPT !.fresh = FALSE]
  <2>1. img = [old EXCEPT !.sdata = s, !.hold = h, !.ncolors = n, !.lut = n]
    BY <1>5 DEF stretch_color
  <2>2. h # NULL => h.top <= NColors + 1
    <3>1. CASE old.hold = NULL
      BY <3>1
    <3>2. CASE old.hold # NULL
      <4>1. old.hold \in Indices /\ old.hold.top <= NColors + 1
        BY <1>1, <3>2, ImageFields DEF Frugal
      <4>2. [old.hold EXCEPT !.fresh = FALSE].top = old.hold.top
        BY <4>1 DEF Indices
      <4>3. QED
        BY <3>2, <4>1, <4>2
    <3>3. QED
      BY <3>1, <3>2
  <2>3. s.top <= NColors + 1 /\ n + Share(old.overlays) <= NColors
    BY <1>1, <1>2, ColorAssumption
  <2> HIDE DEF s, h
  <2>4. /\ img.composite = old.composite /\ img.overlays = old.overlays
        /\ img.sdata = s /\ img.hold = h /\ img.ncolors = n
    BY <1>1, <2>1 DEF Image
  <2>5. Frugal(img)
    BY <1>5, <2>2, <2>3, <2>4 DEF Frugal
  <2>6. QED
    BY <2>4, <2>5
<1>6. QED
  BY <1>3, <1>4, <1>5 DEF Stretched, old

LEMMA LoadImageFrugal ==
  ASSUME BudgetInv, TableInv', OverlaysStay, NEW i \in Slot, LoadImage(i)
  PROVE  BudgetInv'
<1>1. CASE Die("LoadImage") \/ Die("create_image")
  BY <1>1, KeptFrugal DEF Die
<1>2. CASE ~Die("LoadImage") /\ ~Die("create_image")
  <2> DEFINE T(reads) == [Images EXCEPT ![i] = ReadData(@, reads)]
             U(reads, img) == [T(reads) EXCEPT ![i] = img]
             Ends(reads, img) ==
               /\ Shows(img) => ~OverlayFaults(U(reads, img), i)
               /\ Images' = IF Shows(img) THEN update_display(U(reads, img), i) ELSE U(reads, img)
  <2>1. Images[i] # NULL /\ \E reads \in Reads : \E img \in Stretched(T(reads), i) : Ends(reads, img)
    BY <1>2, Zenon DEF LoadImage, Exists
  <2>2. PICK reads \in Reads : \E img \in Stretched(T(reads), i) : Ends(reads, img)
    BY <2>1, Zenon
  <2>3. PICK img \in Stretched(T(reads), i) : Ends(reads, img)
    BY <2>2, Zenon
  <2>4. reads \in BOOLEAN
    BY FileAssumption
  <2> DEFINE W == [Images EXCEPT ![i] = img]
  <2>5. img # NULL /\ U(reads, img) = W /\ Sound(W) /\ W[i] = img
    BY <2>1, <2>3, <2>4, LoadSteps, Zenon DEF BudgetInv
  <2>6. /\ Shows(img) => ~OverlayFaults(W, i)
        /\ Images' = IF Shows(img) THEN update_display(W, i) ELSE W
    BY <2>3, <2>5, Zenon
  <2>7. \A k \in Slot \ {i} : W[k] = Images[k]
    BY DEF BudgetInv, TableInv, TypeOK
  <2>8. /\ Images[i] \in Image /\ Frugal(Images[i])
        /\ \A k \in Images[i].overlays : k \in Slot /\ Gray(Images, k)
    BY <2>1, OverlaysThere
  <2>9. Frugal(img) /\ img.composite = Images[i].composite /\ img.overlays = Images[i].overlays
    <3> DEFINE old == ReadData(Images[i], reads)
    <3>1. T(reads)[i] = old
      BY DEF BudgetInv, TableInv, TypeOK
    <3>2. /\ old \in Image /\ old.composite = Images[i].composite
          /\ old.overlays = Images[i].overlays /\ old.ncolors = Images[i].ncolors
          /\ old.sdata = Images[i].sdata /\ old.hold = Images[i].hold
      BY <2>4, <2>8 DEF ReadData, Image
    <3> HIDE DEF old, T
    <3>3. Frugal(old)
      <4>1. old.ncolors <= Images[i].ncolors
        BY <2>8, <3>2, ImageFields
      <4>2. QED
        BY <2>8, <3>2, <4>1, FrugalEdit
    <3>4. QED
      BY <2>3, <3>1, <3>2, <3>3, StretchFrugal
  <2> HIDE DEF W, U, T, Ends
  <2>10. Frugality(W)
    <3>1. \A k \in Slot : Frugal(W[k])
      BY <2>5, <2>7, <2>9 DEF BudgetInv, Frugality
    <3>2. ASSUME NEW k \in Slot, Gray(Images, k) PROVE Gray(W, k)
      BY <2>5, <2>7, <2>9, <3>2 DEF Gray
    <3>3. ASSUME NEW m \in Slot, W[m] # NULL, NEW k \in W[m].overlays
          PROVE  k \in Slot /\ Gray(Images, k)
      <4>1. CASE m = i
        BY <2>5, <2>8, <2>9, <3>3, <4>1
      <4>2. CASE m # i
        BY <2>7, <3>3, <4>2, OverlaysThere
      <4>3. QED
        BY <4>1, <4>2
    <3>4. QED
      BY <3>1, <3>2, <3>3 DEF Frugality, OverlaysGray
  <2>11. Frugality(Images')
    <3>1. CASE Shows(img)
      <4>1. W[i] # NULL /\ W[i].sdata # NULL
        BY <2>5, <3>1 DEF Shows
      <4>2. QED
        BY <2>5, <2>6, <2>10, <3>1, <4>1, UpdateFrugal
    <3>2. CASE ~Shows(img)
      BY <2>6, <2>10, <3>2
    <3>3. QED
      BY <3>1, <3>2
  <2>12. QED
    BY <2>11 DEF BudgetInv, Frugality, OverlaysGray, Gray
<1>3. QED
  BY <1>1, <1>2

\* No picture uses more colours than there are (overlay_pushbutton and overlay
\* in composite.c), as long as every image has the colours it came with and no
\* overlay of an image is deleted: of the colours left, an overlay is taken
\* only if they are enough for it.
THEOREM NeverTooManyColors ==
  ASSUME ColorChoices = {}
  PROVE  Init /\ [][Next /\ OverlaysStay]_vars => []WithinBudget
<1>1. Init => BudgetInv
  <2>1. Init => \A i \in Slot : Images[i] = NULL
    BY DEF Init
  <2>2. QED
    BY <2>1, TableInit DEF BudgetInv, Frugality, OverlaysGray, Frugal
<1>2. BudgetInv /\ [Next /\ OverlaysStay]_vars => BudgetInv'
  <2> SUFFICES ASSUME BudgetInv, [Next /\ OverlaysStay]_vars PROVE BudgetInv'
    OBVIOUS
  <2>1. TableInv'
    BY TableStep DEF BudgetInv
  <2>2. CASE UNCHANGED vars
    BY <2>1, <2>2, KeptFrugal DEF vars
  <2>3. ASSUME OverlaysStay, NEW i \in Slot,
               RGB_pushbutton(i) \/ overlay_pushbutton(i) \/ LoadImage(i)
        PROVE  BudgetInv'
    BY <2>1, <2>3, PlaneFrugal, OverlayFrugal, LoadImageFrugal
  <2>4. ASSUME OverlaysStay,
               \/ \E i \in Slot : SelectSlot(i)
               \/ \E kind \in OpenFiles : NewFile(kind)
               \/ load_band
               \/ \E n \in ColorChoices : load_ncolors(n)
               \/ \E bands \in BOOLEAN : GetInput(bands)
               \/ DeleteImage
               \/ CommandLine
        PROVE  BudgetInv'
    BY <2>1, <2>4, EditsFrugal, Zenon
  <2>5. QED
    BY <2>2, <2>3, <2>4, Zenon DEF Next, FilesWindow
<1>3. BudgetInv => WithinBudget
  BY DEF BudgetInv, Frugality, Frugal, WithinBudget, Exists
<1>4. QED
  BY <1>1, <1>2, <1>3, PTL

-----------------------------------------------------------------------------
(* A session comes back *)

\* What overlay and quantize need of img when it lies over another: tables
\* that are not shorter than its colours, and the indices as they were made.
Sturdy(img) ==
  img # NULL /\ ~img.composite =>
    /\ img.quant \in {0, img.ncolors} /\ img.map \in {0, img.ncolors}
    /\ img.quant # 0 => img.map # 0
    /\ img.data => img.sdata # NULL
    /\ img.overlays = {} /\ img.sdata # NULL =>
         img.hold = NULL /\ img.sdata.top = img.ncolors + 1

\* img is as the file describes it; the colours of a composite are found anew.
Faithful(img, d) ==
  /\ img = NULL <=> d = NULL
  /\ d # NULL => /\ img.composite = d.composite /\ img.band = d.band
                 /\ img.rgb = d.rgb /\ img.overlays = d.overlays
                 /\ ~d.composite => img.ncolors = d.ncolors

Restored(T, k) == Faithful(T[k], saved[k]) /\ Sturdy(T[k])
RestoredTo(n)  == \A k \in Slot : k < n => Restored(Images, k)

\* Slot k of T, if it has been shown, has been painted with its overlays.
Overlaid(T, k) == T[k] # NULL /\ T[k].sdata # NULL => T[k].sdata.over = Paints(T, k)
OverlaidTo(n)  == \A k \in Slot : k < n => Overlaid(Images, k)

BackInv ==
  /\ phase \in {"first", "saved"} => fault # "read_restart"
  /\ OrderlyRestores /\ SessionComesBack
  /\ Orderly /\ FilesThere =>
       /\ phase = "reading" => RestoredTo(at)
       /\ phase = "painting" => RestoredTo(NIMAGE) /\ OverlaidTo(at)
       /\ phase = "ready" => RestoredTo(NIMAGE) /\ OverlaidTo(NIMAGE)

\* U has the images of T, as sturdy as they were.
Retained(a, b) ==
  /\ a = NULL <=> b = NULL
  /\ a # NULL => /\ b.composite = a.composite /\ b.band = a.band /\ b.data = a.data
                 /\ b.rgb = a.rgb /\ b.overlays = a.overlays
                 /\ ~a.composite => b.ncolors = a.ncolors
                 /\ a.sdata # NULL => b.sdata # NULL
                 /\ Sturdy(a) => Sturdy(b)
Retains(T, U) == \A k \in Slot : Retained(T[k], U[k])

\* U has the colours of T, and what is shown in the slots but j.
SameColors(T, U) == \A k \in Slot : T[k] # NULL => U[k].ncolors = T[k].ncolors
SameElsewhere(T, U, j) == \A k \in Slot \ {j} : T[k] # NULL => U[k].sdata = T[k].sdata

LEMMA RetainsTrans ==
  ASSUME NEW T, NEW U, NEW V, Retains(T, U), Retains(U, V)
  PROVE  Retains(T, V)
BY DEF Retains, Retained

LEMMA RestoredKept ==
  ASSUME NEW T, NEW U, Retains(T, U), NEW k \in Slot, Restored(T, k)
  PROVE  Restored(U, k)
BY DEF Retains, Retained, Restored, Faithful

LEMMA PaintRetains ==
  ASSUME NEW T, NEW j \in Slot, Sound(T), T[j] # NULL, T[j].sdata # NULL, ~OverlayFaults(T, j)
  PROVE  LET U == update_display(T, j) IN
         /\ Retains(T, U) /\ SameColors(T, U) /\ SameElsewhere(T, U, j)
         /\ U[j].sdata.over = Paints(T, j)
<1> DEFINE U == update_display(T, j)
<1>1. \A k \in Slot : (T[k] = NULL <=> U[k] = NULL) /\ (T[k] # NULL /\ T[k].sdata # NULL => U[k].sdata # NULL)
  BY UpdateSound DEF Same, SameKind
<1>2. ASSUME NEW k \in Slot, T[k] # NULL
      PROVE  /\ U[k].composite = T[k].composite /\ U[k].ncolors = T[k].ncolors
             /\ U[k].overlays = T[k].overlays /\ U[k].rgb = T[k].rgb
             /\ U[k].band = T[k].band /\ U[k].data = T[k].data
             /\ \/ U[k].quant = T[k].quant /\ U[k].map = T[k].map
                \/ /\ U[k].quant = T[k].ncolors
                   /\ U[k].map = IF T[k].map = 0 THEN T[k].ncolors ELSE T[k].map
             /\ k # j => U[k].sdata = T[k].sdata /\ U[k].hold = T[k].hold
             /\ k = j => /\ U[k].sdata.top = Top(T, j, Paints(T, j))
                         /\ U[k].sdata.over = Paints(T, j)
                         /\ U[k].hold = IF T[j].overlays = {} THEN NULL ELSE Base(T, j)
  BY <1>2, UpdateFields
<1> HIDE DEF U
<1>3. ASSUME NEW k \in Slot, T[k] # NULL, Sturdy(T[k]) PROVE Sturdy(U[k])
  <2>1. SUFFICES ASSUME ~T[k].composite PROVE Sturdy(U[k])
    BY <1>2, <1>3 DEF Sturdy
  <2>2. T[k].ncolors \in Nat /\ T[k].ncolors # 0
    <3>1. T[k] \in Image
      BY <1>3 DEF Sound
    <3>2. QED
      BY <3>1, ImageFields, ColorAssumption
  <2>3. /\ U[k].quant \in {0, U[k].ncolors} /\ U[k].map \in {0, U[k].ncolors}
        /\ U[k].quant # 0 => U[k].map # 0
    BY <1>2, <1>3, <2>1, <2>2 DEF Sturdy
  <2>4. U[k].data => U[k].sdata # NULL
    BY <1>1, <1>2, <1>3, <2>1 DEF Sturdy
  <2>5. CASE k # j
    BY <1>2, <1>3, <2>1, <2>3, <2>4, <2>5 DEF Sturdy
  <2>6. CASE k = j /\ T[j].overlays = {}
    <3>1. T[j].hold = NULL /\ T[j].sdata.top = T[j].ncolors + 1
      BY <1>3, <2>1, <2>6 DEF Sturdy
    <3>2. Paints(T, j) = {}
      BY <2>6 DEF Paints
    <3>3. Top(T, j, {}) \in {Base(T, j).top} \cup {Start(T, j, i) + T[i].ncolors + 1 : i \in {}}
      BY <2>6, TopInNat
    <3>4. Top(T, j, {}) = T[j].ncolors + 1
      BY <3>1, <3>3 DEF Base
    <3>5. QED
      BY <1>2, <2>3, <2>4, <2>6, <3>2, <3>4 DEF Sturdy
  <2>7. CASE k = j /\ T[j].overlays # {}
    BY <1>2, <2>3, <2>4, <2>7 DEF Sturdy
  <2>8. QED
    BY <2>5, <2>6, <2>7
<1>4. \A k \in Slot : Retained(T[k], U[k])
  BY <1>1, <1>2, <1>3 DEF Retained
<1>5. QED
  BY <1>2, <1>4 DEF U, Retains, SameColors, SameElsewhere

LEMMA SpreadRetains ==
  ASSUME NEW T, NEW i \in Slot, Sound(T), T[i] # NULL
  PROVE  LET U == Spread(T, i, T[i].ncolors) IN
         /\ Sound(U) /\ Retains(T, U) /\ SameColors(T, U) /\ SameElsewhere(T, U, i)
         /\ U[i].sdata = T[i].sdata
<1> DEFINE U == Spread(T, i, T[i].ncolors)
           new == [T[i] EXCEPT !.map = T[i].ncolors]
<1>1. T[i] \in Image
  BY DEF Sound
<1>2. T[i].ncolors \in 0..NColors /\ T[i].ncolors # 0
  BY <1>1, ImageFields, ColorAssumption
<1>3. Sound(U) /\ U[i].sdata = T[i].sdata
  BY <1>2, SpreadSound
<1>4. CASE T[i].composite
  <2>1. U = T
    BY <1>4 DEF Spread
  <2>2. QED
    BY <1>3, <2>1 DEF Retains, Retained, SameColors, SameElsewhere
<1>5. CASE ~T[i].composite
  <2>1. U = [T EXCEPT ![i] = new]
    BY <1>5 DEF Spread
  <2>2. U[i] = new /\ \A k \in Slot \ {i} : U[k] = T[k]
    BY <2>1 DEF Sound
  <2>3. /\ new \in Image
        /\ new.composite = T[i].composite /\ new.band = T[i].band /\ new.data = T[i].data
        /\ new.rgb = T[i].rgb /\ new.overlays = T[i].overlays /\ new.ncolors = T[i].ncolors
        /\ new.sdata = T[i].sdata /\ new.hold = T[i].hold
        /\ new.quant = T[i].quant /\ new.map = T[i].ncolors
    BY <1>1, <1>2 DEF Image
  <2> HIDE DEF new, U
  <2>4. Sturdy(T[i]) => Sturdy(new)
    BY <1>2, <1>5, <2>3 DEF Sturdy
  <2>5. Retained(T[i], new)
    BY <2>3, <2>4, NullAssumption DEF Retained
  <2>6. \A k \in Slot \ {i} : Retained(T[k], U[k])
    BY <2>2 DEF Retained
  <2>7. Retains(T, U)
    BY <2>2, <2>5, <2>6 DEF Retains
  <2>8. SameColors(T, U) /\ SameElsewhere(T, U, i)
    BY <2>2, <2>3 DEF SameColors, SameElsewhere
  <2>9. QED
    BY <1>3, <2>7, <2>8 DEF U
<1>6. QED
  BY <1>4, <1>5

\* Which overlays are painted depends on the colours of the images alone.
LEMMA PaintsSame ==
  ASSUME NEW T, NEW U, NEW k,
         U[k].overlays = T[k].overlays, U[k].ncolors = T[k].ncolors,
         \A l \in T[k].overlays : U[l].ncolors = T[l].ncolors
  PROVE  Paints(U, k) = Paints(T, k)
<1>1. ASSUME NEW i PROVE Start(U, k, i) = Start(T, k, i)
  <2> DEFINE S == {l \in T[k].overlays : l < i}
  <2>1. [l \in S |-> U[l].ncolors] = [l \in S |-> T[l].ncolors]
    OBVIOUS
  <2>2. ColorsIn(U, S) = ColorsIn(T, S)
    BY <2>1 DEF ColorsIn
  <2>3. QED
    BY <2>2 DEF Start
<1>2. QED
  BY <1>1 DEF Paints

\* What lies over slot j can be painted.
Paintable(T, j) ==
  \A k \in T[j].overlays : /\ k # j /\ T[k] # NULL /\ ~T[k].composite
                           /\ T[k].overlays = {} /\ T[k].sdata # NULL /\ Sturdy(T[k])

LEMMA NoOverlayFault ==
  ASSUME NEW T, NEW j \in Slot, Sound(T), T[j] # NULL, Paintable(T, j)
  PROVE  ~OverlayFaults(T, j)
<1> USE DEF Paintable
<1>1. T[j].overlays \subseteq Slot
  <2>1. T[j] \in Image
    BY DEF Sound
  <2>2. QED
    BY <2>1, ImageFields
<1>2. ASSUME NEW k \in T[j].overlays
      PROVE  /\ T[k].ncolors \in Nat /\ T[k].sdata.top = T[k].ncolors + 1
             /\ T[k].quant # 0 => T[k].quant = T[k].ncolors /\ T[k].map = T[k].ncolors
             /\ T[k].map # 0 => T[k].map = T[k].ncolors
  <2>1. T[k] \in Image
    BY <1>1 DEF Sound
  <2>2. T[k].ncolors \in Nat
    BY <2>1, ImageFields, ColorAssumption
  <2>3. QED
    BY <2>2 DEF Sturdy
<1>3. ASSUME NEW k \in T[j].overlays PROVE ~QuantizeFaults(T, j, k)
  BY <1>2 DEF QuantizeFaults
<1>4. ASSUME NEW k \in T[j].overlays, T[k].quant # 0
      PROVE  Min({T[k].quant, T[k].map}) = T[k].ncolors
  <2>1. {T[k].quant, T[k].map} = {T[k].ncolors}
    BY <1>2, <1>4
  <2>2. {T[k].ncolors} \in SUBSET Nat /\ {T[k].ncolors} # {}
    BY <1>2
  <2>3. Min({T[k].ncolors}) \in {T[k].ncolors}
    BY <2>2, MinInSet
  <2>4. QED
    BY <2>1, <2>3, Zenon
<1>5. ASSUME NEW k \in Paints(T, j)
      PROVE  /\ ~(T[k].quant # 0 /\ Min({T[k].quant, T[k].map}) < T[k].ncolors)
             /\ ~(T[k].map # 0 /\ T[k].map < T[k].ncolors)
  <2>1. k \in T[j].overlays
    BY DEF Paints
  <2> DEFINE m == Min({T[k].quant, T[k].map})
  <2>2. T[k].quant # 0 => m = T[k].ncolors
    BY <1>4, <2>1
  <2> HIDE DEF m
  <2>3. /\ ~(T[k].quant # 0 /\ m < T[k].ncolors)
        /\ ~(T[k].map # 0 /\ T[k].map < T[k].ncolors)
    BY <1>2, <2>1, <2>2
  <2>4. QED
    BY <2>3 DEF m
<1>6. QED
  BY <1>3, <1>5, Zenon DEF OverlayFaults

LEMMA PaintableKept ==
  ASSUME NEW T, NEW U, NEW j \in Slot, Sound(T), T[j] # NULL, Paintable(T, j), Retains(T, U)
  PROVE  Paintable(U, j)
<1>1. T[j].overlays \subseteq Slot
  <2>1. T[j] \in Image
    BY DEF Sound
  <2>2. QED
    BY <2>1, ImageFields
<1>2. U[j].overlays = T[j].overlays
  BY DEF Retains, Retained
<1>3. QED
  BY <1>1, <1>2 DEF Paintable, Retains, Retained

\* create_image and load_image of a slot whose overlays can be painted
LEMMA LoadsSafely ==
  ASSUME NEW T, NEW i \in Slot, Sound(T), T[i] # NULL, T[i].sdata # NULL, Paintable(T, i),
         T[i].composite => T[i].ncolors <= T[i].lut
  PROVE  ~ShowFaults(T, i)
<1> DEFINE U == update_display(T, i)
           W == Spread(U, i, U[i].ncolors)
<1>1. ~OverlayFaults(T, i)
  BY NoOverlayFault
<1>2. ~SpreadFaults(T, i)
  <2>1. T[i] \in Image
    BY DEF Sound
  <2>2. T[i].ncolors \in Nat /\ T[i].lut \in Nat
    BY <2>1, ImageFields, ColorAssumption
  <2>3. QED
    BY <2>2 DEF SpreadFaults
<1>3. Sound(U) /\ Retains(T, U)
  BY <1>1, UpdateSound, PaintRetains
<1>4. U[i] # NULL /\ Paintable(U, i)
  BY <1>3, PaintableKept DEF Retains, Retained
<1> HIDE DEF U
<1>5. Sound(W) /\ Retains(U, W)
  BY <1>3, <1>4, SpreadRetains
<1>6. W[i] # NULL /\ Paintable(W, i)
  BY <1>3, <1>4, <1>5, PaintableKept DEF Retains, Retained
<1> HIDE DEF W
<1>7. ~OverlayFaults(W, i)
  BY <1>5, <1>6, NoOverlayFault
<1>8. Shows(T[i]) => Create(T, i) = U
  BY DEF Create, U
<1>9. QED
  BY <1>1, <1>2, <1>7, <1>8 DEF ShowFaults, W

LEMMA LoadRetains ==
  ASSUME NEW T, NEW i \in Slot, Sound(T), T[i] # NULL, Shows(T[i]), ~ShowFaults(T, i)
  PROVE  LET U == Loaded(Create(T, i), i) IN
         /\ Retains(T, U) /\ SameColors(T, U) /\ SameElsewhere(T, U, i)
         /\ U[i].sdata.over = Paints(U, i)
<1> DEFINE V == update_display(T, i)
           W == Spread(V, i, V[i].ncolors)
           U == update_display(W, i)
<1>1. T[i].sdata # NULL /\ ~OverlayFaults(T, i) /\ Create(T, i) = V
  BY DEF Shows, ShowFaults, Create
<1>2. Sound(V) /\ Retains(T, V) /\ SameColors(T, V) /\ SameElsewhere(T, V, i)
  BY <1>1, UpdateSound, PaintRetains
<1>3. V[i] # NULL /\ V[i].sdata # NULL
  BY <1>1, <1>2 DEF Retains, Retained
<1>4. Loaded(V, i) = U /\ ~OverlayFaults(W, i)
  BY <1>1 DEF Loaded, ShowFaults
<1> HIDE DEF V
<1>5. Sound(W) /\ Retains(V, W) /\ SameColors(V, W) /\ SameElsewhere(V, W, i) /\ W[i].sdata = V[i].sdata
  BY <1>2, <1>3, SpreadRetains
<1> HIDE DEF W
<1>6. W[i] # NULL /\ W[i].sdata # NULL
  BY <1>3, <1>5 DEF Retains, Retained
<1>7. Retains(W, U) /\ SameColors(W, U) /\ SameElsewhere(W, U, i) /\ U[i].sdata.over = Paints(W, i)
  BY <1>4, <1>5, <1>6, PaintRetains
<1> HIDE DEF U
<1>8. Retains(T, U)
  BY <1>2, <1>5, <1>7, RetainsTrans
<1>9. SameColors(T, U) /\ SameElsewhere(T, U, i)
  BY <1>2, <1>5, <1>7 DEF SameColors, SameElsewhere, Retains, Retained
<1>10. Paints(U, i) = Paints(W, i)
  <2>1. W[i].overlays \subseteq Slot /\ \A k \in W[i].overlays : W[k] # NULL
    <3>1. W[i] \in Image
      BY <1>5, <1>6 DEF Sound
    <3>2. QED
      BY <1>4, <3>1, ImageFields DEF OverlayFaults
  <2>2. /\ U[i].overlays = W[i].overlays /\ U[i].ncolors = W[i].ncolors
        /\ \A l \in W[i].overlays : U[l].ncolors = W[l].ncolors
    BY <1>6, <1>7, <2>1 DEF Retains, Retained, SameColors
  <2>3. QED
    BY <2>2, PaintsSame
<1>11. QED
  BY <1>1, <1>4, <1>7, <1>8, <1>9, <1>10

LEMMA GrayFields ==
  ASSUME NEW img \in Image
  PROVE  LET new == stretch_gray(img) IN
         /\ new.composite = img.composite /\ new.band = img.band /\ new.data = img.data
         /\ new.rgb = img.rgb /\ new.overlays = img.overlays /\ new.ncolors = img.ncolors
         /\ new.sdata.top = img.ncolors + 1 /\ new.hold = NULL
         /\ new.quant = 0 /\ new.map = img.map
         /\ new # NULL /\ new.sdata # NULL
<1> DEFINE s == [top |-> img.ncolors + 1, over |-> {}, fresh |-> TRUE]
           new == stretch_gray(img)
<1>1. new = [img EXCEPT !.sdata = s, !.hold = NULL, !.quant = 0]
  BY DEF stretch_gray
<1>2. s.top = img.ncolors + 1
  OBVIOUS
<1> HIDE DEF s, new
<1>3. /\ new.composite = img.composite /\ new.band = img.band /\ new.data = img.data
      /\ new.rgb = img.rgb /\ new.overlays = img.overlays /\ new.ncolors = img.ncolors
      /\ new.sdata = s /\ new.hold = NULL /\ new.quant = 0 /\ new.map = img.map
  BY <1>1 DEF Image
<1>4. new # NULL /\ new.sdata # NULL
  BY StretchGray, NullAssumption DEF new, Good
<1>5. QED
  BY <1>2, <1>3, <1>4 DEF new

LEMMA GrayRetained ==
  ASSUME NEW img \in Image, ~img.composite
  PROVE  Retained(img, stretch_gray(img)) /\ stretch_gray(img).ncolors = img.ncolors
<1> DEFINE new == stretch_gray(img)
<1>1. /\ new.composite = img.composite /\ new.band = img.band /\ new.data = img.data
      /\ new.rgb = img.rgb /\ new.overlays = img.overlays /\ new.ncolors = img.ncolors
      /\ new.sdata.top = img.ncolors + 1 /\ new.hold = NULL
      /\ new.quant = 0 /\ new.map = img.map
      /\ new # NULL /\ new.sdata # NULL
  BY GrayFields
<1> HIDE DEF new
<1>2. img # NULL
  BY NullAssumption
<1>3. Sturdy(img) => Sturdy(new)
  BY <1>1, <1>2 DEF Sturdy
<1>4. QED
  BY <1>1, <1>2, <1>3 DEF Retained, new

LEMMA ColorRetained ==
  ASSUME NEW img \in Image, Undoable(img), img.composite, NEW n \in 1..img.ncolors
  PROVE  LET new == stretch_color(img, n) IN
         Retained(img, new) /\ new.sdata # NULL /\ new.ncolors <= new.lut
<1> DEFINE s == [top |-> n + 1, over |-> {}, fresh |-> TRUE]
           h == IF img.hold = NULL THEN NULL ELSE [img.hold EXCEPT !.fresh = FALSE]
           new == stretch_color(img, n)
<1>1. new = [img EXCEPT !.sdata = s, !.hold = h, !.ncolors = n, !.lut = n]
  BY DEF stretch_color
<1>2. new # NULL /\ new.sdata # NULL /\ img # NULL
  BY StretchColor, NullAssumption DEF Good
<1> HIDE DEF s, h, new
<1>3. /\ new.composite = img.composite /\ new.band = img.band /\ new.data = img.data
      /\ new.rgb = img.rgb /\ new.overlays = img.overlays
      /\ new.ncolors = n /\ new.lut = n
  BY <1>1 DEF Image
<1>4. n \in Int
  OBVIOUS
<1>5. QED
  BY <1>2, <1>3, <1>4 DEF Retained, Sturdy, new

\* create_image, up to the painting, of slot j; a gray image keeps its colours.
LEMMA StretchedRetained ==
  ASSUME NEW T, Sound(T), NEW j \in Slot, T[j] # NULL, NEW img \in Stretched(T, j)
  PROVE  LET U == [T EXCEPT ![j] = img] IN
         /\ Sound(U) /\ Retains(T, U) /\ SameElsewhere(T, U, j) /\ U[j] = img
         /\ \A k \in Slot \ {j} : U[k] = T[k]
         /\ ~T[j].composite => SameColors(T, U)
<1> DEFINE U == [T EXCEPT ![j] = img]
<1>1. T[j] \in Image /\ Undoable(T[j])
  BY DEF Sound
<1>2. Good(img)
  BY <1>1, StretchedImage
<1>3. Sound(U) /\ U[j] = img /\ \A k \in Slot \ {j} : U[k] = T[k]
  BY <1>2, PutSound
<1>4. Retained(T[j], img) /\ (~T[j].composite => img.ncolors = T[j].ncolors)
  <2>1. CASE img = T[j]
    BY <2>1 DEF Retained
  <2>2. CASE ~T[j].composite /\ img = stretch_gray(T[j])
    BY <1>1, <2>2, GrayRetained
  <2>3. ASSUME NEW n \in 1..T[j].ncolors, T[j].composite, img = stretch_color(T[j], n)
        PROVE  Retained(T[j], img)
    BY <1>1, <2>3, ColorRetained
  <2>4. QED
    BY <2>1, <2>2, <2>3 DEF Stretched
<1> HIDE DEF U
<1>5. Retains(T, U)
  BY <1>3, <1>4 DEF Retains, Retained
<1>6. SameElsewhere(T, U, j) /\ (~T[j].composite => SameColors(T, U))
  BY <1>3, <1>4 DEF SameElsewhere, SameColors
<1>7. QED
  BY <1>3, <1>5, <1>6 DEF U

\* In an orderly session all that image i refers to is gray and has no overlays
\* of its own.
LEMMA OrderlyUses ==
  ASSUME Orderly, saved \in [Slot -> Descr \cup {NULL}], NEW i \in Slot, saved[i] # NULL
  PROVE  /\ saved[i].overlays \subseteq Slot
         /\ \A k \in saved[i].overlays :
              /\ saved[k] # NULL /\ ~saved[k].composite /\ saved[k].overlays = {}
              /\ k # i /\ (~saved[i].composite => k < i)
         /\ \A k \in Slot : saved[i].rgb[k] # 0 =>
              saved[k] # NULL /\ ~saved[k].composite /\ saved[k].overlays = {}
         /\ saved[i].composite =>
              /\ Missing(saved[i].rgb) = 0
              /\ \A k, l \in Slot : saved[i].rgb[k] = 1 /\ saved[i].rgb[l] # 0
                                      => saved[k].ncolors <= saved[l].ncolors
<1> DEFINE used == {k \in Slot : saved[i].rgb[k] # 0} \cup saved[i].overlays
<1>1. /\ \A k \in used : saved[k] # NULL /\ ~saved[k].composite /\ saved[k].overlays = {}
      /\ IF saved[i].composite
         THEN /\ Missing(saved[i].rgb) = 0
              /\ \A k, l \in Slot : saved[i].rgb[k] = 1 /\ saved[i].rgb[l] # 0
                                      => saved[k].ncolors <= saved[l].ncolors
         ELSE \A k \in saved[i].overlays : k < i
  BY Zenon DEF Orderly
<1>2. saved[i] \in Descr
  OBVIOUS
<1>3. saved[i].overlays \subseteq Slot
  BY <1>2 DEF Descr
<1>4. ASSUME NEW k \in saved[i].overlays PROVE k # i
  <2>1. CASE saved[i].composite
    BY <1>1, <2>1
  <2>2. CASE ~saved[i].composite
    <3>1. k < i /\ i \in Int
      BY <1>1, <2>2 DEF Slot
    <3>2. QED
      BY <3>1
  <2>3. QED
    BY <2>1, <2>2
<1>5. QED
  BY <1>1, <1>3, <1>4

\* Slot i of T can be painted once what lies over it has been restored.
LEMMA OrderlyPaintable ==
  ASSUME Orderly, saved \in [Slot -> Descr \cup {NULL}], NEW T, NEW i \in Slot,
         saved[i] # NULL, T[i].overlays = saved[i].overlays,
         \A k \in saved[i].overlays : Restored(T, k) /\ T[k].data
  PROVE  Paintable(T, i)
<1>1. SUFFICES ASSUME NEW k \in saved[i].overlays
               PROVE  /\ k # i /\ T[k] # NULL /\ ~T[k].composite
                      /\ T[k].overlays = {} /\ T[k].sdata # NULL /\ Sturdy(T[k])
  BY DEF Paintable
<1>2. saved[k] # NULL /\ ~saved[k].composite /\ saved[k].overlays = {} /\ k # i
  BY OrderlyUses
<1>3. Restored(T, k) /\ T[k].data
  OBVIOUS
<1>4. T[k] # NULL /\ ~T[k].composite /\ T[k].overlays = {} /\ Sturdy(T[k])
  BY <1>2, <1>3 DEF Restored, Faithful
<1>5. T[k].sdata # NULL
  BY <1>3, <1>4 DEF Sturdy
<1>6. QED
  BY <1>2, <1>4, <1>5

\* A composite whose planes have been restored can be computed, and is.
LEMMA OrderlyColors ==
  ASSUME Orderly, saved \in [Slot -> Descr \cup {NULL}], NEW T, Sound(T), NEW i \in Slot,
         Restored(T, i), T[i] # NULL, T[i].composite,
         \A k \in Slot : ~T[k].composite /\ T[k] # NULL => Restored(T, k) /\ T[k].data,
         \A k \in Slot : saved[k] # NULL => T[k] # NULL /\ T[k].composite = saved[k].composite
  PROVE  /\ ColorReady(T, i) /\ ~StretchFaults(T, i)
         /\ \A img \in Stretched(T, i) : img.sdata # NULL /\ img.ncolors <= img.lut
<1>1. saved[i] # NULL /\ T[i].rgb = saved[i].rgb /\ saved[i].composite
  BY DEF Restored, Faithful
<1>2. ASSUME NEW k \in Planes(T, i)
      PROVE  /\ T[k] # NULL /\ T[k].sdata # NULL
             /\ ~(T[k].sdata.top > T[k].ncolors + 1) /\ T[k].map \in {0, T[k].ncolors}
             /\ T[k].ncolors \in Nat /\ T[k].ncolors = saved[k].ncolors
  <2>1. k \in Slot /\ saved[k] # NULL /\ ~saved[k].composite /\ saved[k].overlays = {}
    BY <1>1, OrderlyUses DEF Planes
  <2>2. T[k] # NULL /\ ~T[k].composite /\ T[k].data /\ T[k].overlays = {} /\ Sturdy(T[k])
    BY <2>1 DEF Restored, Faithful
  <2>3. T[k].ncolors \in Nat
    <3>1. T[k] \in Image
      BY <2>1, <2>2 DEF Sound
    <3>2. QED
      BY <3>1, ImageFields, ColorAssumption
  <2>4. T[k].sdata # NULL /\ T[k].sdata.top = T[k].ncolors + 1 /\ T[k].map \in {0, T[k].ncolors}
    BY <2>2 DEF Sturdy
  <2>5. T[k].ncolors = saved[k].ncolors
    BY <2>1 DEF Restored, Faithful
  <2>6. QED
    BY <2>2, <2>3, <2>4, <2>5
<1>3. Cardinality(Planes(T, i)) = NPlanes
  <2> DEFINE S == {k \in Slot : saved[i].rgb[k] # 0}
  <2>1. NPlanes - Cardinality(S) = 0
    BY <1>1, OrderlyUses DEF Missing
  <2>2. Cardinality(S) \in Nat
    <3>1. IsFiniteSet(S)
      BY SlotsFinite
    <3>2. QED
      BY <3>1, FS_CardinalityType
  <2>3. Planes(T, i) = S
    BY <1>1 DEF Planes
  <2> HIDE DEF S
  <2>4. QED
    BY <2>1, <2>2, <2>3, SlotAssumption
<1>4. ColorReady(T, i)
  BY <1>2, <1>3 DEF ColorReady
<1>5. ~StretchFaults(T, i)
  <2>1. ASSUME NEW j \in Planes(T, i), NEW k \in Planes(T, i), T[i].rgb[k] = 1
        PROVE  ~(T[k].ncolors > T[j].ncolors)
    <3>1. j \in Slot /\ k \in Slot /\ saved[i].rgb[k] = 1 /\ saved[i].rgb[j] # 0
      BY <1>1, <2>1 DEF Planes
    <3>2. saved[k].ncolors <= saved[j].ncolors
      BY <1>1, <3>1, OrderlyUses
    <3>3. QED
      BY <1>2, <2>1, <3>2
  <2>2. QED
    BY <1>2, <2>1, Zenon DEF StretchFaults
<1>6. ASSUME NEW img \in Stretched(T, i) PROVE img.sdata # NULL /\ img.ncolors <= img.lut
  <2>1. PICK n \in 1..T[i].ncolors : img = stretch_color(T[i], n)
    BY <1>4 DEF Stretched
  <2>2. T[i] \in Image /\ Undoable(T[i])
    BY DEF Sound
  <2>3. QED
    BY <2>1, <2>2, ColorRetained
<1>7. QED
  BY <1>4, <1>5, <1>6

\* With as many planes as there are, nothing is left to read.
LEMMA PlanesRead ==
  ASSUME NEW rgb \in [Slot -> 0..NPlanes], Missing(rgb) = 0, NEW r \in ReadPlanes(rgb)
  PROVE  r = rgb
<1> DEFINE m == Missing(rgb)
           Letters == {p \in [1..m -> 1..NPlanes] : m > 0 => p[1] = NPlanes}
<1>1. PICK v \in [1..m -> Slot], p \in Letters :
        r = [k \in Slot |-> IF \E n \in 1..m : v[n] = k
                            THEN p[Max({n \in 1..m : v[n] = k})] ELSE rgb[k]]
  BY DEF ReadPlanes
<1>2. m = 0
  OBVIOUS
<1> HIDE DEF m, Letters
<1>3. \A k \in Slot : ~\E n \in 1..m : v[n] = k
  BY <1>2
<1>4. QED
  BY <1>1, <1>3

LEMMA DescribedFields ==
  ASSUME NEW d \in Descr
  PROVE  LET new == Described(d, d.rgb) IN
         /\ Good(new) /\ new # NULL
         /\ new.composite = d.composite /\ new.band = d.band /\ new.rgb = d.rgb
         /\ new.overlays = d.overlays /\ new.ncolors = d.ncolors
         /\ new.data = FALSE /\ new.sdata = NULL /\ new.quant = 0 /\ new.map = 0
<1>1. /\ d.rgb \in [Slot -> 0..NPlanes] /\ DefaultColors \in 1..NColors /\ 0 \in 0..NColors
      /\ [i \in Slot |-> 0] \in [Slot -> 0..NPlanes]
  BY ColorAssumption, SlotAssumption DEF Descr
<1>2. /\ allocate_image \in Image /\ allocate_image.data = FALSE
      /\ allocate_image.sdata = NULL /\ allocate_image.quant = 0 /\ allocate_image.map = 0
  BY <1>1 DEF allocate_image, Image
<1>3. LET new == Described(d, d.rgb) IN
         /\ new.composite = d.composite /\ new.band = d.band /\ new.rgb = d.rgb
         /\ new.overlays = d.overlays /\ new.ncolors = d.ncolors
         /\ new.data = FALSE /\ new.sdata = NULL /\ new.quant = 0 /\ new.map = 0
  BY <1>2 DEF Described, Image
<1>4. QED
  BY <1>1, <1>3, DescribedGood, NullAssumption DEF Good

\* A gray slot, read and stretched, is as the file describes it.
LEMMA GrayAsSaved ==
  ASSUME NEW T, Sound(T), saved \in [Slot -> Descr \cup {NULL}],
         NEW i \in Slot, saved[i] # NULL, ~saved[i].composite, NEW reads \in Reads,
         NEW new \in Stretched([T EXCEPT ![i] = ReadData(Described(saved[i], saved[i].rgb), reads)], i)
  PROVE  /\ Good(new) /\ new # NULL /\ Faithful(new, saved[i]) /\ Sturdy(new)
         /\ Shows(new) = new.data
<1> DEFINE d == saved[i]
           old == Described(d, d.rgb)
           img == ReadData(old, reads)
           U == [T EXCEPT ![i] = img]
<1>1. d \in Descr /\ reads \in BOOLEAN
  BY FileAssumption
<1>2. /\ Good(old)
      /\ old.composite = d.composite /\ old.band = d.band /\ old.rgb = d.rgb
      /\ old.overlays = d.overlays /\ old.ncolors = d.ncolors
      /\ old.data = FALSE /\ old.sdata = NULL /\ old.quant = 0 /\ old.map = 0
  BY <1>1, DescribedFields
<1> HIDE DEF old
<1>3. /\ Good(img) /\ img.data \in BOOLEAN
      /\ img.composite = d.composite /\ img.band = d.band /\ img.rgb = d.rgb
      /\ img.overlays = d.overlays /\ img.ncolors = d.ncolors
      /\ img.sdata = NULL /\ img.quant = 0 /\ img.map = 0
  <2>1. Good(img)
    BY <1>1, <1>2, ReadDataGood
  <2>2. /\ img.composite = old.composite /\ img.band = old.band /\ img.rgb = old.rgb
        /\ img.overlays = old.overlays /\ img.ncolors = old.ncolors
        /\ img.sdata = old.sdata /\ img.quant = old.quant /\ img.map = old.map
    BY <1>2 DEF ReadData, Good, Image
  <2>3. img.data \in BOOLEAN
    BY <2>1, ImageFields DEF Good
  <2>4. QED
    BY <1>2, <2>1, <2>2, <2>3
<1> HIDE DEF img
<1>4. U[i] = img /\ new \in Stretched(U, i)
  BY DEF Sound, img, old
<1> HIDE DEF U
<1>5. Good(new) /\ new # NULL
  BY <1>3, <1>4, StretchedImage, NullAssumption DEF Good
<1>6. IF img.data THEN new = stretch_gray(img) ELSE new = img
  BY <1>3, <1>4 DEF Stretched
<1>7. Faithful(new, d) /\ Sturdy(new) /\ Shows(new) = new.data
  <2>1. CASE img.data
    <3>1. /\ new.composite = img.composite /\ new.band = img.band /\ new.data = img.data
          /\ new.rgb = img.rgb /\ new.overlays = img.overlays /\ new.ncolors = img.ncolors
          /\ new.sdata.top = img.ncolors + 1 /\ new.hold = NULL
          /\ new.quant = 0 /\ new.map = img.map /\ new.sdata # NULL
      <4>1. img \in Image /\ new = stretch_gray(img)
        BY <1>3, <1>6, <2>1 DEF Good
      <4>2. QED
        BY <4>1, GrayFields
    <3>2. QED
      BY <1>3, <1>5, <2>1, <3>1 DEF Faithful, Sturdy, Shows
  <2>2. CASE ~img.data
    <3>1. new = img
      BY <1>6, <2>2
    <3>2. QED
      BY <1>3, <1>5, <2>2, <3>1 DEF Faithful, Sturdy, Shows
  <2>3. QED
    BY <2>1, <2>2
<1>8. QED
  BY <1>5, <1>7

LEMMA GrayPut ==
  ASSUME NEW T, Sound(T), NEW i \in Slot, NEW new, Good(new), new # NULL,
         Faithful(new, saved[i]), Sturdy(new)
  PROVE  LET W == [T EXCEPT ![i] = new] IN
         /\ Sound(W) /\ W[i] = new /\ (\A k \in Slot \ {i} : W[k] = T[k])
         /\ Restored(W, i)
<1> DEFINE W == [T EXCEPT ![i] = new]
<1>1. Sound(W) /\ W[i] = new /\ \A k \in Slot \ {i} : W[k] = T[k]
  BY PutSound
<1> HIDE DEF W
<1>2. QED
  BY <1>1 DEF W, Restored

\* The slots before i have been restored and their files read.
ReadBefore(T, i) ==
  \A k \in Slot : k < i => Restored(T, k) /\ (T[k] # NULL /\ ~T[k].composite => T[k].data)

\* With its overlays in earlier slots, slot i can be painted when it is read.
LEMMA GrayPaintable ==
  ASSUME Orderly, saved \in [Slot -> Descr \cup {NULL}], NEW T, NEW i \in Slot, ReadBefore(T, i),
         saved[i] # NULL, ~saved[i].composite, NEW W, \A k \in Slot \ {i} : W[k] = T[k],
         Restored(W, i)
  PROVE  Paintable(W, i)
<1>1. W[i].overlays = saved[i].overlays
  BY DEF Restored, Faithful
<1>2. ASSUME NEW k \in saved[i].overlays PROVE Restored(W, k) /\ W[k].data
  <2>1. k \in Slot /\ k # i /\ k < i /\ saved[k] # NULL /\ ~saved[k].composite
    BY OrderlyUses
  <2>2. Restored(T, k) /\ (T[k] # NULL /\ ~T[k].composite => T[k].data) /\ W[k] = T[k]
    BY <2>1 DEF ReadBefore
  <2>3. QED
    BY <2>1, <2>2 DEF Restored, Faithful
<1>3. QED
  BY <1>1, <1>2, OrderlyPaintable

LEMMA ReadsSafely ==
  ASSUME Orderly, saved \in [Slot -> Descr \cup {NULL}], Sound(Images),
         NEW i \in Slot, ReadBefore(Images, i)
  PROVE  ~ReadFaults(i)
<1> DEFINE img(reads) == ReadData(Described(saved[i], saved[i].rgb), reads)
<1>1. CASE saved[i] = NULL
  BY <1>1 DEF ReadFaults
<1>2. CASE saved[i] # NULL /\ saved[i].composite
  <2>1. Missing(saved[i].rgb) = 0
    BY <1>2, OrderlyUses
  <2>2. QED
    BY <1>2, <2>1 DEF ReadFaults
<1>3. CASE saved[i] # NULL /\ ~saved[i].composite
  <2>1. ASSUME NEW new, Good(new), new # NULL, Faithful(new, saved[i]), Sturdy(new)
        PROVE  ~ShowFaults([Images EXCEPT ![i] = new], i)
    <3> DEFINE W == [Images EXCEPT ![i] = new]
    <3>1. /\ Sound(W) /\ W[i] = new /\ (\A k \in Slot \ {i} : W[k] = Images[k])
          /\ Restored(W, i)
      BY <2>1, GrayPut
    <3> HIDE DEF W
    <3>2. Paintable(W, i) /\ ~W[i].composite /\ W[i] # NULL
      BY <1>3, <2>1, <3>1, GrayPaintable DEF Restored, Faithful
    <3>3. CASE W[i].sdata # NULL
      <4>1. ~ShowFaults(W, i)
        BY <3>1, <3>2, <3>3, LoadsSafely
      <4>2. QED
        BY <4>1 DEF W
    <3>4. CASE W[i].sdata = NULL
      BY <3>4 DEF ShowFaults, Shows, W
    <3>5. QED
      BY <3>3, <3>4
  <2>2. ASSUME NEW reads \in Reads, NEW new \in Stretched([Images EXCEPT ![i] = img(reads)], i)
        PROVE  ~ShowFaults([Images EXCEPT ![i] = new], i)
    <3>1. Good(new) /\ new # NULL /\ Faithful(new, saved[i]) /\ Sturdy(new)
      BY <1>3, <2>2, GrayAsSaved
    <3>2. QED
      BY <2>1, <3>1
  <2>3. QED
    BY <1>3, <2>2, Zenon DEF ReadFaults
<1>4. QED
  BY <1>1, <1>2, <1>3

\* A step of the first loop restores its slot and retains the others.
Restores(i) ==
  Restored(Images', i) /\ \A k \in Slot \ {i} : Retained(Images[k], Images'[k])

LEMMA ReadEmptyBack ==
  ASSUME Sound(Images), NEW i \in Slot, ReadEmpty(i)
  PROVE  Restores(i)
<1>1. saved[i] = NULL /\ Images' = [Images EXCEPT ![i] = NULL]
  BY DEF ReadEmpty
<1>2. Images'[i] = NULL /\ \A k \in Slot \ {i} : Images'[k] = Images[k]
  BY <1>1 DEF Sound
<1>3. QED
  BY <1>1, <1>2 DEF Restores, Restored, Faithful, Sturdy, Retained

LEMMA ReadCompositeBack ==
  ASSUME Sound(Images), Orderly, saved \in [Slot -> Descr \cup {NULL}],
         NEW i \in Slot, ReadComposite(i)
  PROVE  Restores(i)
<1>1. PICK r \in ReadPlanes(saved[i].rgb) : Images' = [Images EXCEPT ![i] = Described(saved[i], r)]
  BY DEF ReadComposite
<1>2. saved[i] # NULL /\ saved[i].composite /\ saved[i] \in Descr
  BY DEF ReadComposite
<1>3. saved[i].rgb \in [Slot -> 0..NPlanes] /\ Missing(saved[i].rgb) = 0
  BY <1>2, OrderlyUses DEF Descr
<1>4. r = saved[i].rgb
  BY <1>3, PlanesRead
<1> DEFINE new == Described(saved[i], saved[i].rgb)
<1>5. Images'[i] = new /\ \A k \in Slot \ {i} : Images'[k] = Images[k]
  BY <1>1, <1>4 DEF Sound
<1>6. /\ new # NULL /\ new.composite = saved[i].composite /\ new.band = saved[i].band
      /\ new.rgb = saved[i].rgb /\ new.overlays = saved[i].overlays
  BY <1>2, DescribedFields
<1> HIDE DEF new
<1>7. QED
  BY <1>2, <1>5, <1>6 DEF Restores, Restored, Faithful, Sturdy, Retained

LEMMA ReadGrayBack ==
  ASSUME Sound(Images), saved \in [Slot -> Descr \cup {NULL}], NEW i \in Slot, ReadGray(i)
  PROVE  Restores(i)
<1> DEFINE img(reads) == ReadData(Described(saved[i], saved[i].rgb), reads)
           T(new) == [Images EXCEPT ![i] = new]
           Ends(new) ==
             /\ ~ShowFaults(T(new), i)
             /\ IF Shows(new)
                THEN Images' = Loaded(Create(T(new), i), i) /\ ShownIn(i) /\ spread' = new.ncolors
                ELSE Images' = T(new) /\ free_image(i)
<1>1. \E reads \in Reads : \E new \in Stretched(T(img(reads)), i) : Ends(new)
  BY Zenon DEF ReadGray
<1>2. PICK reads \in Reads : \E new \in Stretched(T(img(reads)), i) : Ends(new)
  BY <1>1, Zenon
<1>3. PICK new \in Stretched(T(img(reads)), i) : Ends(new)
  BY <1>2, Zenon
<1>4. saved[i] # NULL /\ ~saved[i].composite
  BY DEF ReadGray
<1>5. Good(new) /\ new # NULL /\ Faithful(new, saved[i]) /\ Sturdy(new)
  BY <1>3, <1>4, GrayAsSaved
<1>6. SUFFICES ASSUME NEW x, Good(x), x # NULL, Faithful(x, saved[i]), Sturdy(x), Ends(x)
               PROVE  Restores(i)
  BY <1>3, <1>5
<1> DEFINE W == [Images EXCEPT ![i] = x]
<1>7. ~ShowFaults(W, i) /\ IF Shows(x) THEN Images' = Loaded(Create(W, i), i) ELSE Images' = W
  BY <1>6
<1>8. Sound(W) /\ W[i] = x /\ (\A k \in Slot \ {i} : W[k] = Images[k]) /\ Restored(W, i)
  BY <1>6, GrayPut
<1> HIDE DEF W, T, Ends, img
<1>9. Retains(W, Images')
  <2>1. CASE Shows(x)
    BY <1>6, <1>7, <1>8, <2>1, LoadRetains
  <2>2. CASE ~Shows(x)
    BY <1>7, <2>2 DEF Retains, Retained
  <2>3. QED
    BY <2>1, <2>2
<1>10. Restored(Images', i)
  BY <1>8, <1>9, RestoredKept
<1>11. QED
  BY <1>8, <1>9, <1>10 DEF Restores, Retains

\* The fault that a step of a read stops with cannot be in an orderly session.
LEMMA DiesBack ==
  ASSUME BackInv, Dies, phase \in {"reading", "painting", "ready"}, ~(Orderly /\ FilesThere)
  PROVE  BackInv'
<1>1. UNCHANGED <<Images, saved, phase, at>>
  BY DEF Dies, Die
<1>2. Orderly' = Orderly /\ FilesThere' = FilesThere
  BY <1>1 DEF Orderly, FilesThere, IsGray
<1>3. OrderlyRestores' /\ SessionComesBack'
  BY <1>1, <1>2 DEF OrderlyRestores, SessionComesBack
<1>4. QED
  BY <1>1, <1>2, <1>3 DEF BackInv

LEMMA ReadSlotBack ==
  ASSUME RestartInv, BackInv, ReadSlot
  PROVE  BackInv'
<1>1. /\ phase = "reading" /\ fault = "none" /\ at \in 0..NIMAGE
      /\ saved \in [Slot -> Descr \cup {NULL}] /\ Sound(Images)
  BY DEF ReadSlot, RestartInv, WindowInv, TableInv
<1>2. Orderly /\ FilesThere => RestoredTo(at)
  BY <1>1 DEF BackInv
<1>3. Orderly /\ FilesThere => ReadBefore(Images, at)
  BY <1>1, <1>2 DEF RestoredTo, ReadBefore, FilesThere, IsGray
<1>4. CASE at < NIMAGE /\ ReadFaults(at) /\ Dies
  <2>1. at \in Slot
    BY <1>1, <1>4, SlotAssumption DEF Slot
  <2>2. ~(Orderly /\ FilesThere)
    BY <1>1, <1>3, <1>4, <2>1, ReadsSafely
  <2>3. QED
    BY <1>1, <1>4, <2>2, DiesBack
<1>5. CASE /\ at < NIMAGE
           /\ ReadEmpty(at) \/ ReadComposite(at) \/ ReadGray(at)
           /\ at' = at + 1
           /\ UNCHANGED <<sel, letter, args, saved, phase>>
  <2>1. at \in Slot
    BY <1>1, <1>5, SlotAssumption DEF Slot
  <2>2. UNCHANGED <<fault, saved, phase>>
    BY <1>5 DEF ReadEmpty, ReadComposite, ReadGray
  <2>3. Orderly' = Orderly
    BY <2>2 DEF Orderly
  <2>4. ASSUME Orderly, FilesThere' PROVE RestoredTo(at)'
    <3>1. Restores(at)
      BY <1>1, <1>5, <2>1, <2>4, ReadEmptyBack, ReadCompositeBack, ReadGrayBack
    <3>2. \A k \in Slot : k < at => k # at /\ k < at + 1
      BY <2>1 DEF Slot
    <3>3. FilesThere
      BY <1>1, <1>5, <2>2, <2>4, <3>1, <3>2 DEF FilesThere, IsGray, Restores, Retained
    <3>4. \A k \in Slot : k < at => Restored(Images', k)
      BY <1>2, <2>4, <3>1, <3>2, <3>3 DEF RestoredTo, Restored, Faithful, Restores, Retained
    <3>5. \A k \in Slot : k < at + 1 => k < at \/ k = at
      BY <2>1 DEF Slot
    <3>6. \A k \in Slot : k < at + 1 => Restored(Images', k)
      BY <3>1, <3>4, <3>5 DEF Restores
    <3>7. QED
      BY <1>5, <2>2, <3>6 DEF RestoredTo, Restored
  <2>5. OrderlyRestores' /\ SessionComesBack'
    BY <1>1, <2>2 DEF OrderlyRestores, SessionComesBack
  <2>6. QED
    BY <1>1, <2>2, <2>3, <2>4, <2>5 DEF BackInv
<1>6. CASE /\ at = NIMAGE
           /\ phase' = "painting" /\ at' = 0
           /\ UNCHANGED <<vars, window, saved>>
  <2>1. UNCHANGED <<Images, fault, saved>>
    BY <1>6 DEF vars
  <2>2. Orderly' = Orderly
    BY <2>1 DEF Orderly
  <2>3. ASSUME Orderly, FilesThere' PROVE RestoredTo(NIMAGE)'
    <3>1. FilesThere
      BY <1>1, <1>6, <2>1, <2>3 DEF FilesThere, IsGray
    <3>2. RestoredTo(NIMAGE)
      BY <1>2, <1>6, <2>3, <3>1
    <3>3. QED
      BY <2>1, <3>2 DEF RestoredTo, Restored
  <2>4. OverlaidTo(at)'
    BY <1>6 DEF OverlaidTo, Slot
  <2>5. OrderlyRestores' /\ SessionComesBack'
    BY <1>1, <1>6, <2>1 DEF OrderlyRestores, SessionComesBack
  <2>6. QED
    BY <1>6, <2>2, <2>3, <2>4, <2>5 DEF BackInv
<1>7. QED
  BY <1>4, <1>5, <1>6, Zenon DEF ReadSlot

AllBack(T) == \A k \in Slot : Restored(T, k) /\ (T[k] # NULL /\ ~T[k].composite => T[k].data)

\* With every slot restored, any of them can be made and painted again.
LEMMA PaintsSafely ==
  ASSUME Orderly, saved \in [Slot -> Descr \cup {NULL}], NEW T, Sound(T), AllBack(T),
         NEW i \in Slot, T[i] # NULL
  PROVE  Paintable(T, i) /\ ~OverlayFaults(T, i) /\ ~StretchFaults(T, i)
<1>1. saved[i] # NULL /\ T[i].overlays = saved[i].overlays
  BY DEF AllBack, Restored, Faithful
<1>2. ASSUME NEW k \in saved[i].overlays PROVE Restored(T, k) /\ T[k].data
  <2>1. k \in Slot /\ saved[k] # NULL /\ ~saved[k].composite
    BY <1>1, OrderlyUses
  <2>2. QED
    BY <2>1 DEF AllBack, Restored, Faithful
<1>3. Paintable(T, i)
  BY <1>1, <1>2, OrderlyPaintable
<1>4. ~OverlayFaults(T, i)
  BY <1>3, NoOverlayFault
<1>5. ASSUME NEW k \in Slot PROVE saved[k] # NULL => T[k] # NULL /\ T[k].composite = saved[k].composite
  BY DEF AllBack, Restored, Faithful
<1>6. CASE T[i].composite
  BY <1>4, <1>3, <1>5, <1>6, OrderlyColors DEF AllBack
<1>7. CASE ~T[i].composite
  BY <1>3, <1>4, <1>7 DEF StretchFaults
<1>8. QED
  BY <1>6, <1>7

LEMMA StretchesSafely ==
  ASSUME Orderly, saved \in [Slot -> Descr \cup {NULL}], NEW T, Sound(T), AllBack(T),
         NEW i \in Slot, T[i] # NULL, NEW img \in Stretched(T, i)
  PROVE  /\ img.sdata # NULL /\ Paintable([T EXCEPT ![i] = img], i)
         /\ ~OverlayFaults([T EXCEPT ![i] = img], i)
         /\ img.composite => img.ncolors <= img.lut
<1> DEFINE U == [T EXCEPT ![i] = img]
<1>1. Sound(U) /\ Retains(T, U) /\ U[i] = img
  BY StretchedRetained
<1>2. Paintable(T, i)
  BY PaintsSafely
<1> HIDE DEF U
<1>3. Paintable(U, i) /\ img # NULL
  BY <1>1, <1>2, PaintableKept DEF Retains, Retained
<1>4. ~OverlayFaults(U, i)
  BY <1>1, <1>3, NoOverlayFault
<1>5. img.composite = T[i].composite
  BY <1>1 DEF Retains, Retained
<1>6. ASSUME NEW k \in Slot PROVE saved[k] # NULL => T[k] # NULL /\ T[k].composite = saved[k].composite
  BY DEF AllBack, Restored, Faithful
<1>7. CASE T[i].composite
  <2>1. \A x \in Stretched(T, i) : x.sdata # NULL /\ x.ncolors <= x.lut
    BY <1>6, <1>7, OrderlyColors DEF AllBack
  <2>2. QED
    BY <1>3, <1>4, <2>1 DEF U
<1>8. CASE ~T[i].composite
  <2>1. T[i] \in Image /\ Undoable(T[i]) /\ T[i].data
    BY <1>8 DEF Sound, AllBack
  <2>2. img.sdata # NULL
    BY <1>8, <2>1, StretchedImage
  <2>3. QED
    BY <1>3, <1>4, <1>5, <1>8, <2>2 DEF U
<1>9. QED
  BY <1>7, <1>8

\* Slot i is made anew in W and painted in U; the others show what they did.
LEMMA ShownBack ==
  ASSUME Orderly, saved \in [Slot -> Descr \cup {NULL}], Sound(Images),
         \A k \in Slot : Restored(Images, k), NEW i \in Slot,
         NEW W, Sound(W), Retains(Images, W), \A k \in Slot \ {i} : W[k] = Images[k], W[i] # NULL,
         NEW U, Retains(W, U), SameColors(W, U), SameElsewhere(W, U, i),
         U[i].sdata.over \in {Paints(W, i), Paints(U, i)}
  PROVE  /\ \A k \in Slot : Restored(U, k)
         /\ Overlaid(U, i)
         /\ \A k \in Slot \ {i} : Overlaid(Images, k) => Overlaid(U, k)
<1>1. Retains(Images, U)
  BY RetainsTrans
<1>2. \A k \in Slot : Restored(U, k)
  BY <1>1, RestoredKept
<1>3. ASSUME NEW k \in Slot, Images[k] # NULL
      PROVE  /\ \A l \in Images[k].overlays : /\ l \in Slot /\ Images[l] # NULL
                                              /\ U[l].ncolors = Images[l].ncolors
             /\ U[k].overlays = Images[k].overlays
  <2>1. saved[k] # NULL /\ Images[k].overlays = saved[k].overlays
    BY <1>3 DEF Restored, Faithful
  <2>2. ASSUME NEW l \in saved[k].overlays
        PROVE  l \in Slot /\ Images[l] # NULL /\ U[l].ncolors = Images[l].ncolors
    <3>1. l \in Slot /\ saved[l] # NULL /\ ~saved[l].composite
      BY <2>1, OrderlyUses
    <3>2. Images[l] # NULL /\ ~Images[l].composite
      BY <3>1 DEF Restored, Faithful
    <3>3. QED
      BY <1>1, <3>1, <3>2 DEF Retains, Retained
  <2>3. QED
    BY <1>1, <1>3, <2>1, <2>2 DEF Retains, Retained
<1>4. Overlaid(U, i)
  <2>1. W[i].overlays = Images[i].overlays /\ Images[i] # NULL
    BY DEF Retains, Retained
  <2>2. \A l \in W[i].overlays : l \in Slot /\ W[l] # NULL
    BY <1>3, <2>1 DEF Retains, Retained
  <2>3. /\ U[i].overlays = W[i].overlays /\ U[i].ncolors = W[i].ncolors
        /\ \A l \in W[i].overlays : U[l].ncolors = W[l].ncolors
    BY <2>2 DEF Retains, Retained, SameColors
  <2>4. Paints(U, i) = Paints(W, i)
    BY <2>3, PaintsSame
  <2>5. QED
    BY <2>4 DEF Overlaid
<1>5. ASSUME NEW k \in Slot \ {i}, Overlaid(Images, k), U[k] # NULL
      PROVE  Overlaid(U, k)
  <2>1. Images[k] # NULL /\ W[k] = Images[k]
    BY <1>1, <1>5 DEF Retains, Retained
  <2>2. U[k].ncolors = Images[k].ncolors /\ U[k].sdata = Images[k].sdata
    BY <2>1 DEF SameColors, SameElsewhere
  <2>3. Paints(U, k) = Paints(Images, k)
    BY <1>3, <2>1, <2>2, PaintsSame
  <2>4. QED
    BY <1>5, <2>1, <2>2, <2>3 DEF Overlaid
<1>6. QED
  BY <1>2, <1>4, <1>5 DEF Overlaid

\* A step of the second loop at slot i: what it painted, and what it kept.
PaintedBack(i) ==
  /\ \A k \in Slot : Restored(Images', k)
  /\ Overlaid(Images', i)
  /\ \A k \in Slot \ {i} : Overlaid(Images, k) => Overlaid(Images', k)

LEMMA PaintCompositeBack ==
  ASSUME Sound(Images), saved \in [Slot -> Descr \cup {NULL}],
         NEW i \in Slot, PaintComposite(i)
  PROVE  \/ Dies /\ ~(Orderly /\ AllBack(Images))
         \/ /\ Retains(Images, Images') /\ at' = at + 1 /\ UNCHANGED <<fault, saved, phase>>
            /\ Orderly /\ AllBack(Images) => PaintedBack(i)
<1> DEFINE T(img) == [Images EXCEPT ![i] = img]
           follows(img) == img.sdata = NULL \/ OverlayFaults(T(img), i)
           Ends(img) == /\ ~follows(img)
                        /\ Images' = update_display(T(img), i)
                        /\ Replaces(i)
                        /\ at' = at + 1
                        /\ UNCHANGED <<sel, buttons, letter, args, fault, saved, phase>>
           Stops(img) == (StretchFaults(Images, i) \/ follows(img)) /\ Dies
<1>1. Images[i] # NULL /\ \E img \in Stretched(Images, i) : Stops(img) \/ Ends(img)
  BY Zenon DEF PaintComposite, Exists
<1>2. PICK img \in Stretched(Images, i) : Stops(img) \/ Ends(img)
  BY <1>1, Zenon
<1>3. CASE Stops(img)
  <2>1. ASSUME Orderly, AllBack(Images) PROVE ~StretchFaults(Images, i) /\ ~follows(img)
    <3> HIDE DEF follows
    <3>1. ~StretchFaults(Images, i)
      BY <1>1, <2>1, PaintsSafely
    <3>2. img.sdata # NULL /\ ~OverlayFaults([Images EXCEPT ![i] = img], i)
      BY <1>1, <2>1, StretchesSafely
    <3>3. QED
      BY <3>1, <3>2 DEF follows
  <2>2. QED
    BY <1>3, <2>1
<1>4. CASE Ends(img)
  <2> DEFINE W == [Images EXCEPT ![i] = img]
  <2>1. /\ img.sdata # NULL /\ ~OverlayFaults(W, i)
        /\ Images' = update_display(W, i) /\ at' = at + 1
        /\ UNCHANGED <<fault, saved, phase>>
    BY <1>4
  <2> HIDE DEF W, T, follows, Stops, Ends
  <2>2. /\ Sound(W) /\ Retains(Images, W) /\ W[i] = img
        /\ \A k \in Slot \ {i} : W[k] = Images[k]
    <3>1. LET U == [Images EXCEPT ![i] = img] IN
          /\ Sound(U) /\ Retains(Images, U) /\ U[i] = img
          /\ \A k \in Slot \ {i} : U[k] = Images[k]
      BY <1>1, StretchedRetained
    <3>2. QED
      BY <3>1 DEF W
  <2>3. W[i] # NULL
    BY <1>1, <2>2 DEF Retains, Retained
  <2>4. /\ Retains(W, Images') /\ SameColors(W, Images') /\ SameElsewhere(W, Images', i)
        /\ Images'[i].sdata.over = Paints(W, i)
    BY <2>1, <2>2, <2>3, PaintRetains
  <2>5. Retains(Images, Images')
    BY <2>2, <2>4, RetainsTrans
  <2>6. Orderly /\ AllBack(Images) => PaintedBack(i)
    BY <2>2, <2>3, <2>4, ShownBack DEF AllBack, PaintedBack
  <2>7. QED
    BY <2>1, <2>5, <2>6
<1>5. QED
  BY <1>2, <1>3, <1>4

LEMMA PaintGrayBack ==
  ASSUME Sound(Images), saved \in [Slot -> Descr \cup {NULL}], ReadTo(NIMAGE),
         NEW i \in Slot, PaintGray(i)
  PROVE  \/ Dies /\ ~(Orderly /\ AllBack(Images))
         \/ /\ Retains(Images, Images') /\ at' = at + 1 /\ UNCHANGED <<fault, saved, phase>>
            /\ Orderly /\ AllBack(Images) => PaintedBack(i)
<1>1. Images[i] # NULL /\ ~Images[i].composite /\ Images[i].data
  BY DEF PaintGray, IsGray
<1>2. Images[i].sdata # NULL
  BY <1>1, SlotAssumption DEF ReadTo, HasIndices, Slot
<1>3. CASE OverlayFaults(Images, i) /\ Dies
  BY <1>1, <1>3, PaintsSafely
<1>4. CASE /\ ~OverlayFaults(Images, i) /\ Images' = update_display(Images, i)
           /\ at' = at + 1 /\ UNCHANGED <<fault, saved, phase>>
  <2>1. /\ Retains(Images, Images') /\ SameColors(Images, Images') /\ SameElsewhere(Images, Images', i)
        /\ Images'[i].sdata.over = Paints(Images, i)
    BY <1>1, <1>2, <1>4, PaintRetains
  <2>2. Retains(Images, Images)
    BY DEF Retains, Retained
  <2>3. Orderly /\ AllBack(Images) => PaintedBack(i)
    BY <1>1, <2>1, <2>2, ShownBack DEF AllBack, PaintedBack
  <2>4. QED
    BY <1>4, <2>1, <2>3
<1>5. QED
  BY <1>3, <1>4, Zenon DEF PaintGray

LEMMA PaintSlotBack ==
  ASSUME RestartInv, BackInv, PaintSlot
  PROVE  BackInv'
<1>1. /\ phase = "painting" /\ fault = "none" /\ at \in 0..NIMAGE /\ ReadTo(NIMAGE)
      /\ saved \in [Slot -> Descr \cup {NULL}] /\ Sound(Images)
  BY DEF PaintSlot, RestartInv, WindowInv, TableInv
<1>2. Orderly /\ FilesThere => RestoredTo(NIMAGE) /\ OverlaidTo(at)
  BY <1>1 DEF BackInv
<1>3. \A k \in Slot : k < NIMAGE
  BY SlotAssumption DEF Slot
<1>4. Orderly /\ FilesThere => AllBack(Images)
  BY <1>1, <1>2, <1>3 DEF RestoredTo, AllBack, FilesThere, IsGray
<1>5. CASE Dies /\ ~(Orderly /\ AllBack(Images))
  BY <1>1, <1>4, <1>5, DiesBack
<1>6. ASSUME at < NIMAGE, Retains(Images, Images'), at' = at + 1, UNCHANGED <<fault, saved, phase>>,
             Orderly /\ AllBack(Images) => PaintedBack(at)
      PROVE  BackInv'
  <2>1. at \in Slot
    BY <1>1, <1>6, SlotAssumption DEF Slot
  <2>2. Orderly' = Orderly
    BY <1>6 DEF Orderly
  <2>3. ASSUME Orderly, FilesThere' PROVE RestoredTo(NIMAGE)' /\ OverlaidTo(at)'
    <3>1. FilesThere
      BY <1>1, <1>6, <2>3 DEF FilesThere, IsGray, Retains, Retained
    <3>2. PaintedBack(at) /\ OverlaidTo(at)
      BY <1>2, <1>4, <1>6, <2>3, <3>1
    <3>3. RestoredTo(NIMAGE)'
      BY <1>6, <3>2 DEF PaintedBack, RestoredTo, Restored
    <3>4. \A k \in Slot : k < at + 1 => (k < at /\ k # at) \/ k = at
      BY <2>1 DEF Slot
    <3>5. \A k \in Slot : k < at + 1 => Overlaid(Images', k)
      BY <3>2, <3>4 DEF PaintedBack, OverlaidTo
    <3>6. OverlaidTo(at)'
      BY <1>6, <3>5 DEF OverlaidTo, Overlaid
    <3>7. QED
      BY <3>3, <3>6
  <2>4. OrderlyRestores' /\ SessionComesBack'
    BY <1>1, <1>6 DEF OrderlyRestores, SessionComesBack
  <2>5. QED
    BY <1>1, <1>6, <2>2, <2>3, <2>4 DEF BackInv
<1>7. CASE at < NIMAGE /\ (PaintComposite(at) \/ PaintGray(at))
  <2>1. at \in Slot
    BY <1>1, <1>7, SlotAssumption DEF Slot
  <2>2. \/ Dies /\ ~(Orderly /\ AllBack(Images))
        \/ /\ Retains(Images, Images') /\ at' = at + 1 /\ UNCHANGED <<fault, saved, phase>>
           /\ Orderly /\ AllBack(Images) => PaintedBack(at)
    BY <1>1, <1>7, <2>1, PaintCompositeBack, PaintGrayBack
  <2>3. QED
    BY <1>5, <1>6, <1>7, <2>2
<1>8. CASE at < NIMAGE /\ PaintNothing(at)
  <2>1. /\ Images[at] = NULL \/ (~Images[at].composite /\ ~Images[at].data)
        /\ at' = at + 1 /\ UNCHANGED <<Images, fault, saved, phase>>
    BY <1>8 DEF PaintNothing, Exists, IsGray, vars
  <2>2. at \in Slot
    BY <1>1, <1>8, SlotAssumption DEF Slot
  <2>3. Retains(Images, Images')
    BY <2>1 DEF Retains, Retained
  <2>4. ASSUME AllBack(Images) PROVE PaintedBack(at)
    <3>1. Images[at] = NULL
      BY <2>1, <2>2, <2>4 DEF AllBack
    <3>2. QED
      BY <2>1, <2>4, <3>1 DEF AllBack, PaintedBack, Overlaid
  <2>5. QED
    BY <1>6, <1>8, <2>1, <2>3, <2>4
<1>9. CASE /\ at = NIMAGE
           /\ phase' = "ready" /\ at' = 0
           /\ UNCHANGED <<vars, saved>>
  <2>1. UNCHANGED <<Images, fault, saved>>
    BY <1>9 DEF vars
  <2>2. Orderly' = Orderly
    BY <2>1 DEF Orderly
  <2>3. ASSUME Orderly, FilesThere' PROVE RestoredTo(NIMAGE)' /\ OverlaidTo(NIMAGE)'
    <3>1. FilesThere
      BY <1>1, <1>9, <2>1, <2>3 DEF FilesThere, IsGray
    <3>2. RestoredTo(NIMAGE) /\ OverlaidTo(NIMAGE)
      BY <1>2, <1>9, <2>3, <3>1
    <3>3. QED
      BY <2>1, <3>2 DEF RestoredTo, Restored, OverlaidTo, Overlaid
  <2>4. OrderlyRestores' /\ SessionComesBack'
    BY <1>1, <1>9, <2>1 DEF OrderlyRestores, SessionComesBack
  <2>5. QED
    BY <1>9, <2>2, <2>3, <2>4 DEF BackInv
<1>10. QED
  BY <1>7, <1>8, <1>9, Zenon DEF PaintSlot

LEMMA ReadRestartBack ==
  ASSUME RestartInv, BackInv, ReadRestart
  PROVE  BackInv'
<1>1. /\ phase = "ready" /\ fault = "none" /\ 0 \in Slot /\ PaintedTo(NIMAGE)
      /\ saved \in [Slot -> Descr \cup {NULL}] /\ Sound(Images)
  BY SlotAssumption DEF ReadRestart, RestartInv, WindowInv, TableInv, Slot
<1>2. Orderly /\ FilesThere => RestoredTo(NIMAGE) /\ OverlaidTo(NIMAGE)
  BY <1>1 DEF BackInv
<1>3. \A k \in Slot : k < NIMAGE
  BY SlotAssumption DEF Slot
<1>4. Orderly /\ FilesThere => AllBack(Images)
  BY <1>1, <1>2, <1>3 DEF RestoredTo, AllBack, FilesThere, IsGray
<1>5. Orderly /\ FilesThere => Images[0] # NULL
  BY <1>1, <1>4 DEF Orderly, AllBack, Restored, Faithful
<1>6. CASE ~Exists(0) /\ Dies
  BY <1>1, <1>5, <1>6, DiesBack DEF Exists
<1>7. CASE ~(~Exists(0) /\ Dies)
  <2> DEFINE T(img) == [Images EXCEPT ![0] = img]
             Fails0(img) == StretchFaults(Images, 0) \/ ShowFaults(T(img), 0)
             Ends(img) ==
               /\ ~ShowFaults(T(img), 0)
               /\ IF Shows(img)
                  THEN Images' = Loaded(Create(T(img), 0), 0) /\ ShownIn(0) /\ spread' = img.ncolors
                  ELSE UNCHANGED <<Images, window>>
               /\ UpdatePushButtons(Images', 0)
               /\ sel' = 0 /\ phase' = "done"
               /\ UNCHANGED <<letter, args, fault, saved, at>>
  <2>1. Images[0] # NULL /\ \E img \in Stretched(Images, 0) : (Fails0(img) /\ Dies) \/ Ends(img)
    BY <1>7, Zenon DEF ReadRestart, Exists
  <2>2. PICK img \in Stretched(Images, 0) : (Fails0(img) /\ Dies) \/ Ends(img)
    BY <2>1, Zenon
  <2> DEFINE W == [Images EXCEPT ![0] = img]
  <2>3. Fails0(img) <=> StretchFaults(Images, 0) \/ ShowFaults(W, 0)
    OBVIOUS
  <2>4. Ends(img) =>
          /\ ~ShowFaults(W, 0)
          /\ Shows(img) => Images' = Loaded(Create(W, 0), 0)
          /\ ~Shows(img) => UNCHANGED Images
          /\ phase' = "done" /\ UNCHANGED <<fault, saved>>
    OBVIOUS
  <2> HIDE DEF W, T, Fails0, Ends
  <2>5. /\ Sound(W) /\ Retains(Images, W) /\ W[0] = img
        /\ \A k \in Slot \ {0} : W[k] = Images[k]
    <3>1. LET U == [Images EXCEPT ![0] = img] IN
          /\ Sound(U) /\ Retains(Images, U) /\ U[0] = img
          /\ \A k \in Slot \ {0} : U[k] = Images[k]
      BY <1>1, <2>1, StretchedRetained
    <3>2. QED
      BY <3>1 DEF W
  <2>6. /\ W[0] # NULL /\ W[0].composite = Images[0].composite /\ W[0].data = Images[0].data
    BY <1>1, <2>1, <2>5 DEF Retains, Retained
  <2>7. ASSUME Orderly, AllBack(Images)
        PROVE  ~Fails0(img) /\ Shows(img)
    <3>1. ~StretchFaults(Images, 0)
      BY <1>1, <2>1, <2>7, PaintsSafely
    <3>2. img.sdata # NULL /\ Paintable(W, 0) /\ (img.composite => img.ncolors <= img.lut)
      <4>1. /\ img.sdata # NULL /\ Paintable([Images EXCEPT ![0] = img], 0)
            /\ img.composite => img.ncolors <= img.lut
        BY <1>1, <2>1, <2>7, StretchesSafely
      <4>2. QED
        BY <4>1 DEF W
    <3>3. ~ShowFaults(W, 0)
      BY <1>1, <2>5, <2>6, <3>2, LoadsSafely
    <3>4. Shows(img)
      BY <1>1, <2>1, <2>5, <2>6, <2>7, <3>2 DEF Shows, AllBack
    <3>5. QED
      BY <2>3, <3>1, <3>3, <3>4
  <2>8. CASE Fails0(img) /\ Dies
    BY <1>1, <1>4, <2>7, <2>8, DiesBack
  <2>9. CASE Ends(img)
    <3>1. CASE ~Shows(img)
      <4>1. ~(Orderly /\ AllBack(Images))
        BY <2>7, <3>1
      <4>2. UNCHANGED <<Images, saved, fault>> /\ phase' = "done"
        BY <2>4, <2>9, <3>1
      <4>3. Orderly' = Orderly /\ FilesThere' = FilesThere
        BY <1>1, <4>2 DEF Orderly, FilesThere, IsGray
      <4>4. QED
        BY <1>1, <1>4, <4>1, <4>2, <4>3 DEF BackInv, OrderlyRestores, SessionComesBack
    <3>2. CASE Shows(img)
      <4>1. /\ Images' = Loaded(Create(W, 0), 0) /\ ~ShowFaults(W, 0)
            /\ phase' = "done" /\ UNCHANGED <<fault, saved>>
        BY <2>4, <2>9, <3>2
      <4>2. /\ Retains(W, Images') /\ SameColors(W, Images') /\ SameElsewhere(W, Images', 0)
            /\ Images'[0].sdata.over = Paints(Images', 0)
        BY <1>1, <2>5, <2>6, <3>2, <4>1, LoadRetains
      <4>3. Retains(Images, Images')
        BY <2>5, <4>2, RetainsTrans
      <4>4. ASSUME Orderly', FilesThere' PROVE AllBack(Images) /\ Orderly /\ OverlaidTo(NIMAGE)
        <5>1. Orderly
          BY <4>1, <4>4 DEF Orderly
        <5>2. FilesThere
          BY <1>1, <4>1, <4>3, <4>4 DEF FilesThere, IsGray, Retains, Retained
        <5>3. QED
          BY <1>2, <1>4, <5>1, <5>2
      <4>5. ASSUME Orderly', FilesThere', NEW k \in Slot
            PROVE  Restored(Images', k) /\ Overlaid(Images', k)
                   /\ (Images'[k] # NULL => Images'[k].sdata # NULL)
        <5>1. AllBack(Images) /\ Orderly /\ OverlaidTo(NIMAGE)
          BY <4>4, <4>5
        <5>2. /\ \A l \in Slot : Restored(Images', l)
              /\ Overlaid(Images', 0)
              /\ \A l \in Slot \ {0} : Overlaid(Images, l) => Overlaid(Images', l)
          <6>1. \A l \in Slot : Restored(Images, l)
            BY <5>1 DEF AllBack
          <6>2. QED
            BY <1>1, <2>5, <2>6, <4>2, <5>1, <6>1, ShownBack
        <5>3. Overlaid(Images', k)
          BY <1>3, <5>1, <5>2 DEF OverlaidTo
        <5>4. Images[k] # NULL => Images[k].sdata # NULL
          BY <1>1, <1>3, <5>1 DEF AllBack, Restored, Sturdy, PaintedTo
        <5>5. Images'[k] # NULL => Images'[k].sdata # NULL
          BY <4>3, <5>4 DEF Retains, Retained
        <5>6. QED
          BY <5>2, <5>3, <5>5
      <4>6. SessionComesBack'
        BY <4>1, <4>5 DEF SessionComesBack, Restored, Faithful, Overlaid, Exists
      <4>7. QED
        BY <1>1, <4>1, <4>6 DEF BackInv, OrderlyRestores
    <3>3. QED
      BY <3>1, <3>2
  <2>10. QED
    BY <2>2, <2>8, <2>9
<1>8. QED
  BY <1>6, <1>7

\* Only read_restart stops in read_restart.
LEMMA FirstFaults ==
  ASSUME Files \/ Windows, fault # "read_restart"
  PROVE  fault' # "read_restart"
<1>1. CASE CommandLine
  BY <1>1 DEF CommandLine, off_load_filename, EndOfArgs
<1>2. ASSUME NEW i \in Slot, SelectSlot(i) \/ RGB_pushbutton(i) PROVE fault' # "read_restart"
  BY <1>2, Zenon DEF SelectSlot, RGB_pushbutton
<1>3. ASSUME NEW i \in Slot, overlay_pushbutton(i) PROVE fault' # "read_restart"
  BY <1>3, Zenon DEF overlay_pushbutton, Die
<1>4. ASSUME NEW i \in Slot, LoadImage(i) PROVE fault' # "read_restart"
  BY <1>4, Zenon DEF LoadImage, Die
<1>5. ASSUME (\E kind \in OpenFiles : NewFile(kind)) \/ load_band \/ DeleteImage
             \/ \E n \in ColorChoices : load_ncolors(n)
      PROVE fault' # "read_restart"
  BY <1>5, Zenon DEF NewFile, load_band, DeleteImage, load_ncolors, Die
<1>6. CASE Files
  BY <1>1, <1>2, <1>3, <1>4, <1>5, <1>6, Zenon DEF Files
<1>7. ASSUME NEW i \in Slot, load_image(i) PROVE fault' # "read_restart"
  BY <1>7, Zenon DEF load_image, Fails, Die
<1>8. CASE colorspread \/ Redisplay
  BY <1>8, Zenon DEF colorspread, Redisplay, Fails, Die
<1>9. CASE Resize \/ SetMagnify \/ pan_image
  BY <1>9, Zenon DEF Resize, SetMagnify, pan_image, Fails, Die, vars
<1>10. CASE Windows
  BY <1>7, <1>8, <1>9, <1>10, Zenon DEF Windows
<1>11. QED
  BY <1>6, <1>10

LEMMA BackStart == RestartInit => BackInv
BY DEF RestartInit, ViewerInit, Init, BackInv, OrderlyRestores, SessionComesBack

LEMMA BackStep == RestartInv /\ BackInv /\ [RestartNext]_restartVars => BackInv'
<1> SUFFICES ASSUME RestartInv, BackInv, [RestartNext]_restartVars PROVE BackInv'
  OBVIOUS
<1>1. ASSUME phase' \in {"first", "saved"}, fault' # "read_restart" PROVE BackInv'
  BY <1>1 DEF BackInv, OrderlyRestores, SessionComesBack
<1>2. CASE UNCHANGED restartVars
  <2>1. UNCHANGED <<Images, fault, saved, phase, at>>
    BY <1>2 DEF restartVars, vars
  <2>2. Orderly' = Orderly /\ FilesThere' = FilesThere
    BY <2>1 DEF Orderly, FilesThere, IsGray
  <2>3. OrderlyRestores' /\ SessionComesBack'
    BY <2>1, <2>2 DEF BackInv, OrderlyRestores, SessionComesBack, Exists, Paints, Start
  <2>4. \A n : /\ RestoredTo(n) => RestoredTo(n)'
               /\ OverlaidTo(n) => OverlaidTo(n)'
    BY <2>1 DEF RestoredTo, Restored, OverlaidTo, Overlaid
  <2>5. QED
    BY <2>1, <2>2, <2>3, <2>4 DEF BackInv
<1>3. CASE phase = "first" /\ (Files \/ Windows) /\ UNCHANGED <<saved, phase, at>>
  <2>1. fault' # "read_restart"
    BY <1>3, FirstFaults DEF BackInv
  <2>2. QED
    BY <1>1, <1>3, <2>1
<1>4. CASE write_restart \/ Quit
  <2>1. phase \in {"first", "saved"} /\ phase' = "saved" /\ UNCHANGED fault
    BY <1>4 DEF write_restart, Quit, vars
  <2>2. QED
    BY <1>1, <2>1 DEF BackInv
<1>5. CASE StartRead
  <2>1. /\ fault # "read_restart" /\ UNCHANGED fault /\ phase' = "reading" /\ at' = 0
    BY <1>5 DEF StartRead, BackInv, vars
  <2>2. RestoredTo(at)'
    BY <2>1 DEF RestoredTo, Slot
  <2>3. QED
    BY <2>1, <2>2 DEF BackInv, OrderlyRestores, SessionComesBack
<1>6. CASE ReadSlot \/ PaintSlot \/ ReadRestart
  BY <1>6, ReadSlotBack, PaintSlotBack, ReadRestartBack
<1>7. QED
  BY <1>2, <1>3, <1>4, <1>5, <1>6 DEF RestartNext

LEMMA BackInvHolds == RestartSpec => [](RestartInv /\ BackInv)
<1>1. RestartInit => RestartInv /\ BackInv
  BY RestartStart, BackStart
<1>2. RestartInv /\ BackInv /\ [RestartNext]_restartVars => (RestartInv /\ BackInv)'
  BY RestartStep, BackStep
<1>3. QED
  BY <1>1, <1>2, PTL DEF RestartSpec

\* read_restart (restart.c) does not follow NULL and leaves no table when it
\* reads an orderly session whose files are there, over the session that
\* saved it or in a new one, though it paints each slot while the slots after
\* it are still those of the old session.
THEOREM OrderlySessionsRestore == RestartSpec => []OrderlyRestores
<1>1. BackInv => OrderlyRestores
  BY DEF BackInv
<1>2. QED
  BY <1>1, BackInvHolds, PTL

\* ... and it brings the session back: each slot refers to the slots it did,
\* has the colours it had and shows its overlays, and no slot is left of the
\* session before (read_restart and ReadRestart in restart.c).
THEOREM SessionsComeBack == RestartSpec => []SessionComesBack
<1>1. BackInv => SessionComesBack
  BY DEF BackInv
<1>2. QED
  BY <1>1, BackInvHolds, PTL
=============================================================================
