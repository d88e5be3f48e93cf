-------------------------- MODULE ImageTableProofs --------------------------
(***************************************************************************)
(* Theorems about ImageTable, for any number of slots, planes and colours: *)
(* the numbers by which slots refer to each other are never ambiguous.     *)
(*                                                                         *)
(* Most handlers leave these numbers alone, though they rebuild the images *)
(* around them; Keeps says so, and is all the proof asks of them.  The     *)
(* push buttons and the handlers that make an image are the exceptions.    *)
(***************************************************************************)
EXTENDS ImageTable, CollectionLemmas

-----------------------------------------------------------------------------
(* The next plane *)

\* RGB_pushbutton gives a slot a plane that no slot has, or none.
LEMMA NextPlaneIsFree ==
  ASSUME NEW rgb \in [Slot -> 0..NPlanes], NEW s \in 0..NPlanes
  PROVE  /\ NextPlane(rgb, s) \in 0..NPlanes
         /\ NextPlane(rgb, s) # 0 => \A k \in Slot : rgb[k] # NextPlane(rgb, s)
<1> DEFINE free == {p \in (s + 1)..NPlanes : \A k \in Slot : rgb[k] # p}
<1>1. free \in SUBSET Nat
  BY SlotAssumption
<1>2. CASE free = {}
  BY <1>2, SlotAssumption DEF NextPlane
<1>3. CASE free # {}
  <2>1. Min(free) \in free
    BY <1>1, <1>3, MinInSet
  <2>2. NextPlane(rgb, s) = Min(free)
    BY <1>3 DEF NextPlane
  <2> HIDE DEF free
  <2>3. NextPlane(rgb, s) \in free
    BY <2>1, <2>2
  <2>4. QED
    BY <2>3, SlotAssumption DEF free
<1>4. QED
  BY <1>2, <1>3

-----------------------------------------------------------------------------
(* Images and tables of images *)

Fields == {"composite", "header", "band", "data", "ncolors", "rgb", "overlays",
           "sdata", "hold", "quant", "map", "lut"}

\* An image whose references to slots are in order.
Linked(img) ==
  /\ DOMAIN img = Fields
  /\ img.rgb \in [Slot -> 0..NPlanes]
  /\ img.overlays \subseteq Slot
  /\ \A i, k \in Slot : img.rgb[i] # 0 /\ i # k => img.rgb[i] # img.rgb[k]
  /\ \A i \in img.overlays : img.rgb[i] = 0

Tabled(T)  == T = [i \in Slot |-> T[i]]
Linkage(T) == Tabled(T) /\ \A j \in Slot : T[j] # NULL => Linked(T[j])

\* a is b with another ncolors, band, data, sdata or table.
SameLinks(a, b) ==
  /\ DOMAIN a = DOMAIN b
  /\ a.rgb = b.rgb /\ a.overlays = b.overlays /\ a.composite = b.composite

Keeps(T, U) ==
  /\ Tabled(U)
  /\ \A j \in Slot : U[j] = T[j] \/ (T[j] # NULL /\ SameLinks(U[j], T[j]))

\* The invariant: the references of every image are in order, and so are the
\* states of the buttons they are made from.
LinkInv ==
  /\ Linkage(Images)
  /\ sel \in Slot
  /\ rgbs \in [Slot -> 0..(NPlanes + 1)] /\ comps \in [Slot -> 0..2]
  /\ args \in 0..NIMAGE

\* No slot refers to itself, and the buttons of a selected line that could
\* make it do so are disabled.
ApartInv ==
  /\ \A j \in Slot : Exists(j) => Images[j].rgb[j] = 0 /\ j \notin Images[j].overlays
  /\ IsGray(sel) => rgbs[sel] = NPlanes + 1 /\ comps[sel] = 2

LEMMA KeepsRefl == ASSUME NEW T, Tabled(T) PROVE Keeps(T, T)
BY DEF Keeps

\* The step of every chain of edits: image j is edited outside its references.
LEMMA EditKeeps ==
  ASSUME NEW T, NEW U, Keeps(T, U), NEW j \in Slot, T[j] # NULL,
         NEW img, SameLinks(img, U[j])
  PROVE  Keeps(T, [U EXCEPT ![j] = img])
<1> DEFINE V == [U EXCEPT ![j] = img]
<1>1. Tabled(V) /\ V[j] = img /\ \A k \in Slot \ {j} : V[k] = U[k]
  BY DEF Keeps, Tabled
<1>2. SameLinks(img, T[j])
  BY DEF Keeps, SameLinks
<1> HIDE DEF V
<1>3. Keeps(T, V)
  BY <1>1, <1>2 DEF Keeps
<1>4. QED
  BY <1>3 DEF V

LEMMA KeepsLinkage ==
  ASSUME NEW T, NEW U, Linkage(T), Keeps(T, U)
  PROVE  Linkage(U)
<1>1. ASSUME NEW j \in Slot, U[j] # NULL PROVE Linked(U[j])
  <2>1. CASE U[j] = T[j]
    BY <2>1, <1>1 DEF Linkage
  <2>2. CASE T[j] # NULL /\ SameLinks(U[j], T[j])
    BY <2>2 DEF Linkage, Linked, SameLinks
  <2>3. QED
    BY <2>1, <2>2 DEF Keeps
<1>2. QED
  BY <1>1 DEF Linkage, Keeps

\* What Keeps starts from is a record with all the fields.
LEMMA KeptFields ==
  ASSUME NEW T, NEW U, Linkage(T), Keeps(T, U), NEW j \in Slot, T[j] # NULL
  PROVE  DOMAIN U[j] = Fields
BY DEF Linkage, Linked, Keeps, SameLinks

-----------------------------------------------------------------------------
(* Edits of one image *)

LEMMA LoadInfoLinks ==
  ASSUME NEW img, DOMAIN img = Fields
  PROVE  SameLinks(load_info(img), img)
BY DEF SameLinks, load_info, Fields

LEMMA ReadDataLinks ==
  ASSUME NEW img, DOMAIN img = Fields, NEW reads
  PROVE  SameLinks(ReadData(img, reads), img)
BY DEF SameLinks, ReadData, Fields

LEMMA StretchedLinks ==
  ASSUME NEW T, NEW j \in Slot, DOMAIN T[j] = Fields, NEW img \in Stretched(T, j)
  PROVE  SameLinks(img, T[j])
<1>1. SameLinks(T[j], T[j]) /\ SameLinks(stretch_gray(T[j]), T[j])
  BY DEF SameLinks, stretch_gray, Fields
<1>2. \A n : SameLinks(stretch_color(T[j], n), T[j])
  BY DEF SameLinks, stretch_color, Fields
<1>3. QED
  BY <1>1, <1>2 DEF Stretched

\* The images that handlers make refer to nothing.
LEMMA FreshImages ==
  /\ Linked(NewComposite) /\ NewComposite.composite = TRUE
  /\ \A kind : Linked(FileImage(kind))
  /\ \A kind, n : Linked([FileImage(kind) EXCEPT !.ncolors = n])
<1> USE SlotAssumption DEF Linked, Fields, allocate_image
<1>1. Linked(NewComposite) /\ NewComposite.composite = TRUE
  BY DEF NewComposite
<1>2. ASSUME NEW kind PROVE Linked(FileImage(kind))
  BY DEF FileImage
<1>3. ASSUME NEW kind, NEW n PROVE Linked([FileImage(kind) EXCEPT !.ncolors = n])
  BY DEF FileImage
<1>4. QED
  BY <1>1, <1>2, <1>3

LEMMA LinkedLoadInfo ==
  ASSUME NEW img, Linked(img)
  PROVE  Linked(load_info(img)) /\ load_info(img).composite = img.composite
BY LoadInfoLinks DEF SameLinks, Linked

-----------------------------------------------------------------------------
(* The handlers that keep every reference *)

\* Painting overlays makes tables and new indices, for the images painted and
\* the one they are painted on.
LEMMA UpdateDisplayKeeps ==
  ASSUME NEW T, NEW U, Linkage(T), Keeps(T, U), NEW j \in Slot, T[j] # NULL,
         ~OverlayFaults(U, j)
  PROVE  Keeps(T, update_display(U, j))
<1> DEFINE V == Quantized(U, j)
           s == [Base(U, j) EXCEPT !.over = @ \cup Paints(U, j),
                                   !.top  = Top(U, j, Paints(U, j))]
           h == IF U[j].overlays = {} THEN NULL ELSE Base(U, j)
<1>1. Keeps(T, V)
  <2>1. ASSUME NEW i \in Slot
        PROVE  V[i] = T[i] \/ (T[i] # NULL /\ SameLinks(V[i], T[i]))
    <3>1. CASE i \in U[j].overlays /\ U[i].quant = 0
      <4>1. U[i] # NULL
        BY <3>1 DEF OverlayFaults
      <4>2. T[i] # NULL
        BY <4>1 DEF Keeps
      <4>3. DOMAIN U[i] = Fields
        BY <4>2, KeptFields
      <4>4. V[i] = [U[i] EXCEPT !.quant = U[i].ncolors, !.map = IF @ = 0 THEN U[i].ncolors ELSE @]
        BY <3>1 DEF Quantized
      <4>5. SameLinks(V[i], U[i])
        BY <4>3, <4>4 DEF SameLinks, Fields
      <4>6. QED
        BY <4>2, <4>5 DEF Keeps, SameLinks
    <3>2. CASE ~(i \in U[j].overlays /\ U[i].quant = 0)
      BY <3>2 DEF Quantized, Keeps
    <3>3. QED
      BY <3>1, <3>2
  <2>2. Tabled(V)
    BY DEF Tabled, Quantized
  <2>3. QED
    BY <2>1, <2>2 DEF Keeps
<1>2. DOMAIN V[j] = Fields
  BY <1>1, KeptFields
<1>3. V = [i \in Slot |-> V[i]]
  BY <1>1 DEF Keeps, Tabled
<1>4. update_display(U, j) = [V EXCEPT ![j].sdata = s, ![j].hold = h]
  BY DEF update_display
<1> HIDE DEF V, s, h
<1>5. [V EXCEPT ![j].sdata = s, ![j].hold = h] = [V EXCEPT ![j] = [V[j] EXCEPT !.sdata = s, !.hold = h]]
  BY <1>3
<1>6. SameLinks([V[j] EXCEPT !.sdata = s, !.hold = h], V[j])
  BY <1>2 DEF SameLinks, Fields
<1>7. Keeps(T, [V EXCEPT ![j] = [V[j] EXCEPT !.sdata = s, !.hold = h]])
  BY <1>1, <1>6, EditKeeps, Zenon
<1>8. QED
  BY <1>4, <1>5, <1>7, Zenon

LEMMA LoadImageKeeps ==
  ASSUME LinkInv, NEW i \in Slot, LoadImage(i)
  PROVE  Keeps(Images, Images')
<1>1. Tabled(Images) /\ Linkage(Images)
  BY DEF LinkInv, Linkage
<1>2. CASE UNCHANGED Images
  BY <1>1, <1>2, KeepsRefl
<1>3. CASE ~UNCHANGED Images
  <2> DEFINE T(reads) == [Images EXCEPT ![i] = ReadData(@, reads)]
             U(reads, img) == [T(reads) EXCEPT ![i] = img]
  <2>1. /\ Images[i] # NULL
        /\ \E reads \in Reads : \E img \in Stretched(T(reads), i) :
             /\ Images' = IF Shows(img) THEN update_display(U(reads, img), i) ELSE U(reads, img)
             /\ Shows(img) => ~OverlayFaults(U(reads, img), i)
    BY <1>3, Zenon DEF LoadImage, Die, Exists
  <2> PICK reads \in Reads : \E img \in Stretched(T(reads), i) :
             /\ Images' = IF Shows(img) THEN update_display(U(reads, img), i) ELSE U(reads, img)
             /\ Shows(img) => ~OverlayFaults(U(reads, img), i)
    BY <2>1, Zenon
  <2> PICK img \in Stretched(T(reads), i) :
             /\ Images' = IF Shows(img) THEN update_display(U(reads, img), i) ELSE U(reads, img)
             /\ Shows(img) => ~OverlayFaults(U(reads, img), i)
    BY Zenon
  <2>2. DOMAIN Images[i] = Fields
    BY <1>1, <2>1 DEF Linkage, Linked
  <2>3. T(reads)[i] = ReadData(Images[i], reads)
    BY <1>1 DEF Tabled
  <2>4. SameLinks(T(reads)[i], Images[i])
    BY <2>2, <2>3, ReadDataLinks
  <2>5. Keeps(Images, T(reads))
    BY <1>1, <2>1, <2>2, <2>3, <2>4, KeepsRefl, EditKeeps
  <2> DOMAIN T(reads)[i] = Fields
    BY <2>2, <2>4, Zenon DEF SameLinks
  <2>6. SameLinks(img, T(reads)[i])
    BY StretchedLinks, Zenon
  <2>7. Keeps(Images, U(reads, img))
    BY <2>1, <2>5, <2>6, EditKeeps
  <2> HIDE DEF T, U
  <2>8. QED
    BY <1>1, <2>1, <2>7, UpdateDisplayKeeps
<1>4. QED
  BY <1>2, <1>3

\* A handler that keeps the references and the buttons keeps the invariants.
LEMMA KeepsInv ==
  ASSUME LinkInv, Keeps(Images, Images'), UNCHANGED <<sel, buttons>>, args' \in 0..NIMAGE
  PROVE  LinkInv' /\ (ApartInv => ApartInv')
<1>1. Linkage(Images)'
  BY KeepsLinkage DEF LinkInv, Linkage, Linked, Tabled
<1>2. LinkInv'
  BY <1>1 DEF LinkInv, buttons
<1>3. ASSUME ApartInv PROVE ApartInv'
  <2>1. ASSUME NEW j \in Slot, Exists(j)'
        PROVE  Exists(j) /\ Images'[j].rgb = Images[j].rgb /\ Images'[j].overlays = Images[j].overlays
    BY <2>1 DEF Keeps, SameLinks, Exists
  <2>2. IsGray(sel)' => IsGray(sel)
    BY DEF Keeps, SameLinks, IsGray, LinkInv
  <2>3. QED
    BY <1>3, <2>1, <2>2 DEF ApartInv, buttons
<1>4. QED
  BY <1>2, <1>3

LEMMA EditInv ==
  ASSUME LinkInv, Images[sel] # NULL, NEW img, SameLinks(img, Images[sel]),
         Images' = [Images EXCEPT ![sel] = img], UNCHANGED <<sel, buttons, args>>
  PROVE  LinkInv' /\ (ApartInv => ApartInv')
<1>1. Keeps(Images, Images)
  BY KeepsRefl DEF LinkInv, Linkage
<1>2. Keeps(Images, Images')
  BY <1>1, EditKeeps, Zenon DEF LinkInv
<1>3. QED
  BY <1>2, KeepsInv DEF LinkInv

LEMMA HeaderFieldsInv ==
  ASSUME LinkInv,
         \/ load_band
         \/ \E n \in ColorChoices : load_ncolors(n)
         \/ \E bands \in BOOLEAN : GetInput(bands)
  PROVE  LinkInv' /\ (ApartInv => ApartInv')
<1> DEFINE img == Images[sel]
<1>1. ASSUME Images[sel] # NULL PROVE DOMAIN img = Fields
  BY <1>1 DEF LinkInv, Linkage, Linked
<1>2. CASE load_band
  <2>1. CASE ~Exists(sel)
    <3>1. UNCHANGED <<Images, sel, buttons, args>>
      BY <1>2, <2>1 DEF load_band, IsGray, Exists, Die
    <3>2. Keeps(Images, Images')
      BY <3>1, KeepsRefl DEF LinkInv, Linkage
    <3>3. QED
      BY <3>1, <3>2, KeepsInv DEF LinkInv
  <2>2. CASE Exists(sel)
    <3>1. SameLinks([img EXCEPT !.band = TRUE, !.data = FALSE], img)
      BY <1>1, <2>2 DEF SameLinks, Fields, Exists
    <3>2. Images' = [Images EXCEPT ![sel] = [img EXCEPT !.band = TRUE, !.data = FALSE]]
      BY <1>2, <2>2 DEF load_band, LinkInv, Linkage, Tabled
    <3>3. UNCHANGED <<sel, buttons, args>>
      BY <1>2, <2>2 DEF load_band
    <3>4. QED
      BY <2>2, <3>1, <3>2, <3>3, EditInv, Zenon DEF Exists
  <2>3. QED
    BY <2>1, <2>2
<1>3. ASSUME NEW n \in ColorChoices, load_ncolors(n) PROVE LinkInv' /\ (ApartInv => ApartInv')
  <2>1. img # NULL
    BY <1>3 DEF load_ncolors, Exists
  <2>2. SameLinks([img EXCEPT !.ncolors = n], img)
    BY <1>1, <2>1 DEF SameLinks, Fields
  <2>3. SameLinks(load_info([img EXCEPT !.ncolors = n]), img)
    BY <1>1, <2>1, <2>2, LoadInfoLinks DEF SameLinks
  <2>4. Images' = [Images EXCEPT ![sel] = load_info([img EXCEPT !.ncolors = n])]
    BY <1>3 DEF load_ncolors
  <2>5. UNCHANGED <<sel, buttons, args>>
    BY <1>3 DEF load_ncolors
  <2>6. QED
    BY <2>1, <2>3, <2>4, <2>5, EditInv, Zenon
<1>4. ASSUME NEW bands \in BOOLEAN, GetInput(bands) PROVE LinkInv' /\ (ApartInv => ApartInv')
  <2>1. CASE ~Exists(sel)
    <3>1. UNCHANGED <<Images, sel, buttons, args>>
      BY <1>4, <2>1 DEF GetInput, Die
    <3>2. Keeps(Images, Images')
      BY <3>1, KeepsRefl DEF LinkInv, Linkage
    <3>3. QED
      BY <3>1, <3>2, KeepsInv DEF LinkInv
  <2>2. CASE Exists(sel)
    <3>1. SameLinks([img EXCEPT !.header = bands], img)
      BY <1>1, <2>2 DEF SameLinks, Fields, Exists
    <3>2. Images' = [Images EXCEPT ![sel] = [img EXCEPT !.header = bands]]
      BY <1>4, <2>2 DEF GetInput, LinkInv, Linkage, Tabled
    <3>3. UNCHANGED <<sel, buttons, args>>
      BY <1>4, <2>2 DEF GetInput
    <3>4. QED
      BY <2>2, <3>1, <3>2, <3>3, EditInv, Zenon DEF Exists
  <2>3. QED
    BY <2>1, <2>2
<1>5. QED
  BY <1>2, <1>3, <1>4

-----------------------------------------------------------------------------
(* The handlers that put an image in a slot *)

LEMMA PutLinkage ==
  ASSUME NEW T, Linkage(T), NEW j \in Slot, NEW img, img = NULL \/ Linked(img)
  PROVE  Linkage([T EXCEPT ![j] = img])
BY DEF Linkage, Tabled

LEMMA ButtonTypes ==
  ASSUME NEW T, Linkage(T), NEW n \in Slot, UpdatePushButtons(T, n)
  PROVE  /\ rgbs' \in [Slot -> 0..(NPlanes + 1)] /\ comps' \in [Slot -> 0..2]
         /\ rgbs'[n] = NPlanes + 1 /\ comps'[n] = 2
<1> USE SlotAssumption
<1>1. ASSUME NEW i \in Slot, T[n] # NULL
      PROVE  T[n].rgb[i] \in 0..(NPlanes + 1)
  BY <1>1 DEF Linkage, Linked
<1>2. rgbs' \in [Slot -> 0..(NPlanes + 1)]
  BY <1>1 DEF UpdatePushButtons
<1>3. comps' \in [Slot -> 0..2]
  BY DEF UpdatePushButtons
<1>4. QED
  BY <1>2, <1>3 DEF UpdatePushButtons

LEMMA SelectSlotInv ==
  ASSUME LinkInv, NEW i \in Slot, SelectSlot(i)
  PROVE  LinkInv' /\ (ApartInv => ApartInv')
<1>1. Keeps(Images, Images) /\ Linkage(Images)
  BY KeepsRefl DEF LinkInv, Linkage
<1>2. Images' = [Images EXCEPT ![i] = load_info(Images[i])]
  BY DEF SelectSlot
<1>3. Keeps(Images, Images')
  <2>1. CASE Images[i] = NULL
    <3>1. Images' = Images
      BY <1>1, <1>2, <2>1 DEF load_info, Linkage, Tabled
    <3>2. QED
      BY <1>1, <3>1
  <2>2. CASE Images[i] # NULL
    <3>1. SameLinks(load_info(Images[i]), Images[i])
      BY <1>1, <2>2, LoadInfoLinks DEF Linkage, Linked
    <3>2. QED
      BY <1>1, <1>2, <2>2, <3>1, EditKeeps, Zenon
  <2>3. QED
    BY <2>1, <2>2
<1>4. UpdatePushButtons(Images, i) /\ sel' = i /\ args' = args
  BY DEF SelectSlot
<1>5. LinkInv'
  BY <1>1, <1>3, <1>4, KeepsLinkage, ButtonTypes DEF LinkInv
<1>6. ASSUME ApartInv PROVE ApartInv'
  <2>1. ASSUME NEW j \in Slot, Exists(j)'
        PROVE  Exists(j) /\ Images'[j].rgb = Images[j].rgb /\ Images'[j].overlays = Images[j].overlays
    BY <1>3, <2>1 DEF Keeps, SameLinks, Exists
  <2>2. rgbs'[sel'] = NPlanes + 1 /\ comps'[sel'] = 2
    BY <1>1, <1>4, ButtonTypes
  <2>3. QED
    BY <1>6, <2>1, <2>2 DEF ApartInv
<1>7. QED
  BY <1>5, <1>6

\* An image without references goes into the line that is then selected.
LEMMA FreshInv ==
  ASSUME LinkInv, NEW n \in Slot, NEW img,
         img = NULL \/ (Linked(img) /\ img.rgb = [i \in Slot |-> 0] /\ img.overlays = {}),
         Images' = [Images EXCEPT ![n] = img],
         UpdatePushButtons(Images', n), sel' \in Slot, args' \in 0..NIMAGE
  PROVE  LinkInv' /\ (ApartInv /\ sel' = n => ApartInv')
<1>1. Linkage(Images)'
  <2>1. Linkage([Images EXCEPT ![n] = img])
    BY PutLinkage DEF LinkInv
  <2>2. QED
    BY <2>1 DEF Linkage, Tabled, Linked
<1>2. /\ rgbs' \in [Slot -> 0..(NPlanes + 1)] /\ comps' \in [Slot -> 0..2]
      /\ rgbs'[n] = NPlanes + 1 /\ comps'[n] = 2
  <2> DEFINE T == Images'
  <2>1. Linkage(T)
    BY <1>1 DEF Linkage, Tabled, Linked
  <2> HIDE DEF T
  <2>2. UpdatePushButtons(T, n)
    BY DEF T
  <2>3. QED
    BY <2>1, <2>2, ButtonTypes
<1>3. LinkInv'
  BY <1>1, <1>2 DEF LinkInv
<1>4. ASSUME ApartInv, sel' = n PROVE ApartInv'
  <2>1. ASSUME NEW j \in Slot, Exists(j)'
        PROVE  Images'[j].rgb[j] = 0 /\ j \notin Images'[j].overlays
    BY <1>4, <2>1 DEF ApartInv, Exists, LinkInv, Linkage, Tabled
  <2>2. QED
    BY <1>2, <1>4, <2>1 DEF ApartInv
<1>5. QED
  BY <1>3, <1>4

LEMMA NewFileInv ==
  ASSUME LinkInv, NEW kind \in OpenFiles, NewFile(kind)
  PROVE  LinkInv' /\ (ApartInv => ApartInv')
<1> DEFINE new == FileImage(kind)
           img == IF kind = "none" THEN new ELSE load_info(new)
<1>1. Linked(new) /\ new.rgb = [i \in Slot |-> 0] /\ new.overlays = {}
  BY FreshImages DEF FileImage, allocate_image
<1>2. Linked(img) /\ img.rgb = [i \in Slot |-> 0] /\ img.overlays = {}
  BY <1>1, LoadInfoLinks DEF SameLinks, Linked
<1> HIDE DEF new
<1>3. /\ Images' = [Images EXCEPT ![sel] = img]
      /\ UpdatePushButtons(Images', sel)
      /\ sel' = sel /\ args' = args
  BY DEF NewFile, new
<1> HIDE DEF img
<1>4. QED
  BY <1>2, <1>3, FreshInv DEF LinkInv

LEMMA CommandLineInv ==
  ASSUME LinkInv, CommandLine
  PROVE  LinkInv' /\ ("none" \notin StartFiles /\ ApartInv => ApartInv')
<1> USE SlotAssumption
<1>1. ASSUME UNCHANGED <<Images, sel, buttons>>, args' \in 0..NIMAGE
      PROVE  LinkInv' /\ (ApartInv => ApartInv')
  BY <1>1, KeepsRefl, KeepsInv DEF LinkInv, Linkage
<1>2. CASE EndOfArgs
  BY <1>1, <1>2 DEF EndOfArgs
<1>3. ASSUME NEW kind \in StartFiles, NEW n, off_load_filename(kind, n)
      PROVE  LinkInv' /\ ("none" \notin StartFiles /\ ApartInv => ApartInv')
  <2>1. args \in Slot /\ args' \in 0..NIMAGE
    BY <1>3 DEF off_load_filename, Slot, LinkInv
  <2>2. CASE kind = "missing"
    BY <1>1, <1>3, <2>1, <2>2 DEF off_load_filename
  <2>3. CASE kind # "missing"
    <3> DEFINE new == [FileImage(kind) EXCEPT !.ncolors = n]
               img == IF kind = "none" THEN new ELSE load_info(new)
    <3>1. Linked(new) /\ new.rgb = [i \in Slot |-> 0] /\ new.overlays = {}
      BY FreshImages DEF FileImage, allocate_image
    <3>2. Linked(img) /\ img.rgb = [i \in Slot |-> 0] /\ img.overlays = {}
      BY <3>1, LoadInfoLinks DEF SameLinks, Linked
    <3> HIDE DEF new
    <3>3. /\ Images' = [Images EXCEPT ![args] = img]
          /\ UpdatePushButtons(Images', args)
          /\ sel' = IF kind = "none" THEN sel ELSE args
      BY <1>3, <2>3 DEF off_load_filename, new
    <3> HIDE DEF img
    <3>4. QED
      BY <2>1, <3>2, <3>3, FreshInv DEF LinkInv
  <2>4. QED
    BY <2>2, <2>3
<1>4. QED
  BY <1>2, <1>3 DEF CommandLine

-----------------------------------------------------------------------------
(* The push buttons *)

\* A slot that gets a free plane, or none, and leaves the overlays.
LEMMA SetPlaneLinked ==
  ASSUME NEW img, Linked(img), NEW i \in Slot, NEW p \in 0..NPlanes,
         p # 0 => \A k \in Slot : img.rgb[k] # p
  PROVE  /\ Linked(SetPlane(img, i, p))
         /\ SetPlane(img, i, p).composite = img.composite
         /\ \A j \in Slot \ {i} : /\ SetPlane(img, i, p).rgb[j] = img.rgb[j]
                                  /\ j \in SetPlane(img, i, p).overlays <=> j \in img.overlays
<1> DEFINE new == SetPlane(img, i, p)
<1>1. /\ DOMAIN new = Fields
      /\ new.rgb = [img.rgb EXCEPT ![i] = p]
      /\ new.overlays = img.overlays \ {i}
      /\ new.composite = img.composite
  BY DEF SetPlane, Linked, Fields
<1> HIDE DEF new
<1>2. /\ new.rgb \in [Slot -> 0..NPlanes]
      /\ new.rgb[i] = p
      /\ \A j \in Slot \ {i} : new.rgb[j] = img.rgb[j]
  BY <1>1 DEF Linked
<1>3. \A j, k \in Slot : new.rgb[j] # 0 /\ j # k => new.rgb[j] # new.rgb[k]
  BY <1>2 DEF Linked
<1>4. \A j \in new.overlays : new.rgb[j] = 0
  BY <1>1, <1>2 DEF Linked
<1>5. Linked(new)
  BY <1>1, <1>2, <1>3, <1>4 DEF Linked
<1>6. QED
  BY <1>1, <1>2, <1>5 DEF new

\* No button of the selected line can make its slot refer to itself.
LEMMA OtherSlot ==
  ASSUME ApartInv, NEW i \in Slot, IsGray(i), rgbs[i] \in 0..NPlanes \/ comps[i] \in {0, 1}
  PROVE  i # sel
BY SlotAssumption DEF ApartInv

LEMMA RGBInv ==
  ASSUME LinkInv, NEW i \in Slot, RGB_pushbutton(i)
  PROVE  LinkInv' /\ (ApartInv => ApartInv')
<1> DEFINE img == IF Exists(sel) THEN Images[sel] ELSE NewComposite
           p   == NextPlane(img.rgb, rgbs[i])
           new == SetPlane(img, i, p)
           put == IF \A k \in Slot : new.rgb[k] = 0 THEN NULL ELSE load_info(new)
<1>1. /\ rgbs[i] \in 0..NPlanes /\ IsGray(i) /\ (Exists(sel) => Images[sel].composite)
      /\ rgbs' = [rgbs EXCEPT ![i] = p] /\ comps' = [comps EXCEPT ![i] = 0]
      /\ Images' = [Images EXCEPT ![sel] = put]
      /\ sel' = sel /\ args' = args
  BY DEF RGB_pushbutton
<1>2. Linked(img) /\ img.composite
  BY <1>1, FreshImages DEF LinkInv, Linkage, Exists
<1>3. p \in 0..NPlanes /\ (p # 0 => \A k \in Slot : img.rgb[k] # p)
  BY <1>1, <1>2, NextPlaneIsFree DEF Linked
<1> HIDE DEF p
<1>4. /\ Linked(new) /\ new.composite
      /\ \A j \in Slot \ {i} : /\ new.rgb[j] = img.rgb[j]
                               /\ j \in new.overlays <=> j \in img.overlays
  BY <1>2, <1>3, SetPlaneLinked
<1> HIDE DEF new
<1>5. /\ put = NULL \/ Linked(put)
      /\ put # NULL => /\ put.composite
                       /\ put.rgb = new.rgb /\ put.overlays = new.overlays
  BY <1>4, LoadInfoLinks DEF SameLinks, Linked
<1> HIDE DEF put
<1>6. LinkInv'
  <2>1. Linkage([Images EXCEPT ![sel] = put])
    BY <1>5, PutLinkage DEF LinkInv
  <2>2. rgbs' \in [Slot -> 0..(NPlanes + 1)] /\ comps' \in [Slot -> 0..2]
    BY <1>1, <1>3, SlotAssumption DEF LinkInv
  <2>3. Linkage(Images')
    BY <1>1, <2>1
  <2>4. QED
    BY <1>1, <2>2, <2>3 DEF LinkInv, Linkage, Tabled, Linked
<1>7. ASSUME ApartInv PROVE ApartInv'
  <2>1. i # sel
    BY <1>1, <1>7, OtherSlot
  <2>2. Images'[sel] = put /\ \A j \in Slot \ {sel} : Images'[j] = Images[j]
    BY <1>1 DEF LinkInv, Linkage, Tabled
  <2>3. img.rgb[sel] = 0 /\ sel \notin img.overlays
    <3>1. CASE Exists(sel)
      BY <3>1, <1>7 DEF ApartInv, LinkInv
    <3>2. CASE ~Exists(sel)
      BY <3>2 DEF NewComposite, allocate_image, LinkInv
    <3>3. QED
      BY <3>1, <3>2
  <2>4. put # NULL => put.rgb[sel] = 0 /\ sel \notin put.overlays
    BY <1>4, <1>5, <2>1, <2>3 DEF LinkInv
  <2>5. ASSUME NEW j \in Slot, Exists(j)'
        PROVE  Images'[j].rgb[j] = 0 /\ j \notin Images'[j].overlays
    BY <1>7, <2>2, <2>4, <2>5 DEF ApartInv, Exists
  <2>6. ~IsGray(sel)'
    BY <1>1, <1>5, <2>2 DEF IsGray
  <2>7. QED
    BY <2>5, <2>6 DEF ApartInv
<1>8. QED
  BY <1>6, <1>7

LEMMA OverlayInv ==
  ASSUME LinkInv, NEW i \in Slot, overlay_pushbutton(i)
  PROVE  LinkInv' /\ (ApartInv => ApartInv')
<1> DEFINE kept == IF comps[i] = 0 THEN Images[sel].overlays \cup {i}
                   ELSE Images[sel].overlays \ {i}
<1>1. CASE UNCHANGED <<Images, sel, buttons, args>>
  BY <1>1, KeepsRefl, KeepsInv DEF LinkInv, Linkage
<1>2. ASSUME ~UNCHANGED <<Images, sel, buttons, args>>
      PROVE  LinkInv' /\ (ApartInv => ApartInv')
  <2>1. PICK taken \in SUBSET kept :
          /\ Images' = [Images EXCEPT ![sel].rgb[i] = 0, ![sel].overlays = taken]
          /\ rgbs' = [rgbs EXCEPT ![i] = 0]
          /\ comps' = [comps EXCEPT ![i] = IF i \in taken THEN 1 ELSE 0]
    <3> DEFINE total == Images[sel].ncolors + ColorsIn(Images, kept)
               t     == IF TooMany(total) THEN kept \ {i} ELSE kept
    <3>1. /\ Images' = [Images EXCEPT ![sel].rgb[i] = 0, ![sel].overlays = t]
          /\ rgbs' = [rgbs EXCEPT ![i] = 0]
          /\ comps' = [comps EXCEPT ![i] = IF i \in t THEN 1 ELSE 0]
      BY <1>2, Zenon DEF overlay_pushbutton, Die
    <3> HIDE DEF kept, total
    <3>2. t \in SUBSET kept
      OBVIOUS
    <3> HIDE DEF t
    <3>3. QED
      BY <3>1, <3>2
  <2>2. /\ comps[i] \in {0, 1} /\ Exists(sel) /\ IsGray(i)
        /\ sel' = sel /\ args' = args
    BY <1>2 DEF overlay_pushbutton, Die
  <2> DEFINE old == Images[sel]
             new == [old EXCEPT !.rgb[i] = 0, !.overlays = taken]
  <2>3. Linked(old)
    BY <2>2 DEF LinkInv, Linkage, Exists
  <2>4. /\ DOMAIN new = Fields /\ new.composite = old.composite
        /\ new.rgb = [old.rgb EXCEPT ![i] = 0] /\ new.overlays = taken
    BY <2>3 DEF Linked, Fields
  <2>5. taken \subseteq old.overlays \cup {i}
    OBVIOUS
  <2>6. Images' = [Images EXCEPT ![sel] = new]
    BY <2>1 DEF LinkInv, Linkage, Tabled
  <2> HIDE DEF old, new, kept
  <2>7. /\ new.rgb \in [Slot -> 0..NPlanes] /\ new.rgb[i] = 0
        /\ \A j \in Slot \ {i} : new.rgb[j] = old.rgb[j]
    BY <2>3, <2>4, SlotAssumption DEF Linked
  <2>8. Linked(new)
    BY <2>3, <2>4, <2>5, <2>7 DEF Linked
  <2>9. LinkInv'
    <3>1. Linkage([Images EXCEPT ![sel] = new])
      BY <2>8, PutLinkage DEF LinkInv
    <3>2. rgbs' \in [Slot -> 0..(NPlanes + 1)] /\ comps' \in [Slot -> 0..2]
      BY <2>1, SlotAssumption DEF LinkInv
    <3>3. Linkage(Images')
      BY <2>6, <3>1
    <3>4. QED
      BY <2>2, <3>2, <3>3 DEF LinkInv, Linkage, Tabled, Linked
  <2>10. ASSUME ApartInv PROVE ApartInv'
    <3>1. i # sel
      BY <2>2, <2>10, OtherSlot
    <3>2. Images'[sel] = new /\ \A j \in Slot \ {sel} : Images'[j] = Images[j]
      BY <2>6 DEF LinkInv, Linkage, Tabled
    <3>3. old.rgb[sel] = 0 /\ sel \notin old.overlays
      BY <2>2, <2>10 DEF ApartInv, LinkInv, old
    <3>4. new.rgb[sel] = 0 /\ sel \notin new.overlays
      BY <2>4, <2>5, <2>7, <3>1, <3>3 DEF LinkInv
    <3>5. ASSUME NEW j \in Slot, Exists(j)'
          PROVE  Images'[j].rgb[j] = 0 /\ j \notin Images'[j].overlays
      BY <2>10, <3>2, <3>4, <3>5 DEF ApartInv, Exists
    <3>6. rgbs'[sel] = rgbs[sel] /\ comps'[sel] = comps[sel]
      BY <2>1, <3>1 DEF LinkInv
    <3>7. IsGray(sel)' => IsGray(sel)
      BY <2>2, <2>4, <3>2 DEF IsGray, Exists, old
    <3>8. QED
      BY <2>2, <2>10, <3>5, <3>6, <3>7 DEF ApartInv
  <2>11. QED
    BY <2>9, <2>10
<1>3. QED
  BY <1>1, <1>2

-----------------------------------------------------------------------------
(* All steps *)

LEMMA DeleteImageInv ==
  ASSUME LinkInv, DeleteImage
  PROVE  LinkInv' /\ (ApartInv => ApartInv')
<1>1. /\ Images' = [Images EXCEPT ![sel] = NULL]
      /\ UNCHANGED <<sel, rgbs, comps, args>>
  BY DEF DeleteImage, buttons
<1>2. Linkage([Images EXCEPT ![sel] = NULL])
  BY PutLinkage DEF LinkInv
<1>3. Linkage(Images')
  BY <1>1, <1>2
<1>4. LinkInv'
  BY <1>1, <1>3 DEF LinkInv, Linkage, Tabled, Linked
<1>5. Images'[sel] = NULL /\ \A j \in Slot \ {sel} : Images'[j] = Images[j]
  BY <1>1 DEF LinkInv, Linkage, Tabled
<1>6. ASSUME ApartInv PROVE ApartInv'
  BY <1>1, <1>5, <1>6 DEF ApartInv, Exists, IsGray
<1>7. QED
  BY <1>4, <1>6

LEMMA LoadImageInv ==
  ASSUME LinkInv, NEW i \in Slot, LoadImage(i)
  PROVE  LinkInv' /\ (ApartInv => ApartInv')
<1>1. Keeps(Images, Images')
  BY LoadImageKeeps
<1>2. UNCHANGED <<sel, buttons, args>>
  BY Zenon DEF LoadImage, Die
<1>3. QED
  BY <1>1, <1>2, KeepsInv DEF LinkInv

LEMMA FilesWindowInv ==
  ASSUME LinkInv, FilesWindow
  PROVE  LinkInv' /\ (ApartInv => ApartInv')
BY SelectSlotInv, RGBInv, OverlayInv, NewFileInv, HeaderFieldsInv, DeleteImageInv, LoadImageInv
   DEF FilesWindow

LEMMA LinkInvInit == Init => LinkInv /\ ApartInv
<1> SUFFICES ASSUME Init PROVE LinkInv /\ ApartInv
  OBVIOUS
<1> USE SlotAssumption DEF Init
<1>1. LinkInv
  BY DEF LinkInv, Linkage, Tabled, Slot
<1>2. ApartInv
  BY DEF ApartInv, Exists, IsGray, Slot
<1>3. QED
  BY <1>1, <1>2

LEMMA LinkInvStep ==
  ASSUME LinkInv, [Next]_vars
  PROVE  LinkInv' /\ ("none" \notin StartFiles /\ ApartInv => ApartInv')
<1>1. CASE FilesWindow
  BY <1>1, FilesWindowInv
<1>2. CASE CommandLine
  BY <1>2, CommandLineInv
<1>3. CASE UNCHANGED vars
  <2>1. UNCHANGED <<Images, sel, buttons, args>>
    BY <1>3 DEF vars
  <2>2. QED
    BY <2>1, KeepsRefl, KeepsInv DEF LinkInv, Linkage
<1>4. QED
  BY <1>1, <1>2, <1>3 DEF Next

\* The references of the slots are always in order.
THEOREM AlwaysLinked == Spec => []LinkInv
<1>1. LinkInv /\ [Next]_vars => LinkInv'
  BY LinkInvStep
<1>2. QED
  BY <1>1, LinkInvInit, PTL DEF Spec

\* No two planes of a composite have the same number, whatever the state of
\* the push buttons was when they were clicked: stretch_color (image.c:251)
\* finds every place of its array filled.
THEOREM PlanesAreDistinct == Spec => []PlanesDistinct
<1>1. LinkInv => PlanesDistinct
  BY DEF LinkInv, Linkage, Linked, PlanesDistinct, Planes, Exists
<1>2. QED
  BY <1>1, AlwaysLinked, PTL

\* No slot is plane and overlay of the same image: RGB_pushbutton and
\* overlay_pushbutton each take back what the other has given.
THEOREM RolesAreDisjoint == Spec => []OneRole
<1>1. LinkInv => OneRole
  BY DEF LinkInv, Linkage, Linked, OneRole, Planes, Exists
<1>2. QED
  BY <1>1, AlwaysLinked, PTL

\* No slot is a plane or an overlay of itself, unless a file without a header
\* is named on the command line: off_load_filename returns early for it
\* (composite.c:813), with the buttons set for a line that is not selected.
THEOREM NeverOwnPart ==
  ASSUME "none" \notin StartFiles
  PROVE  Spec => []NoSelfUse
<1>1. LinkInv /\ ApartInv /\ [Next]_vars => LinkInv' /\ ApartInv'
  BY LinkInvStep
<1>2. LinkInv /\ ApartInv => NoSelfUse
  BY DEF ApartInv, NoSelfUse, Planes, Exists
<1>3. QED
  BY <1>1, <1>2, LinkInvInit, PTL DEF Spec
=============================================================================
