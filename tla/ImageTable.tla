----------------------------- MODULE ImageTable -----------------------------
(***************************************************************************)
(* The image slots and the Files Window: src/pw/composite.c, with the      *)
(* parts of image.c and quant.c that build a slot's display indices.       *)
(*                                                                         *)
(* A slot holds a band of a file or a composite whose planes are other     *)
(* slots; either may have overlays, which are other slots again.  Slots    *)
(* refer to each other by number only, and the buttons of the window keep  *)
(* a state of their own which the handlers bring up to date or do not.     *)
(*                                                                         *)
(* Pixels are abstracted to what they index: sdata is the highest colour   *)
(* slot in it (before the cast to unsigned char), the overlays painted on  *)
(* it and whether it comes from the last computation of the image.         *)
(* Geometry (subsets) is not modelled.                                     *)
(***************************************************************************)
EXTENDS Integers, FiniteSets, FiniteSetsExt, Functions

CONSTANTS
  NIMAGE,        \* number of slots (26 in image.h)
  NPlanes,       \* planes of a composite (3 in image.c)
  NColors,       \* colours to share out (220 in pw.c)
  DefaultColors, \* the colours of a new image (128 in composite.c)
  ColorChoices,  \* what the user types for "# colors" and after -c
  StartFiles,    \* the kinds of file named on the command line
  OpenFiles,     \* the kinds of file opened in the Files Window
  Reads,         \* whether a data file can be opened, when it is read
  NULL

Slot == 0..(NIMAGE - 1)

\* A file with no known header, with one band, with several bands; for the
\* command line also one band of several (-all) and a name that is no file.
FileKind == {"none", "single", "multi"}

ASSUME SlotAssumption  == NIMAGE \in Nat \ {0} /\ NPlanes \in Nat \ {0}
ASSUME ColorAssumption ==
  /\ NColors \in Nat \ {0, 1}
  /\ DefaultColors \in 1..(NColors - 1) /\ ColorChoices \subseteq 1..NColors
ASSUME FileAssumption  ==
  /\ StartFiles \subseteq FileKind \cup {"band", "missing"}
  /\ OpenFiles \subseteq FileKind
  /\ Reads \subseteq BOOLEAN

VARIABLES
  Images,  \* [Slot -> NULL or an image]
  sel,     \* R->fnames->ext, the slot under the grey bar
  rgbs,    \* the plane button of each slot, for the selected one; NPlanes+1 is disabled
  comps,   \* its overlay button; 2 is disabled
  letter,  \* its file letter: 1 is red, "click to load"
  args,    \* command-line files read; NIMAGE once the window is up
  fault    \* the handler that followed NULL or left a table, or "none"

buttons == <<rgbs, comps>>
vars == <<Images, sel, buttons, letter, args, fault>>

Indices == [top : Nat, over : SUBSET Slot, fresh : BOOLEAN]
Image == [composite : BOOLEAN, header : BOOLEAN, band : BOOLEAN, data : BOOLEAN,
          ncolors : 1..NColors, rgb : [Slot -> 0..NPlanes], overlays : SUBSET Slot,
          sdata : Indices \cup {NULL},
          hold  : Indices \cup {NULL},  \* image_hold: sdata before its overlays
          quant : 0..NColors,           \* length of the overlay table, 0 if NULL
          map   : 0..NColors,           \* length of the transfer map, 0 if NULL
          lut   : 0..NColors]           \* length of a composite's own Colors

ASSUME NullAssumption == NULL \notin Image /\ NULL \notin Indices

\* header: bands > 0.  band: band >= 0.
allocate_image ==
  [composite |-> FALSE, header |-> FALSE, band |-> FALSE, data |-> FALSE,
   ncolors |-> DefaultColors, rgb |-> [i \in Slot |-> 0], overlays |-> {},
   sdata |-> NULL, hold |-> NULL, quant |-> 0, map |-> 0, lut |-> 0]

FileImage(kind) ==
  [allocate_image EXCEPT !.header = kind # "none", !.band = kind \in {"single", "band"}]

NewComposite == [allocate_image EXCEPT !.composite = TRUE, !.band = TRUE, !.ncolors = NColors]

\* load_info shows an image in the window and clamps its colours.
load_info(img) ==
  IF img = NULL THEN NULL
  ELSE [img EXCEPT !.ncolors = IF @ >= NColors THEN NColors - 1 ELSE @]

Exists(i) == Images[i] # NULL
IsGray(i) == Images[i] # NULL /\ ~Images[i].composite

AllButtons(T, n) ==
  LET Disabled(i) == T[i] = NULL \/ T[i].composite IN
  /\ rgbs'  = [i \in Slot |-> IF Disabled(i) THEN NPlanes + 1
                              ELSE IF T[n] = NULL THEN 0 ELSE T[n].rgb[i]]
  /\ comps' = [i \in Slot |-> IF Disabled(i) THEN 2
                              ELSE IF T[n] # NULL /\ i \in T[n].overlays THEN 1 ELSE 0]
UpdatePushButtons(T, n) ==
  LET Disabled(i) == T[i] = NULL \/ T[i].composite \/ i = n IN
  /\ rgbs'  = [i \in Slot |-> IF Disabled(i) THEN NPlanes + 1
                              ELSE IF T[n] = NULL THEN 0 ELSE T[n].rgb[i]]
  /\ comps' = [i \in Slot |-> IF Disabled(i) THEN 2
                              ELSE IF T[n] # NULL /\ i \in T[n].overlays THEN 1 ELSE 0]

FlagForLoad(i)   == letter' = [letter EXCEPT ![i] = 1]
UnFlagForLoad(i) == letter' = [letter EXCEPT ![i] = 0]

Ready == fault = "none" /\ args = NIMAGE

\* The handlers that can die, here and in the modules over this one
Handler ==
  {"none", "overlay_pushbutton", "load_band", "GetInput", "LoadImage", "create_image", "load_image",
   "colorspread", "Redisplay", "iwindow_callback", "pan_image", "read_restart"}

\* The handler follows NULL or leaves a table; what comes after is not modelled.
Die(handler) == fault' = handler /\ UNCHANGED <<Images, sel, buttons, letter, args>>

-----------------------------------------------------------------------------
(* update_display and overlay: paint the overlays of j in the slots above  *)
(* its own.  T is the table of images.                                     *)

ColorsIn(T, S) == SumFunction([k \in S |-> T[k].ncolors])

Start(T, j, i) == T[j].ncolors + ColorsIn(T, {k \in T[j].overlays : k < i})

Paints(T, j) == {i \in T[j].overlays : Start(T, j, i) <= NColors}

\* What the overlays are painted on: image_hold, or sdata as it was loaded.
BaseNoHold(T, j) == T[j].sdata
Base(T, j) == IF T[j].hold # NULL THEN T[j].hold ELSE T[j].sdata

Top(T, j, painted) ==
  Max({Base(T, j).top} \cup {Start(T, j, i) + T[i].ncolors + 1 : i \in painted})

\* quantize buckets the indices of i, which may be j itself half painted.
QuantizeFaults(T, j, i) ==
  \/ T[i].sdata = NULL
  \/ /\ T[i].sdata # NULL
     /\ (IF i = j THEN Top(T, j, {k \in Paints(T, j) : k < i}) ELSE T[i].sdata.top)
          > T[i].ncolors + 1

OverlayFaults(T, j) ==
  \/ \E i \in T[j].overlays : T[i] = NULL
  \/ /\ \A i \in T[j].overlays : T[i] # NULL
     /\ \/ \E i \in T[j].overlays : T[i].quant = 0 /\ QuantizeFaults(T, j, i)
        \/ \E i \in Paints(T, j) : \/ T[i].quant # 0 /\ Min({T[i].quant, T[i].map}) < T[i].ncolors
                                   \/ T[i].map # 0 /\ T[i].map < T[i].ncolors

\* Tables are made once and kept; default_map likewise.
Quantized(T, j) ==
  [i \in Slot |->
     IF i \in T[j].overlays /\ T[i].quant = 0
     THEN [T[i] EXCEPT !.quant = T[i].ncolors, !.map = IF @ = 0 THEN T[i].ncolors ELSE @]
     ELSE T[i]]

update_display(T, j) ==
  [Quantized(T, j) EXCEPT
     ![j].sdata = [Base(T, j) EXCEPT !.over = @ \cup Paints(T, j),
                                     !.top  = Top(T, j, Paints(T, j))],
     ![j].hold = IF T[j].overlays = {} THEN NULL ELSE Base(T, j)]

-----------------------------------------------------------------------------
(* create_image: stretch_gray, stretch_color *)

Planes(T, j) == {i \in Slot : T[j].rgb[i] # 0}

KeepsTable(img) ==
  [img EXCEPT !.sdata = [top |-> img.ncolors + 1, over |-> {}, fresh |-> TRUE], !.hold = NULL]
stretch_gray(img) ==
  [img EXCEPT !.sdata = [top |-> img.ncolors + 1, over |-> {}, fresh |-> TRUE],
              !.hold = NULL, !.quant = 0]

\* stretch_color returns early, leaving the old indices, unless it has all
\* its planes.
ColorReady(T, j) ==
  /\ \A i \in Planes(T, j) : T[i] # NULL
  /\ \A i \in Planes(T, j) : T[i].sdata # NULL
  /\ Cardinality(Planes(T, j)) = NPlanes

\* build_table looks every byte of a plane up in a table with an entry for
\* each colour of the plane.  Bytes that were painted on, or stretched to more
\* colours, are beyond it, and so is a transfer map made for another number of
\* colours; what is read there may lead out of the next table, or may not.
\* The colours themselves are looked up as if each plane had those of the first.
StretchFaults(T, j) ==
  /\ T[j].composite /\ ColorReady(T, j)
  /\ \E i \in Planes(T, j) :
       \/ T[i].sdata.top > T[i].ncolors + 1
       \/ T[i].map \notin {0, T[i].ncolors}
       \/ \E k \in Planes(T, j) : T[j].rgb[k] = 1 /\ T[k].ncolors > T[i].ncolors

\* pseudocolor makes as many of the colours it may use as it needs.
stretch_color(img, used) ==
  [img EXCEPT !.sdata = [top |-> used + 1, over |-> {}, fresh |-> TRUE],
              !.hold  = IF @ = NULL THEN NULL ELSE [@ EXCEPT !.fresh = FALSE],
              !.ncolors = used, !.lut = used]

Stretched(T, j) ==
  IF T[j].composite
  THEN IF ColorReady(T, j) THEN {stretch_color(T[j], n) : n \in 1..T[j].ncolors} ELSE {T[j]}
  ELSE IF T[j].data THEN {stretch_gray(T[j])} ELSE {T[j]}

\* The rest of create_image is skipped for an image with nothing to show.
Shows(img) == (img.composite \/ img.data) /\ img.sdata # NULL

-----------------------------------------------------------------------------
(* The command line, and the Files Window *)

\* off_load_filename.  The header-less branch returns early.
off_load_filename(kind, n) ==
  /\ fault = "none" /\ args < NIMAGE
  /\ args' = args + 1
  /\ IF kind = "missing"
     THEN UNCHANGED <<Images, sel, buttons, letter>>
     ELSE LET new == [FileImage(kind) EXCEPT !.ncolors = n]
              T == [Images EXCEPT ![args] = IF kind = "none" THEN new ELSE load_info(new)]
          IN /\ Images' = T
             /\ UpdatePushButtons(T, args)
             /\ IF kind = "none" THEN UNCHANGED <<sel, letter>>
                ELSE sel' = args /\ FlagForLoad(args)
  /\ UNCHANGED fault

\* The event loop begins.
EndOfArgs ==
  /\ fault = "none" /\ args < NIMAGE
  /\ args' = NIMAGE
  /\ UNCHANGED <<Images, sel, buttons, letter, fault>>

\* load_filename in another line than the grey one: move the bar.
SelectSlot(i) ==
  /\ Ready /\ i # sel
  /\ sel' = i
  /\ UpdatePushButtons(Images, i)
  /\ Images' = [Images EXCEPT ![i] = load_info(@)]
  /\ UNCHANGED <<letter, args, fault>>

\* load_filename in the grey line: free the image, read another header.
NewFile(kind) ==
  /\ Ready
  /\ LET new == FileImage(kind)
         T == [Images EXCEPT ![sel] = IF kind = "none" THEN new ELSE load_info(new)]
     IN Images' = T /\ UpdatePushButtons(T, sel)
  /\ FlagForLoad(sel)
  /\ UNCHANGED <<sel, args, fault>>

\* The next plane no slot has, going up from the button's own state.
NextPlaneTaken(rgb, s) == (s + 1) % (NPlanes + 1)
NextPlaneUnbounded(rgb, s) == s + 1
NextPlane(rgb, s) ==
  LET free == {p \in (s + 1)..NPlanes : \A k \in Slot : rgb[k] # p}
  IN IF free = {} THEN 0 ELSE Min(free)

KeepsOverlay(img, i, p) == [img EXCEPT !.rgb[i] = p]
SetPlane(img, i, p) == [img EXCEPT !.rgb[i] = p, !.overlays = @ \ {i}]

RGB_pushbutton(i) ==
  LET img == IF Exists(sel) THEN Images[sel] ELSE NewComposite
      p   == NextPlane(img.rgb, rgbs[i])
      new == SetPlane(img, i, p)
      empty == \A k \in Slot : new.rgb[k] = 0
  IN
  /\ Ready /\ rgbs[i] \in 0..NPlanes
  /\ IsGray(i)
  /\ Exists(sel) => Images[sel].composite
  /\ rgbs'  = [rgbs EXCEPT ![i] = p]
  /\ comps' = [comps EXCEPT ![i] = 0]
  /\ Images' = [Images EXCEPT ![sel] = IF empty THEN NULL ELSE load_info(new)]
  /\ IF empty THEN UnFlagForLoad(sel) ELSE FlagForLoad(sel)
  /\ UNCHANGED <<sel, args, fault>>

Unlimited(total) == FALSE
TooMany(total) == total > NColors

\* Takes the overlay if its colours fit in what the others leave.  An
\* overlay that has been deleted is followed all the same.
overlay_pushbutton(i) ==
  LET kept == IF comps[i] = 0 THEN Images[sel].overlays \cup {i}
              ELSE Images[sel].overlays \ {i}
      total == Images[sel].ncolors + ColorsIn(Images, kept)
      taken == IF TooMany(total) THEN kept \ {i} ELSE kept
  IN
  /\ Ready /\ comps[i] \in {0, 1}
  /\ Exists(sel) /\ IsGray(i)
  /\ \/ /\ \E k \in kept : ~Exists(k)
        /\ Die("overlay_pushbutton")
     \/ /\ \A k \in kept : Exists(k)
        /\ Images' = [Images EXCEPT ![sel].rgb[i] = 0, ![sel].overlays = taken]
        /\ rgbs'  = [rgbs EXCEPT ![i] = 0]
        /\ comps' = [comps EXCEPT ![i] = IF i \in taken THEN 1 ELSE 0]
        /\ UNCHANGED <<sel, letter, args, fault>>

\* The "band" of a composite, how finely it divides the colours, is left out.
load_band ==
  /\ Ready
  /\ \/ ~Exists(sel) /\ Die("load_band")
     \/ /\ IsGray(sel) /\ Images[sel].header
        /\ Images' = [Images EXCEPT ![sel].band = TRUE, ![sel].data = FALSE]
        /\ FlagForLoad(sel)
        /\ UNCHANGED <<sel, buttons, args, fault>>

load_ncolors(n) ==
  /\ Ready /\ Exists(sel)
  /\ Images' = [Images EXCEPT ![sel] = load_info([@ EXCEPT !.ncolors = n])]
  /\ FlagForLoad(sel)
  /\ UNCHANGED <<sel, buttons, args, fault>>

\* The header fields (GetInput_Samples and the others), which do not ask
\* whether there is an image.
GetInput(bands) ==
  /\ Ready
  /\ \/ ~Exists(sel) /\ Die("GetInput")
     \/ /\ Exists(sel)
        /\ Images' = [Images EXCEPT ![sel].header = bands]
        /\ FlagForLoad(sel)
        /\ UNCHANGED <<sel, buttons, args, fault>>

DeleteImage ==
  /\ Ready
  /\ Images' = [Images EXCEPT ![sel] = NULL]
  /\ UNCHANGED <<sel, buttons, letter, args, fault>>

ReadData(img, reads) == [img EXCEPT !.data = @ \/ (reads /\ ~img.composite)]

\* The red letter.  With no band chosen yet it only rings the bell.
LoadImage(i) ==
  /\ Ready /\ letter[i] = 1
  /\ \/ ~Exists(i) /\ Die("LoadImage")
     \/ /\ Exists(i) /\ Images[i].band
        /\ \E reads \in Reads :
             LET T == [Images EXCEPT ![i] = ReadData(@, reads)] IN
             \E img \in Stretched(T, i) :
               LET U == [T EXCEPT ![i] = img] IN
               \/ /\ StretchFaults(T, i) \/ (Shows(img) /\ OverlayFaults(U, i))
                  /\ Die("create_image")
               \/ /\ ~(Shows(img) /\ OverlayFaults(U, i))
                  /\ Images' = IF Shows(img) THEN update_display(U, i) ELSE U
                  /\ UnFlagForLoad(i)
                  /\ UNCHANGED <<sel, buttons, args, fault>>

-----------------------------------------------------------------------------
Init ==
  /\ Images = [i \in Slot |-> NULL]
  /\ sel = 0
  /\ rgbs = [i \in Slot |-> 0] /\ comps = [i \in Slot |-> 0] /\ letter = [i \in Slot |-> 0]
  /\ args = 0
  /\ fault = "none"

FilesWindow ==
  \/ \E i \in Slot : SelectSlot(i) \/ RGB_pushbutton(i) \/ overlay_pushbutton(i)
  \/ \E kind \in OpenFiles : NewFile(kind)
  \/ load_band
  \/ \E n \in ColorChoices : load_ncolors(n)
  \/ \E bands \in BOOLEAN : GetInput(bands)
  \/ DeleteImage
  \/ \E i \in Slot : LoadImage(i)

CommandLine ==
  \/ \E kind \in StartFiles, n \in ColorChoices \cup {DefaultColors} : off_load_filename(kind, n)
  \/ EndOfArgs

Next == FilesWindow \/ CommandLine

Spec == Init /\ [][Next]_vars
-----------------------------------------------------------------------------
(* What must hold *)

TypeOK ==
  /\ Images \in [Slot -> Image \cup {NULL}]
  /\ sel \in Slot
  /\ rgbs \in [Slot -> 0..(NPlanes + 1)] /\ comps \in [Slot -> 0..2]
  /\ letter \in [Slot -> {0, 1}]
  /\ args \in 0..NIMAGE
  /\ fault \in Handler

\* Each plane of a composite comes from one slot: stretch_color files the
\* planes by number in an array it has not initialised, and counts them.
PlanesDistinct ==
  \A j \in Slot : Exists(j) =>
    \A i, k \in Planes(Images, j) : i # k => Images[j].rgb[i] # Images[j].rgb[k]

\* A slot is a plane or an overlay of another, never both.
OneRole ==
  \A j \in Slot : Exists(j) => Planes(Images, j) \cap Images[j].overlays = {}

\* No slot is its own plane or overlay: the push buttons of the selected line
\* are disabled whenever the line can be selected.
NoSelfUse ==
  \A j \in Slot : Exists(j) => j \notin Planes(Images, j) \cup Images[j].overlays

\* Overlays can be taken off again: painted indices have their unpainted copy
\* in image_hold, and the copy was never painted.
OverlaysUndoable ==
  \A j \in Slot : Exists(j) =>
    /\ Images[j].hold # NULL => Images[j].hold.over = {}
    /\ Images[j].sdata # NULL /\ Images[j].hold = NULL => Images[j].sdata.over = {}

\* A white letter means that the tables fit the indices: an image that is
\* not waiting to be reloaded was stretched to its present colours, and its
\* overlay table, if it has one, was made for them.
TablesFit ==
  \A i \in Slot : IsGray(i) /\ letter[i] = 0 /\ Images[i].sdata # NULL =>
    /\ Base(Images, i).top = Images[i].ncolors + 1
    /\ Images[i].quant \in {0, Images[i].ncolors}

\* What the manual says of the red letter: one may click on it.  A letter is
\* red over an empty slot, where LoadImage follows NULL, only if DELETE has
\* emptied it; the other way to lose an image, taking its last plane from a
\* composite, takes the letter with it.
LetterFollowsImage ==
  [][\A i \in Slot : letter'[i] = 1 /\ Images'[i] = NULL =>
        DeleteImage \/ (letter[i] = 1 /\ Images[i] = NULL)]_vars

\* overlay_pushbutton counts the colours of the overlays as they are then.
\* Nothing counts them again when a number of colours is raised (load_ncolors),
\* or when an overlay is deleted and a composite, which starts with all the
\* colours there are, is made in its slot.
OverlaysStay ==
  \A i, j \in Slot : Exists(j) /\ i \in Images[j].overlays => Images'[i] # NULL

\* What the manual says of the colours: no picture uses more than there are.
\* overlay_pushbutton sees to it as long as no number of colours is changed
\* and no overlay is deleted.
WithinBudget ==
  \A j \in Slot : Exists(j) /\ Images[j].sdata # NULL => Images[j].sdata.top <= NColors + 1

\* What the manual says of a composite: clicking on the letter calculates it.
LetterRecomputes ==
  \A j \in Slot : Exists(j) /\ Images[j].sdata # NULL => Images[j].sdata.fresh
=============================================================================
