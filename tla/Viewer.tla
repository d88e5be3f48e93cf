------------------------------- MODULE Viewer -------------------------------
(***************************************************************************)
(* The image on display: src/pw/buttons.c (load_image, load_pan,           *)
(* Redisplay), the image window of pw.c, the colour spread of              *)
(* ColorControls.c and SetMagnify of mag.c, over the slots of ImageTable.  *)
(*                                                                         *)
(* The control panel, the magnifier, the image window and the pan window   *)
(* each keep a pointer of their own into the displayed slot: two to the    *)
(* image, one to its X image, one to its pan image.  free_image clears the *)
(* first two; the other two, which every reload replaces as well, it       *)
(* leaves as they are.                                                     *)
(***************************************************************************)
EXTENDS ImageTable

None     == -1
Dangling == -2     \* points at what has been freed

VARIABLES
  cc,      \* CC->image, as its slot, or None
  mag,     \* Mag->image
  spread,  \* CC->Colorspread->ext, the colours of the last image shown
  iimage,  \* IImage, the X image of a slot, or Dangling
  pan      \* JS->field, the pan image of a slot, or Dangling

window == <<cc, mag, spread, iimage, pan>>

-----------------------------------------------------------------------------
(* What the handlers of the Files Window do to these pointers *)

Loses(pointer, i) == IF pointer = i THEN Dangling ELSE pointer

\* free_image
ForgetsMag(i) ==
  /\ cc'  = (IF cc = i THEN None ELSE cc)
  /\ iimage' = Loses(iimage, i) /\ pan' = Loses(pan, i)
  /\ UNCHANGED <<mag, spread>>
free_image(i) ==
  /\ cc'  = (IF cc = i THEN None ELSE cc)
  /\ mag' = (IF mag = i THEN None ELSE mag)
  /\ iimage' = Loses(iimage, i) /\ pan' = Loses(pan, i)
  /\ UNCHANGED spread

\* create_pan and pw_refresh_image, in create_image
Replaces(i) ==
  /\ iimage' = Loses(iimage, i) /\ pan' = Loses(pan, i)
  /\ UNCHANGED <<cc, mag, spread>>

Files ==
  \/ \E i \in Slot : SelectSlot(i) /\ UNCHANGED window
  \/ \E i \in Slot : overlay_pushbutton(i) /\ UNCHANGED window
  \/ \E i \in Slot : /\ RGB_pushbutton(i)
                     /\ IF Images'[sel] = NULL THEN free_image(sel) ELSE UNCHANGED window
  \/ \E kind \in OpenFiles : NewFile(kind) /\ free_image(sel)
  \/ load_band /\ UNCHANGED window
  \/ \E n \in ColorChoices : load_ncolors(n) /\ UNCHANGED window
  \/ DeleteImage /\ free_image(sel)
  \/ \E i \in Slot : /\ LoadImage(i)
                     /\ IF fault' = "none" /\ Shows(Images'[i])
                        THEN Replaces(i) ELSE UNCHANGED window
  \/ CommandLine /\ UNCHANGED window

Table == Files \/ \E bands \in BOOLEAN : GetInput(bands) /\ UNCHANGED window

-----------------------------------------------------------------------------
(* The controls and the windows *)

Fails(handler) == Die(handler) /\ UNCHANGED window

\* colorspread of image i in table T: a gray image gets a transfer map of as
\* many colours as the spread has, a composite changes its own Colors.
Spread(T, i, n) == IF T[i].composite THEN T ELSE [T EXCEPT ![i].map = n]
SpreadFaults(T, i) == T[i].composite /\ T[i].ncolors > T[i].lut

\* load_image makes i the image of every window at once.
ShownButNotMagnified(i) == cc' = i /\ iimage' = i /\ pan' = i /\ mag' = (IF mag = None THEN i ELSE mag)
ShownIn(i) == cc' = i /\ mag' = i /\ iimage' = i /\ pan' = i

\* load_image: a letter typed in one of the windows.  It ends with a
\* colorspread, which repaints the image.
load_image(i) ==
  LET T == Spread(Images, i, Images[i].ncolors) IN
  /\ Ready
  /\ Exists(i) /\ Images[i].sdata # NULL /\ (Images[i].data \/ Images[i].composite)
  /\ \/ (SpreadFaults(Images, i) \/ OverlayFaults(T, i)) /\ Fails("load_image")
     \/ /\ ~(SpreadFaults(Images, i) \/ OverlayFaults(T, i))
        /\ Images' = update_display(T, i)
        /\ ShownIn(i)
        /\ spread' = Images[i].ncolors
        /\ UNCHANGED <<sel, buttons, letter, args, fault>>

\* A slider, the transfer curve or a colour button: colorspread, then
\* refresh_display_lut.
colorspread ==
  LET T == Spread(Images, cc, spread) IN
  /\ Ready /\ cc # None
  /\ \/ (SpreadFaults(Images, cc) \/ OverlayFaults(T, cc)) /\ Fails("colorspread")
     \/ /\ ~(SpreadFaults(Images, cc) \/ OverlayFaults(T, cc))
        /\ Images' = update_display(T, cc)
        /\ iimage' = cc /\ pan' = cc
        /\ UNCHANGED <<sel, buttons, letter, args, fault, cc, mag, spread>>

\* The REDRAW button.  The pan window keeps what it has.
Redisplay ==
  /\ Ready /\ cc # None
  /\ \/ OverlayFaults(Images, cc) /\ Fails("Redisplay")
     \/ /\ ~OverlayFaults(Images, cc)
        /\ Images' = update_display(Images, cc)
        /\ iimage' = cc
        /\ UNCHANGED <<sel, buttons, letter, args, fault, cc, mag, spread, pan>>

\* ConfigureNotify in the image window; IImage is drawn before anything else.
Resize ==
  /\ Ready /\ iimage # None
  /\ \/ iimage = Dangling /\ Fails("iwindow_callback")
     \/ /\ iimage # Dangling /\ iimage' = cc /\ pan' = cc
        /\ UNCHANGED <<vars, cc, mag, spread>>

\* Button 1 in the image window
SetMagnify ==
  /\ Ready /\ cc # None
  /\ mag' = cc
  /\ UNCHANGED <<vars, cc, spread, iimage, pan>>

\* Button 3 in the image window, or a drag in the pan window, which is
\* exposed with the pan image it has.
pan_image ==
  /\ Ready /\ cc # None
  /\ \/ pan = Dangling /\ Fails("pan_image")
     \/ /\ pan # Dangling
        /\ iimage' = cc
        /\ UNCHANGED <<vars, cc, mag, spread, pan>>

Windows ==
  \/ \E i \in Slot : load_image(i)
  \/ colorspread
  \/ Redisplay
  \/ Resize
  \/ SetMagnify
  \/ pan_image

ViewerInit ==
  /\ Init
  /\ cc = None /\ mag = None /\ spread = 0 /\ iimage = None /\ pan = None

ViewerNext == Table \/ Windows

ViewerSpec == ViewerInit /\ [][ViewerNext]_<<vars, window>>
-----------------------------------------------------------------------------
(* What must hold *)

ViewerTypeOK ==
  /\ TypeOK
  /\ cc \in Slot \cup {None} /\ mag \in Slot \cup {None}
  /\ spread \in 0..NColors
  /\ iimage \in Slot \cup {None, Dangling} /\ pan \in Slot \cup {None, Dangling}

\* The two pointers that free_image clears never outlive the image, and what
\* they point at has indices to show: SetMagnify, UncolorMag and the colour
\* controls read them without asking.
PointersLive ==
  /\ cc # None => Exists(cc) /\ Images[cc].sdata # NULL
  /\ mag # None => Exists(mag) /\ Images[mag].sdata # NULL

\* The windows agree: the magnifier, the image window and the pan window
\* show the image that the controls edit, or nothing, or they dangle.  So a
\* spectrum is taken from the image one sees.
WindowsAgree ==
  /\ mag \in {None, cc}
  /\ iimage \in {None, Dangling, cc}
  /\ pan \in {None, Dangling, cc}

\* What the manual says of the image window: it may have any size.
ResizeIsSafe == fault # "iwindow_callback"
=============================================================================
