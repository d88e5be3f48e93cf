---------------------------- MODULE MCImageTable ----------------------------
(***************************************************************************)
(* ImageTable for TLC.  Two slots with everything are within reach; three  *)
(* slots, which composites of two planes need, only with less of the rest. *)
(***************************************************************************)
EXTENDS ImageTable

\* Composites: every file has one band, its header is not edited, the colours
\* are left alone and what lies over an image is not deleted.
Compositing ==
  \/ \E i \in Slot : SelectSlot(i) \/ RGB_pushbutton(i) \/ overlay_pushbutton(i)
  \/ NewFile("single")
  \/ DeleteImage
  \/ \E i \in Slot : LoadImage(i)

SpecComposites == Init /\ [][(Compositing \/ CommandLine) /\ OverlaysStay]_vars
=============================================================================
