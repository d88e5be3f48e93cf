----------------------------- MODULE CubeReader -----------------------------
(***************************************************************************)
(* Where the spectra of the plot come from: get_block_data, SetCube and    *)
(* SetCubeImage of src/pw/plot.c.                                          *)
(*                                                                         *)
(* The plot reads a line of the cube at a time and keeps it (idata) with   *)
(* its number (lr_y) and the open file (CubeImageFd).  Neither is told     *)
(* when the Files Window or a restored session puts another file in the    *)
(* cube's slot, and the line is freed before the file is known to open.    *)
(*                                                                         *)
(* A spectrum is <<file it was read from, file whose header was used,      *)
(* line>>; the column only picks from the line.                            *)
(***************************************************************************)
EXTENDS Integers

CONSTANTS
  NIMAGE,     \* slots, 26 in pw
  Files,      \* names of cubes
  NLines,     \* lines of a cube
  NULL        \* no image, no data
ASSUME NIMAGEAssumption == NIMAGE \in Nat \ {0}
ASSUME NLinesAssumption == NLines \in Nat \ {0}
ASSUME NULLAssumption ==
  NULL \notin Files /\ NULL \notin Files \X Files \X (0..NLines) /\ NULL # <<>>

Slot == 0..(NIMAGE - 1)
Line == 0..(NLines - 1)
NoCube == -1
NoLine == -1
Freed == <<>>                        \* idata still points to a freed line
Spectrum == Files \X Files \X Line

VARIABLES
  file,          \* the file in each slot
  onDisk,        \* files that can be opened
  CubeImage,     \* slot of the cube
  CubeImageFd,   \* the file that is open, or NULL
  idata, lr_y,   \* the line kept and its number
  spectrum,      \* what get_block_data returned, until another handler runs
  asked,         \* the line it was asked for
  fault,         \* a line was freed twice or used after, or NULL followed
  changed,       \* the cube's slot changed after the cube was chosen by key
  failed         \* a file once failed to open

cubeVars ==
  <<file, onDisk, CubeImage, CubeImageFd, idata, lr_y, spectrum, asked, fault, changed, failed>>

CubeInit ==
  /\ file = [i \in Slot |-> NULL]
  /\ onDisk = Files
  /\ CubeImage = NoCube
  /\ CubeImageFd = NULL
  /\ idata = NULL
  /\ lr_y = NoLine
  /\ spectrum = NULL
  /\ asked = NoLine
  /\ fault = FALSE
  /\ changed = FALSE
  /\ failed = FALSE

\* A slip that SpectrumIsRight would catch.
LeavesOpen == CubeImageFd

Closed == NULL

\* SetCubeImage does nothing for an empty slot.
SetCubeImage(slots, i) ==
  IF slots[i] = NULL
  THEN UNCHANGED <<CubeImage, CubeImageFd>>
  ELSE CubeImage' = i /\ CubeImageFd' = Closed

\* SetCube: a letter is typed in the cube's box; the kept line is forgotten.
CubeKey(i) ==
  /\ SetCubeImage(file, i)
  /\ lr_y' = NoLine
  /\ changed' = (changed /\ file[i] = NULL)
  /\ spectrum' = NULL
  /\ UNCHANGED <<file, onDisk, idata, asked, fault, failed>>

\* SetCube: the mouse opens the cube controls instead.
CubeClick ==
  /\ lr_y' = NoLine
  /\ UNCHANGED <<file, onDisk, CubeImage, CubeImageFd, idata, spectrum, asked, fault, changed, failed>>

\* The file that read_qube_data reads from
Opened(f) == IF CubeImageFd # NULL THEN CubeImageFd ELSE IF f \in onDisk THEN f ELSE NULL

KeepsOneBased(y) == lr_y' = y + 1
KeepLine(y) == lr_y' = y

\* get_block_data for a pixel of line y.  free(NULL) does nothing, and does
\* not set idata.
get_block_data(y) ==
  /\ CubeImage # NoCube
  /\ LET f == file[CubeImage] IN
     \/ f = NULL /\ fault' = TRUE /\ spectrum' = NULL
        /\ UNCHANGED <<CubeImageFd, idata, lr_y, failed>>
     \/ /\ f # NULL /\ y = lr_y
        /\ fault' = (idata = Freed)
        /\ spectrum' = IF idata = Freed THEN NULL ELSE idata
        /\ UNCHANGED <<CubeImageFd, idata, lr_y, failed>>
     \/ /\ f # NULL /\ y # lr_y
        /\ fault' = (idata = Freed)
        /\ CubeImageFd' = Opened(f)
        /\ IF Opened(f) = NULL
           THEN /\ idata' = IF idata = NULL THEN NULL ELSE Freed
                /\ spectrum' = NULL
                /\ failed' = TRUE
                /\ UNCHANGED lr_y
           ELSE /\ idata' = <<Opened(f), f, y>>
                /\ spectrum' = <<Opened(f), f, y>>
                /\ KeepLine(y)
                /\ UNCHANGED failed
  /\ asked' = y
  /\ UNCHANGED <<file, onDisk, CubeImage, changed>>

\* No cube: no spectrum.
GetNothing(y) ==
  /\ CubeImage = NoCube
  /\ spectrum' = NULL
  /\ asked' = y
  /\ UNCHANGED <<file, onDisk, CubeImage, CubeImageFd, idata, lr_y, fault, changed, failed>>

\* The Files Window opens a file in a slot or deletes the image in it.
SetSlot(i, f) ==
  /\ file' = [file EXCEPT ![i] = f]
  /\ changed' = (changed \/ i = CubeImage)
  /\ spectrum' = NULL
  /\ UNCHANGED <<onDisk, CubeImage, CubeImageFd, idata, lr_y, asked, fault, failed>>

\* read_restart replaces every slot and then chooses the saved cube.
RestoreSlots(slots, c) ==
  /\ file' = slots
  /\ IF c = NoCube THEN UNCHANGED <<CubeImage, CubeImageFd>> ELSE SetCubeImage(slots, c)
  /\ changed' = (changed \/ CubeImage # NoCube)
  /\ spectrum' = NULL
  /\ UNCHANGED <<onDisk, idata, lr_y, asked, fault, failed>>

\* "This shouldn't happen unless someone removed the file"
Remove(f) ==
  /\ f \in onDisk
  /\ onDisk' = onDisk \ {f}
  /\ UNCHANGED <<file, CubeImage, CubeImageFd, idata, lr_y, spectrum, asked, fault, changed, failed>>

CubeNext ==
  /\ ~fault
  /\ \/ \E i \in Slot : CubeKey(i)
     \/ CubeClick
     \/ \E y \in Line : get_block_data(y) \/ GetNothing(y)
     \/ \E i \in Slot, f \in Files \cup {NULL} : SetSlot(i, f)
     \/ \E slots \in [Slot -> Files \cup {NULL}], c \in Slot \cup {NoCube} : RestoreSlots(slots, c)
     \/ \E f \in Files : Remove(f)

CubeSpec == CubeInit /\ [][CubeNext]_cubeVars

-----------------------------------------------------------------------------
(* Properties *)

CubeTypeOK ==
  /\ file \in [Slot -> Files \cup {NULL}]
  /\ onDisk \subseteq Files
  /\ CubeImage \in Slot \cup {NoCube}
  /\ CubeImageFd \in Files \cup {NULL}
  /\ idata \in Spectrum \cup {NULL, Freed}
  /\ lr_y \in Line \cup {NoLine}
  /\ spectrum \in Spectrum \cup {NULL}
  /\ asked \in Line \cup {NoLine}
  /\ fault \in BOOLEAN /\ changed \in BOOLEAN /\ failed \in BOOLEAN

\* The comment of get_block_data: the spectrum comes out of the currently
\* selected cube.
FromSelectedCube ==
  spectrum # NULL => spectrum = <<file[CubeImage], file[CubeImage], asked>>

\* As long as the cube's slot keeps the file it had when the cube was chosen,
\* and every file opened so far was there, the cache is transparent: a
\* spectrum is the asked line of the selected cube, read with its header, and
\* no freed line is touched.  Other slots may change at any time.
SpectrumIsRight == ~changed /\ ~failed => ~fault /\ FromSelectedCube
=============================================================================
