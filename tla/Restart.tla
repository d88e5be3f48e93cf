------------------------------ MODULE Restart ------------------------------
(***************************************************************************)
(* Saving a session and restoring it: write_restart, read_restart and      *)
(* ReadRestart of src/pw/restart.c, over the slots and windows of Viewer.  *)
(*                                                                         *)
(* The file has what describes each image and nothing of what was made     *)
(* from it.  It is read slot by slot: a slot is freed, filled, and, if it  *)
(* is gray, read, stretched, painted and shown at once, while the later    *)
(* slots still hold the images of the old session, or nothing.  A second   *)
(* loop makes the composites and paints every image again.                 *)
(*                                                                         *)
(* The loops are one action per slot; nothing else runs in between.  One   *)
(* file is saved and it is read once, in the session that saved it or in a *)
(* new one.                                                                *)
(***************************************************************************)
EXTENDS Viewer

VARIABLES
  saved,   \* what the file says of each slot
  phase,   \* of the session: "first", "saved", "reading", "painting", "ready", "done"
  at       \* the slot that the loop has reached

restartVars == <<vars, window, saved, phase, at>>

-----------------------------------------------------------------------------
(* write_restart *)

Description(img) ==
  IF img = NULL THEN NULL
  ELSE [composite |-> img.composite, header |-> img.header, band |-> img.band,
        ncolors |-> img.ncolors, rgb |-> img.rgb, overlays |-> img.overlays]

write_restart ==
  /\ phase = "first" /\ Ready
  /\ saved' = [i \in Slot |-> Description(Images[i])]
  /\ phase' = "saved"
  /\ UNCHANGED <<vars, window, at>>

\* pw is left, and started again with no file names on the command line.
Quit ==
  /\ phase = "saved"
  /\ Images' = [i \in Slot |-> NULL]
  /\ sel' = 0
  /\ rgbs' = [i \in Slot |-> 0] /\ comps' = [i \in Slot |-> 0] /\ letter' = [i \in Slot |-> 0]
  /\ cc' = None /\ mag' = None /\ spread' = 0 /\ iimage' = None /\ pan' = None
  /\ UNCHANGED <<args, fault, saved, phase, at>>

-----------------------------------------------------------------------------
(* read_restart, the first loop *)

StartRead ==
  /\ phase = "saved"
  /\ phase' = "reading" /\ at' = 0
  /\ cc' = None
  /\ UNCHANGED <<vars, mag, spread, iimage, pan, saved>>

Missing(rgb) == NPlanes - Cardinality({k \in Slot : rgb[k] # 0})

\* sscanf reads as many planes as there are.  The others are assigned from
\* variables that were never set, but for the first letter, a newline, which
\* stands for the last plane.
ReadPlanes(rgb) ==
  LET m == Missing(rgb)
      Letters == {p \in [1..m -> 1..NPlanes] : m > 0 => p[1] = NPlanes}
  IN {[k \in Slot |-> IF \E n \in 1..m : v[n] = k
                      THEN p[Max({n \in 1..m : v[n] = k})] ELSE rgb[k]]
        : v \in [1..m -> Slot], p \in Letters}

\* Slips that the properties below would catch.
ForgetsOverlays(d, rgb) ==
  [allocate_image EXCEPT !.composite = d.composite, !.header = d.header, !.band = d.band,
                         !.ncolors = d.ncolors, !.rgb = rgb]

ForgetsPlanes(d, rgb) ==
  [allocate_image EXCEPT !.composite = d.composite, !.header = d.header, !.band = d.band,
                         !.ncolors = d.ncolors, !.overlays = d.overlays]

Described(d, rgb) ==
  [allocate_image EXCEPT !.composite = d.composite, !.header = d.header, !.band = d.band,
                         !.ncolors = d.ncolors, !.rgb = rgb, !.overlays = d.overlays]

Dies == Die("read_restart") /\ UNCHANGED <<window, saved, phase, at>>

\* create_image and load_image of slot i in table T; a slot with nothing to
\* show is passed over.
Create(T, i) == IF Shows(T[i]) THEN update_display(T, i) ELSE T
Loaded(T, i) == update_display(Spread(T, i, T[i].ncolors), i)
ShowFaults(T, i) ==
  /\ Shows(T[i])
  /\ \/ OverlayFaults(T, i)
     \/ SpreadFaults(T, i)
     \/ /\ ~OverlayFaults(T, i)
        /\ LET U == Create(T, i) IN OverlayFaults(Spread(U, i, U[i].ncolors), i)

\* An empty slot
ReadEmpty(i) ==
  /\ saved[i] = NULL
  /\ Images' = [Images EXCEPT ![i] = NULL]
  /\ UpdatePushButtons(Images', i)
  /\ free_image(i)
  /\ UNCHANGED fault

\* A composite waits for the second loop.
ReadComposite(i) ==
  /\ saved[i] # NULL /\ saved[i].composite
  /\ \E rgb \in ReadPlanes(saved[i].rgb) :
       Images' = [Images EXCEPT ![i] = Described(saved[i], rgb)]
  /\ free_image(i)
  /\ UNCHANGED <<buttons, fault>>

ReadGray(i) ==
  /\ saved[i] # NULL /\ ~saved[i].composite
  /\ \E reads \in Reads :
       LET img == ReadData(Described(saved[i], saved[i].rgb), reads) IN
       \E new \in Stretched([Images EXCEPT ![i] = img], i) :
         LET T == [Images EXCEPT ![i] = new] IN
         /\ ~ShowFaults(T, i)
         /\ IF Shows(new)
            THEN Images' = Loaded(Create(T, i), i) /\ ShownIn(i) /\ spread' = new.ncolors
            ELSE Images' = T /\ free_image(i)
  /\ UpdatePushButtons(Images', i)
  /\ UNCHANGED fault

ReadFaults(i) ==
  /\ saved[i] # NULL
  /\ \/ saved[i].composite /\ Missing(saved[i].rgb) > 0
     \/ /\ ~saved[i].composite
        /\ \E reads \in Reads :
             LET img == ReadData(Described(saved[i], saved[i].rgb), reads) IN
             \E new \in Stretched([Images EXCEPT ![i] = img], i) :
               ShowFaults([Images EXCEPT ![i] = new], i)

ReadSlot ==
  /\ phase = "reading" /\ fault = "none"
  /\ \/ /\ at < NIMAGE
        /\ \/ ReadFaults(at) /\ Dies
           \/ /\ ReadEmpty(at) \/ ReadComposite(at) \/ ReadGray(at)
              /\ at' = at + 1
              /\ UNCHANGED <<sel, letter, args, saved, phase>>
     \/ /\ at = NIMAGE
        /\ phase' = "painting" /\ at' = 0
        /\ UNCHANGED <<vars, window, saved>>

-----------------------------------------------------------------------------
(* The second loop *)

PaintComposite(i) ==
  /\ Exists(i) /\ Images[i].composite
  /\ \E img \in Stretched(Images, i) :
       LET T == [Images EXCEPT ![i] = img]
           follows == img.sdata = NULL \/ OverlayFaults(T, i)
       IN
       \/ (StretchFaults(Images, i) \/ follows) /\ Dies
       \/ /\ ~follows
          /\ Images' = update_display(T, i)
          /\ Replaces(i)
          /\ at' = at + 1
          /\ UNCHANGED <<sel, buttons, letter, args, fault, saved, phase>>

PaintGray(i) ==
  /\ IsGray(i) /\ Images[i].data
  /\ \/ OverlayFaults(Images, i) /\ Dies
     \/ /\ ~OverlayFaults(Images, i)
        /\ Images' = update_display(Images, i)
        /\ iimage' = Loses(iimage, i)
        /\ at' = at + 1
        /\ UNCHANGED <<sel, buttons, letter, args, fault, cc, mag, spread, pan, saved, phase>>

PaintNothing(i) ==
  /\ ~Exists(i) \/ (IsGray(i) /\ ~Images[i].data)
  /\ at' = at + 1
  /\ UNCHANGED <<vars, window, saved, phase>>

PaintSlot ==
  /\ phase = "painting" /\ fault = "none"
  /\ \/ /\ at < NIMAGE
        /\ PaintComposite(at) \/ PaintGray(at) \/ PaintNothing(at)
     \/ /\ at = NIMAGE
        /\ phase' = "ready" /\ at' = 0
        /\ cc' = None
        /\ UNCHANGED <<vars, mag, spread, iimage, pan, saved>>

\* ReadRestart, or pw -r: slot a is selected, created once more and shown.
ReadRestart ==
  /\ phase = "ready" /\ fault = "none"
  /\ \/ ~Exists(0) /\ Dies
     \/ /\ Exists(0)
        /\ \E img \in Stretched(Images, 0) :
             LET T == [Images EXCEPT ![0] = img] IN
             \/ (StretchFaults(Images, 0) \/ ShowFaults(T, 0)) /\ Dies
             \/ /\ ~ShowFaults(T, 0)
                /\ IF Shows(img)
                   THEN Images' = Loaded(Create(T, 0), 0) /\ ShownIn(0) /\ spread' = img.ncolors
                   ELSE UNCHANGED <<Images, window>>
                /\ UpdatePushButtons(Images', 0)
                /\ sel' = 0
                /\ phase' = "done"
                /\ UNCHANGED <<letter, args, fault, saved, at>>

-----------------------------------------------------------------------------
RestartInit ==
  /\ ViewerInit
  /\ saved = [i \in Slot |-> NULL]
  /\ phase = "first"
  /\ at = 0

\* Of the first session the header fields are left out, which change nothing
\* that is saved but the header.
RestartNext ==
  \/ phase = "first" /\ (Files \/ Windows) /\ UNCHANGED <<saved, phase, at>>
  \/ write_restart \/ Quit
  \/ StartRead \/ ReadSlot \/ PaintSlot \/ ReadRestart

RestartSpec == RestartInit /\ [][RestartNext]_restartVars

-----------------------------------------------------------------------------
(* Properties *)

\* What a session must be like for read_restart to survive it, which no
\* document says: slot a is taken, composites are complete and their first
\* plane has no more colours than the others, and the images that one refers
\* to are there, gray, and without overlays of their own; what lies over a
\* gray image is in an earlier slot.
Orderly ==
  /\ saved[0] # NULL
  /\ \A i \in Slot : saved[i] # NULL =>
       LET used == {k \in Slot : saved[i].rgb[k] # 0} \cup saved[i].overlays IN
       /\ \A k \in used : saved[k] # NULL /\ ~saved[k].composite /\ saved[k].overlays = {}
       /\ IF saved[i].composite
          THEN /\ Missing(saved[i].rgb) = 0
               /\ \A k, l \in Slot : saved[i].rgb[k] = 1 /\ saved[i].rgb[l] # 0
                                       => saved[k].ncolors <= saved[l].ncolors
          ELSE \A k \in saved[i].overlays : k < i

\* No data file has gone away; slots not yet reached still have the images
\* of the old session.
FilesThere ==
  \A i \in Slot : IsGray(i) /\ (phase = "reading" => i < at) => Images[i].data

\* The manual: to restore this, click on READ.  An orderly session is
\* restored without following NULL or leaving a table, over the session that
\* saved it and in a new one, though each slot is painted while the slots
\* after it are still those of the old session.
OrderlyRestores == fault = "read_restart" => ~(Orderly /\ FilesThere)

\* ... and it comes back: each slot refers to the same slots, has the colours
\* it had, and shows its overlays; those of the old session are gone.
SessionComesBack ==
  phase = "done" /\ Orderly /\ FilesThere =>
    \A i \in Slot :
      /\ Exists(i) <=> saved[i] # NULL
      /\ Exists(i) =>
           /\ Images[i].rgb = saved[i].rgb /\ Images[i].overlays = saved[i].overlays
           /\ Images[i].composite = saved[i].composite /\ Images[i].band = saved[i].band
           /\ ~Images[i].composite => Images[i].ncolors = saved[i].ncolors
           /\ Images[i].sdata.over = Paints(Images, i)

\* Reading sets one window after the other, and forgets the image of the
\* controls twice; before it the windows agree, and once it is over they do
\* again, if it could read all files.
WindowsAgreeAgain ==
  phase \in {"first", "saved"} \/ (phase = "done" /\ FilesThere) => WindowsAgree
=============================================================================
