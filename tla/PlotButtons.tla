---------------------------- MODULE PlotButtons ----------------------------
(***************************************************************************)
(* The colour buttons of the plot window and what they stand for.          *)
(*                                                                         *)
(* Three places know which colour is active: CurrentBlock in block.c, the  *)
(* state of each button in plot.c (CBlocks) and, for what is drawn, the    *)
(* state of each block.  The magnifier (auto-cycle), the rose window's     *)
(* switches and a restored session change some of them and not the others. *)
(*                                                                         *)
(* Colours are 0..NBlocks; NBlocks is the extended block.  What a block    *)
(* holds is abstracted to pixels, data (averages, library spectra) or      *)
(* nothing.  BlockSelection models the pixels.                             *)
(***************************************************************************)
EXTENDS Integers

CONSTANT NBlocks          \* colours that select pixels, 6 in pw
ASSUME NBlocksAssumption == NBlocks \in Nat \ {0}

Color == 0..(NBlocks - 1)
Extended == NBlocks
Button == 0..NBlocks
NoColor == -1
Off == 0                  \* states of a button ...
Lit == 1
Hidden == 2               \* ... drawn white
NoBlock == -1             \* state of a block that was never allocated

VARIABLES
  current,     \* CurrentBlock
  lit,         \* CBlocks[b]->state
  state,       \* Blocks[b]->state
  content,     \* what Blocks[b] holds
  switch,      \* rose->Switches[b]->state
  quick,       \* the last click may be less than 500 ms ago
  enabled, cycle,
  elsewhere    \* CurrentBlock or a block's state was set from another window

buttonVars == <<current, lit, state, content, switch, quick, enabled, cycle, elsewhere>>

SetBlockState(b, s) == [state EXCEPT ![b] = s]
GetBlockState(b) == IF state[b] = NoBlock THEN 0 ELSE state[b]

ButtonsInit ==
  /\ current = NoColor
  /\ lit = [b \in Button |-> Off]
  /\ state = [b \in Button |-> NoBlock]
  /\ content = [b \in Button |-> "none"]
  /\ switch = [b \in Color |-> 0]
  /\ quick = FALSE
  /\ enabled = FALSE
  /\ cycle = FALSE
  /\ elsewhere = FALSE

\* Slips that the properties below would catch.
DimsNone(b) == lit
KeepsCurrent(b) == current

\* BlockButtonCallback: the active button goes out when another is clicked.
DimOther(b) ==
  IF current # NoColor /\ current # b THEN [lit EXCEPT ![current] = Off] ELSE lit

\* ... and no colour is active after one is hidden.
Deactivated(b) == NoColor

\* The second of two quick clicks on a lit button hides its colour; a click
\* on any other button activates it.
BlockButtonCallback(b, fast) ==
  /\ fast => quick
  /\ \/ /\ lit[b] = Lit /\ fast
        /\ lit' = [DimOther(b) EXCEPT ![b] = Hidden]
        /\ state' = SetBlockState(b, 0)
        /\ current' = Deactivated(b)
        /\ quick' = FALSE
     \/ /\ lit[b] # Lit
        /\ lit' = [DimOther(b) EXCEPT ![b] = Lit]
        /\ state' = SetBlockState(b, 1)
        /\ current' = b
        /\ quick' = TRUE
     \/ /\ lit[b] = Lit /\ ~fast
        /\ lit' = DimOther(b)
        /\ quick' = TRUE
        /\ UNCHANGED <<state, current>>
  /\ UNCHANGED <<content, switch, enabled, cycle, elsewhere>>

\* 500 ms pass.
TimePasses == quick /\ quick' = FALSE
  /\ UNCHANGED <<current, lit, state, content, switch, enabled, cycle, elsewhere>>

\* A cube has been chosen.
EnableBlock == enabled' = TRUE
  /\ UNCHANGED <<current, lit, state, content, switch, quick, cycle, elsewhere>>

Toggle_Cycle == cycle' = ~cycle
  /\ UNCHANGED <<current, lit, state, content, switch, quick, enabled, elsewhere>>

NextColor(b) == (b + 1) % NBlocks

\* DoAutoCycle leaves the blocks' own states alone.
LitAfterCycle(b) == [lit EXCEPT ![b] = Off, ![NextColor(b)] = Lit]

\* A rectangle is released in the magnifier: pixels are added or taken off,
\* and the next colour becomes the active one if CYCLE is on.
BlockMovement ==
  /\ current \in Color
  /\ enabled
  /\ content[current] # "data"
  /\ \/ /\ content' = [content EXCEPT ![current] = "pixels"]     \* AddBlock
        /\ state' = IF state[current] = NoBlock THEN SetBlockState(current, 1) ELSE state
     \/ \E after \in {"none", content[current]} :                \* DeleteBlock
           content' = [content EXCEPT ![current] = after] /\ UNCHANGED state
  /\ IF cycle
     THEN lit' = LitAfterCycle(current) /\ current' = NextColor(current)
     ELSE UNCHANGED <<lit, current>>
  /\ UNCHANGED <<switch, quick, enabled, cycle, elsewhere>>

\* SetBlockData makes its block visible.
SetBlockData(b) ==
  /\ state' = SetBlockState(b, 1)
  /\ content' = [content EXCEPT ![b] = "data"]

\* ApplySpecpr: a library spectrum for the active colour
ReadY == current # NoColor /\ SetBlockData(current)
  /\ UNCHANGED <<current, lit, switch, quick, enabled, cycle, elsewhere>>

\* BlockAverage: the average of the active colour, in the extended block
BlockAverage == current \in Color /\ content[current] # "none" /\ SetBlockData(Extended)
  /\ UNCHANGED <<current, lit, switch, quick, enabled, cycle, elsewhere>>

\* CopyExtendedBlock: the average becomes the active colour's data.
CopyExtendedBlock ==
  /\ current \in Color
  /\ content[Extended] # "none"
  /\ state' = SetBlockState(current, 1)
  /\ content' = [content EXCEPT ![current] = "data", ![Extended] = "none"]
  /\ UNCHANGED <<current, lit, switch, quick, enabled, cycle, elsewhere>>

DeleteAll ==
  /\ current # NoColor
  /\ content' = [content EXCEPT ![current] = "none"]
  /\ UNCHANGED <<current, lit, state, switch, quick, enabled, cycle, elsewhere>>

\* The end of every callback of the rose window's switches: if the switch is
\* on, the other blocks that are on go off, and their switches with them.
OneOn(b, st, sw) ==
  LET off == {c \in Color : sw[b] = 1 /\ c # b /\ st[c] = 1} IN
  /\ state' = [c \in Button |-> IF c \in off THEN 0 ELSE st[c]]
  /\ switch' = [c \in Color |-> IF c \in off THEN 0 ELSE sw[c]]

\* Button1 turns a block on or off, Button2 takes it off the plot, Button3
\* lists its pixels.
switches(b, button) ==
  /\ \/ /\ button = 1
        /\ LET i == IF GetBlockState(b) = 1 THEN 0 ELSE 1 IN
           /\ OneOn(b, SetBlockState(b, i), [switch EXCEPT ![b] = i])
           /\ current' = IF i = 1 THEN b ELSE current
     \/ /\ button = 2
        /\ LET i == IF switch[b] = 2 THEN 0 ELSE 2 IN
           OneOn(b, SetBlockState(b, i), [switch EXCEPT ![b] = i])
        /\ UNCHANGED current
     \/ button = 3 /\ OneOn(b, state, switch) /\ UNCHANGED current
  /\ elsewhere' = TRUE
  /\ UNCHANGED <<lit, content, quick, enabled, cycle>>

\* read_restart may choose a cube.  It runs through the blocks to read their
\* waves, or, if READ Y was used last, their spectra (given), and stays at
\* the last block.
RestoreBlocks(given) ==
  /\ current' = Extended
  /\ state' = [b \in Button |-> IF b \in given THEN 1 ELSE state[b]]
  /\ content' = [b \in Button |-> IF b \in given THEN "data" ELSE content[b]]
  /\ enabled' \in {enabled, TRUE}
  /\ elsewhere' = TRUE
  /\ UNCHANGED <<lit, switch, quick, cycle>>

ButtonsNext ==
  \/ \E b \in Button, fast \in BOOLEAN : BlockButtonCallback(b, fast)
  \/ TimePasses \/ EnableBlock \/ Toggle_Cycle
  \/ BlockMovement
  \/ ReadY \/ BlockAverage \/ CopyExtendedBlock \/ DeleteAll
  \/ \E b \in Color, button \in 1..3 : switches(b, button)
  \/ \E given \in SUBSET Button : RestoreBlocks(given)

ButtonsSpec == ButtonsInit /\ [][ButtonsNext]_buttonVars

-----------------------------------------------------------------------------
(* Properties *)

ButtonsTypeOK ==
  /\ current \in Button \cup {NoColor}
  /\ lit \in [Button -> {Off, Lit, Hidden}]
  /\ state \in [Button -> {NoBlock, 0, 1, 2}]
  /\ content \in [Button -> {"none", "pixels", "data"}]
  /\ switch \in [Color -> {0, 1, 2}]
  /\ quick \in BOOLEAN
  /\ enabled \in BOOLEAN
  /\ cycle \in BOOLEAN
  /\ elsewhere \in BOOLEAN

\* The manual: the box is outlined in its colour when activated.  As long as
\* only the plot window and the magnifier choose the colour, the button that
\* is lit is the one whose block takes the pixels, through double clicks,
\* hidden colours and auto-cycling.
LitIsActive == ~elsewhere => \A b \in Button : lit[b] = Lit <=> current = b

\* A colour that a double click has turned off stays off the plot until its
\* button is clicked again: no other handler of the plot window draws it.
HiddenStaysOff == ~elsewhere => \A b \in Color : lit[b] = Hidden => state[b] = 0
=============================================================================
