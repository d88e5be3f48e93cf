------------------------------ MODULE MCRestart ------------------------------
(***************************************************************************)
(* Restart for TLC.  A session of two slots may do everything; the third   *)
(* slot, which a composite of an image with an overlay needs, is within    *)
(* reach only of sessions that have read their files from the command line *)
(* and do nothing but combine them.                                        *)
(***************************************************************************)
EXTENDS Restart

VARIABLE three  \* the session has three slots

mcVars == <<restartVars, three>>

Combining ==
  \/ \E i \in Slot : SelectSlot(i) \/ RGB_pushbutton(i) \/ overlay_pushbutton(i) \/ LoadImage(i)
  \/ CommandLine

FirstOfTwo == phase = "first" => Images'[2] = NULL /\ sel' # 2
FirstOfThree == phase = "first" /\ phase' = "first" => Combining /\ UNCHANGED window

MCInit == RestartInit /\ three \in BOOLEAN
MCNext ==
  /\ UNCHANGED three
  /\ RestartNext
  /\ IF three THEN FirstOfThree ELSE FirstOfTwo

MCSpec == MCInit /\ [][MCNext]_mcVars
=============================================================================
