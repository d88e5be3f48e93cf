------------------------------ MODULE MCColors ------------------------------
(***************************************************************************)
(* The two parts of the colour work that share no variable, for TLC: a     *)
(* behaviour is one of the median cut or one of the transfer curve.        *)
(*                                                                         *)
(* The curve keeps to at most MaxHandles of its twelve points as handles.  *)
(* Six colours with ties in every channel; a window of four columns has    *)
(* two columns between its ends, so that a handle can have a handle or an  *)
(* end of the window for a neighbour.  The screen goes on for a column on  *)
(* either side of it, and the mouse has two buttons.                       *)
(***************************************************************************)
EXTENDS MedianCut, AssociationMap

VARIABLE part

SixColors ==
  {<<0, 0, 0>>, <<0, 3, 1>>, <<1, 0, 2>>, <<2, 3, 0>>, <<2, 1, 0>>, <<3, 1, 2>>}

CONSTANT MaxHandles

ScreenColumns == -1..Width

\* A press outside of the window is followed through the drags with the last
\* button down.
StraysBriefly == strayed => Drags /\ pressed = MaxButtons

\* The window slides to either end of the array, to the middle third, to either
\* side of that, and to one place more, but not to the other two.
PassedOver == {1, 6}

\* The part that rests is in one state only.
Resting == Cardinality(Used(histogram)) = 1 /\ histogram[<<0, 0, 0>>] = 1

ColorsInit ==
  /\ part \in {"cut", "curve"} /\ MedianInit /\ MapInit
  /\ part = "curve" => Resting

ColorsNext ==
  /\ \/ part = "cut" /\ MedianNext /\ UNCHANGED mapVars
     \/ part = "curve" /\ MapNext /\ Cardinality(handles') <= MaxHandles
                      /\ StraysBriefly /\ left_edge' \notin PassedOver
                      /\ UNCHANGED medianVars
  /\ UNCHANGED part

ColorsSpec == ColorsInit /\ [][ColorsNext]_<<part, medianVars, mapVars>>
=============================================================================
