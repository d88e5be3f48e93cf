---------------------------- MODULE MCPlotWindow ----------------------------
(***************************************************************************)
(* The three parts of the plot window for TLC.  They share no variable, so *)
(* that interleaving them would show nothing: a behaviour is one of a      *)
(* single part, in which the others rest.                                  *)
(***************************************************************************)
EXTENDS PlotScale, PlotButtons, CubeReader

VARIABLE part

PlotInit == part \in {"scale", "buttons", "cube"} /\ ScaleInit /\ ButtonsInit /\ CubeInit

PlotNext ==
  /\ \/ part = "scale" /\ ScaleNext /\ UNCHANGED <<buttonVars, cubeVars>>
     \/ part = "buttons" /\ ButtonsNext /\ UNCHANGED <<scaleVars, cubeVars>>
     \/ part = "cube" /\ CubeNext /\ UNCHANGED <<scaleVars, buttonVars>>
  /\ UNCHANGED part

PlotSpec == PlotInit /\ [][PlotNext]_<<part, scaleVars, buttonVars, cubeVars>>
=============================================================================
