-------------------------- MODULE MCBlockSelection --------------------------
(***************************************************************************)
(* BlockSelection for TLC.  All of its windows at once are too much even   *)
(* for three pixels; each specification here leaves some of them unused.   *)
(***************************************************************************)
EXTENDS BlockSelection

\* The user never opens the Pixel List window.
SpecNoList == Init /\ [][LoopStep \/ Mouse \/ PlotWindow]_vars /\ WF_vars(LoopStep)

\* The pixel list is used, the data blocks come from it and from specpr
\* files only, and the drags are plain ones.
PlotWindowForList ==
  \/ \E b \in Block \cup {None} : SetCurrentBlock(b)
  \/ EnableBlock
  \/ DeleteAll
  \/ ApplySpecpr
SpecList ==
  Init /\ [][LoopStep \/ Mouse \/ PlotWindowForList \/ PixelList]_vars /\ WF_vars(LoopStep)
=============================================================================
