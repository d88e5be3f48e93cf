----------------------------- MODULE MCXfButton -----------------------------
(***************************************************************************)
(* XfButton for TLC.  Buttons, procedures and cells are interchangeable:   *)
(* no definition picks one of them by name.                                *)
(***************************************************************************)
EXTENDS XfButton, TLC

Symmetry == Permutations(Button) \cup Permutations(Proc) \cup Permutations(Cell)
=============================================================================
