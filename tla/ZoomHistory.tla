---------------------------- MODULE ZoomHistory ----------------------------
(***************************************************************************)
(* What the zoom of the plot window promises: the scales shown are kept in *)
(* the order they were chosen, and UnZoom goes back to the one before.     *)
(* The program may forget the oldest ones; it never shows a scale out of   *)
(* order.  Shifting an axis changes what is shown and is not kept.         *)
(***************************************************************************)
EXTENDS Naturals, Sequences

CONSTANT Scale

VARIABLES scale, past

Init == \E s \in Scale : scale = s /\ past = <<s>>

Choose(s) ==
  /\ scale' = s
  /\ \E k \in 1..(Len(past) + 1) : past' = Append(SubSeq(past, k, Len(past)), s)

Shift(s) == scale' = s /\ UNCHANGED past

GoBack ==
  /\ Len(past) > 1
  /\ past' = SubSeq(past, 1, Len(past) - 1)
  /\ scale' = past[Len(past) - 1]

Next == GoBack \/ \E s \in Scale : Choose(s) \/ Shift(s)

Spec == Init /\ [][Next]_<<scale, past>>
=============================================================================
