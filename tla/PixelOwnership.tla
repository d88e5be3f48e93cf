--------------------------- MODULE PixelOwnership ---------------------------
(***************************************************************************)
(* What the selection of src/pw/block.c promises: each pixel has a list of *)
(* the colours that own it, newest first, and each colour a set of pixels, *)
(* which are one relation.  A colour claims a pixel, becoming its newest   *)
(* owner, or yields it; the order of the other owners never changes.       *)
(***************************************************************************)
EXTENDS Naturals, Sequences, SequencesExt

CONSTANTS Pixel, Color

VARIABLES owners, members

Init ==
  /\ owners = [p \in Pixel |-> <<>>]
  /\ members = [c \in Color |-> {}]

Claim(c, p) ==
  /\ IF p \in members[c]
     THEN \E i \in DOMAIN owners[p] :
            owners[p][i] = c /\ owners' = [owners EXCEPT ![p] = <<c>> \o RemoveAt(@, i)]
     ELSE owners' = [owners EXCEPT ![p] = <<c>> \o @]
  /\ members' = [members EXCEPT ![c] = @ \cup {p}]

Yield(c, p) ==
  /\ p \in members[c]
  /\ \E i \in DOMAIN owners[p] :
       owners[p][i] = c /\ owners' = [owners EXCEPT ![p] = RemoveAt(@, i)]
  /\ members' = [members EXCEPT ![c] = @ \ {p}]

Next == \E c \in Color, p \in Pixel : Claim(c, p) \/ Yield(c, p)

Spec == Init /\ [][Next]_<<owners, members>>
=============================================================================
