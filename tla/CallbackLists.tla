--------------------------- MODULE CallbackLists ---------------------------
(***************************************************************************)
(* What Xfred's buttons promise their callers about callbacks: each live   *)
(* button has one list per state, a new callback goes to the end or before *)
(* a named one, a deleted one is gone, and nothing else changes a list.    *)
(***************************************************************************)
EXTENDS Naturals, Sequences

CONSTANTS Button, State, Proc, NoProc

VARIABLES
  buttons,     \* the live ones, in order
  lists        \* callbacks of each live button in each state

Init == buttons = <<>> /\ lists = [p \in {} |-> <<>>]

Live == {buttons[i] : i \in 1..Len(buttons)}

\* seq with p at position k
Insert(seq, k, p) == SubSeq(seq, 1, k - 1) \o <<p>> \o SubSeq(seq, k, Len(seq))
Remove(seq, k) == SubSeq(seq, 1, k - 1) \o SubSeq(seq, k + 1, Len(seq))

Create(b) ==
  /\ b \notin Live
  /\ buttons' = Append(buttons, b)
  /\ lists' = [q \in (Live \cup {b}) \X State |->
                 IF q[1] = b THEN <<>> ELSE lists[q]]

Destroy(b) ==
  /\ \E k \in 1..Len(buttons) : buttons[k] = b /\ buttons' = Remove(buttons, k)
  /\ lists' = [q \in (Live \ {b}) \X State |-> lists[q]]

Move(b) ==
  /\ \E k \in 1..Len(buttons) : buttons[k] = b /\ buttons' = <<b>> \o Remove(buttons, k)
  /\ UNCHANGED lists

\* Before the first old, or at the end if none is named
Add(q, p, old) ==
  LET before == {k \in 1..Len(lists[q]) : lists[q][k] = old} IN
  /\ \/ \E k \in before : /\ \A j \in before : k <= j
                          /\ lists' = [lists EXCEPT ![q] = Insert(@, k, p)]
     \/ old = NoProc /\ lists' = [lists EXCEPT ![q] = Append(@, p)]
  /\ UNCHANGED buttons

Delete(q, p) ==
  /\ \E k \in 1..Len(lists[q]) :
        /\ lists[q][k] = p
        /\ \A j \in 1..(k - 1) : lists[q][j] # p
        /\ lists' = [lists EXCEPT ![q] = Remove(@, k)]
  /\ UNCHANGED buttons

Next ==
  \/ \E b \in Button : Create(b) \/ Destroy(b) \/ Move(b)
  \/ \E q \in DOMAIN lists, p \in Proc :
        Delete(q, p) \/ \E old \in Proc \cup {NoProc} : Add(q, p, old)

Spec == Init /\ [][Next]_<<buttons, lists>>
=============================================================================
