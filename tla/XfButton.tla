------------------------------ MODULE XfButton ------------------------------
(***************************************************************************)
(* The buttons of the Xfred library and the dispatcher that runs their     *)
(* callbacks: lib/Button.c.                                                *)
(*                                                                         *)
(* A button has one linked list of callbacks per state.  XfButtonPush runs *)
(* the list of the button's state; a callback may use every routine of the *)
(* library, among them those that change the list being run, and may read  *)
(* events itself, so that XfButtonPush runs inside XfButtonPush.           *)
(*                                                                         *)
(* The cells of the lists are allocated and freed; a freed cell may be     *)
(* handed out again.  The list of buttons, whose links the library never   *)
(* gets wrong, is a sequence.                                              *)
(***************************************************************************)
EXTENDS Naturals, Sequences, FiniteSets, SequencesExt

CONSTANTS
  Button,       \* memory of the buttons
  MaxState,     \* states of a button
  Proc,         \* callback procedures
  Cell,         \* memory of the lists' cells
  MaxNesting,   \* dispatchers inside one another
  NULL

ASSUME MaxStateAssumption == MaxState \in Nat \ {0}
ASSUME MaxNestingAssumption == MaxNesting \in Nat
ASSUME CellAssumption == IsFiniteSet(Cell)
ASSUME NULLAssumption == NULL \notin Cell \cup Proc \cup Button

State == 0..(MaxState - 1)
ListId == Button \X State

VARIABLES
  ButtonList,     \* the live buttons in order
  state,          \* B->state
  CallBacks,      \* B->States[st]->CallBacks, the first cell
  proc, next,     \* of each cell
  allocated,      \* the cells in use
  frames,         \* the dispatchers running: list and next_exec of each
  fault           \* a freed cell was read or freed

vars == <<ButtonList, state, CallBacks, proc, next, allocated, frames, fault>>

Live == {ButtonList[i] : i \in 1..Len(ButtonList)}

\* The cells of list q in order, followed over as many links as there are
\* cells.
Cells(q) ==
  LET from[n \in 0..Cardinality(Cell)] ==
        [c \in Cell \cup {NULL} |->
           IF n = 0 \/ c = NULL THEN <<>> ELSE <<c>> \o from[n - 1][next[c]]]
  IN from[Cardinality(Cell)][CallBacks[q]]

Found(q, p) == {k \in 1..Len(Cells(q)) : proc[Cells(q)[k]] = p}
First(S) == CHOOSE k \in S : \A j \in S : k <= j

Init ==
  /\ ButtonList = <<>>
  /\ state = [b \in Button |-> 0]
  /\ CallBacks = [q \in ListId |-> NULL]
  /\ proc = [c \in Cell |-> NULL]
  /\ next = [c \in Cell |-> NULL]
  /\ allocated = {}
  /\ frames = <<>>
  /\ fault = FALSE

XfCreateButton(b) ==
  /\ b \notin Live
  /\ ButtonList' = Append(ButtonList, b)
  /\ state' = [state EXCEPT ![b] = 0]
  /\ CallBacks' = [q \in ListId |-> IF q[1] = b THEN NULL ELSE CallBacks[q]]
  /\ UNCHANGED <<proc, next, allocated, frames, fault>>

XfMoveButton(b) ==
  /\ \E i \in 1..Len(ButtonList) :
       ButtonList[i] = b /\ ButtonList' = <<b>> \o RemoveAt(ButtonList, i)
  /\ UNCHANGED <<state, CallBacks, proc, next, allocated, frames, fault>>

toggle_state(b) ==
  /\ b \in Live
  /\ state' = [state EXCEPT ![b] = (@ + 1) % MaxState]
  /\ UNCHANGED <<ButtonList, CallBacks, proc, next, allocated, frames, fault>>

\* Slips that the properties below would catch.
AllButLast(b) == {<<b, st>> : st \in 0..(MaxState - 2)}
AddAfterFirst(q) == 1

\* Where XfAddButtonCallback puts a cell if there is nothing to put it before
AddAfter(q) == Len(Cells(q))

\* A new cell before the first old after the head, or at the end; nothing
\* (and the cell lost) if there is no such old.
LinkCell(q, c, p, old) ==
  LET cells == Cells(q)
      link(a) == /\ next' = [next EXCEPT ![c] = next[cells[a]], ![cells[a]] = c]
                 /\ fault' = \E i \in 1..a : cells[i] \notin allocated
  IN
  /\ IF Found(q, old) # {}
     THEN link(First(Found(q, old)) - 1)
     ELSE IF old = NULL THEN link(AddAfter(q))
     ELSE UNCHANGED next /\ fault' = \E i \in 1..Len(cells) : cells[i] \notin allocated
  /\ UNCHANGED CallBacks

XfAddButtonCallback(q, p, old) ==
  \E c \in Cell \ allocated :
    /\ q[1] \in Live
    /\ allocated' = allocated \cup {c}
    /\ proc' = [proc EXCEPT ![c] = p]
    /\ IF CallBacks[q] = NULL \/ (CallBacks[q] \in allocated /\ proc[CallBacks[q]] = old)
       THEN /\ next' = [next EXCEPT ![c] = CallBacks[q]]
            /\ CallBacks' = [CallBacks EXCEPT ![q] = c]
            /\ UNCHANGED fault
       ELSE LinkCell(q, c, p, old)
    /\ UNCHANGED <<ButtonList, state, frames>>

AfterHead(q) == next[CallBacks[q]]

\* XfDelButtonCallback unlinks the first cell only; another is freed where
\* it is.
XfDelButtonCallback(q, p) ==
  /\ q[1] \in Live
  /\ Found(q, p) # {}
  /\ LET k == First(Found(q, p)) IN
     /\ fault' = \E i \in 1..k : Cells(q)[i] \notin allocated
     /\ allocated' = allocated \ {Cells(q)[k]}
     /\ CallBacks' = IF k = 1 THEN [CallBacks EXCEPT ![q] = AfterHead(q)] ELSE CallBacks
  /\ UNCHANGED <<ButtonList, state, proc, next, frames>>

ListsOf(b) == {<<b, st>> : st \in State}

XfDestroyButton(b) ==
  /\ \E i \in 1..Len(ButtonList) :
       ButtonList[i] = b /\ ButtonList' = RemoveAt(ButtonList, i)
  /\ LET freed == UNION {{Cells(q)[i] : i \in 1..Len(Cells(q))} : q \in ListsOf(b)} IN
     /\ fault' = ~(freed \subseteq allocated)
     /\ allocated' = allocated \ freed
  /\ UNCHANGED <<state, CallBacks, proc, next, frames>>

\* An event other than an exposure, for b: its first callback is entered.
XfButtonPush(b) ==
  LET q == <<b, state[b]>> IN
  /\ b \in Live
  /\ Len(frames) < MaxNesting
  /\ CallBacks[q] # NULL
  /\ fault' = (CallBacks[q] \notin allocated)
  /\ frames' = Append(frames, [list |-> q, next_exec |-> next[CallBacks[q]]])
  /\ UNCHANGED <<ButtonList, state, CallBacks, proc, next, allocated>>

Outer == SubSeq(frames, 1, Len(frames) - 1)
Top == frames[Len(frames)]

\* A callback returns; the dispatcher enters the next one or returns.
Return ==
  /\ frames # <<>>
  /\ \/ Top.next_exec = NULL /\ frames' = Outer /\ UNCHANGED fault
     \/ /\ Top.next_exec # NULL
        /\ fault' = (Top.next_exec \notin allocated)
        /\ frames' = Append(Outer, [Top EXCEPT !.next_exec = next[Top.next_exec]])
  /\ UNCHANGED <<ButtonList, state, CallBacks, proc, next, allocated>>

InnermostRuns(b) == frames # <<>> /\ Top.list[1] = b
Running(b) == \E i \in 1..Len(frames) : frames[i].list[1] = b

\* The callers add at the end or before a callback that is there, delete a
\* first callback (lib/sampler.c:169), and destroy a button when its own callbacks have
\* returned (lib/confirm.c:134, lib/panes.c:396, pw/ColorControls.c:392,
\* pw/readout.c:581).
Callers ==
  \/ \E b \in Button : XfCreateButton(b) \/ XfMoveButton(b) \/ toggle_state(b)
  \/ \E q \in ListId, p \in Proc :
       \/ \E old \in Proc \cup {NULL} :
            (old = NULL \/ Found(q, old) # {}) /\ XfAddButtonCallback(q, p, old)
       \/ XfDelButtonCallback(q, p) /\ First(Found(q, p)) = 1 /\ ~Running(q[1])
  \/ \E b \in Button : XfDestroyButton(b) /\ ~Running(b)

Dispatch == Return \/ \E b \in Button : XfButtonPush(b)

Next == ~fault /\ (Callers \/ Dispatch)
Spec == Init /\ [][Next]_vars

-----------------------------------------------------------------------------
(* Properties *)

\* plan.md (XF-3): XfButtonPush saves next before each callback, so that a
\* destroyed button cannot corrupt its walk.  What a dispatcher has saved is
\* a cell in use, of the list it runs, in every nesting.  This rests on the
\* callers: a callback that destroyed its own button with another callback
\* to follow would free what was saved.
WalkIsSafe ==
  /\ ~fault
  /\ \A i \in 1..Len(frames) :
       LET f == frames[i] IN
       f.next_exec # NULL =>
         f.next_exec \in allocated /\ \E k \in 1..Len(Cells(f.list)) : Cells(f.list)[k] = f.next_exec

\* Every cell in use is in exactly one list of one live button: none is lost,
\* none shared, none freed while linked.
CellsOwned ==
  LET lists == {q \in ListId : q[1] \in Live}
      cells(q) == {Cells(q)[k] : k \in 1..Len(Cells(q))}
  IN /\ allocated = UNION {cells(q) : q \in lists}
     /\ \A q, r \in lists : q # r => cells(q) \cap cells(r) = {}

\* The linked lists are the lists the callers are promised.
Lists == INSTANCE CallbackLists
  WITH State <- State, NoProc <- NULL, buttons <- ButtonList,
       lists <- [q \in Live \X State |-> [k \in 1..Len(Cells(q)) |-> proc[Cells(q)[k]]]]
KeepsLists == Lists!Spec
=============================================================================
