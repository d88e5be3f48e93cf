----------------------------- MODULE MedianCut -----------------------------
(***************************************************************************)
(* The reduction of a composite to n_out colours: src/pw/pseudo.c.         *)
(*                                                                         *)
(* build_table counts the pixels of each colour; merge_partition cuts the  *)
(* table into contiguous partitions, always the one that is widest in a    *)
(* channel and there at the median of its pixels; average_nodes makes one  *)
(* entry of each and make_composite draws the pixels.                      *)
(*                                                                         *)
(* Pixels of one colour stay together throughout: an entry's list of       *)
(* pixels is the set of the colours it came from.  qsort leaves the order  *)
(* of equal entries open.                                                  *)
(***************************************************************************)
EXTENDS Integers, Sequences, FiniteSets, FiniteSetsExt, SequencesExt

CONSTANTS
  Palette,   \* colours <<r, g, b>> the pixels of an image can have
  Counts,    \* how many pixels a colour can have
  MaxOut     \* most colours that are asked for

ASSUME PaletteAssumption ==
  Palette \subseteq Nat \X Nat \X Nat /\ IsFiniteSet(Palette)
ASSUME CountsAssumption == Counts \subseteq Nat /\ Counts # {0}
ASSUME MaxOutAssumption == MaxOut \in Nat \ {0}

Channel == 1..3
Unsorted == 0

VARIABLES
  histogram,   \* pixels of each colour in the image
  table,       \* the table of colours, compressed
  n_out,       \* colours asked for, at most those there are
  partitions,  \* the list of partitions, in order
  result,      \* what average_nodes leaves of the table, or <<>>
  overrun      \* make_split looked at the entry after its partition

medianVars == <<histogram, table, n_out, partitions, result, overrun>>

NColors == Len(table)
Abs(a) == IF a < 0 THEN -a ELSE a

\* Pixels in entries lo..hi of t
PixelsIn(t, lo, hi) == SumFunction([i \in lo..hi |-> t[i].count])

-----------------------------------------------------------------------------
(* build_table: the colours in use, in order of their number *)

Before(a, b) == \/ a[1] < b[1]
                \/ a[1] = b[1] /\ a[2] < b[2]
                \/ a[1] = b[1] /\ a[2] = b[2] /\ a[3] < b[3]

\* The colours of h, and how many of them come before colour c
Used(h) == {c \in Palette : h[c] > 0}
Rank(h, c) == Cardinality({d \in Used(h) : Before(d, c)})

build_table(h) ==
  [i \in 1..Cardinality(Used(h)) |->
     LET c == CHOOSE c \in Used(h) : Rank(h, c) = i - 1
     IN [color |-> c, count |-> h[c], pixels |-> {c}]]

MedianInit ==
  /\ histogram \in {h \in [Palette -> Counts] : Used(h) # {}}
  /\ table = build_table(histogram)
  /\ \E n \in 1..MaxOut : n_out = Min({n, NColors})
  /\ partitions = <<[top |-> 1, bot |-> NColors, sorted |-> Unsorted,
                     count |-> PixelsIn(table, 1, NColors)]>>
  /\ result = <<>>
  /\ overrun = FALSE

-----------------------------------------------------------------------------
(* merge_partition *)

Values(p, ch) == {table[i].color[ch] : i \in p.top..p.bot}

\* max_bounds, as the width in a channel
Spread(p, ch) == Max(Values(p, ch)) - Min(Values(p, ch))
RedOnly(p) == Spread(p, 1)
Widest(p) == Max({Spread(p, ch) : ch \in Channel})

\* The first of the widest, or none if no partition can be cut
largest_node ==
  LET most == Max({Widest(partitions[k]) : k \in 1..Len(partitions)}) IN
  {k \in 1..Len(partitions) :
     /\ most > 0 /\ Widest(partitions[k]) = most
     /\ \A j \in 1..(k - 1) : Widest(partitions[j]) < most}

\* Red wins over green and green over blue.
SortChannel(p) == Min({ch \in Channel : Spread(p, ch) = Widest(p)})

Descending(t, p, ch) == \A i \in p.top..(p.bot - 1) : t[i].color[ch] >= t[i + 1].color[ch]

SortedSomehow(p) == p.sorted # Unsorted
AlreadySorted(p) == p.sorted = SortChannel(p)
\* sort_by_node: what the table may be afterwards
sort_by_node(p) ==
  IF AlreadySorted(p) THEN {table}
  ELSE LET orders == {f \in [p.top..p.bot -> p.top..p.bot] :
                        \A i, j \in p.top..p.bot : i # j => f[i] # f[j]}
           sorted == {[i \in 1..NColors |-> IF i \in p.top..p.bot THEN table[f[i]] ELSE table[i]]
                        : f \in orders}
       IN {t \in sorted : Descending(t, p, SortChannel(p))}

\* Slips of make_split that the properties below would catch
Whole(p) == p.count
CountsOneMore(t, p, i) == PixelsIn(t, p.top, i + 1)

\* make_split goes on for as long as the pixels passed come nearer to half.
Half(p) == p.count \div 2
Stops(t, p) ==
  {i \in p.top..p.bot :
     Abs(Half(p) - PixelsIn(t, p.top, i)) >= Abs(Half(p) - PixelsIn(t, p.top, i - 1))}
LastOfFirst(t, p) == Max({p.top, Min(Stops(t, p)) - 1})
CountOfFirst(t, p, i) == PixelsIn(t, p.top, i)

\* One turn of merge_partition: sort, split, replace
Split ==
  /\ result = <<>> /\ ~overrun
  /\ Len(partitions) < n_out
  /\ \E k \in largest_node : \E t \in sort_by_node(partitions[k]) :
       LET p == partitions[k]
           i == LastOfFirst(t, p)
           n == CountOfFirst(t, p, i)
           a == [p EXCEPT !.bot = IF i = p.bot THEN i - 1 ELSE i,
                          !.sorted = SortChannel(p), !.count = n]
           b == [a EXCEPT !.top = a.bot + 1, !.bot = p.bot, !.count = p.count - n]
       IN /\ table' = t
          /\ IF Stops(t, p) = {}
             THEN overrun' = TRUE /\ UNCHANGED partitions
             ELSE /\ partitions' = InsertAt(ReplaceAt(partitions, k, a), k + 1, b)
                  /\ UNCHANGED overrun
  /\ UNCHANGED <<histogram, n_out, result>>

-----------------------------------------------------------------------------
(* average_nodes: one entry for each partition.  The average does not weigh *)
(* a colour by its pixels.                                                  *)

WithoutTop(p) == (p.top + 1)..p.bot
EntriesOf(p) == p.top..p.bot

Merged(p) ==
  [color  |-> [ch \in Channel |->
                 SumFunction([i \in p.top..p.bot |-> table[i].color[ch]]) \div (p.bot - p.top + 1)],
   count  |-> PixelsIn(table, p.top, p.bot),
   pixels |-> UNION {table[i].pixels : i \in EntriesOf(p)}]

Average ==
  /\ result = <<>> /\ ~overrun
  /\ Len(partitions) = n_out \/ largest_node = {}
  /\ result' = [k \in 1..Len(partitions) |-> Merged(partitions[k])]
  /\ UNCHANGED <<histogram, table, n_out, partitions, overrun>>

MedianNext == Split \/ Average
MedianSpec == MedianInit /\ [][MedianNext]_medianVars

\* make_composite: the colours that the pixels of colour c are drawn in
make_composite(c) == {k \in 1..Len(result) : c \in result[k].pixels}

-----------------------------------------------------------------------------
(* Properties *)

\* After every cut the partitions tile the table, none is empty (their counts
\* are divided by) and the count that each carries is that of its pixels,
\* though it was reached by adding and taking back along the way.
PartitionsTile ==
  /\ partitions[1].top = 1 /\ partitions[Len(partitions)].bot = NColors
  /\ \A k \in 1..Len(partitions) :
       LET p == partitions[k] IN
       /\ p.top <= p.bot
       /\ k > 1 => p.top = partitions[k - 1].bot + 1
       /\ p.count = PixelsIn(table, p.top, p.bot)

\* make_split leaves its loop before the end of the partition: otherwise it
\* would take back the count of an entry it never added.
StaysInside == ~overrun

\* A partition is not sorted again if it is marked as sorted in the channel;
\* the halves inherit the mark of the whole.
SortedAsMarked ==
  \A k \in 1..Len(partitions) :
    partitions[k].sorted # Unsorted => Descending(table, partitions[k], partitions[k].sorted)

\* The composite: each pixel is drawn once, in a colour that lies between
\* those it was made from, channel by channel.
DrawnOnce ==
  result # <<>> =>
    /\ \A c \in Palette : Cardinality(make_composite(c)) = IF histogram[c] > 0 THEN 1 ELSE 0
    /\ \A k \in 1..Len(result), ch \in Channel :
         \E c, d \in result[k].pixels : c[ch] <= result[k].color[ch] /\ result[k].color[ch] <= d[ch]

\* There are exactly as many colours as asked for and used, though a comment
\* wonders why it makes less; if every colour may stay, every colour does.
AsManyAsAsked ==
  result # <<>> =>
    /\ Len(result) = n_out
    /\ n_out = Cardinality(Used(histogram)) =>
         \A k \in 1..Len(result) : result[k].pixels = {result[k].color}
=============================================================================
