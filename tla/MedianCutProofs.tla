-------------------------- MODULE MedianCutProofs --------------------------
(***************************************************************************)
(* Theorems about the reduction of a composite to n_out colours            *)
(* (MedianCut), for any palette, any image and any number of colours asked *)
(* for: the partitions tile the table, make_split stays inside the one it  *)
(* cuts, a partition is in the order it is marked with, every pixel is     *)
(* drawn once in a colour between those it stands for, and there are as    *)
(* many colours as were asked for.                                         *)
(***************************************************************************)
EXTENDS MedianCut, CollectionLemmas

-----------------------------------------------------------------------------
(* The inductive invariant *)

Entry == [color : Palette, count : Nat, pixels : SUBSET Palette]
Partition ==
  [top : 1..NColors, bot : 1..NColors, sorted : {Unsorted} \cup Channel, count : Nat]

\* The table holds every colour of the image once, with its own pixels.
TableOK ==
  /\ table \in Seq(Entry)
  /\ NColors = Cardinality(Used(histogram))
  /\ \A i \in 1..NColors :
       table[i].pixels = {table[i].color} /\ histogram[table[i].color] > 0
  /\ \A i, j \in 1..NColors : i # j => table[i].color # table[j].color
  /\ \A c \in Used(histogram) : \E i \in 1..NColors : table[i].color = c

MedianTypes ==
  /\ n_out \in 1..NColors
  /\ partitions \in Seq(Partition)
  /\ 1 <= Len(partitions) /\ Len(partitions) <= n_out

\* An earlier partition lies before a later one: sorting one leaves the
\* others as they are.
Ordered ==
  \A j, k \in 1..Len(partitions) : j < k => partitions[j].bot < partitions[k].top

\* The loop ends with as many partitions as asked for, or with none to cut.
Finished ==
  result # <<>> =>
    /\ Len(partitions) = n_out \/ largest_node = {}
    /\ result = [k \in 1..Len(partitions) |-> Merged(partitions[k])]

MedianInv ==
  /\ TableOK /\ MedianTypes /\ PartitionsTile /\ Ordered
  /\ SortedAsMarked /\ StaysInside /\ Finished

-----------------------------------------------------------------------------
(* Pixels *)

LEMMA PixelsAreTotal ==
  ASSUME NEW t, NEW lo, NEW hi
  PROVE  PixelsIn(t, lo, hi) = Total([i \in lo..hi |-> t[i].count], lo..hi)
BY DEF PixelsIn, SumFunction, Total

LEMMA PixelsAreNat ==
  ASSUME NEW t, NEW lo \in Int, NEW hi \in Int, \A i \in lo..hi : t[i].count \in Nat
  PROVE  PixelsIn(t, lo, hi) \in Nat
<1> DEFINE g == [i \in lo..hi |-> t[i].count]
<1>1. \A i \in lo..hi : g[i] \in Nat
  OBVIOUS
<1>2. IsFiniteSet(lo..hi)
  BY FS_Interval
<1>3. PixelsIn(t, lo, hi) = Total(g, lo..hi)
  BY PixelsAreTotal
<1> HIDE DEF g
<1>4. QED
  BY <1>1, <1>2, <1>3, SumType

\* The pixels of a partition are those of its two halves.
LEMMA PixelsApart ==
  ASSUME NEW t, NEW lo \in Int, NEW mid \in Int, NEW hi \in Int,
         lo <= mid + 1, mid <= hi, \A i \in lo..hi : t[i].count \in Nat
  PROVE  PixelsIn(t, lo, hi) = PixelsIn(t, lo, mid) + PixelsIn(t, mid + 1, hi)
<1> DEFINE g == [i \in lo..hi |-> t[i].count]
           S == lo..mid
           R == (mid + 1)..hi
<1>1. IsFiniteSet(S) /\ IsFiniteSet(R) /\ S \cap R = {} /\ S \cup R = lo..hi
  BY FS_Interval
<1>2. \A i \in S \cup R : g[i] \in Int
  BY <1>1
<1>3. PixelsIn(t, lo, hi) = Total(g, lo..hi)
  BY PixelsAreTotal
<1>4. PixelsIn(t, lo, mid) = Total(g, S)
  <2> DEFINE h == [i \in lo..mid |-> t[i].count]
  <2>1. \A i \in S : g[i] \in Int /\ h[i] = g[i]
    BY <1>1
  <2>2. PixelsIn(t, lo, mid) = Total(h, S)
    BY PixelsAreTotal
  <2> HIDE DEF g, h, S
  <2>3. QED
    BY <1>1, <2>1, <2>2, SumSame
<1>5. PixelsIn(t, mid + 1, hi) = Total(g, R)
  <2> DEFINE h == [i \in (mid + 1)..hi |-> t[i].count]
  <2>1. \A i \in R : g[i] \in Int /\ h[i] = g[i]
    BY <1>1
  <2>2. PixelsIn(t, mid + 1, hi) = Total(h, R)
    BY PixelsAreTotal
  <2> HIDE DEF g, h, R
  <2>3. QED
    BY <1>1, <2>1, <2>2, SumSame
<1> HIDE DEF g, S, R
<1>6. Total(g, S \cup R) = Total(g, S) + Total(g, R)
  BY <1>1, <1>2, SumUnion
<1>7. QED
  BY <1>1, <1>3, <1>4, <1>5, <1>6

\* A partition with its entries in another order has as many pixels.
LEMMA PixelsReordered ==
  ASSUME NEW t, NEW u, NEW lo \in Int, NEW hi \in Int, \A i \in lo..hi : t[i].count \in Nat,
         NEW f \in Bijection(lo..hi, lo..hi), \A i \in lo..hi : u[i] = t[f[i]]
  PROVE  PixelsIn(u, lo, hi) = PixelsIn(t, lo, hi)
<1> DEFINE g == [i \in lo..hi |-> t[i].count]
           S == lo..hi
<1>1. IsFiniteSet(S) /\ \A i \in S : g[i] \in Int
  BY FS_Interval
<1>2. PixelsIn(t, lo, hi) = Total(g, S) /\ PixelsIn(u, lo, hi) = Total([i \in S |-> u[i].count], S)
  BY PixelsAreTotal
<1>3. [i \in S |-> u[i].count] = [i \in S |-> g[f[i]]]
  <2>1. \A i \in S : f[i] \in S
    BY DEF Bijection, Injection
  <2>2. QED
    BY <2>1
<1>4. f \in Bijection(S, S)
  OBVIOUS
<1> HIDE DEF g, S
<1>5. Total([i \in S |-> g[f[i]]], S) = Total(g, S)
  BY <1>1, <1>4, SumRenamed
<1>6. QED
  BY <1>2, <1>3, <1>5

-----------------------------------------------------------------------------
(* The colours of a partition *)

LEMMA Colours ==
  ASSUME TableOK, NEW i \in 1..NColors
  PROVE  /\ table[i] \in Entry /\ table[i].count \in Nat
         /\ table[i].color \in Palette /\ table[i].color \in Nat \X Nat \X Nat
         /\ \A ch \in Channel : table[i].color[ch] \in Nat
<1>1. table[i] \in Entry
  BY DEF TableOK, NColors
<1>2. table[i].color \in Palette /\ table[i].count \in Nat
  BY <1>1 DEF Entry
<1>3. table[i].color \in Nat \X Nat \X Nat
  BY <1>2, PaletteAssumption
<1>4. \A a \in Nat \X Nat \X Nat : \A ch \in Channel : a[ch] \in Nat
  BY DEF Channel
<1>5. QED
  BY <1>1, <1>2, <1>3, <1>4

LEMMA Within ==
  ASSUME NColors \in Nat, NEW p \in Partition, NEW i \in p.top..p.bot
  PROVE  i \in 1..NColors /\ i \in Int
BY DEF Partition

LEMMA Numbers == TableOK => NColors \in Nat
BY DEF TableOK, NColors

\* The width of a partition in a channel, and what a width of 0 means.
LEMMA SpreadOf ==
  ASSUME TableOK, NEW p \in Partition, p.top <= p.bot, NEW ch \in Channel
  PROVE  /\ Min(Values(p, ch)) \in Values(p, ch) /\ Max(Values(p, ch)) \in Values(p, ch)
         /\ \A i \in p.top..p.bot : /\ table[i].color[ch] \in Nat
                                    /\ Min(Values(p, ch)) <= table[i].color[ch]
                                    /\ table[i].color[ch] <= Max(Values(p, ch))
         /\ Min(Values(p, ch)) \in Nat /\ Max(Values(p, ch)) \in Nat
         /\ Spread(p, ch) \in Nat
         /\ Spread(p, ch) = 0 =>
              \A i, j \in p.top..p.bot : table[i].color[ch] = table[j].color[ch]
         /\ p.top = p.bot => Spread(p, ch) = 0
<1> DEFINE V == Values(p, ch)
           g == [i \in p.top..p.bot |-> table[i].color[ch]]
<1>1. p.top \in Int /\ p.bot \in Int /\ p.top \in p.top..p.bot
  BY Numbers DEF Partition
<1>2. \A i \in p.top..p.bot : table[i].color[ch] \in Nat
  BY Within, Colours, Numbers
<1>3. V = {g[i] : i \in p.top..p.bot}
  BY DEF Values
<1>4. IsFiniteSet(V)
  <2>1. IsFiniteSet(p.top..p.bot)
    BY <1>1, FS_Interval
  <2> HIDE DEF g, V
  <2>2. QED
    BY <1>3, <2>1, FiniteRange
<1>5. V \in SUBSET Nat /\ V # {} /\ \A i \in p.top..p.bot : table[i].color[ch] \in V
  BY <1>1, <1>2 DEF Values
<1>6. Max(V) \in V /\ \A y \in V : y <= Max(V)
  <2> HIDE DEF V
  <2>1. QED
    BY <1>4, <1>5, MaxInSet
<1>7. Min(V) \in V /\ \A y \in V : Min(V) <= y
  <2> HIDE DEF V
  <2>1. QED
    BY <1>5, MinInSet
<1>8. Spread(p, ch) = Max(V) - Min(V)
  BY DEF Spread
<1>9. p.top = p.bot => V = {table[p.top].color[ch]}
  BY <1>1 DEF Values
<1> HIDE DEF V
<1>10. Min(V) \in Nat /\ Max(V) \in Nat /\ Min(V) <= Max(V)
  BY <1>5, <1>6, <1>7
<1>11. \A i \in p.top..p.bot : Min(V) <= table[i].color[ch] /\ table[i].color[ch] <= Max(V)
  BY <1>5, <1>6, <1>7
<1>12. Spread(p, ch) = 0 => \A i, j \in p.top..p.bot : table[i].color[ch] = table[j].color[ch]
  BY <1>2, <1>8, <1>10, <1>11
<1>13. p.top = p.bot => Spread(p, ch) = 0
  <2> SUFFICES ASSUME p.top = p.bot PROVE Spread(p, ch) = 0
    OBVIOUS
  <2>1. Max(V) = Min(V)
    BY <1>6, <1>7, <1>9
  <2>2. QED
    BY <1>8, <1>10, <2>1
<1>14. QED
  BY <1>2, <1>6, <1>7, <1>8, <1>10, <1>11, <1>12, <1>13 DEF V

\* The channel that a partition is sorted in is a widest one; a partition
\* that is wide in some channel has two entries at least.
LEMMA WidestOf ==
  ASSUME TableOK, NEW p \in Partition, p.top <= p.bot
  PROVE  /\ Widest(p) \in Nat
         /\ \A ch \in Channel : Spread(p, ch) <= Widest(p)
         /\ SortChannel(p) \in Channel /\ SortChannel(p) # Unsorted
         /\ Spread(p, SortChannel(p)) = Widest(p)
         /\ Widest(p) > 0 => p.top < p.bot
<1> DEFINE g == [ch \in Channel |-> Spread(p, ch)]
           V == {Spread(p, ch) : ch \in Channel}
           C == {ch \in Channel : Spread(p, ch) = Widest(p)}
<1>1. \A ch \in Channel : Spread(p, ch) \in Nat /\ (p.top = p.bot => Spread(p, ch) = 0)
  BY SpreadOf
<1>2. IsFiniteSet(V)
  <2>1. V = {g[ch] : ch \in Channel}
    OBVIOUS
  <2>2. IsFiniteSet(Channel)
    <3>1. 1 \in Int /\ 3 \in Int
      OBVIOUS
    <3>2. IsFiniteSet(1..3)
      BY <3>1, FS_Interval, Zenon
    <3>3. QED
      BY <3>2 DEF Channel
  <2> HIDE DEF g, V
  <2>3. QED
    BY <2>1, <2>2, FiniteRange
<1>3. V \in SUBSET Nat /\ V # {} /\ \A ch \in Channel : Spread(p, ch) \in V
  BY <1>1 DEF Channel
<1>4. Widest(p) = Max(V)
  BY DEF Widest
<1>5. \A x \in V : \E ch \in Channel : x = Spread(p, ch)
  OBVIOUS
<1> HIDE DEF V
<1>6. Max(V) \in V /\ \A y \in V : y <= Max(V)
  BY <1>2, <1>3, MaxInSet
<1>7. C \in SUBSET Nat /\ C # {}
  BY <1>4, <1>5, <1>6 DEF Channel
<1>8. SortChannel(p) = Min(C)
  BY DEF SortChannel
<1>9. \A ch \in C : ch \in Channel /\ Spread(p, ch) = Widest(p)
  OBVIOUS
<1> HIDE DEF C
<1>10. Min(C) \in C
  BY <1>7, MinInSet
<1>11. SortChannel(p) \in Channel /\ Spread(p, SortChannel(p)) = Widest(p)
  BY <1>8, <1>9, <1>10
<1>12. SortChannel(p) # Unsorted
  BY <1>11 DEF Channel, Unsorted
<1>13. Widest(p) \in Nat /\ \A ch \in Channel : Spread(p, ch) <= Widest(p)
  BY <1>3, <1>4, <1>6
<1>14. Widest(p) > 0 => p.top < p.bot
  <2>1. p.top = p.bot => Widest(p) = 0
    BY <1>1, <1>11
  <2>2. p.top \in Int /\ p.bot \in Int
    BY Numbers DEF Partition
  <2>3. QED
    BY <1>13, <2>1, <2>2
<1>15. QED
  BY <1>11, <1>12, <1>13, <1>14

LEMMA PartitionOf ==
  ASSUME TableOK, MedianTypes, PartitionsTile, NEW k \in 1..Len(partitions)
  PROVE  /\ partitions[k] \in Partition /\ partitions[k].top <= partitions[k].bot
         /\ partitions[k].top \in 1..NColors /\ partitions[k].bot \in 1..NColors
         /\ partitions[k].top \in partitions[k].top..partitions[k].bot
<1>1. partitions[k] \in Partition
  BY DEF MedianTypes
<1>2. partitions[k].top <= partitions[k].bot
  BY DEF PartitionsTile
<1>3. partitions[k].top \in 1..NColors /\ partitions[k].bot \in 1..NColors
  BY <1>1 DEF Partition
<1>4. QED
  BY <1>1, <1>2, <1>3, Numbers

\* largest_node finds a partition that can be cut, if there is one.
LEMMA LargestOf ==
  ASSUME TableOK, MedianTypes, PartitionsTile
  PROVE  /\ \A k \in largest_node : k \in 1..Len(partitions) /\ Widest(partitions[k]) > 0
         /\ largest_node = {} => \A k \in 1..Len(partitions) : Widest(partitions[k]) = 0
<1> DEFINE K == 1..Len(partitions)
           w == [k \in K |-> Widest(partitions[k])]
           V == {Widest(partitions[k]) : k \in K}
           most == Max(V)
<1>1. Len(partitions) \in Nat /\ 1 \in K
  BY DEF MedianTypes
<1>2. \A k \in K : w[k] \in Nat /\ w[k] = Widest(partitions[k])
  BY PartitionOf, WidestOf
<1>3. V = {w[k] : k \in K}
  OBVIOUS
<1>4. largest_node = {k \in K : most > 0 /\ w[k] = most /\ \A j \in 1..(k - 1) : w[j] < most}
  <2>1. \A k \in K : \A j \in 1..(k - 1) : j \in K /\ w[j] = Widest(partitions[j])
    BY <1>1, <1>2
  <2>2. largest_node = {k \in K : most > 0 /\ Widest(partitions[k]) = most
                                  /\ \A j \in 1..(k - 1) : Widest(partitions[j]) < most}
    BY DEF largest_node
  <2> HIDE DEF w, most, K
  <2>3. QED
    BY <1>2, <2>1, <2>2
<1>5. most \in V /\ \A y \in V : y <= most
  <2>1. IsFiniteSet(K)
    BY <1>1, FS_Interval
  <2>2. V \in SUBSET Nat /\ V # {}
    BY <1>1, <1>2, <1>3
  <2> HIDE DEF w, V, K
  <2>3. IsFiniteSet(V)
    BY <1>3, <2>1, FiniteRange
  <2>4. QED
    BY <2>2, <2>3, MaxInSet
<1> HIDE DEF w, most
<1>6. \E k \in K : w[k] = most
  BY <1>3, <1>5
<1>7. \A k \in K : w[k] <= most
  BY <1>3, <1>5
<1>8. ASSUME largest_node = {}, NEW k \in K PROVE w[k] = 0
  <2> SUFFICES ASSUME w[k] # 0 PROVE FALSE
    OBVIOUS
  <2> DEFINE S == {j \in K : w[j] = most}
  <2>1. S \in SUBSET Nat /\ S # {}
    BY <1>6
  <2>2. PICK j \in S : \A i \in S : j <= i
    BY <2>1, LeastNat
  <2>3. j \in K /\ w[j] = most /\ most > 0 /\ most \in Nat
    BY <1>2, <1>7
  <2>4. ASSUME NEW i \in 1..(j - 1) PROVE w[i] < most
    <3>1. i \in K /\ i < j
      BY <1>1, <2>3
    <3>2. i \notin S
      BY <2>2, <3>1
    <3>3. QED
      BY <1>2, <1>7, <2>3, <3>1, <3>2
  <2>5. j \in largest_node
    BY <1>4, <2>3, <2>4
  <2>6. QED
    BY <1>8, <2>5
<1>9. QED
  BY <1>2, <1>4, <1>8

-----------------------------------------------------------------------------
(* sort_by_node *)

\* t is the table with the entries of p in the order f.
Reorders(t, p, f) ==
  /\ f \in Bijection(1..NColors, 1..NColors)
  /\ \A i \in 1..NColors : IF i \in p.top..p.bot THEN f[i] \in p.top..p.bot ELSE f[i] = i
  /\ t = [i \in 1..NColors |-> table[f[i]]]

\* Sorting permutes the entries of the partition and moves no other.
LEMMA SortReorders ==
  ASSUME TableOK, NEW p \in Partition, NEW t \in sort_by_node(p)
  PROVE  /\ \E f : Reorders(t, p, f)
         /\ (t = table /\ AlreadySorted(p)) \/ Descending(t, p, SortChannel(p))
<1> DEFINE N == 1..NColors
           P == p.top..p.bot
<1>1. NColors \in Nat /\ \A i \in P : i \in N
  BY Numbers, Within
<1>2. table = [i \in N |-> table[i]]
  BY DEF TableOK, NColors
<1>3. CASE AlreadySorted(p)
  <2> DEFINE f == [i \in N |-> i]
  <2>1. t = table
    BY <1>3 DEF sort_by_node
  <2>2. f \in Bijection(N, N)
    BY DEF Bijection, Injection, Surjection, IsInjective
  <2>3. t = [i \in N |-> table[f[i]]]
    BY <1>2, <2>1
  <2>4. \A i \in N : f[i] = i
    OBVIOUS
  <2> HIDE DEF f
  <2>5. Reorders(t, p, f)
    BY <2>2, <2>3, <2>4 DEF Reorders
  <2>6. QED
    BY <1>3, <2>1, <2>5
<1>4. CASE ~AlreadySorted(p)
  <2>1. PICK e \in [P -> P] :
          /\ \A i, j \in P : i # j => e[i] # e[j]
          /\ t = [i \in N |-> IF i \in P THEN table[e[i]] ELSE table[i]]
          /\ Descending(t, p, SortChannel(p))
    BY <1>4 DEF sort_by_node
  <2> DEFINE f == [i \in N |-> IF i \in P THEN e[i] ELSE i]
  <2>2. f \in [N -> N] /\ \A i \in N : f[i] = IF i \in P THEN e[i] ELSE i
    BY <1>1
  <2>3. \A i \in P : e[i] \in P
    OBVIOUS
  <2> HIDE DEF f, P
  <2>4. f \in Injection(N, N)
    <3>1. ASSUME NEW i \in N, NEW j \in N, i # j PROVE f[i] # f[j]
      BY <2>1, <2>2, <2>3, <3>1
    <3>2. QED
      BY <2>2, <3>1 DEF Injection, IsInjective
  <2>5. f \in Bijection(N, N)
    <3>1. IsFiniteSet(N)
      BY <1>1, FS_Interval
    <3>2. f \in Surjection(N, N)
      BY <2>4, <3>1, FS_Injection
    <3>3. QED
      BY <2>4, <3>2 DEF Bijection
  <2>6. t = [i \in N |-> table[f[i]]]
    <3>1. \A i \in N : table[f[i]] = IF i \in P THEN table[e[i]] ELSE table[i]
      BY <2>2
    <3> HIDE DEF N
    <3>2. QED
      BY <2>1, <3>1
  <2>7. Reorders(t, p, f)
    <3>1. \A i \in N : IF i \in P THEN f[i] \in P ELSE f[i] = i
      BY <2>2, <2>3
    <3>2. QED
      BY <2>5, <2>6, <3>1 DEF Reorders, P
  <2>8. QED
    BY <2>1, <2>7
<1>5. QED
  BY <1>3, <1>4

\* What sorting leaves is a table of the same colours.
LEMMA ReorderedTable ==
  ASSUME TableOK, NEW p \in Partition, NEW t, NEW f, Reorders(t, p, f)
  PROVE  /\ t \in Seq(Entry) /\ Len(t) = NColors
         /\ \A i \in 1..NColors : /\ t[i].pixels = {t[i].color} /\ histogram[t[i].color] > 0
                                  /\ t[i].count \in Nat
                                  /\ i \notin p.top..p.bot => t[i] = table[i]
         /\ \A i, j \in 1..NColors : i # j => t[i].color # t[j].color
         /\ \A c \in Used(histogram) : \E i \in 1..NColors : t[i].color = c
         /\ PixelsIn(t, p.top, p.bot) = PixelsIn(table, p.top, p.bot)
<1> DEFINE N == 1..NColors
           P == p.top..p.bot
<1>1. NColors \in Nat /\ \A i \in P : i \in N
  BY Numbers, Within
<1>2. /\ f \in [N -> N] /\ (\A i, j \in N : i # j => f[i] # f[j])
      /\ \A i \in N : \E j \in N : f[j] = i
  BY DEF Reorders, Bijection, Injection, Surjection, IsInjective
<1>3. \A i \in N : t[i] = table[f[i]]
  BY DEF Reorders
<1>4. \A i \in N : IF i \in P THEN f[i] \in P ELSE f[i] = i
  BY DEF Reorders
<1>5. \A i \in N : table[i] \in Entry /\ table[i].count \in Nat
  BY Colours
<1>6. t \in [N -> Entry] /\ t \in Seq(Entry) /\ Len(t) = NColors
  <2>1. t \in [N -> Entry]
    BY <1>2, <1>5 DEF Reorders
  <2>2. QED
    BY <1>1, <2>1
<1>7. \A i \in N : /\ t[i].pixels = {t[i].color} /\ histogram[t[i].color] > 0
                   /\ t[i].count \in Nat
                   /\ i \notin P => t[i] = table[i]
  <2>1. \A i \in N : table[i].pixels = {table[i].color} /\ histogram[table[i].color] > 0
    BY DEF TableOK
  <2> HIDE DEF N, P
  <2>2. QED
    BY <1>2, <1>3, <1>4, <1>5, <2>1
<1>8. \A i, j \in N : i # j => t[i].color # t[j].color
  <2>1. \A i, j \in N : i # j => table[i].color # table[j].color
    BY DEF TableOK
  <2> HIDE DEF N, P
  <2>2. QED
    BY <1>2, <1>3, <2>1
<1>9. \A c \in Used(histogram) : \E i \in N : t[i].color = c
  <2>1. \A c \in Used(histogram) : \E i \in N : table[i].color = c
    BY DEF TableOK
  <2> HIDE DEF N, P
  <2>2. QED
    BY <1>2, <1>3, <2>1
<1>10. PixelsIn(t, p.top, p.bot) = PixelsIn(table, p.top, p.bot)
  <2> DEFINE e == [i \in P |-> f[i]]
  <2>1. \A i \in P : e[i] = f[i] /\ e[i] \in P /\ i \in N
    BY <1>1, <1>4
  <2>2. \A j \in P : \E i \in P : e[i] = j
    <3> SUFFICES ASSUME NEW j \in P PROVE \E i \in P : e[i] = j
      OBVIOUS
    <3>1. PICK i \in N : f[i] = j
      BY <1>1, <1>2
    <3>2. i \in P
      BY <1>4, <3>1
    <3>3. QED
      BY <2>1, <3>1, <3>2
  <2>3. e \in [P -> P]
    BY <2>1
  <2> HIDE DEF e, P
  <2>4. \A i, j \in P : i # j => e[i] # e[j]
    BY <1>2, <2>1
  <2>5. e \in Bijection(P, P)
    BY <2>2, <2>3, <2>4 DEF Bijection, Injection, Surjection, IsInjective
  <2>6. p.top \in Int /\ p.bot \in Int
    BY <1>1 DEF Partition
  <2>7. \A i \in P : table[i].count \in Nat /\ t[i] = table[e[i]]
    BY <1>3, <1>5, <2>1
  <2>8. QED
    BY <2>5, <2>6, <2>7, PixelsReordered DEF P
<1>11. QED
  BY <1>6, <1>7, <1>8, <1>9, <1>10

-----------------------------------------------------------------------------
(* make_split *)

\* The loop stops at the last entry at the latest: there all the pixels have
\* been passed, and half of them is nearer to all but the last entry's.
\* What is taken back leaves an entry at least in each half.
LEMMA SplitInside ==
  ASSUME NEW t, NEW p, p.top \in Nat, p.bot \in Nat, p.top < p.bot,
         \A i \in p.top..p.bot : t[i].count \in Nat,
         p.count = PixelsIn(t, p.top, p.bot)
  PROVE  LET i == LastOfFirst(t, p) IN
         /\ Stops(t, p) # {}
         /\ i \in p.top..(p.bot - 1)
         /\ CountOfFirst(t, p, i) \in Nat
         /\ CountOfFirst(t, p, i) = PixelsIn(t, p.top, i)
         /\ p.count - CountOfFirst(t, p, i) \in Nat
         /\ p.count - CountOfFirst(t, p, i) = PixelsIn(t, i + 1, p.bot)
<1> DEFINE i == LastOfFirst(t, p)
           all == PixelsIn(t, p.top, p.bot)
           most == PixelsIn(t, p.top, p.bot - 1)
           last == PixelsIn(t, p.bot, p.bot)
<1>1. p.bot \in Stops(t, p)
  <2>1. all = most + last
    <3>1. (p.bot - 1) + 1 = p.bot /\ p.bot - 1 \in Int
      OBVIOUS
    <3>2. PixelsIn(t, p.top, p.bot) = PixelsIn(t, p.top, p.bot - 1)
                                      + PixelsIn(t, (p.bot - 1) + 1, p.bot)
      BY <3>1, PixelsApart
    <3>3. QED
      BY <3>1, <3>2
  <2>2. most \in Nat /\ last \in Nat /\ all \in Nat
    <3>1. \A j \in p.top..(p.bot - 1) : t[j].count \in Nat
      OBVIOUS
    <3>2. \A j \in p.bot..p.bot : t[j].count \in Nat
      OBVIOUS
    <3>3. p.top \in Int /\ p.bot \in Int /\ p.bot - 1 \in Int
      OBVIOUS
    <3>4. most \in Nat
      BY <3>1, <3>3, PixelsAreNat
    <3>5. last \in Nat
      BY <3>2, <3>3, PixelsAreNat
    <3>6. QED
      BY <2>1, <3>4, <3>5
  <2>3. p.count = all /\ Half(p) = all \div 2
    BY DEF Half
  <2> HIDE DEF all, most, last
  <2>4. Abs(Half(p) - all) >= Abs(Half(p) - most)
    BY <2>1, <2>2, <2>3 DEF Abs
  <2>5. p.bot \in p.top..p.bot
    OBVIOUS
  <2>6. QED
    BY <2>4, <2>5 DEF Stops, all, most
<1>2. Stops(t, p) \in SUBSET Nat /\ \A j \in Stops(t, p) : p.top <= j
  BY DEF Stops
<1>3. Min(Stops(t, p)) \in Nat /\ p.top <= Min(Stops(t, p)) /\ Min(Stops(t, p)) <= p.bot
  <2>1. Min(Stops(t, p)) \in Stops(t, p) /\ \A y \in Stops(t, p) : Min(Stops(t, p)) <= y
    BY <1>1, <1>2, MinInSet
  <2>2. QED
    BY <1>1, <1>2, <2>1
<1>4. i \in p.top..(p.bot - 1)
  <2> DEFINE m == Min(Stops(t, p)) - 1
             S == {p.top, m}
  <2>1. i = Max(S)
    BY DEF LastOfFirst
  <2>2. m \in Int /\ m <= p.bot - 1
    BY <1>3
  <2>3. CASE m >= p.top
    <3>1. m \in Nat /\ S \in SUBSET Nat /\ S # {}
      BY <2>2, <2>3
    <3>2. IsFiniteSet(S)
      <4>1. IsFiniteSet({p.top}) /\ IsFiniteSet({m}) /\ S = {p.top} \cup {m}
        BY FS_Singleton
      <4> HIDE DEF S, m
      <4>2. QED
        BY <4>1, FS_Union
    <3>3. p.top \in S /\ \A x \in S : x = p.top \/ x = m
      OBVIOUS
    <3> HIDE DEF S
    <3>4. Max(S) \in S /\ \A y \in S : y <= Max(S)
      BY <3>1, <3>2, MaxInSet
    <3> HIDE DEF m, i
    <3>5. QED
      BY <2>1, <2>2, <2>3, <3>3, <3>4
  <2>4. CASE m < p.top
    <3>1. p.top \in S /\ \A y \in S : p.top >= y
      BY <2>2, <2>4
    <3>2. \A x \in S : (\A y \in S : x >= y) => x = p.top
      BY <2>2, <2>4
    <3> HIDE DEF S
    <3>3. Max(S) = p.top
      BY <3>1, <3>2 DEF Max
    <3>4. QED
      BY <2>1, <3>3
  <2>5. QED
    BY <2>2, <2>3, <2>4
<1> HIDE DEF i
<1>5. /\ i \in Int /\ i + 1 \in Int /\ p.top <= i + 1 /\ i <= p.bot
      /\ p.top \in Int /\ p.bot \in Int
  BY <1>4
<1>6. p.count = PixelsIn(t, p.top, i) + PixelsIn(t, i + 1, p.bot)
  BY <1>5, PixelsApart
<1>7. PixelsIn(t, p.top, i) \in Nat /\ PixelsIn(t, i + 1, p.bot) \in Nat
  <2>1. \A j \in p.top..i : t[j].count \in Nat
    BY <1>5
  <2>2. \A j \in (i + 1)..p.bot : t[j].count \in Nat
    BY <1>5
  <2>3. QED
    BY <1>5, <2>1, <2>2, PixelsAreNat
<1>8. CountOfFirst(t, p, i) = PixelsIn(t, p.top, i)
  BY DEF CountOfFirst
<1>9. p.count - CountOfFirst(t, p, i) = PixelsIn(t, i + 1, p.bot)
  BY <1>6, <1>7, <1>8
<1>10. QED
  BY <1>1, <1>4, <1>7, <1>8, <1>9 DEF i

-----------------------------------------------------------------------------
(* The cut *)

\* What replace makes of the list of partitions.
Replaced(q, k, a, b) ==
  /\ Len(q) = Len(partitions) + 1
  /\ \A j \in 1..(Len(partitions) + 1) :
       q[j] = IF j < k THEN partitions[j]
              ELSE IF j = k THEN a ELSE IF j = k + 1 THEN b ELSE partitions[j - 1]

LEMMA ReplaceElements ==
  ASSUME MedianTypes, NEW k \in 1..Len(partitions), NEW a \in Partition, NEW b \in Partition
  PROVE  LET q == InsertAt(ReplaceAt(partitions, k, a), k + 1, b) IN
         q \in Seq(Partition) /\ Replaced(q, k, a, b)
<1> DEFINE s == ReplaceAt(partitions, k, a)
           q == InsertAt(s, k + 1, b)
<1>1. partitions \in Seq(Partition) /\ Len(partitions) \in Nat
  BY DEF MedianTypes
<1>2. /\ s \in Seq(Partition) /\ Len(s) = Len(partitions)
      /\ \A j \in 1..Len(partitions) : s[j] = IF j = k THEN a ELSE partitions[j]
  BY <1>1 DEF ReplaceAt
<1> HIDE DEF s
<1>3. k + 1 \in 1..(Len(s) + 1)
  BY <1>1, <1>2
<1>4. /\ q \in Seq(Partition) /\ Len(q) = Len(s) + 1
      /\ \A j \in 1..(Len(s) + 1) :
           q[j] = IF j < k + 1 THEN s[j] ELSE IF j = k + 1 THEN b ELSE s[j - 1]
  <2> DEFINE m == k + 1
  <2>1. m \in 1..(Len(s) + 1)
    BY <1>3
  <2> HIDE DEF m
  <2>2. b \in Partition /\ s \in Seq(Partition)
    BY <1>2
  <2>3. InsertAt(s, m, b) \in Seq(Partition) /\ Len(InsertAt(s, m, b)) = Len(s) + 1
    BY <2>1, <2>2, InsertAtElements, Zenon
  <2>4. ASSUME NEW j \in 1..(Len(s) + 1)
        PROVE  InsertAt(s, m, b)[j] = IF j < m THEN s[j] ELSE IF j = m THEN b ELSE s[j - 1]
    BY <2>1, <2>2, InsertAtElements, SMTT(60)
  <2>5. QED
    BY <2>3, <2>4 DEF m
<1> HIDE DEF q
<1>5. ASSUME NEW j \in 1..(Len(partitions) + 1)
      PROVE  q[j] = IF j < k THEN partitions[j]
                    ELSE IF j = k THEN a ELSE IF j = k + 1 THEN b ELSE partitions[j - 1]
  <2>1. j < k => j \in 1..Len(partitions) /\ j < k + 1 /\ j # k
    BY <1>1
  <2>2. j = k => j < k + 1 /\ j \in 1..Len(partitions)
    BY <1>1
  <2>3. j > k + 1 => j - 1 \in 1..Len(partitions) /\ j - 1 # k
    BY <1>1
  <2>4. j \in 1..(Len(s) + 1)
    BY <1>2
  <2>5. q[j] = IF j < k + 1 THEN s[j] ELSE IF j = k + 1 THEN b ELSE s[j - 1]
    BY <1>4, <2>4
  <2>6. CASE j < k
    BY <1>2, <2>1, <2>5, <2>6
  <2>7. CASE j = k
    BY <1>2, <2>2, <2>5, <2>7
  <2>8. CASE j = k + 1
    BY <2>5, <2>8
  <2>9. CASE j > k + 1
    BY <1>2, <2>3, <2>5, <2>9
  <2>10. QED
    BY <2>6, <2>7, <2>8, <2>9
<1>6. QED
  BY <1>2, <1>4, <1>5 DEF Replaced, q, s

\* What a cut of partition k into a and b, the table being t, comes to.
Cut(t, k, a, b) ==
  LET p == partitions[k] IN
  /\ k \in 1..Len(partitions)
  /\ a \in Partition /\ b \in Partition
  /\ a.top = p.top /\ a.top <= a.bot /\ b.top = a.bot + 1 /\ b.top <= b.bot /\ b.bot = p.bot
  /\ a.count = PixelsIn(t, a.top, a.bot) /\ b.count = PixelsIn(t, b.top, b.bot)
  /\ a.sorted = SortChannel(p) /\ b.sorted = SortChannel(p)
  /\ Descending(t, p, SortChannel(p))
  /\ \E f : Reorders(t, p, f)

\* Split cuts a partition: make_split never runs past it.
LEMMA SplitCuts ==
  ASSUME MedianInv, Split
  PROVE  \E t, k, a, b :
           /\ Cut(t, k, a, b) /\ table' = t /\ UNCHANGED overrun
           /\ partitions' \in Seq(Partition) /\ Replaced(partitions', k, a, b)
           /\ Len(partitions) < n_out
<1>1. PICK k \in largest_node : \E t \in sort_by_node(partitions[k]) :
        LET p == partitions[k]
            i == LastOfFirst(t, p)
            n == CountOfFirst(t, p, i)
            a == [p EXCEPT !.bot = IF i = p.bot THEN i - 1 ELSE i,
                           !.sorted = SortChannel(p), !.count = n]
            b == [a EXCEPT !.top = a.bot + 1, !.bot = p.bot, !.count = p.count - n]
        IN /\ table' = t
           /\ IF Stops(t, p) = {}
              THEN overrun' = TRUE /\ UNCHANGED partitions
              ELSE /\ partitions' = InsertAt(ReplaceAt(partitions, k, a), k + 1, b)
                   /\ UNCHANGED overrun
  BY DEF Split
<1> DEFINE p == partitions[k]
<1>2. PICK t \in sort_by_node(p) :
        LET i == LastOfFirst(t, p)
            n == CountOfFirst(t, p, i)
            a == [p EXCEPT !.bot = IF i = p.bot THEN i - 1 ELSE i,
                           !.sorted = SortChannel(p), !.count = n]
            b == [a EXCEPT !.top = a.bot + 1, !.bot = p.bot, !.count = p.count - n]
        IN /\ table' = t
           /\ IF Stops(t, p) = {}
              THEN overrun' = TRUE /\ UNCHANGED partitions
              ELSE /\ partitions' = InsertAt(ReplaceAt(partitions, k, a), k + 1, b)
                   /\ UNCHANGED overrun
  BY <1>1
<1> DEFINE i == LastOfFirst(t, p)
           n == CountOfFirst(t, p, i)
           c == SortChannel(p)
           a == [p EXCEPT !.bot = i, !.sorted = c, !.count = n]
           b == [p EXCEPT !.top = i + 1, !.sorted = c, !.count = p.count - n]
<1>3. TableOK /\ MedianTypes /\ PartitionsTile /\ SortedAsMarked
  BY DEF MedianInv
<1>4. k \in 1..Len(partitions) /\ Widest(p) > 0
  BY <1>3, LargestOf
<1>5. p \in Partition /\ p.top <= p.bot /\ p.top \in 1..NColors /\ p.bot \in 1..NColors
  BY <1>3, <1>4, PartitionOf
<1>6. p.top < p.bot /\ c \in Channel /\ c # Unsorted
  <2> HIDE DEF p
  <2>1. QED
    BY <1>3, <1>4, <1>5, WidestOf
<1>7. PICK f : Reorders(t, p, f)
  BY <1>3, <1>5, SortReorders
<1>8. /\ \A j \in p.top..p.bot : t[j].count \in Nat
      /\ p.count = PixelsIn(t, p.top, p.bot)
  <2>1. p.count = PixelsIn(table, p.top, p.bot)
    BY <1>3, <1>4 DEF PartitionsTile
  <2>2. \A j \in p.top..p.bot : j \in 1..NColors
    BY <1>3, <1>5, Within, Numbers
  <2> HIDE DEF p
  <2>3. QED
    BY <1>3, <1>5, <1>7, <2>1, <2>2, ReorderedTable
<1>9. /\ Stops(t, p) # {} /\ i \in p.top..(p.bot - 1)
      /\ n \in Nat /\ n = PixelsIn(t, p.top, i)
      /\ p.count - n \in Nat /\ p.count - n = PixelsIn(t, i + 1, p.bot)
  <2>1. p.top \in Nat /\ p.bot \in Nat
    BY <1>3, <1>5, Numbers
  <2> HIDE DEF p
  <2>2. QED
    BY <1>6, <1>8, <2>1, SplitInside
<1>10. Descending(t, p, c)
  <2>1. CASE t = table /\ AlreadySorted(p)
    <3>1. p.sorted = c /\ p.sorted # Unsorted
      BY <1>6, <2>1 DEF AlreadySorted
    <3>2. Descending(table, p, p.sorted)
      BY <1>3, <1>4, <3>1 DEF SortedAsMarked
    <3>3. QED
      BY <2>1, <3>1, <3>2
  <2>2. CASE Descending(t, p, SortChannel(p))
    BY <2>2
  <2>3. QED
    BY <1>3, <1>5, <2>1, <2>2, SortReorders
<1>11. /\ a \in Partition /\ b \in Partition
       /\ a.top = p.top /\ a.bot = i /\ a.sorted = c /\ a.count = n
       /\ b.top = i + 1 /\ b.bot = p.bot /\ b.sorted = c /\ b.count = p.count - n
  <2>1. i \in 1..NColors /\ i + 1 \in 1..NColors
    BY <1>3, <1>5, <1>9, Numbers
  <2>2. c \in {Unsorted} \cup Channel
    BY <1>6
  <2> HIDE DEF p, i, n, c
  <2>3. QED
    BY <1>5, <1>9, <2>1, <2>2 DEF Partition
<1>12. /\ table' = t /\ UNCHANGED overrun
       /\ partitions' = InsertAt(ReplaceAt(partitions, k, a), k + 1, b)
  <2> DEFINE a0 == [p EXCEPT !.bot = IF i = p.bot THEN i - 1 ELSE i, !.sorted = c, !.count = n]
             b0 == [a0 EXCEPT !.top = a0.bot + 1, !.bot = p.bot, !.count = p.count - n]
  <2>1. /\ table' = t /\ UNCHANGED overrun
        /\ partitions' = InsertAt(ReplaceAt(partitions, k, a0), k + 1, b0)
    BY <1>2, <1>9
  <2>2. i # p.bot
    BY <1>3, <1>5, <1>9, Numbers
  <2> HIDE DEF p, i, n, c
  <2>3. a0 = a
    BY <2>2
  <2>4. b0 = b
    BY <1>5, <2>3, <1>11 DEF Partition
  <2> HIDE DEF a0, b0, a, b
  <2>5. QED
    BY <2>1, <2>3, <2>4
<1> HIDE DEF a, b
<1>13. partitions' \in Seq(Partition) /\ Replaced(partitions', k, a, b)
  BY <1>3, <1>4, <1>11, <1>12, ReplaceElements
<1>14. a.top <= a.bot /\ b.top = a.bot + 1 /\ b.top <= b.bot
  BY <1>3, <1>5, <1>9, <1>11, Numbers
<1>15. Cut(t, k, a, b)
  BY <1>4, <1>7, <1>9, <1>10, <1>11, <1>14 DEF Cut
<1>16. Len(partitions) < n_out
  BY DEF Split
<1>17. QED
  BY <1>12, <1>13, <1>15, <1>16

\* Sorting one partition leaves the entries of the others where they are.
LEMMA OthersStay ==
  ASSUME TableOK, MedianTypes, PartitionsTile, Ordered,
         NEW t, NEW k, NEW a, NEW b, Cut(t, k, a, b),
         NEW m \in 1..Len(partitions), m # k
  PROVE  LET o == partitions[m] IN
         /\ \A i \in o.top..o.bot : t[i] = table[i]
         /\ PixelsIn(t, o.top, o.bot) = PixelsIn(table, o.top, o.bot)
         /\ \A c : Descending(table, o, c) => Descending(t, o, c)
<1> DEFINE o == partitions[m]
           p == partitions[k]
<1>1. k \in 1..Len(partitions) /\ \E f : Reorders(t, p, f)
  BY DEF Cut
<1>2. /\ o \in Partition /\ o.top \in 1..NColors /\ o.bot \in 1..NColors /\ o.top <= o.bot
      /\ p \in Partition /\ p.top \in 1..NColors /\ p.bot \in 1..NColors /\ p.top <= p.bot
  BY <1>1, PartitionOf
<1>3. o.bot < p.top \/ p.bot < o.top
  BY <1>1 DEF Ordered, MedianTypes
<1>4. ASSUME NEW i \in o.top..o.bot PROVE t[i] = table[i]
  <2>1. i \in 1..NColors /\ i \notin p.top..p.bot
    BY <1>2, <1>3, Numbers
  <2> HIDE DEF p, o
  <2>2. QED
    BY <1>1, <1>2, <2>1, ReorderedTable
<1>5. PixelsIn(t, o.top, o.bot) = PixelsIn(table, o.top, o.bot)
  <2> HIDE DEF o
  <2>1. [i \in o.top..o.bot |-> t[i].count] = [i \in o.top..o.bot |-> table[i].count]
    BY <1>4
  <2>2. QED
    BY <2>1 DEF PixelsIn
<1>6. ASSUME NEW c, Descending(table, o, c) PROVE Descending(t, o, c)
  <2> SUFFICES ASSUME NEW i \in o.top..(o.bot - 1)
               PROVE  t[i].color[c] >= t[i + 1].color[c]
    BY DEF Descending
  <2>1. i \in o.top..o.bot /\ i + 1 \in o.top..o.bot
    BY <1>2, Numbers
  <2>2. t[i] = table[i] /\ t[i + 1] = table[i + 1]
    BY <1>4, <2>1
  <2>3. table[i].color[c] >= table[i + 1].color[c]
    BY <1>6 DEF Descending
  <2>4. QED
    BY <2>2, <2>3
<1>7. QED
  BY <1>4, <1>5, <1>6

LEMMA CutKeeps ==
  ASSUME MedianInv, Split
  PROVE  MedianInv'
<1>1. PICK t, k, a, b :
        /\ Cut(t, k, a, b) /\ table' = t /\ UNCHANGED overrun
        /\ partitions' \in Seq(Partition) /\ Replaced(partitions', k, a, b)
        /\ Len(partitions) < n_out
  BY SplitCuts
<1> DEFINE p == partitions[k]
           n == Len(partitions)
<1>2. /\ TableOK /\ MedianTypes /\ PartitionsTile /\ Ordered /\ SortedAsMarked /\ StaysInside
      /\ UNCHANGED <<histogram, n_out>> /\ result' = <<>>
  BY DEF MedianInv, Split
<1>3. /\ k \in 1..n /\ a \in Partition /\ b \in Partition
      /\ a.top = p.top /\ a.top <= a.bot /\ b.top = a.bot + 1 /\ b.top <= b.bot /\ b.bot = p.bot
      /\ a.count = PixelsIn(t, a.top, a.bot) /\ b.count = PixelsIn(t, b.top, b.bot)
      /\ a.sorted = SortChannel(p) /\ b.sorted = SortChannel(p)
      /\ Descending(t, p, SortChannel(p)) /\ \E f : Reorders(t, p, f)
  BY <1>1 DEF Cut
<1>4. /\ p \in Partition /\ p.top <= p.bot /\ p.top \in 1..NColors /\ p.bot \in 1..NColors
      /\ \A m \in 1..n : /\ partitions[m].top \in 1..NColors /\ partitions[m].bot \in 1..NColors
                         /\ partitions[m].top <= partitions[m].bot
  BY <1>2, <1>3, PartitionOf
<1>5. NColors \in Nat /\ n \in Nat /\ 1 <= n /\ n_out \in 1..NColors
  BY <1>2, Numbers DEF MedianTypes
<1>6. /\ t \in Seq(Entry) /\ Len(t) = NColors
      /\ \A i \in 1..NColors : t[i].pixels = {t[i].color} /\ histogram[t[i].color] > 0
      /\ \A i, j \in 1..NColors : i # j => t[i].color # t[j].color
      /\ \A c \in Used(histogram) : \E i \in 1..NColors : t[i].color = c
  <2> HIDE DEF p
  <2>1. QED
    BY <1>2, <1>3, <1>4, ReorderedTable
<1>7. NColors' = NColors /\ Partition' = Partition
  <2>1. NColors' = NColors
    BY <1>1, <1>6 DEF NColors
  <2>2. QED
    BY <2>1 DEF Partition
<1>8. TableOK'
  <2>1. table' \in Seq(Entry) /\ histogram' = histogram
    BY <1>1, <1>2, <1>6
  <2>2. NColors' = Cardinality(Used(histogram))
    BY <1>2, <1>7 DEF TableOK
  <2>3. QED
    BY <1>1, <1>6, <1>7, <2>1, <2>2 DEF TableOK
<1>9. /\ Len(partitions') = n + 1
      /\ \A j \in 1..(n + 1) :
           partitions'[j] = IF j < k THEN partitions[j]
                            ELSE IF j = k THEN a ELSE IF j = k + 1 THEN b ELSE partitions[j - 1]
  BY <1>1 DEF Replaced
<1>10. MedianTypes'
  <2>1. Len(partitions') = n + 1 /\ n + 1 <= n_out
    BY <1>1, <1>5, <1>9
  <2>2. QED
    BY <1>1, <1>2, <1>5, <1>7, <2>1 DEF MedianTypes
<1> DEFINE q == partitions'
           old(j) == IF j <= k THEN j ELSE j - 1
<1>11. ASSUME NEW j \in 1..(n + 1), j # k, j # k + 1
       PROVE  old(j) \in 1..n /\ old(j) # k /\ q[j] = partitions[old(j)]
  <2>1. old(j) \in 1..n /\ old(j) # k
    BY <1>3, <1>5, <1>11
  <2>2. q[j] = partitions[old(j)]
    BY <1>3, <1>5, <1>9, <1>11
  <2>3. QED
    BY <2>1, <2>2
<1>12. q[k] = a /\ q[k + 1] = b /\ k \in 1..(n + 1) /\ k + 1 \in 1..(n + 1)
  BY <1>3, <1>5, <1>9
<1>13. /\ \A j \in 1..n : j > 1 => partitions[j].top = partitions[j - 1].bot + 1
       /\ \A j, m \in 1..n : j < m => partitions[j].bot < partitions[m].top
       /\ \A j \in 1..n : partitions[j].count = PixelsIn(table, partitions[j].top, partitions[j].bot)
       /\ partitions[1].top = 1 /\ partitions[n].bot = NColors
  BY <1>2 DEF PartitionsTile, Ordered
<1>14. a.top \in 1..NColors /\ a.bot \in 1..NColors /\ b.top \in 1..NColors /\ b.bot \in 1..NColors
  BY <1>3 DEF Partition
<1> HIDE DEF p, q
<1>15. Ordered'
  <2>1. ASSUME NEW j \in 1..(n + 1), NEW m \in 1..(n + 1), j < m
        PROVE  q[j].bot < q[m].top
    <3>1. CASE j # k /\ j # k + 1 /\ m # k /\ m # k + 1
      <4>1. old(j) \in 1..n /\ old(m) \in 1..n /\ old(j) < old(m)
        BY <1>3, <1>5, <1>11, <2>1, <3>1
      <4>2. q[j] = partitions[old(j)] /\ q[m] = partitions[old(m)]
        BY <1>11, <3>1
      <4> HIDE DEF old
      <4>3. QED
        BY <1>13, <4>1, <4>2
    <3>2. CASE j < k /\ (m = k \/ m = k + 1)
      <4>1. j \in 1..n /\ q[j] = partitions[j]
        BY <1>3, <1>5, <1>9, <3>2 DEF q
      <4>2. partitions[j].bot < p.top
        BY <1>3, <1>13, <3>2, <4>1 DEF p
      <4>3. q[m].top = p.top \/ q[m].top = a.bot + 1
        BY <1>3, <1>12, <3>2
      <4>4. QED
        BY <1>3, <1>4, <1>5, <1>14, <4>1, <4>2, <4>3
    <3>3. CASE j = k /\ m = k + 1
      BY <1>3, <1>5, <1>12, <1>14, <3>3
    <3>4. CASE m > k + 1 /\ (j = k \/ j = k + 1)
      <4>1. m - 1 \in 1..n /\ k < m - 1 /\ q[m] = partitions[m - 1]
        BY <1>3, <1>5, <1>9, <3>4 DEF q
      <4>2. p.bot < partitions[m - 1].top
        BY <1>3, <1>13, <4>1 DEF p
      <4>3. q[j].bot = a.bot \/ q[j].bot = p.bot
        BY <1>3, <1>12, <3>4
      <4>4. QED
        BY <1>3, <1>4, <1>5, <1>14, <4>1, <4>2, <4>3
    <3>5. QED
      BY <1>3, <1>5, <2>1, <3>1, <3>2, <3>3, <3>4
  <2>2. QED
    BY <1>9, <2>1 DEF Ordered, q
<1>16. PartitionsTile'
  <2>1. q[1].top = 1
    <3>1. CASE k = 1
      BY <1>3, <1>12, <1>13, <3>1 DEF p
    <3>2. CASE k # 1
      <4>1. 1 \in 1..(n + 1) /\ 1 < k
        BY <1>3, <1>5, <3>2
      <4>2. QED
        BY <1>9, <1>13, <4>1 DEF q
    <3>3. QED
      BY <3>1, <3>2
  <2>2. q[n + 1].bot = NColors
    <3>1. CASE k = n
      BY <1>3, <1>12, <1>13, <3>1 DEF p
    <3>2. CASE k # n
      <4>1. n + 1 \in 1..(n + 1) /\ ~(n + 1 < k) /\ n + 1 # k /\ n + 1 # k + 1 /\ (n + 1) - 1 = n
        BY <1>3, <1>5, <3>2
      <4>2. QED
        BY <1>9, <1>13, <4>1 DEF q
    <3>3. QED
      BY <3>1, <3>2
  <2>3. ASSUME NEW j \in 1..(n + 1)
        PROVE  q[j].top <= q[j].bot /\ q[j].count = PixelsIn(t, q[j].top, q[j].bot)
    <3>1. CASE j = k \/ j = k + 1
      BY <1>3, <1>12, <3>1
    <3>2. CASE j # k /\ j # k + 1
      <4>1. old(j) \in 1..n /\ old(j) # k /\ q[j] = partitions[old(j)]
        BY <1>11, <3>2
      <4> HIDE DEF old
      <4>2. PixelsIn(t, q[j].top, q[j].bot) = PixelsIn(table, q[j].top, q[j].bot)
        BY <1>1, <1>2, <4>1, OthersStay
      <4>3. QED
        BY <1>4, <1>13, <4>1, <4>2
    <3>3. QED
      BY <3>1, <3>2
  <2>4. ASSUME NEW j \in 1..(n + 1), j > 1 PROVE q[j].top = q[j - 1].bot + 1
    <3>1. CASE j < k
      <4>1. j \in 1..n /\ j - 1 \in 1..(n + 1) /\ j - 1 < k
        BY <1>3, <1>5, <2>4, <3>1
      <4>2. QED
        BY <1>9, <1>13, <2>4, <3>1, <4>1 DEF q
    <3>2. CASE j = k
      <4>1. j - 1 \in 1..(n + 1) /\ j - 1 < k /\ q[j - 1] = partitions[j - 1]
        BY <1>3, <1>5, <1>9, <2>4, <3>2 DEF q
      <4>2. p.top = partitions[k - 1].bot + 1
        BY <1>3, <1>13, <2>4, <3>2 DEF p
      <4>3. QED
        BY <1>3, <1>12, <3>2, <4>1, <4>2
    <3>3. CASE j = k + 1
      <4>1. j - 1 = k
        BY <1>3, <1>5, <3>3
      <4>2. QED
        BY <1>3, <1>12, <3>3, <4>1
    <3>4. CASE j = k + 2
      <4>1. j - 1 = k + 1 /\ k + 1 \in 1..n /\ k + 1 > 1 /\ (k + 1) - 1 = k
        BY <1>3, <1>5, <3>4
      <4>2. q[j] = partitions[k + 1]
        BY <1>3, <1>5, <1>9, <3>4, <4>1 DEF q
      <4>3. partitions[k + 1].top = p.bot + 1
        BY <1>13, <4>1 DEF p
      <4>4. QED
        BY <1>3, <1>12, <4>1, <4>2, <4>3
    <3>5. CASE j > k + 2
      <4>1. j - 1 \in 1..n /\ j - 1 > 1 /\ j - 1 \in 1..(n + 1) /\ j - 1 > k + 1
        BY <1>3, <1>5, <3>5
      <4>2. q[j] = partitions[j - 1] /\ q[j - 1] = partitions[(j - 1) - 1]
        BY <1>3, <1>5, <1>9, <3>5, <4>1 DEF q
      <4>3. QED
        BY <1>13, <4>1, <4>2
    <3>6. QED
      BY <1>3, <1>5, <3>1, <3>2, <3>3, <3>4, <3>5
  <2>5. QED
    BY <1>1, <1>7, <1>9, <2>1, <2>2, <2>3, <2>4 DEF PartitionsTile, q
<1>17. SortedAsMarked'
  <2>1. ASSUME NEW j \in 1..(n + 1), q[j].sorted # Unsorted
        PROVE  Descending(t, q[j], q[j].sorted)
    <3>1. CASE j = k \/ j = k + 1
      <4> DEFINE c == SortChannel(p)
      <4>5. q[j] = a \/ q[j] = b
        BY <1>12, <3>1
      <4>1. q[j].sorted = c /\ p.top <= q[j].top /\ q[j].bot <= p.bot
            /\ q[j].top \in 1..NColors /\ q[j].bot \in 1..NColors
        <5>1. a.sorted = c /\ b.sorted = c
          BY <1>3
        <5>2. p.top <= a.top /\ a.bot <= p.bot /\ p.top <= b.top /\ b.bot <= p.bot
          <6>1. /\ a.top = p.top /\ a.top <= a.bot
                /\ b.top = a.bot + 1 /\ b.top <= b.bot /\ b.bot = p.bot
            BY <1>3
          <6>2. /\ a.top \in Int /\ a.bot \in Int /\ b.top \in Int /\ b.bot \in Int
            BY <1>14
          <6>3. QED
            BY <6>1, <6>2
        <5> HIDE DEF c
        <5>3. QED
          BY <1>14, <4>5, <5>1, <5>2
      <4>2. Descending(t, p, c)
        BY <1>3
      <4> HIDE DEF c
      <4>3. \A i \in q[j].top..(q[j].bot - 1) : i \in p.top..(p.bot - 1)
        BY <1>4, <1>5, <4>1
      <4>4. QED
        BY <4>1, <4>2, <4>3 DEF Descending
    <3>2. CASE j # k /\ j # k + 1
      <4>1. old(j) \in 1..n /\ old(j) # k /\ q[j] = partitions[old(j)]
        BY <1>11, <3>2
      <4> HIDE DEF old
      <4>2. Descending(table, q[j], q[j].sorted)
        BY <1>2, <2>1, <4>1 DEF SortedAsMarked
      <4>3. QED
        BY <1>1, <1>2, <4>1, <4>2, OthersStay
    <3>3. QED
      BY <3>1, <3>2
  <2>2. QED
    BY <1>1, <1>9, <2>1 DEF SortedAsMarked, q
<1>18. StaysInside' /\ Finished'
  BY <1>1, <1>2 DEF StaysInside, Finished
<1>19. QED
  BY <1>8, <1>10, <1>15, <1>16, <1>17, <1>18 DEF MedianInv

-----------------------------------------------------------------------------
(* build_table *)

\* The number of a colour orders the palette.
LEMMA BeforeOrders ==
  /\ \A a \in Palette : ~Before(a, a)
  /\ \A a, b \in Palette : a # b => Before(a, b) \/ Before(b, a)
  /\ \A a, b, c \in Palette : Before(a, b) /\ Before(b, c) => Before(a, c)
<1>1. Palette \subseteq Nat \X Nat \X Nat
  BY PaletteAssumption
<1>2. \A a \in Nat \X Nat \X Nat : a[1] \in Nat /\ a[2] \in Nat /\ a[3] \in Nat
  OBVIOUS
<1>3. \A a, b \in Nat \X Nat \X Nat : a[1] = b[1] /\ a[2] = b[2] /\ a[3] = b[3] => a = b
  OBVIOUS
<1>4. \A a \in Palette : ~Before(a, a)
  BY <1>1, <1>2 DEF Before
<1>5. \A a, b \in Palette : a # b => Before(a, b) \/ Before(b, a)
  <2> SUFFICES ASSUME NEW a \in Palette, NEW b \in Palette, a # b
               PROVE  Before(a, b) \/ Before(b, a)
    OBVIOUS
  <2>1. a[1] # b[1] \/ a[2] # b[2] \/ a[3] # b[3]
    BY <1>1, <1>3
  <2>2. QED
    BY <1>1, <1>2, <2>1 DEF Before
<1>6. \A a, b, c \in Palette : Before(a, b) /\ Before(b, c) => Before(a, c)
  BY <1>1, <1>2 DEF Before
<1>7. QED
  BY <1>4, <1>5, <1>6

\* So a colour in use has an entry of its own, and there are no others.
LEMMA RankNumbers ==
  ASSUME NEW h
  PROVE  /\ IsFiniteSet(Used(h)) /\ Cardinality(Used(h)) \in Nat
         /\ \A c \in Used(h) : Rank(h, c) \in 0..(Cardinality(Used(h)) - 1)
         /\ \A c, d \in Used(h) : c # d => Rank(h, c) # Rank(h, d)
         /\ \A r \in 0..(Cardinality(Used(h)) - 1) : \E c \in Used(h) : Rank(h, c) = r
<1> DEFINE U == Used(h)
           n == Cardinality(U)
           First(c) == {d \in U : Before(d, c)}
           rank == [c \in U |-> Rank(h, c)]
<1>1. U \subseteq Palette /\ IsFiniteSet(U) /\ n \in Nat
  <2>1. U \subseteq Palette
    BY DEF Used
  <2>2. IsFiniteSet(U)
    BY <2>1, PaletteAssumption, FS_Subset
  <2>3. QED
    BY <2>1, <2>2, FS_CardinalityType
<1>2. \A c \in U : Rank(h, c) = Cardinality(First(c))
  BY DEF Rank
<1> HIDE DEF U
<1>3. ASSUME NEW S \in SUBSET U, NEW R \in SUBSET S, NEW c \in S, c \notin R
      PROVE  Cardinality(R) \in Nat /\ Cardinality(S) \in Nat /\ Cardinality(R) < Cardinality(S)
  <2>1. IsFiniteSet(S)
    BY <1>1, FS_Subset
  <2>2. IsFiniteSet(S \ {c}) /\ Cardinality(S \ {c}) = Cardinality(S) - 1
    BY <2>1, FS_RemoveElement
  <2>3. R \in SUBSET (S \ {c})
    BY <1>3
  <2>4. IsFiniteSet(R) /\ Cardinality(R) <= Cardinality(S \ {c})
    BY <2>2, <2>3, FS_Subset
  <2>5. Cardinality(R) \in Nat /\ Cardinality(S) \in Nat
    BY <2>1, <2>4, FS_CardinalityType
  <2>6. QED
    BY <2>2, <2>4, <2>5
<1>4. \A c \in U : Rank(h, c) \in 0..(n - 1)
  <2> SUFFICES ASSUME NEW c \in U PROVE Rank(h, c) \in 0..(n - 1)
    OBVIOUS
  <2>1. First(c) \in SUBSET U /\ c \notin First(c)
    BY <1>1, BeforeOrders
  <2> HIDE DEF First
  <2>2. Cardinality(First(c)) \in Nat /\ Cardinality(First(c)) < n
    BY <1>3, <2>1
  <2>3. QED
    BY <1>1, <1>2, <2>2
<1>5. ASSUME NEW c \in U, NEW d \in U, Before(c, d) PROVE Rank(h, c) # Rank(h, d)
  <2>1. First(d) \in SUBSET U /\ First(c) \in SUBSET First(d) /\ c \in First(d) /\ c \notin First(c)
    BY <1>1, <1>5, BeforeOrders
  <2> HIDE DEF First
  <2>2. /\ Cardinality(First(c)) \in Nat /\ Cardinality(First(d)) \in Nat
        /\ Cardinality(First(c)) < Cardinality(First(d))
    BY <1>3, <2>1
  <2>3. QED
    BY <1>2, <2>2
<1>6. \A c, d \in U : c # d => Rank(h, c) # Rank(h, d)
  BY <1>1, <1>5, BeforeOrders
<1>7. \A r \in 0..(n - 1) : \E c \in U : Rank(h, c) = r
  <2>1. rank \in Injection(U, 0..(n - 1))
    BY <1>4, <1>6 DEF Injection, IsInjective
  <2>2. IsFiniteSet(0..(n - 1)) /\ Cardinality(0..(n - 1)) = n
    <3>1. 0 \in Int /\ n - 1 \in Int
      BY <1>1
    <3>2. /\ IsFiniteSet(0..(n - 1))
          /\ Cardinality(0..(n - 1)) = IF 0 > n - 1 THEN 0 ELSE (n - 1) - 0 + 1
      BY <3>1, FS_Interval
    <3> HIDE DEF n
    <3>3. QED
      BY <1>1, <3>2
  <2>3. rank \in Surjection(U, 0..(n - 1))
    <3> HIDE DEF rank
    <3>1. QED
      BY <2>1, <2>2, FS_Injection
  <2>4. QED
    BY <2>3 DEF Surjection
<1>8. QED
  BY <1>1, <1>4, <1>6, <1>7 DEF U

LEMMA TableBuilt ==
  ASSUME MedianInit
  PROVE  TableOK /\ NColors > 0
<1> DEFINE U == Used(histogram)
           n == Cardinality(U)
           color(i) == CHOOSE c \in U : Rank(histogram, c) = i - 1
<1>1. histogram \in [Palette -> Counts] /\ U # {} /\ table = build_table(histogram)
  BY DEF MedianInit
<1>2. /\ IsFiniteSet(U) /\ n \in Nat
      /\ \A c \in U : Rank(histogram, c) \in 0..(n - 1)
      /\ \A c, d \in U : c # d => Rank(histogram, c) # Rank(histogram, d)
      /\ \A r \in 0..(n - 1) : \E c \in U : Rank(histogram, c) = r
  BY RankNumbers
<1>3. table = [i \in 1..n |-> [color |-> color(i), count |-> histogram[color(i)],
                               pixels |-> {color(i)}]]
  BY <1>1 DEF build_table
<1>4. U \subseteq Palette /\ \A c \in U : histogram[c] > 0 /\ histogram[c] \in Nat
  BY <1>1, CountsAssumption DEF Used
<1>5. n > 0
  BY <1>1, <1>2
<1> HIDE DEF U, n
<1>6. \A i \in 1..n : color(i) \in U /\ Rank(histogram, color(i)) = i - 1
  <2> SUFFICES ASSUME NEW i \in 1..n
               PROVE  color(i) \in U /\ Rank(histogram, color(i)) = i - 1
    OBVIOUS
  <2>1. i - 1 \in 0..(n - 1)
    BY <1>2
  <2>2. \E c \in U : Rank(histogram, c) = i - 1
    BY <1>2, <2>1
  <2>3. QED
    BY <2>2
<1> HIDE DEF color
<1>7. \A i \in 1..n : /\ table[i].color = color(i) /\ table[i].pixels = {color(i)}
                      /\ table[i] \in Entry
  BY <1>3, <1>4, <1>6 DEF Entry
<1>8. table \in Seq(Entry) /\ NColors = n
  <2>1. table \in [1..n -> Entry]
    BY <1>3, <1>7
  <2>2. QED
    BY <1>2, <2>1 DEF NColors
<1>9. \A i, j \in 1..n : i # j => color(i) # color(j)
  BY <1>2, <1>6
<1>10. \A c \in U : \E i \in 1..n : color(i) = c
  <2> SUFFICES ASSUME NEW c \in U PROVE \E i \in 1..n : color(i) = c
    OBVIOUS
  <2>1. Rank(histogram, c) + 1 \in 1..n /\ (Rank(histogram, c) + 1) - 1 = Rank(histogram, c)
    BY <1>2
  <2>2. color(Rank(histogram, c) + 1) = c
    BY <1>2, <1>6, <2>1
  <2>3. QED
    BY <2>1, <2>2
<1>11. TableOK
  BY <1>4, <1>6, <1>7, <1>8, <1>9, <1>10 DEF TableOK, U, n
<1>12. QED
  BY <1>5, <1>8, <1>11

\* At first there is one partition, the whole table.
LEMMA MedianInvInit == MedianInit => MedianInv
<1> SUFFICES ASSUME MedianInit PROVE MedianInv
  OBVIOUS
<1> DEFINE p == [top |-> 1, bot |-> NColors, sorted |-> Unsorted,
                 count |-> PixelsIn(table, 1, NColors)]
<1>1. TableOK /\ NColors \in Nat /\ NColors > 0
  BY TableBuilt, Numbers
<1>2. partitions = <<p>> /\ result = <<>> /\ overrun = FALSE
  BY DEF MedianInit
<1>3. PICK m \in 1..MaxOut : n_out = Min({m, NColors})
  BY DEF MedianInit
<1>4. n_out \in 1..NColors
  <2>1. m \in Nat /\ m >= 1
    BY MaxOutAssumption
  <2>2. {m, NColors} \in SUBSET Nat /\ {m, NColors} # {}
    BY <1>1, <2>1
  <2>3. n_out \in {m, NColors} /\ \A y \in {m, NColors} : n_out <= y
    BY <1>3, <2>2, MinInSet
  <2>4. QED
    BY <1>1, <2>1, <2>3
<1>5. PixelsIn(table, 1, NColors) \in Nat
  <2>1. \A i \in 1..NColors : table[i].count \in Nat
    BY <1>1, Colours
  <2>2. 1 \in Int /\ NColors \in Int
    BY <1>1
  <2>3. QED
    BY <2>1, <2>2, PixelsAreNat
<1>6. p \in Partition
  BY <1>1, <1>5 DEF Partition
<1>7. p.top = 1 /\ p.bot = NColors /\ p.sorted = Unsorted /\ p.count = PixelsIn(table, 1, NColors)
  OBVIOUS
<1> HIDE DEF p
<1>8. Len(partitions) = 1 /\ partitions[1] = p /\ partitions \in Seq(Partition)
  BY <1>2, <1>6
<1>9. MedianTypes
  BY <1>1, <1>4, <1>8 DEF MedianTypes
<1>10. \A k \in 1..Len(partitions) : k = 1
  BY <1>8
<1>11. PartitionsTile
  BY <1>1, <1>7, <1>8, <1>10 DEF PartitionsTile
<1>12. Ordered
  BY <1>10 DEF Ordered
<1>13. SortedAsMarked
  BY <1>7, <1>8, <1>10 DEF SortedAsMarked
<1>14. StaysInside /\ Finished
  BY <1>2 DEF StaysInside, Finished
<1>15. QED
  BY <1>1, <1>9, <1>11, <1>12, <1>13, <1>14 DEF MedianInv

-----------------------------------------------------------------------------
(* The invariant holds *)

LEMMA AverageKeeps ==
  ASSUME MedianInv, Average
  PROVE  MedianInv'
<1>1. UNCHANGED <<histogram, table, n_out, partitions, overrun>>
  BY DEF Average
<1>2. TableOK' /\ MedianTypes' /\ PartitionsTile' /\ Ordered' /\ SortedAsMarked' /\ StaysInside'
  <2>1. NColors' = NColors /\ Partition' = Partition
    BY <1>1 DEF NColors, Partition
  <2>2. TableOK' /\ MedianTypes'
    BY <1>1, <2>1 DEF MedianInv, TableOK, MedianTypes
  <2>3. PartitionsTile'
    BY <1>1, <2>1 DEF MedianInv, PartitionsTile
  <2>4. Ordered' /\ SortedAsMarked' /\ StaysInside'
    BY <1>1 DEF MedianInv, Ordered, SortedAsMarked, StaysInside
  <2>5. QED
    BY <2>2, <2>3, <2>4
<1>3. Finished'
  <2>1. largest_node' = largest_node
    BY <1>1 DEF largest_node, Widest, Spread, Values
  <2>2. [k \in 1..Len(partitions) |-> Merged(partitions[k])]'
        = [k \in 1..Len(partitions) |-> Merged(partitions[k])]
    BY <1>1 DEF Merged
  <2>3. /\ Len(partitions) = n_out \/ largest_node = {}
        /\ result' = [k \in 1..Len(partitions) |-> Merged(partitions[k])]
    BY DEF Average
  <2>4. QED
    BY <1>1, <2>1, <2>2, <2>3 DEF Finished
<1>4. QED
  BY <1>2, <1>3 DEF MedianInv

LEMMA StutterKeeps ==
  ASSUME MedianInv, UNCHANGED medianVars
  PROVE  MedianInv'
<1>1. UNCHANGED <<histogram, table, n_out, partitions, result, overrun>>
  BY DEF medianVars
<1>2. NColors' = NColors /\ Partition' = Partition
  BY <1>1 DEF NColors, Partition
<1>3. TableOK' /\ MedianTypes'
  BY <1>1, <1>2 DEF MedianInv, TableOK, MedianTypes
<1>4. PartitionsTile'
  BY <1>1, <1>2 DEF MedianInv, PartitionsTile
<1>5. Ordered' /\ SortedAsMarked' /\ StaysInside'
  BY <1>1 DEF MedianInv, Ordered, SortedAsMarked, StaysInside
<1>6. largest_node' = largest_node
  BY <1>1 DEF largest_node, Widest, Spread, Values
<1>7. [k \in 1..Len(partitions) |-> Merged(partitions[k])]'
      = [k \in 1..Len(partitions) |-> Merged(partitions[k])]
  BY <1>1 DEF Merged
<1>8. Finished'
  BY <1>1, <1>6, <1>7 DEF MedianInv, Finished
<1>9. QED
  BY <1>3, <1>4, <1>5, <1>8 DEF MedianInv

\* The table stays that of the image's colours, cut into partitions in order
\* that carry their own pixels and marks, until it is averaged.
THEOREM MedianInvHolds == MedianSpec => []MedianInv
<1>1. MedianInit => MedianInv
  BY MedianInvInit
<1>2. MedianInv /\ [MedianNext]_medianVars => MedianInv'
  BY CutKeeps, AverageKeeps, StutterKeeps DEF MedianNext
<1>3. QED
  BY <1>1, <1>2, PTL DEF MedianSpec

\* merge_partition: after every cut the partitions tile the table, none is
\* empty and each carries the number of its pixels.
THEOREM PartitionsAlwaysTile == MedianSpec => []PartitionsTile
<1>1. MedianInv => PartitionsTile
  BY DEF MedianInv
<1>2. QED
  BY <1>1, MedianInvHolds, PTL

\* make_split never looks at the entry after its partition, whatever the
\* counts of its colours, those of no pixels included.
THEOREM SplitStaysInside == MedianSpec => []StaysInside
<1>1. MedianInv => StaysInside
  BY DEF MedianInv
<1>2. QED
  BY <1>1, MedianInvHolds, PTL

\* sort_by_node leaves out no sort that make_split needs: a partition that
\* inherits the mark of the one it was cut from is in that order.
THEOREM MarksAreTrue == MedianSpec => []SortedAsMarked
<1>1. MedianInv => SortedAsMarked
  BY DEF MedianInv
<1>2. QED
  BY <1>1, MedianInvHolds, PTL

-----------------------------------------------------------------------------
(* What is drawn *)

\* Every entry of the table is in a partition, and in one only.
LEMMA EntryHasPartition ==
  ASSUME TableOK, MedianTypes, PartitionsTile, Ordered, NEW i \in 1..NColors
  PROVE  /\ \E k \in 1..Len(partitions) : i \in partitions[k].top..partitions[k].bot
         /\ \A j, k \in 1..Len(partitions) :
              i \in partitions[j].top..partitions[j].bot
              /\ i \in partitions[k].top..partitions[k].bot => j = k
<1> DEFINE n == Len(partitions)
           S == {k \in 1..n : i <= partitions[k].bot}
<1>1. n \in Nat /\ 1 <= n /\ i \in Int
  BY DEF MedianTypes
<1>2. \A k \in 1..n : /\ partitions[k].top \in Int /\ partitions[k].bot \in Int
                      /\ partitions[k].top <= partitions[k].bot
  BY PartitionOf
<1>3. /\ partitions[1].top = 1 /\ partitions[n].bot = NColors
      /\ \A k \in 1..n : k > 1 => partitions[k].top = partitions[k - 1].bot + 1
  BY DEF PartitionsTile
<1>4. S \in SUBSET Nat /\ S # {}
  <2>1. n \in S
    BY <1>1, <1>3, Numbers
  <2>2. QED
    BY <2>1
<1>5. PICK k \in S : \A j \in S : k <= j
  BY <1>4, LeastNat
<1>6. partitions[k].top <= i
  <2>1. CASE k = 1
    BY <1>3, <2>1
  <2>2. CASE k # 1
    <3>1. k - 1 \in 1..n /\ k - 1 \notin S /\ k > 1
      BY <1>1, <1>5, <2>2
    <3>2. ~(i <= partitions[k - 1].bot)
      BY <3>1
    <3>3. QED
      BY <1>1, <1>2, <1>3, <3>1, <3>2
  <2>3. QED
    BY <2>1, <2>2
<1>7. i \in partitions[k].top..partitions[k].bot /\ k \in 1..n
  BY <1>1, <1>2, <1>5, <1>6
<1>8. ASSUME NEW j \in 1..n, NEW m \in 1..n, i \in partitions[j].top..partitions[j].bot,
             i \in partitions[m].top..partitions[m].bot, j < m
      PROVE  FALSE
  <2>1. partitions[j].bot < partitions[m].top
    BY <1>8 DEF Ordered
  <2>2. QED
    BY <1>2, <1>8, <2>1
<1>9. QED
  BY <1>1, <1>7, <1>8

\* The pixels that an entry of the result stands for.
LEMMA MergedPixels ==
  ASSUME TableOK, MedianTypes, PartitionsTile, NEW k \in 1..Len(partitions)
  PROVE  LET p == partitions[k] IN
         /\ \A c : c \in Merged(p).pixels <=> \E i \in p.top..p.bot : table[i].color = c
         /\ \A ch \in Channel : /\ Merged(p).color[ch] \in Int
                                /\ Min(Values(p, ch)) <= Merged(p).color[ch]
                                /\ Merged(p).color[ch] <= Max(Values(p, ch))
<1> DEFINE p == partitions[k]
           P == p.top..p.bot
<1>1. p \in Partition /\ p.top <= p.bot /\ p.top \in 1..NColors /\ p.bot \in 1..NColors
  BY PartitionOf
<1>2. ASSUME NEW c
      PROVE  c \in Merged(p).pixels <=> \E i \in P : table[i].color = c
  <2>1. Merged(p).pixels = UNION {table[i].pixels : i \in P}
    BY DEF Merged, EntriesOf
  <2>2. \A i \in P : table[i].pixels = {table[i].color}
    BY <1>1, Within, Numbers DEF TableOK
  <2> HIDE DEF P
  <2>3. QED
    BY <2>1, <2>2
<1>3. ASSUME NEW ch \in Channel
      PROVE  /\ Merged(p).color[ch] \in Int
             /\ Min(Values(p, ch)) <= Merged(p).color[ch]
             /\ Merged(p).color[ch] <= Max(Values(p, ch))
  <2> DEFINE g == [i \in P |-> table[i].color[ch]]
             lo == Min(Values(p, ch))
             hi == Max(Values(p, ch))
             n == Cardinality(P)
             s == Total(g, P)
  <2>1. /\ lo \in Nat /\ hi \in Nat
        /\ \A i \in P : table[i].color[ch] \in Nat /\ lo <= table[i].color[ch] /\ table[i].color[ch] <= hi
    <3> HIDE DEF p
    <3>1. QED
      BY <1>1, SpreadOf
  <2>2. p.top \in Int /\ p.bot \in Int
    BY <1>1
  <2>3. IsFiniteSet(P) /\ n = p.bot - p.top + 1 /\ n \in Nat /\ n > 0
    <3>1. IsFiniteSet(P) /\ Cardinality(P) = IF p.top > p.bot THEN 0 ELSE p.bot - p.top + 1
      BY <2>2, FS_Interval
    <3>2. QED
      BY <1>1, <2>2, <3>1
  <2>4. Merged(p).color[ch] = s \div n
    <3>1. Merged(p).color[ch] = SumFunction([i \in P |-> table[i].color[ch]]) \div (p.bot - p.top + 1)
      BY DEF Merged
    <3>2. SumFunction([i \in P |-> table[i].color[ch]]) = s
      BY DEF SumFunction, Total
    <3>3. QED
      BY <2>3, <3>1, <3>2
  <2>5. \A i \in P : g[i] \in Int /\ lo <= g[i] /\ g[i] <= hi
    BY <2>1
  <2>6. lo \in Int /\ hi \in Int
    BY <2>1
  <2> HIDE DEF g, lo, hi, P
  <2>7. n * lo <= s /\ s <= n * hi
    BY <2>3, <2>5, <2>6, SumBounds
  <2>8. s \in Int
    BY <2>3, <2>5, SumType
  <2> HIDE DEF n, s
  <2>9. s \div n \in Int /\ lo <= s \div n /\ s \div n <= hi
    BY <2>3, <2>6, <2>7, <2>8, AverageBetween
  <2>10. QED
    BY <2>4, <2>9 DEF lo, hi
<1>4. QED
  BY <1>2, <1>3

LEMMA DrawsOnce == MedianInv => DrawnOnce
<1> SUFFICES ASSUME MedianInv, result # <<>> PROVE DrawnOnce
  BY DEF DrawnOnce
<1> DEFINE n == Len(partitions)
<1>1. /\ TableOK /\ MedianTypes /\ PartitionsTile /\ Ordered
      /\ result = [k \in 1..n |-> Merged(partitions[k])]
  BY DEF MedianInv, Finished
<1>2. n \in Nat /\ Len(result) = n /\ \A k \in 1..n : result[k] = Merged(partitions[k])
  BY <1>1 DEF MedianTypes
<1>3. ASSUME NEW c \in Palette
      PROVE  Cardinality(make_composite(c)) = IF histogram[c] > 0 THEN 1 ELSE 0
  <2>1. make_composite(c)
        = {k \in 1..n : \E i \in partitions[k].top..partitions[k].bot : table[i].color = c}
    <3>1. make_composite(c) = {k \in 1..n : c \in Merged(partitions[k]).pixels}
      BY <1>2 DEF make_composite
    <3>2. \A k \in 1..n : c \in Merged(partitions[k]).pixels
                          <=> \E i \in partitions[k].top..partitions[k].bot : table[i].color = c
      BY <1>1, MergedPixels
    <3>3. QED
      BY <3>1, <3>2
  <2>2. \A k \in 1..n : \A i \in partitions[k].top..partitions[k].bot : i \in 1..NColors
    <3> SUFFICES ASSUME NEW k \in 1..n, NEW i \in partitions[k].top..partitions[k].bot
                 PROVE  i \in 1..NColors
      OBVIOUS
    <3>1. partitions[k].top \in 1..NColors /\ partitions[k].bot \in 1..NColors
      BY <1>1, PartitionOf
    <3>2. QED
      BY <1>1, <3>1, Numbers
  <2>3. CASE histogram[c] > 0
    <3>1. PICK i \in 1..NColors : table[i].color = c
      BY <1>1, <2>3 DEF TableOK, Used
    <3>2. \A j \in 1..NColors : table[j].color = c => j = i
      BY <1>1, <3>1 DEF TableOK
    <3>3. PICK k \in 1..n : i \in partitions[k].top..partitions[k].bot
      BY <1>1, EntryHasPartition
    <3>4. \A m \in 1..n : i \in partitions[m].top..partitions[m].bot => m = k
      BY <1>1, <3>3, EntryHasPartition
    <3>5. make_composite(c) = {k}
      BY <2>1, <2>2, <3>1, <3>2, <3>3, <3>4
    <3>6. Cardinality({k}) = 1
      BY FS_Singleton
    <3>7. QED
      BY <2>3, <3>5, <3>6
  <2>4. CASE ~(histogram[c] > 0)
    <3>1. \A i \in 1..NColors : table[i].color # c
      BY <1>1, <2>4 DEF TableOK
    <3>2. make_composite(c) = {}
      BY <2>1, <2>2, <3>1
    <3>3. Cardinality({}) = 0
      BY FS_EmptySet
    <3>4. QED
      BY <2>4, <3>2, <3>3
  <2>5. QED
    BY <2>3, <2>4
<1>4. ASSUME NEW k \in 1..n, NEW ch \in Channel
      PROVE  \E c, d \in result[k].pixels :
               c[ch] <= result[k].color[ch] /\ result[k].color[ch] <= d[ch]
  <2> DEFINE p == partitions[k]
  <2>1. p \in Partition /\ p.top <= p.bot
    BY <1>1, PartitionOf
  <2>2. /\ Min(Values(p, ch)) <= Merged(p).color[ch]
        /\ Merged(p).color[ch] <= Max(Values(p, ch))
        /\ \A i \in p.top..p.bot : table[i].color \in Merged(p).pixels
    BY <1>1, MergedPixels
  <2>3. Min(Values(p, ch)) \in Values(p, ch) /\ Max(Values(p, ch)) \in Values(p, ch)
    <3> HIDE DEF p
    <3>1. QED
      BY <1>1, <2>1, SpreadOf
  <2>4. PICK i \in p.top..p.bot : Min(Values(p, ch)) = table[i].color[ch]
    BY <2>3 DEF Values
  <2>5. PICK j \in p.top..p.bot : Max(Values(p, ch)) = table[j].color[ch]
    BY <2>3 DEF Values
  <2> HIDE DEF p
  <2>6. table[i].color \in Merged(p).pixels /\ table[j].color \in Merged(p).pixels
    BY <2>2
  <2>7. /\ table[i].color[ch] <= Merged(p).color[ch]
        /\ Merged(p).color[ch] <= table[j].color[ch]
    BY <2>2, <2>4, <2>5
  <2>8. result[k] = Merged(p)
    BY <1>2 DEF p
  <2>9. QED
    BY <2>6, <2>7, <2>8
<1>5. QED
  BY <1>2, <1>3, <1>4 DEF DrawnOnce

\* make_composite: every pixel of the image is drawn once, in a colour that
\* lies between those average_nodes made it from, channel by channel.
THEOREM PixelsDrawnOnce == MedianSpec => []DrawnOnce
BY DrawsOnce, MedianInvHolds, PTL

-----------------------------------------------------------------------------
(* How many colours there are *)

\* If there are as many partitions as entries, each has one entry.
LEMMA OneEach ==
  ASSUME TableOK, MedianTypes, PartitionsTile, Len(partitions) = NColors,
         NEW k \in 1..Len(partitions)
  PROVE  partitions[k].top = k /\ partitions[k].bot = k
<1> DEFINE n == Len(partitions)
           Early == {j \in 1..n : partitions[j].top < j}
           Late == {r \in Nat : r < n /\ partitions[n - r].bot > n - r}
<1>1. n \in Nat /\ 1 <= n
  BY DEF MedianTypes
<1>2. \A j \in 1..n : /\ partitions[j].top \in Int /\ partitions[j].bot \in Int
                      /\ partitions[j].top <= partitions[j].bot
  BY PartitionOf
<1>3. /\ partitions[1].top = 1 /\ partitions[n].bot = n
      /\ \A j \in 1..n : j > 1 => partitions[j].top = partitions[j - 1].bot + 1
  BY DEF PartitionsTile
<1>4. Early = {}
  <2> SUFFICES ASSUME Early # {} PROVE FALSE
    OBVIOUS
  <2>1. Early \in SUBSET Nat
    OBVIOUS
  <2>2. PICK j \in Early : \A i \in Early : j <= i
    BY <2>1, LeastNat
  <2>3. j \in 1..n /\ j > 1 /\ j - 1 \in 1..n
    BY <1>1, <1>3, <2>2
  <2>4. j - 1 \notin Early
    BY <2>2, <2>3
  <2>5. partitions[j - 1].top >= j - 1
    BY <1>2, <2>3, <2>4
  <2>6. QED
    BY <1>2, <1>3, <2>2, <2>3, <2>5
<1>5. Late = {}
  <2> SUFFICES ASSUME Late # {} PROVE FALSE
    OBVIOUS
  <2>1. Late \in SUBSET Nat
    OBVIOUS
  <2>2. PICK r \in Late : \A i \in Late : r <= i
    BY <2>1, LeastNat
  <2>3. r \in Nat /\ r < n /\ r # 0
    BY <1>1, <1>3, <2>2
  <2> DEFINE j == n - r
             s == r - 1
  <2>4. j \in 1..n /\ j + 1 \in 1..n /\ j + 1 > 1 /\ (j + 1) - 1 = j /\ n - s = j + 1 /\ s \in Nat /\ s < n /\ s < r
    BY <1>1, <2>3
  <2>5. s \notin Late
    BY <2>2, <2>4
  <2>6. ~(partitions[n - s].bot > n - s)
    BY <2>4, <2>5
  <2>7. partitions[j].bot > j
    BY <2>2
  <2> HIDE DEF j, s
  <2>8. partitions[j + 1].bot <= j + 1
    BY <1>2, <2>4, <2>6
  <2>9. partitions[j + 1].top = partitions[j].bot + 1
    BY <1>3, <2>4
  <2>10. QED
    BY <1>2, <2>4, <2>7, <2>8, <2>9
<1>6. partitions[k].top >= k
  BY <1>2, <1>4
<1>7. partitions[k].bot <= k
  <2>1. n - k \in Nat /\ n - k < n /\ n - (n - k) = k
    BY <1>1
  <2>2. n - k \notin Late
    BY <1>5
  <2> DEFINE r == n - k
  <2>3. r \in Nat /\ r < n /\ n - r = k /\ r \notin Late
    BY <2>1, <2>2
  <2> HIDE DEF r
  <2>4. QED
    BY <1>2, <2>3
<1>8. QED
  BY <1>2, <1>6, <1>7

\* If no partition can be cut, each has one entry: two colours of the image
\* differ in a channel.
LEMMA NoneToCut ==
  ASSUME TableOK, MedianTypes, PartitionsTile, largest_node = {}
  PROVE  Len(partitions) = NColors
<1> DEFINE n == Len(partitions)
           S == {j \in 1..n : partitions[j].top # j}
<1>1. n \in Nat /\ 1 <= n
  BY DEF MedianTypes
<1>2. \A j \in 1..n : partitions[j].top \in Int /\ partitions[j].bot = partitions[j].top
  <2> SUFFICES ASSUME NEW j \in 1..n
               PROVE  partitions[j].top \in Int /\ partitions[j].bot = partitions[j].top
    OBVIOUS
  <2> DEFINE p == partitions[j]
  <2>1. p \in Partition /\ p.top <= p.bot /\ p.top \in 1..NColors /\ p.bot \in 1..NColors
    BY PartitionOf
  <2>2. Widest(p) = 0
    BY LargestOf
  <2> HIDE DEF p
  <2>3. \A ch \in Channel : Spread(p, ch) = 0
    <3>1. \A ch \in Channel : Spread(p, ch) \in Nat /\ Spread(p, ch) <= 0
      BY <2>1, <2>2, SpreadOf, WidestOf
    <3>2. QED
      BY <3>1
  <2>4. p.top \in p.top..p.bot /\ p.bot \in p.top..p.bot
    BY <2>1, Numbers
  <2>5. \A ch \in Channel : table[p.top].color[ch] = table[p.bot].color[ch]
    BY <2>1, <2>3, <2>4, SpreadOf
  <2>6. table[p.top].color = table[p.bot].color
    <3> DEFINE c == table[p.top].color
               d == table[p.bot].color
    <3>1. c \in Nat \X Nat \X Nat /\ d \in Nat \X Nat \X Nat
      BY <2>1, Colours
    <3>2. c[1] = d[1] /\ c[2] = d[2] /\ c[3] = d[3]
      BY <2>5 DEF Channel
    <3> HIDE DEF c, d
    <3>3. c = d
      BY <3>1, <3>2
    <3>4. QED
      BY <3>3 DEF c, d
  <2>7. p.top = p.bot
    BY <2>1, <2>6 DEF TableOK
  <2>8. QED
    BY <2>1, <2>7, Numbers DEF p
<1>3. /\ partitions[1].top = 1 /\ partitions[n].bot = NColors
      /\ \A j \in 1..n : j > 1 => partitions[j].top = partitions[j - 1].bot + 1
  BY DEF PartitionsTile
<1>4. S = {}
  <2> SUFFICES ASSUME S # {} PROVE FALSE
    OBVIOUS
  <2>1. S \in SUBSET Nat
    OBVIOUS
  <2>2. PICK j \in S : \A i \in S : j <= i
    BY <2>1, LeastNat
  <2>3. j \in 1..n /\ j > 1 /\ j - 1 \in 1..n
    BY <1>1, <1>3, <2>2
  <2>4. j - 1 \notin S
    BY <2>2, <2>3
  <2>5. partitions[j - 1].top = j - 1
    BY <2>3, <2>4
  <2>6. QED
    BY <1>2, <1>3, <2>2, <2>3, <2>5
<1>5. QED
  BY <1>1, <1>2, <1>3, <1>4

LEMMA MakesAsMany == MedianInv => AsManyAsAsked
<1> SUFFICES ASSUME MedianInv, result # <<>> PROVE AsManyAsAsked
  BY DEF AsManyAsAsked
<1> DEFINE n == Len(partitions)
<1>1. /\ TableOK /\ MedianTypes /\ PartitionsTile
      /\ n = n_out \/ largest_node = {}
      /\ result = [k \in 1..n |-> Merged(partitions[k])]
  BY DEF MedianInv, Finished
<1>2. n \in Nat /\ 1 <= n /\ n <= n_out /\ n_out \in 1..NColors /\ NColors \in Nat
  BY <1>1, Numbers DEF MedianTypes
<1>3. Len(result) = n /\ \A k \in 1..n : result[k] = Merged(partitions[k])
  BY <1>1, <1>2
<1>4. n = n_out
  <2>1. largest_node = {} => n = NColors
    BY <1>1, NoneToCut
  <2>2. QED
    BY <1>1, <1>2, <2>1
<1>5. ASSUME n_out = Cardinality(Used(histogram)), NEW k \in 1..n
      PROVE  result[k].pixels = {result[k].color}
  <2> DEFINE p == partitions[k]
             c == table[k].color
  <2>1. n = NColors
    BY <1>1, <1>4, <1>5 DEF TableOK
  <2>2. p.top = k /\ p.bot = k /\ k \in 1..NColors /\ k \in Int
    BY <1>1, <2>1, OneEach
  <2>3. c \in Nat \X Nat \X Nat
    BY <1>1, <2>2, Colours
  <2> HIDE DEF p
  <2>4. Merged(p).pixels = {c}
    <3>1. Merged(p).pixels = UNION {table[i].pixels : i \in k..k}
      BY <2>2 DEF Merged, EntriesOf
    <3>2. k..k = {k}
      BY <2>2
    <3>3. table[k].pixels = {c}
      BY <1>1, <2>2 DEF TableOK
    <3> HIDE DEF c
    <3>4. QED
      BY <3>1, <3>2, <3>3
  <2>5. \A ch \in Channel : Merged(p).color[ch] = c[ch]
    <3> SUFFICES ASSUME NEW ch \in Channel PROVE Merged(p).color[ch] = c[ch]
      OBVIOUS
    <3>1. p \in Partition /\ p.top <= p.bot
      BY <1>1, PartitionOf DEF p
    <3>2. /\ Merged(p).color[ch] \in Int
          /\ Min(Values(p, ch)) <= Merged(p).color[ch]
          /\ Merged(p).color[ch] <= Max(Values(p, ch))
      BY <1>1, MergedPixels DEF p
    <3>3. Values(p, ch) = {c[ch]}
      <4>1. k..k = {k}
        BY <2>2
      <4>2. Values(p, ch) = {table[i].color[ch] : i \in k..k}
        BY <2>2 DEF Values
      <4>3. QED
        BY <4>1, <4>2
    <3>4. Min(Values(p, ch)) = c[ch] /\ Max(Values(p, ch)) = c[ch] /\ c[ch] \in Nat
      <4>1. Min(Values(p, ch)) \in Values(p, ch) /\ Max(Values(p, ch)) \in Values(p, ch)
        BY <1>1, <3>1, SpreadOf
      <4>2. c[ch] \in Nat
        BY <1>1, <2>2, Colours
      <4>3. QED
        BY <3>3, <4>1, <4>2
    <3>5. QED
      BY <3>2, <3>4
  <2>6. Merged(p).color = c
    <3> DEFINE d == Merged(p).color
    <3>1. d = [ch \in Channel |-> d[ch]]
      BY DEF Merged
    <3>2. c = [ch \in Channel |-> c[ch]]
      <4>1. \A a \in Nat \X Nat \X Nat : a = [ch \in 1..3 |-> a[ch]]
        OBVIOUS
      <4>2. QED
        BY <2>3, <4>1 DEF Channel
    <3> HIDE DEF c
    <3>3. [ch \in Channel |-> d[ch]] = [ch \in Channel |-> c[ch]]
      BY <2>5
    <3> HIDE DEF d
    <3>4. d = c
      BY <3>1, <3>2, <3>3
    <3>5. QED
      BY <3>4 DEF d
  <2>7. result[k] = Merged(p)
    BY <1>3 DEF p
  <2>8. QED
    BY <2>4, <2>6, <2>7
<1>6. QED
  BY <1>3, <1>4, <1>5 DEF AsManyAsAsked

\* merge_partition: the composite has exactly as many colours as were asked
\* for and are in use, against the comment that it makes fewer; if all of
\* them may stay, each is drawn as itself.
THEOREM ColoursAsAsked == MedianSpec => []AsManyAsAsked
BY MakesAsMany, MedianInvHolds, PTL
=============================================================================
