--------------------------- MODULE XfButtonProofs ---------------------------
(***************************************************************************)
(* Theorems about Xfred's callback lists, for any number of buttons,       *)
(* states, procedures, cells and nested dispatchers: every walk is safe,   *)
(* every cell has one owner, and the linked lists implement CallbackLists. *)
(*                                                                         *)
(* Cells follows the links; the first part shows that it gives back        *)
(* exactly the sequence the links describe (Chain), so that each operation *)
(* can be read as one on sequences.                                        *)
(***************************************************************************)
EXTENDS XfButton, CollectionLemmas, FiniteSetTheorems

-----------------------------------------------------------------------------
(* Linked lists *)

Link == Cell \cup {NULL}

\* Element k of s, or NULL after its end
Nth(s, k) == IF k <= Len(s) THEN s[k] ELSE NULL

\* s is the list that begins at first.
Chain(s, first, nx) ==
  /\ s \in Seq(Cell) /\ Distinct(s)
  /\ first = Nth(s, 1)
  /\ \A k \in 1..Len(s) : nx[s[k]] = Nth(s, k + 1)

\* The equation of the function that Cells follows the links with.
WalkStep(nx, g, n) ==
  [c \in Link |-> IF n = 0 \/ c = NULL THEN <<>> ELSE <<c>> \o g[n - 1][nx[c]]]

Walk(nx, first) ==
  (CHOOSE g : g = [n \in 0..Cardinality(Cell) |-> WalkStep(nx, g, n)])[Cardinality(Cell)][first]

LEMMA CellsIsWalk == \A q : Cells(q) = Walk(next, CallBacks[q])
BY Zenon DEF Cells, Walk, WalkStep, Link

LEMMA CellsIsWalkNext == \A q : Cells(q)' = Walk(next', CallBacks'[q])
BY Zenon DEF Cells, Walk, WalkStep, Link

LEMMA CellCount == Cardinality(Cell) \in Nat
BY CellAssumption, FS_CardinalityType

LEMMA WalkExists ==
  ASSUME NEW nx, NEW N \in Nat
  PROVE  \E g : g = [n \in 0..N |-> WalkStep(nx, g, n)]
<1> DEFINE Good(m) == \E g : g = [n \in 0..m |-> WalkStep(nx, g, n)]
           Bad == {m \in Nat : ~Good(m)}
<1> SUFFICES Bad = {}
  OBVIOUS
<1> SUFFICES ASSUME Bad # {} PROVE FALSE
  OBVIOUS
<1>1. PICK m \in Bad : \A k \in Bad : m <= k
  BY LeastNat
<1>2. CASE m = 0
  <2> DEFINE g == [n \in 0..0 |-> [c \in Link |-> <<>>]]
  <2>1. \A n \in 0..0 : WalkStep(nx, g, n) = [c \in Link |-> <<>>]
    BY DEF WalkStep
  <2>2. g = [n \in 0..0 |-> WalkStep(nx, g, n)]
    BY <2>1
  <2>3. QED
    BY <1>1, <1>2, <2>2
<1>3. CASE m # 0
  <2>1. m - 1 \in Nat /\ m - 1 \notin Bad
    BY <1>1, <1>3
  <2>2. PICK g : g = [n \in 0..(m - 1) |-> WalkStep(nx, g, n)]
    BY <2>1
  <2> DEFINE h == [n \in 0..m |-> WalkStep(nx, g, n)]
  <2>3. ASSUME NEW n \in 0..m PROVE WalkStep(nx, g, n) = WalkStep(nx, h, n)
    <3>1. CASE n = 0
      BY <3>1 DEF WalkStep
    <3>2. CASE n # 0
      <4>1. n - 1 \in 0..(m - 1) /\ n - 1 \in 0..m
        BY <3>2
      <4>2. g[n - 1] = h[n - 1]
        BY <2>2, <4>1, Zenon
      <4>3. QED
        BY <4>2 DEF WalkStep
    <3>3. QED
      BY <3>1, <3>2
  <2>4. h = [n \in 0..m |-> WalkStep(nx, h, n)]
    BY <2>3
  <2>5. QED
    BY <1>1, <2>4
<1>4. QED
  BY <1>2, <1>3

\* A list without repetitions is no longer than there are cells.
LEMMA ChainLength ==
  ASSUME NEW s \in Seq(Cell), Distinct(s)
  PROVE  Len(s) <= Cardinality(Cell)
<1>1. s \in Injection(1..Len(s), Cell)
  BY LenProperties DEF Distinct, Injection, IsInjective
<1>2. Cardinality(1..Len(s)) = Len(s) /\ IsFiniteSet(1..Len(s))
  <2>1. Len(s) \in Nat
    OBVIOUS
  <2> DEFINE n == Len(s)
  <2> HIDE DEF n
  <2>2. Cardinality(1..n) = n /\ IsFiniteSet(1..n)
    BY <2>1, FS_Interval DEF n
  <2>3. QED
    BY <2>2 DEF n
<1>3. Cardinality(1..Len(s)) <= Cardinality(Cell)
  BY <1>1, <1>2, CellAssumption, FS_Injection, Zenon
<1>4. QED
  BY <1>2, <1>3

\* Following the links gives back the list.
LEMMA WalkIsChain ==
  ASSUME NEW s, NEW first, NEW nx, Chain(s, first, nx)
  PROVE  Walk(nx, first) = s
<1> DEFINE N == Cardinality(Cell)
           L == Len(s)
           rest(m) == SubSeq(s, L - m + 1, L)
<1>1. N \in Nat /\ L \in Nat /\ L <= N /\ s \in Seq(Cell)
  BY CellCount, ChainLength DEF Chain
<1> DEFINE g == CHOOSE f : f = [n \in 0..N |-> WalkStep(nx, f, n)]
<1>2. g = [n \in 0..N |-> WalkStep(nx, g, n)]
  BY <1>1, WalkExists, Zenon
<1>3. Walk(nx, first) = g[N][first]
  BY DEF Walk
<1> HIDE DEF g, N
<1> DEFINE Good(m) == \A n \in m..N : g[n][Nth(s, L - m + 1)] = rest(m)
           Bad == {m \in 0..L : ~Good(m)}
<1>4. ASSUME NEW n \in 0..N, NEW c \in Link
      PROVE  g[n][c] = IF n = 0 \/ c = NULL THEN <<>> ELSE <<c>> \o g[n - 1][nx[c]]
  <2>1. g[n] = WalkStep(nx, g, n)
    BY <1>2
  <2>2. QED
    BY <2>1, Zenon DEF WalkStep
<1>5. Bad = {}
  <2> SUFFICES ASSUME Bad # {} PROVE FALSE
    OBVIOUS
  <2> HIDE DEF Good
  <2>0. Bad \in SUBSET Nat
    BY <1>1
  <2>1. PICK m \in Bad : \A k \in Bad : m <= k
    <3> HIDE DEF Bad
    <3>1. QED
      BY <2>0, LeastNat
  <2> USE DEF Good
  <2>2. PICK n \in m..N : g[n][Nth(s, L - m + 1)] # rest(m)
    BY <2>1
  <2>3. m \in Nat /\ m <= L /\ n \in 0..N
    BY <1>1, <2>1, <2>2
  <2>4. CASE m = 0
    <3>1. Nth(s, L - m + 1) = NULL /\ NULL \in Link
      BY <2>4, <1>1 DEF Nth, Link
    <3>2. g[n][NULL] = <<>>
      BY <2>3, <3>1, <1>4
    <3>3. rest(m) = <<>>
      BY <2>4, <1>1, SubSeqProperties, EmptySeq
    <3>4. QED
      BY <2>2, <3>1, <3>2, <3>3
  <2>5. CASE m # 0
    <3> DEFINE k == L - m + 1
    <3>1. k \in 1..L /\ m - 1 \in 0..L /\ n - 1 \in (m - 1)..N /\ L - (m - 1) + 1 = k + 1
      BY <1>1, <2>2, <2>3, <2>5
    <3>2. Nth(s, k) = s[k] /\ s[k] \in Cell /\ s[k] \in Link /\ s[k] # NULL
      <4>1. s[k] \in Cell
        BY <1>1, <3>1
      <4>2. QED
        BY <4>1, <3>1, NULLAssumption DEF Nth, Link
    <3>3. nx[s[k]] = Nth(s, k + 1)
      BY <3>1 DEF Chain
    <3>4. g[n - 1][Nth(s, k + 1)] = rest(m - 1)
      <4> HIDE DEF Good
      <4>1. m - 1 \notin Bad
        <5> HIDE DEF Bad
        <5>1. ~(m <= m - 1)
          BY <2>3
        <5>2. QED
          BY <5>1, <2>1
      <4>2. Good(m - 1)
        BY <4>1, <3>1
      <4> USE DEF Good
      <4>3. QED
        BY <4>2, <3>1
    <3>5. g[n][s[k]] = <<s[k]>> \o g[n - 1][nx[s[k]]]
      <4>1. n # 0
        BY <2>2, <2>3, <2>5
      <4>2. QED
        BY <4>1, <2>3, <3>2, <1>4
    <3>6. <<s[k]>> \o SubSeq(s, k + 1, L) = SubSeq(s, k, L)
      BY <1>1, <3>1, SubSeqCons
    <3>7. rest(m) = SubSeq(s, k, L) /\ rest(m - 1) = SubSeq(s, k + 1, L)
      BY <3>1
    <3>8. QED
      BY <2>2, <3>2, <3>3, <3>4, <3>5, <3>6, <3>7
  <2>6. QED
    BY <2>4, <2>5
<1>6. Good(L)
  <2> HIDE DEF Good
  <2>1. QED
    BY <1>1, <1>5
<1>7. g[N][Nth(s, 1)] = SubSeq(s, 1, L)
  <2>1. N \in L..N /\ L - L + 1 = 1
    BY <1>1
  <2>2. QED
    BY <1>6, <2>1
<1>8. SubSeq(s, 1, L) = s
  <2>1. SubSeq(s, 1, L) \in Seq(Cell) /\ Len(SubSeq(s, 1, L)) = L
        /\ \A i \in 1..L : SubSeq(s, 1, L)[i] = s[i]
    BY <1>1, SubSeqProperties
  <2>2. QED
    BY <2>1, <1>1, SeqEqual
<1>9. QED
  BY <1>3, <1>7, <1>8 DEF Chain

\* A list's links are those of its own cells only.
LEMMA ChainElsewhere ==
  ASSUME NEW s, NEW first, NEW nx, NEW mx, Chain(s, first, nx),
         \A c \in ToSet(s) : mx[c] = nx[c]
  PROVE  Chain(s, first, mx)
<1>1. s \in Seq(Cell)
  BY DEF Chain
<1>2. \A k \in 1..Len(s) : s[k] \in ToSet(s)
  BY <1>1, ElementsOf
<1>3. QED
  BY <1>2 DEF Chain

\* Linking a new cell before element k.
LEMMA ChainInsert ==
  ASSUME NEW s, NEW first, NEW nx, NEW mx, Chain(s, first, nx),
         NEW k \in 1..(Len(s) + 1), NEW c \in Cell, c \notin ToSet(s),
         mx[c] = Nth(s, k),
         k > 1 => mx[s[k - 1]] = c,
         \A i \in 1..Len(s) : i # k - 1 => mx[s[i]] = nx[s[i]]
  PROVE  Chain(InsertAt(s, k, c), IF k = 1 THEN c ELSE first, mx)
<1> DEFINE t == InsertAt(s, k, c)
<1>1. s \in Seq(Cell) /\ Len(s) \in Nat
  BY DEF Chain
<1>2. t \in Seq(Cell) /\ Len(t) = Len(s) + 1
  BY <1>1, InsertAtElements, Zenon
<1>3. ASSUME NEW i \in 1..(Len(s) + 1)
      PROVE  t[i] = IF i < k THEN s[i] ELSE IF i = k THEN c ELSE s[i - 1]
  BY <1>1, InsertAtElements, SMTT(60)
<1>4. \A i \in 1..Len(s) : s[i] # c
  BY <1>1, ElementsOf
<1> HIDE DEF t
<1>5. Distinct(t)
  <2> SUFFICES ASSUME NEW i \in 1..Len(t), NEW j \in 1..Len(t), i < j
               PROVE  t[i] # t[j]
    BY <1>2 DEF Distinct
  <2>1. Distinct(s)
    BY DEF Chain
  <2>2. CASE j < k
    <3>1. i \in 1..Len(s) /\ j \in 1..Len(s) /\ i # j /\ t[i] = s[i] /\ t[j] = s[j]
      BY <2>2, <1>1, <1>2, <1>3
    <3>2. QED
      BY <2>1, <3>1 DEF Distinct
  <2>3. CASE j = k
    <3>1. i \in 1..Len(s) /\ t[i] = s[i] /\ t[j] = c
      BY <2>3, <1>1, <1>2, <1>3
    <3>2. QED
      BY <3>1, <1>4
  <2>4. CASE j > k
    <3>1. j - 1 \in 1..Len(s) /\ t[j] = s[j - 1]
      BY <2>4, <1>1, <1>2, <1>3
    <3>2. CASE i < k
      <4>1. i \in 1..Len(s) /\ t[i] = s[i] /\ i # j - 1
        BY <2>4, <3>2, <1>1, <1>2, <1>3
      <4>2. QED
        BY <2>1, <3>1, <4>1 DEF Distinct
    <3>3. CASE i = k
      BY <3>1, <3>3, <1>2, <1>3, <1>4
    <3>4. CASE i > k
      <4>1. i - 1 \in 1..Len(s) /\ t[i] = s[i - 1] /\ i - 1 # j - 1
        BY <2>4, <3>4, <1>1, <1>2, <1>3
      <4>2. QED
        BY <2>1, <3>1, <4>1 DEF Distinct
    <3>5. QED
      BY <3>2, <3>3, <3>4
  <2>5. QED
    BY <2>2, <2>3, <2>4, <1>2
<1>6. (IF k = 1 THEN c ELSE first) = Nth(t, 1)
  <2>1. 1 \in 1..(Len(s) + 1) /\ Nth(t, 1) = t[1]
    BY <1>1, <1>2 DEF Nth
  <2>2. CASE k = 1
    BY <2>1, <2>2, <1>3
  <2>3. CASE k # 1
    <3>1. t[1] = s[1] /\ 1 <= Len(s)
      BY <2>1, <2>3, <1>1, <1>3
    <3>2. first = s[1]
      BY <3>1 DEF Chain, Nth
    <3>3. QED
      BY <2>1, <2>3, <3>1, <3>2
  <2>4. QED
    BY <2>2, <2>3
<1>7. ASSUME NEW i \in 1..Len(t) PROVE mx[t[i]] = Nth(t, i + 1)
  <2>1. CASE i < k - 1
    <3>1. /\ i \in 1..Len(s) /\ i # k - 1 /\ t[i] = s[i]
          /\ i + 1 \in 1..(Len(s) + 1) /\ t[i + 1] = s[i + 1] /\ i + 1 <= Len(s) /\ i + 1 <= Len(t)
      BY <2>1, <1>1, <1>2, <1>3
    <3>2. nx[s[i]] = Nth(s, i + 1)
      BY <3>1 DEF Chain
    <3>3. QED
      BY <3>1, <3>2 DEF Nth
  <2>2. CASE i = k - 1
    <3>1. /\ k > 1 /\ t[i] = s[k - 1] /\ t[i + 1] = c /\ i + 1 <= Len(t)
      BY <2>2, <1>1, <1>2, <1>3
    <3>2. QED
      BY <3>1 DEF Nth
  <2>3. CASE i = k
    <3>1. t[i] = c
      BY <2>3, <1>3
    <3>2. Nth(s, k) = Nth(t, k + 1)
      <4>1. CASE k = Len(s) + 1
        BY <4>1, <1>1, <1>2 DEF Nth
      <4>2. CASE k # Len(s) + 1
        <5>1. k + 1 \in 1..(Len(s) + 1) /\ k <= Len(s) /\ t[k + 1] = s[k]
          BY <4>2, <1>1, <1>3
        <5>2. QED
          BY <5>1, <1>2 DEF Nth
      <4>3. QED
        BY <4>1, <4>2
    <3>3. QED
      BY <2>3, <3>1, <3>2
  <2>4. CASE i > k
    <3>1. i - 1 \in 1..Len(s) /\ i - 1 # k - 1 /\ t[i] = s[i - 1]
      BY <2>4, <1>1, <1>2, <1>3
    <3>2. mx[s[i - 1]] = Nth(s, i)
      <4>1. nx[s[i - 1]] = Nth(s, (i - 1) + 1)
        BY <3>1 DEF Chain
      <4>2. QED
        BY <3>1, <4>1
    <3>3. Nth(s, i) = Nth(t, i + 1)
      <4>1. CASE i = Len(s) + 1
        BY <4>1, <1>1, <1>2 DEF Nth
      <4>2. CASE i # Len(s) + 1
        <5>1. /\ i + 1 \in 1..(Len(s) + 1) /\ i <= Len(s)
              /\ ~(i + 1 < k) /\ i + 1 # k /\ (i + 1) - 1 = i
          BY <4>2, <2>4, <1>1, <1>2
        <5>3. t[i + 1] = s[i]
          <6> DEFINE n == i + 1
          <6> HIDE DEF n
          <6>1. t[n] = s[n - 1]
            BY <5>1, <1>3 DEF n
          <6>2. QED
            BY <5>1, <6>1 DEF n
        <5>2. QED
          BY <5>1, <5>3, <1>2 DEF Nth
      <4>3. QED
        BY <4>1, <4>2
    <3>4. QED
      BY <3>1, <3>2, <3>3
  <2>5. QED
    BY <2>1, <2>2, <2>3, <2>4, <1>2
<1>8. QED
  BY <1>2, <1>5, <1>6, <1>7 DEF Chain, t

\* Unlinking the first cell.
LEMMA ChainTail ==
  ASSUME NEW s, NEW first, NEW nx, Chain(s, first, nx), s # <<>>
  PROVE  /\ first = s[1] /\ 1 \in 1..Len(s)
         /\ Chain(RemoveAt(s, 1), nx[first], nx)
<1> DEFINE t == RemoveAt(s, 1)
<1>1. s \in Seq(Cell) /\ Len(s) \in Nat /\ 1 \in 1..Len(s)
  BY EmptySeq DEF Chain
<1>2. /\ t \in Seq(Cell) /\ Len(t) = Len(s) - 1
      /\ \A i \in 1..(Len(s) - 1) : t[i] = IF i < 1 THEN s[i] ELSE s[i + 1]
  BY <1>1, RemoveAtElements, Zenon
<1>3. Distinct(t)
  BY <1>1, RemoveAtSet DEF Chain
<1>4. first = s[1]
  BY <1>1 DEF Chain, Nth
<1> HIDE DEF t
<1>5. \A i \in 1..(Len(s) - 1) : t[i] = s[i + 1]
  BY <1>2
<1>6. \A i \in 1..Len(s) : Nth(t, i) = Nth(s, i + 1)
  BY <1>1, <1>2, <1>5 DEF Nth
<1>7. nx[first] = Nth(t, 1)
  <2>1. nx[s[1]] = Nth(s, 1 + 1)
    BY <1>1 DEF Chain
  <2>2. QED
    BY <2>1, <1>1, <1>4, <1>6
<1>8. ASSUME NEW i \in 1..Len(t) PROVE nx[t[i]] = Nth(t, i + 1)
  <2>1. i + 1 \in 1..Len(s) /\ t[i] = s[i + 1]
    BY <1>1, <1>2, <1>5
  <2>2. nx[s[i + 1]] = Nth(s, (i + 1) + 1)
    BY <2>1 DEF Chain
  <2>3. QED
    BY <2>1, <2>2, <1>6
<1>9. QED
  BY <1>1, <1>2, <1>3, <1>4, <1>7, <1>8 DEF Chain, t

-----------------------------------------------------------------------------
(* The lists of a set of buttons *)

\* L are the lists that cb and nx link for the members of Q; al is what
\* they own.
Owns(Q, L, cb, nx, al) ==
  /\ \A q \in Q : Chain(L[q], cb[q], nx)
  /\ \A q, r \in Q : q # r => ToSet(L[q]) \cap ToSet(L[r]) = {}
  /\ al = UNION {ToSet(L[q]) : q \in Q}

\* M, db and mx are L, cb and nx after c is linked at place k of list q.
Links(Q, L, cb, nx, al, q, c, k, M, db, mx) ==
  /\ q \in Q /\ c \in Cell /\ c \notin al /\ k \in 1..(Len(L[q]) + 1)
  /\ M[q] = InsertAt(L[q], k, c) /\ \A r \in Q : r # q => M[r] = L[r]
  /\ db[q] = (IF k = 1 THEN c ELSE cb[q]) /\ \A r \in Q : r # q => db[r] = cb[r]
  /\ mx[c] = Nth(L[q], k) /\ (k > 1 => mx[L[q][k - 1]] = c)
  /\ \A d \in al : (k > 1 => d # L[q][k - 1]) => mx[d] = nx[d]

LEMMA OwnsInsert ==
  ASSUME NEW Q, NEW L, NEW cb, NEW nx, NEW al, Owns(Q, L, cb, nx, al),
         NEW q, NEW c, NEW k, NEW M, NEW db, NEW mx, Links(Q, L, cb, nx, al, q, c, k, M, db, mx)
  PROVE  Owns(Q, M, db, mx, al \cup {c})
<1> USE DEF Links
<1>1. \A r \in Q : Chain(L[r], cb[r], nx) /\ L[r] \in Seq(Cell) /\ Distinct(L[r])
  BY DEF Owns, Chain
<1>2. \A r \in Q : ToSet(L[r]) \subseteq al
  BY DEF Owns
<1>3. ToSet(M[q]) = ToSet(L[q]) \cup {c}
  <2> DEFINE u == L[q]
  <2>1. u \in Seq(Cell) /\ k \in 1..(Len(u) + 1)
    BY <1>1
  <2> HIDE DEF u
  <2>2. ToSet(InsertAt(u, k, c)) = ToSet(u) \cup {c}
    BY <2>1, InsertAtSet
  <2>3. QED
    BY <2>2 DEF u
<1>4. Chain(M[q], db[q], mx)
  <2>1. \A i \in 1..Len(L[q]) : i # k - 1 => mx[L[q][i]] = nx[L[q][i]]
    <3> SUFFICES ASSUME NEW i \in 1..Len(L[q]), i # k - 1 PROVE mx[L[q][i]] = nx[L[q][i]]
      OBVIOUS
    <3>1. L[q][i] \in al
      BY <1>1, <1>2, ElementsOf
    <3>2. k > 1 => L[q][i] # L[q][k - 1]
      <4>1. k > 1 => k - 1 \in 1..Len(L[q])
        OBVIOUS
      <4>2. QED
        BY <4>1, <1>1 DEF Distinct
    <3>3. QED
      BY <3>1, <3>2
  <2>2. c \notin ToSet(L[q])
    BY <1>2
  <2> HIDE DEF Chain
  <2>3. Chain(InsertAt(L[q], k, c), IF k = 1 THEN c ELSE cb[q], mx)
    BY <1>1, <2>1, <2>2, ChainInsert
  <2>4. QED
    BY <2>3
<1>5. ASSUME NEW r \in Q, r # q PROVE Chain(M[r], db[r], mx)
  <2>1. ASSUME NEW d \in ToSet(L[r]) PROVE mx[d] = nx[d]
    <3>1. d \in al
      BY <1>2
    <3>2. k > 1 => d # L[q][k - 1]
      <4>1. k > 1 => L[q][k - 1] \in ToSet(L[q])
        BY <1>1, ElementsOf
      <4>2. ToSet(L[q]) \cap ToSet(L[r]) = {}
        BY <1>5 DEF Owns
      <4>3. QED
        BY <4>1, <4>2
    <3>3. QED
      BY <3>1, <3>2
  <2>2. Chain(L[r], cb[r], mx)
    BY <2>1, <1>1, ChainElsewhere
  <2>3. QED
    BY <2>2, <1>5
<1>6. \A r, u \in Q : r # u => ToSet(M[r]) \cap ToSet(M[u]) = {}
  BY <1>2, <1>3 DEF Owns
<1>7. al \cup {c} = UNION {ToSet(M[r]) : r \in Q}
  BY <1>3 DEF Owns
<1>8. QED
  BY <1>4, <1>5, <1>6, <1>7 DEF Owns

LEMMA OwnsRemoveFirst ==
  ASSUME NEW Q, NEW L, NEW cb, NEW nx, NEW al, Owns(Q, L, cb, nx, al),
         NEW q \in Q, L[q] # <<>>,
         NEW M, M[q] = RemoveAt(L[q], 1), \A r \in Q : r # q => M[r] = L[r],
         NEW db, db[q] = nx[cb[q]], \A r \in Q : r # q => db[r] = cb[r]
  PROVE  Owns(Q, M, db, nx, al \ {L[q][1]})
<1>1. \A r \in Q : Chain(L[r], cb[r], nx) /\ L[r] \in Seq(Cell) /\ Distinct(L[r])
  BY DEF Owns, Chain
<1>2. 1 \in 1..Len(L[q]) /\ Chain(M[q], db[q], nx)
  BY <1>1, ChainTail
<1>3. ToSet(M[q]) = ToSet(L[q]) \ {L[q][1]}
  BY <1>1, <1>2, RemoveAtSet
<1>4. L[q][1] \in ToSet(L[q])
  BY <1>1, <1>2, ElementsOf
<1>5. \A r \in Q : r # q => ToSet(M[r]) = ToSet(L[r]) \ {L[q][1]}
  BY <1>4 DEF Owns
<1>6. al \ {L[q][1]} = UNION {ToSet(M[r]) : r \in Q}
  BY <1>3, <1>5 DEF Owns
<1>7. \A r, u \in Q : r # u => ToSet(M[r]) \cap ToSet(M[u]) = {}
  BY <1>3, <1>5 DEF Owns
<1>8. QED
  BY <1>1, <1>2, <1>6, <1>7 DEF Owns

\* Freeing the lists that are not in R.
LEMMA OwnsFewer ==
  ASSUME NEW Q, NEW L, NEW cb, NEW nx, NEW al, Owns(Q, L, cb, nx, al),
         NEW R \in SUBSET Q, NEW M, \A q \in R : M[q] = L[q]
  PROVE  Owns(R, M, cb, nx, al \ UNION {ToSet(L[q]) : q \in Q \ R})
BY DEF Owns

\* Empty lists for the members of R that are new.
LEMMA OwnsMore ==
  ASSUME NEW Q, NEW L, NEW cb, NEW nx, NEW al, Owns(Q, L, cb, nx, al),
         NEW R, Q \subseteq R,
         NEW M, \A q \in Q : M[q] = L[q], \A q \in R \ Q : M[q] = <<>>,
         NEW db, \A q \in Q : db[q] = cb[q], \A q \in R \ Q : db[q] = NULL
  PROVE  Owns(R, M, db, nx, al)
<1>1. /\ <<>> \in Seq(Cell) /\ Len(<<>>) = 0 /\ ToSet(<<>>) = {}
  BY DEF ToSet
<1>2. Chain(<<>>, NULL, nx)
  BY <1>1 DEF Chain, Distinct, Nth
<1>3. \A q \in R : Chain(M[q], db[q], nx)
  BY <1>2 DEF Owns
<1>4. \A q \in R \ Q : ToSet(M[q]) = {}
  BY <1>1
<1>5. al = UNION {ToSet(M[q]) : q \in R}
  BY <1>4 DEF Owns
<1>6. \A q, r \in R : q # r => ToSet(M[q]) \cap ToSet(M[r]) = {}
  BY <1>4 DEF Owns
<1>7. QED
  BY <1>3, <1>5, <1>6 DEF Owns

-----------------------------------------------------------------------------
(* The inductive invariant *)

LiveLists == {q \in ListId : q[1] \in Live}
TheLists == [q \in LiveLists |-> Cells(q)]

XfTypes ==
  /\ ButtonList \in Seq(Button) /\ Distinct(ButtonList)
  /\ state \in [Button -> State]
  /\ CallBacks \in [ListId -> Link]
  /\ proc \in [Cell -> Proc \cup {NULL}]
  /\ next \in [Cell -> Link]
  /\ allocated \subseteq Cell
  /\ frames \in Seq([list : ListId, next_exec : Link])

\* The links of live buttons make proper lists, which own the cells in use.
ListInv == Owns(LiveLists, TheLists, CallBacks, next, allocated)

NamesInv == \A c \in allocated : proc[c] \in Proc

\* A dispatcher runs a list of a live button, and has saved a cell of it.
FramesInv ==
  \A i \in 1..Len(frames) :
    /\ frames[i].list \in LiveLists
    /\ frames[i].next_exec # NULL => frames[i].next_exec \in ToSet(TheLists[frames[i].list])

XfInv == XfTypes /\ ~fault /\ ListInv /\ NamesInv /\ FramesInv

\* What the links of a step describe is what Cells will find.
LEMMA NextLists ==
  ASSUME NEW M, Owns(LiveLists', M, CallBacks', next', allocated')
  PROVE  /\ ListInv'
         /\ \A q \in LiveLists' : Cells(q)' = M[q]
<1>1. ASSUME NEW q \in LiveLists' PROVE Cells(q)' = M[q]
  <2>1. Chain(M[q], CallBacks'[q], next')
    BY DEF Owns
  <2>2. QED
    BY <2>1, WalkIsChain, CellsIsWalkNext
<1>2. \A q \in LiveLists' : TheLists'[q] = M[q]
  BY <1>1 DEF TheLists
<1>3. Owns(LiveLists', TheLists', CallBacks', next', allocated')
  BY <1>2 DEF Owns
<1>4. QED
  BY <1>1, <1>3 DEF ListInv

\* The lists of live buttons, one at a time.
LEMMA ListFacts ==
  ASSUME XfInv
  PROVE  /\ Owns(LiveLists, TheLists, CallBacks, next, allocated)
         /\ \A q \in LiveLists :
              /\ TheLists[q] = Cells(q)
              /\ Cells(q) \in Seq(Cell) /\ Len(Cells(q)) \in Nat /\ Distinct(Cells(q))
              /\ Chain(Cells(q), CallBacks[q], next)
              /\ ToSet(Cells(q)) \subseteq allocated
              /\ \A k \in 1..Len(Cells(q)) :
                   /\ Cells(q)[k] \in allocated /\ proc[Cells(q)[k]] \in Proc
                   /\ Cells(q)[k] \in ToSet(Cells(q))
<1>1. Owns(LiveLists, TheLists, CallBacks, next, allocated)
  BY DEF XfInv, ListInv
<1> SUFFICES ASSUME NEW q \in LiveLists
             PROVE  /\ TheLists[q] = Cells(q)
                    /\ Cells(q) \in Seq(Cell) /\ Len(Cells(q)) \in Nat /\ Distinct(Cells(q))
                    /\ Chain(Cells(q), CallBacks[q], next)
                    /\ ToSet(Cells(q)) \subseteq allocated
                    /\ \A k \in 1..Len(Cells(q)) :
                         /\ Cells(q)[k] \in allocated /\ proc[Cells(q)[k]] \in Proc
                         /\ Cells(q)[k] \in ToSet(Cells(q))
  BY <1>1
<1>2. TheLists[q] = Cells(q)
  BY DEF TheLists
<1>3. Chain(Cells(q), CallBacks[q], next) /\ ToSet(Cells(q)) \subseteq allocated
  BY <1>1, <1>2 DEF Owns
<1>4. Cells(q) \in Seq(Cell) /\ Distinct(Cells(q))
  BY <1>3 DEF Chain
<1>5. \A k \in 1..Len(Cells(q)) : Cells(q)[k] \in ToSet(Cells(q))
  BY <1>4, ElementsOf
<1>6. QED
  BY <1>2, <1>3, <1>4, <1>5 DEF XfInv, NamesInv

LEMMA TheListsNext == \A q \in LiveLists' : TheLists'[q] = Cells(q)'
BY DEF TheLists

\* A dispatcher stays as it is where its list keeps its cells.
LEMMA FramesKept ==
  ASSUME XfInv, frames' = frames,
         \A i \in 1..Len(frames), q \in LiveLists :
           frames[i].list = q => q \in LiveLists' /\ ToSet(Cells(q)) \subseteq ToSet(Cells(q)')
  PROVE  FramesInv'
<1> SUFFICES ASSUME NEW i \in 1..Len(frames)
             PROVE  /\ frames[i].list \in LiveLists'
                    /\ frames[i].next_exec # NULL => frames[i].next_exec \in ToSet(TheLists'[frames[i].list])
  BY DEF FramesInv
<1>1. PICK q \in LiveLists :
        /\ frames[i].list = q
        /\ frames[i].next_exec # NULL => frames[i].next_exec \in ToSet(TheLists[q])
  BY DEF XfInv, FramesInv
<1>2. q \in LiveLists' /\ ToSet(Cells(q)) \subseteq ToSet(Cells(q)')
  BY <1>1
<1>3. TheLists[q] = Cells(q) /\ TheLists'[q] = Cells(q)'
  BY <1>1, <1>2, ListFacts, TheListsNext
<1>4. QED
  BY <1>1, <1>2, <1>3

\* Steps that leave every link and button alone.
LEMMA SameLists ==
  ASSUME XfInv, Live' = Live, UNCHANGED <<CallBacks, next, allocated>>
  PROVE  /\ LiveLists' = LiveLists /\ ListInv'
         /\ \A q \in LiveLists : Cells(q)' = Cells(q)
<1>1. LiveLists' = LiveLists
  BY DEF LiveLists
<1>2. Owns(LiveLists', TheLists, CallBacks', next', allocated')
  BY <1>1 DEF XfInv, ListInv
<1>3. QED
  BY <1>1, <1>2, NextLists, ListFacts

LEMMA LiveIs == ToSet(ButtonList) = Live /\ ToSet(ButtonList') = Live'
BY DEF ToSet, Live

-----------------------------------------------------------------------------
(* The operations of the callers *)

LEMMA CreateLists ==
  ASSUME XfInv, NEW b \in Button, XfCreateButton(b)
  PROVE  /\ XfInv'
         /\ Live' = Live \cup {b}
         /\ \A q \in LiveLists : q \in LiveLists' /\ q[1] # b /\ Cells(q)' = Cells(q)
         /\ \A q \in LiveLists' : q[1] = b => Cells(q)' = <<>>
<1> USE DEF XfCreateButton
<1>1. ButtonList \in Seq(Button) /\ Len(ButtonList) \in Nat /\ Distinct(ButtonList)
  BY DEF XfInv, XfTypes
<1>2. /\ ButtonList' \in Seq(Button) /\ Len(ButtonList') = Len(ButtonList) + 1
      /\ \A i \in 1..Len(ButtonList) : ButtonList'[i] = ButtonList[i]
      /\ ButtonList'[Len(ButtonList) + 1] = b
  BY <1>1, AppendProperties
<1>3. Live' = Live \cup {b}
  <2>1. ASSUME NEW i \in 1..Len(ButtonList') PROVE ButtonList'[i] \in Live \cup {b}
    <3>1. CASE i <= Len(ButtonList)
      BY <1>1, <1>2, <3>1 DEF Live
    <3>2. QED
      BY <3>1, <1>1, <1>2
  <2>2. \A i \in 1..Len(ButtonList) : i \in 1..Len(ButtonList')
    BY <1>1, <1>2
  <2>3. Len(ButtonList) + 1 \in 1..Len(ButtonList')
    BY <1>1, <1>2
  <2>4. Live \cup {b} \subseteq Live'
    BY <2>2, <2>3, <1>2, Zenon DEF Live
  <2>5. Live' \subseteq Live \cup {b}
    BY <2>1 DEF Live
  <2>6. QED
    BY <2>4, <2>5
<1>4. Distinct(ButtonList')
  <2> SUFFICES ASSUME NEW i \in 1..Len(ButtonList'), NEW j \in 1..Len(ButtonList'), i < j
               PROVE  ButtonList'[i] # ButtonList'[j]
    BY <1>2 DEF Distinct
  <2>1. i \in 1..Len(ButtonList) /\ ButtonList'[i] = ButtonList[i] /\ ButtonList[i] \in Live
    BY <1>1, <1>2 DEF Live
  <2>2. CASE j \in 1..Len(ButtonList)
    BY <2>1, <2>2, <1>1, <1>2 DEF Distinct
  <2>3. CASE j = Len(ButtonList) + 1
    BY <2>1, <2>3, <1>2
  <2>4. QED
    BY <2>2, <2>3, <1>1, <1>2
<1>5. CallBacks' \in [ListId -> Link]
  BY DEF XfInv, XfTypes, Link
<1>6. state' \in [Button -> State]
  BY MaxStateAssumption DEF XfInv, XfTypes, State
<1>7. XfTypes'
  BY <1>2, <1>4, <1>5, <1>6 DEF XfInv, XfTypes
<1>8. LiveLists \subseteq LiveLists' /\ \A q \in LiveLists : q[1] # b
  BY <1>3 DEF LiveLists
<1>9. \A q \in LiveLists' \ LiveLists : q[1] = b /\ q \in ListId
  BY <1>3 DEF LiveLists
<1> DEFINE M == [q \in LiveLists' |-> IF q \in LiveLists THEN TheLists[q] ELSE <<>>]
<1>10. Owns(LiveLists', M, CallBacks', next, allocated)
  <2>1. Owns(LiveLists, TheLists, CallBacks, next, allocated)
    BY ListFacts
  <2>2. \A q \in LiveLists : M[q] = TheLists[q]
    BY <1>8
  <2>3. \A q \in LiveLists' \ LiveLists : M[q] = <<>>
    OBVIOUS
  <2>4. \A q \in LiveLists : CallBacks'[q] = CallBacks[q]
    BY <1>8 DEF LiveLists
  <2>5. \A q \in LiveLists' \ LiveLists : CallBacks'[q] = NULL
    BY <1>9
  <2> HIDE DEF M
  <2>6. QED
    BY <2>1, <2>2, <2>3, <2>4, <2>5, <1>8, OwnsMore
<1>11. ListInv' /\ \A q \in LiveLists' : Cells(q)' = M[q]
  BY <1>10, NextLists
<1>12. \A q \in LiveLists : Cells(q)' = Cells(q)
  BY <1>8, <1>11, ListFacts
<1>13. FramesInv'
  BY <1>8, <1>12, FramesKept
<1>14. NamesInv' /\ ~fault'
  BY DEF XfInv, NamesInv
<1>15. \A q \in LiveLists' : q[1] = b => Cells(q)' = <<>>
  BY <1>8, <1>11
<1>16. QED
  BY <1>3, <1>7, <1>8, <1>11, <1>12, <1>13, <1>14, <1>15 DEF XfInv

LEMMA MoveLists ==
  ASSUME XfInv, NEW b \in Button, XfMoveButton(b)
  PROVE  /\ XfInv'
         /\ Live' = Live /\ LiveLists' = LiveLists
         /\ \A q \in LiveLists : Cells(q)' = Cells(q)
<1>1. ButtonList \in Seq(Button) /\ Distinct(ButtonList)
  BY DEF XfInv, XfTypes
<1>2. PICK i \in 1..Len(ButtonList) :
        ButtonList[i] = b /\ ButtonList' = <<b>> \o RemoveAt(ButtonList, i)
  BY DEF XfMoveButton
<1> DEFINE rest == RemoveAt(ButtonList, i)
<1>3. rest \in Seq(Button) /\ ToSet(rest) = ToSet(ButtonList) \ {b} /\ Distinct(rest)
  BY <1>1, <1>2, RemoveAtElements, RemoveAtSet
<1>4. b \in ToSet(ButtonList)
  BY <1>1, <1>2, ElementsOf
<1> HIDE DEF rest
<1>5. /\ ButtonList' \in Seq(Button) /\ ToSet(ButtonList') = {b} \cup ToSet(rest)
      /\ Distinct(ButtonList')
  <2>1. ButtonList' = <<b>> \o rest /\ b \notin ToSet(rest)
    BY <1>2, <1>3 DEF rest
  <2>2. QED
    BY <2>1, <1>3, ConsElements, ConsSet
<1>6. Live' = Live
  BY <1>3, <1>4, <1>5, LiveIs
<1>7. UNCHANGED <<state, CallBacks, proc, next, allocated, frames, fault>>
  BY DEF XfMoveButton
<1>8. LiveLists' = LiveLists /\ ListInv' /\ \A q \in LiveLists : Cells(q)' = Cells(q)
  BY <1>6, <1>7, SameLists
<1>9. XfTypes'
  BY <1>5, <1>7 DEF XfInv, XfTypes
<1>10. FramesInv'
  BY <1>7, <1>8, FramesKept
<1>11. NamesInv' /\ ~fault'
  BY <1>7 DEF XfInv, NamesInv
<1>12. QED
  BY <1>6, <1>8, <1>9, <1>10, <1>11 DEF XfInv

LEMMA ToggleLists ==
  ASSUME XfInv, NEW b \in Button, toggle_state(b)
  PROVE  /\ XfInv'
         /\ Live' = Live /\ LiveLists' = LiveLists
         /\ \A q \in LiveLists : Cells(q)' = Cells(q)
<1> USE DEF toggle_state
<1>1. Live' = Live
  BY DEF Live
<1>2. LiveLists' = LiveLists /\ ListInv' /\ \A q \in LiveLists : Cells(q)' = Cells(q)
  BY <1>1, SameLists
<1>3. state' \in [Button -> State]
  <2>1. state[b] \in Nat /\ (state[b] + 1) % MaxState \in 0..(MaxState - 1)
    BY MaxStateAssumption DEF XfInv, XfTypes, State
  <2>2. QED
    BY <2>1 DEF XfInv, XfTypes, State
<1>4. XfTypes'
  BY <1>3 DEF XfInv, XfTypes
<1>5. FramesInv'
  BY <1>2, FramesKept
<1>6. NamesInv' /\ ~fault'
  BY DEF XfInv, NamesInv
<1>7. QED
  BY <1>1, <1>2, <1>4, <1>5, <1>6 DEF XfInv
LEMMA FirstIs ==
  ASSUME NEW S \in SUBSET Nat, S # {}
  PROVE  First(S) \in S /\ \A j \in S : First(S) <= j
BY LeastNat, Zenon DEF First

\* The position at which a new callback is linked
Place(q, old, k) ==
  \/ Found(q, old) # {} /\ k = First(Found(q, old))
  \/ old = NULL /\ k = Len(Cells(q)) + 1

LEMMA FoundFacts ==
  ASSUME XfInv, NEW q \in LiveLists, NEW p
  PROVE  /\ Found(q, p) \in SUBSET Nat
         /\ \A k \in Found(q, p) : k \in 1..Len(Cells(q)) /\ proc[Cells(q)[k]] = p
         /\ \A k \in 1..Len(Cells(q)) : proc[Cells(q)[k]] = p => k \in Found(q, p)
         /\ Found(q, NULL) = {}
<1>1. Len(Cells(q)) \in Nat /\ \A k \in 1..Len(Cells(q)) : proc[Cells(q)[k]] \in Proc
  BY ListFacts
<1>2. QED
  BY <1>1, NULLAssumption DEF Found

\* The pointer to a live list is its first cell.
LEMMA HeadFacts ==
  ASSUME XfInv, NEW q \in LiveLists
  PROVE  /\ CallBacks[q] = NULL => Len(Cells(q)) = 0 /\ Cells(q) = <<>>
         /\ CallBacks[q] # NULL => 1 \in 1..Len(Cells(q)) /\ CallBacks[q] = Cells(q)[1]
<1>1. /\ Cells(q) \in Seq(Cell) /\ Len(Cells(q)) \in Nat
      /\ CallBacks[q] = Nth(Cells(q), 1)
  BY ListFacts DEF Chain
<1>2. 1 <= Len(Cells(q)) => Cells(q)[1] \in Cell
  BY <1>1
<1>3. QED
  BY <1>1, <1>2, EmptySeq, NULLAssumption DEF Nth

LEMMA AddLists ==
  ASSUME XfInv, NEW q \in ListId, NEW p \in Proc, NEW old \in Proc \cup {NULL},
         old = NULL \/ Found(q, old) # {}, XfAddButtonCallback(q, p, old)
  PROVE  /\ XfInv'
         /\ q \in LiveLists /\ Live' = Live /\ LiveLists' = LiveLists
         /\ \A r \in LiveLists : r # q => Cells(r)' = Cells(r)
         /\ \E c \in Cell \ allocated, k \in 1..(Len(Cells(q)) + 1) :
              /\ Place(q, old, k)
              /\ Cells(q)' = InsertAt(Cells(q), k, c)
              /\ proc' = [proc EXCEPT ![c] = p]
<1>1. PICK c \in Cell \ allocated :
        /\ q[1] \in Live
        /\ allocated' = allocated \cup {c}
        /\ proc' = [proc EXCEPT ![c] = p]
        /\ IF CallBacks[q] = NULL \/ (CallBacks[q] \in allocated /\ proc[CallBacks[q]] = old)
           THEN /\ next' = [next EXCEPT ![c] = CallBacks[q]]
                /\ CallBacks' = [CallBacks EXCEPT ![q] = c]
                /\ UNCHANGED fault
           ELSE LinkCell(q, c, p, old)
        /\ UNCHANGED <<ButtonList, state, frames>>
  BY DEF XfAddButtonCallback
<1>2. q \in LiveLists /\ Live' = Live /\ LiveLists' = LiveLists
  BY <1>1 DEF LiveLists, Live
<1> DEFINE C == Cells(q)
<1>3. /\ C \in Seq(Cell) /\ Len(C) \in Nat /\ Chain(C, CallBacks[q], next)
      /\ C = TheLists[q] /\ ToSet(C) \subseteq allocated
      /\ \A k \in 1..Len(C) : C[k] \in allocated /\ C[k] \in Cell /\ C[k] # c
  <2>1. C \in Seq(Cell) /\ \A k \in 1..Len(C) : C[k] \in allocated
    BY <1>2, ListFacts
  <2>2. QED
    BY <2>1, <1>2, ListFacts
<1>4. /\ CallBacks \in [ListId -> Link] /\ next \in [Cell -> Link] /\ proc \in [Cell -> Proc \cup {NULL}]
      /\ allocated \subseteq Cell /\ ~fault
  BY DEF XfInv, XfTypes
\* What is linked where
<1> DEFINE Linked(k) ==
        /\ Place(q, old, k)
        /\ CallBacks' = IF k = 1 THEN [CallBacks EXCEPT ![q] = c] ELSE CallBacks
        /\ next' = IF k = 1 THEN [next EXCEPT ![c] = Nth(C, 1)]
                   ELSE [next EXCEPT ![c] = Nth(C, k), ![C[k - 1]] = c]
        /\ ~fault'
<1>5. \E k \in 1..(Len(C) + 1) : Linked(k)
  <2>1. CASE CallBacks[q] = NULL
    <3>1. Len(C) = 0 /\ Found(q, old) = {}
      BY <1>2, <2>1, HeadFacts DEF Found
    <3>2. Place(q, old, 1) /\ 1 \in 1..(Len(C) + 1)
      BY <3>1 DEF Place
    <3>3. CallBacks[q] = Nth(C, 1)
      BY <1>3 DEF Chain
    <3>4. QED
      BY <1>1, <1>4, <2>1, <3>2, <3>3
  <2>2. CASE CallBacks[q] \in allocated /\ proc[CallBacks[q]] = old
    <3>1. CallBacks[q] # NULL
      BY <2>2, <1>4, NULLAssumption
    <3>2. 1 \in 1..Len(C) /\ CallBacks[q] = C[1]
      BY <3>1, <1>2, HeadFacts
    <3>3. 1 \in Found(q, old)
      BY <2>2, <3>2, <1>2, FoundFacts
    <3>4. First(Found(q, old)) = 1
      <4>1. Found(q, old) \in SUBSET Nat /\ \A k \in Found(q, old) : k \in 1..Len(C)
        BY <1>2, FoundFacts
      <4>2. First(Found(q, old)) \in Found(q, old) /\ First(Found(q, old)) <= 1
        BY <4>1, <3>3, FirstIs
      <4>3. QED
        BY <4>1, <4>2
    <3>5. Place(q, old, 1)
      BY <3>3, <3>4 DEF Place
    <3>6. CallBacks[q] = Nth(C, 1)
      BY <1>3 DEF Chain
    <3>7. QED
      BY <1>1, <1>3, <1>4, <2>2, <3>5, <3>6
  <2>3. CASE CallBacks[q] # NULL /\ ~(CallBacks[q] \in allocated /\ proc[CallBacks[q]] = old)
    <3>1. 1 \in 1..Len(C) /\ CallBacks[q] = C[1] /\ C[1] \in allocated
      BY <2>3, <1>2, <1>3, HeadFacts
    <3>2. LinkCell(q, c, p, old)
      BY <1>1, <2>3
    <3>3. ASSUME NEW a \in 1..Len(C), Place(q, old, a + 1),
                 next' = [next EXCEPT ![c] = next[C[a]], ![C[a]] = c],
                 fault' = \E i \in 1..a : C[i] \notin allocated,
                 CallBacks' = CallBacks
          PROVE  Linked(a + 1)
      <4>1. next[C[a]] = Nth(C, a + 1)
        BY <1>3 DEF Chain
      <4>2. \A i \in 1..a : i \in 1..Len(C)
        BY <1>3
      <4>3. ~fault'
        BY <3>3, <4>2, <1>3
      <4>4. a + 1 \in 1..(Len(C) + 1) /\ a + 1 # 1 /\ (a + 1) - 1 = a
        BY <1>3
      <4>5. QED
        BY <3>3, <4>1, <4>3, <4>4
    <3>4. CASE Found(q, old) # {}
      <4> DEFINE f == First(Found(q, old))
      <4>1. f \in Found(q, old) /\ f \in 1..Len(C) /\ proc[C[f]] = old
        BY <3>4, <1>2, FoundFacts, FirstIs
      <4>2. f # 1
        BY <3>1, <4>1, <2>3
      <4>3. f - 1 \in 1..Len(C) /\ (f - 1) + 1 = f
        BY <4>1, <4>2, <1>3
      <4>4. Place(q, old, f)
        BY <3>4 DEF Place
      <4>5. /\ next' = [next EXCEPT ![c] = next[C[f - 1]], ![C[f - 1]] = c]
            /\ fault' = \E i \in 1..(f - 1) : C[i] \notin allocated
            /\ CallBacks' = CallBacks
        BY <3>2, <3>4 DEF LinkCell
      <4> HIDE DEF f, C, Linked
      <4>6. Linked((f - 1) + 1)
        BY <3>3, <4>3, <4>4, <4>5
      <4>7. QED
        BY <4>1, <4>3, <4>6
    <3>5. CASE Found(q, old) = {}
      <4>1. old = NULL
        BY <3>5
      <4>2. /\ next' = [next EXCEPT ![c] = next[C[Len(C)]], ![C[Len(C)]] = c]
            /\ fault' = \E i \in 1..Len(C) : C[i] \notin allocated
            /\ CallBacks' = CallBacks
        BY <3>2, <3>5, <4>1 DEF LinkCell, AddAfter
      <4>3. Place(q, old, Len(C) + 1) /\ Len(C) \in 1..Len(C)
        BY <3>1, <4>1, <1>3 DEF Place
      <4> HIDE DEF C, Linked
      <4>4. Linked(Len(C) + 1)
        BY <3>3, <4>2, <4>3
      <4>5. QED
        BY <1>3, <4>4
    <3>6. QED
      BY <3>4, <3>5
  <2>4. QED
    BY <2>1, <2>2, <2>3
<1>6. PICK k \in 1..(Len(C) + 1) : Linked(k)
  BY <1>5
<1> DEFINE M == [TheLists EXCEPT ![q] = InsertAt(C, k, c)]
<1>7. M[q] = InsertAt(C, k, c) /\ \A r \in LiveLists : r # q => M[r] = Cells(r)
  BY <1>2 DEF TheLists
<1>8. k > 1 => k - 1 \in 1..Len(C) /\ C[k - 1] \in allocated /\ C[k - 1] # c /\ C[k - 1] \in Cell
  BY <1>3
<1>9. Owns(LiveLists', M, CallBacks', next', allocated')
  <2> HIDE DEF C, M
  <2>1. CallBacks'[q] = IF k = 1 THEN c ELSE CallBacks[q]
    BY <1>2, <1>4, <1>6 DEF LiveLists
  <2>2. \A r \in LiveLists : r # q => CallBacks'[r] = CallBacks[r]
    BY <1>4, <1>6 DEF LiveLists
  <2>3. next'[c] = Nth(C, k) /\ (k > 1 => next'[C[k - 1]] = c)
    BY <1>4, <1>6, <1>8
  <2>4. \A d \in allocated : (k > 1 => d # C[k - 1]) => next'[d] = next[d]
    BY <1>1, <1>4, <1>6, <1>8
  <2>5. Owns(LiveLists, TheLists, CallBacks, next, allocated) /\ C = TheLists[q]
    BY <1>3, ListFacts
  <2>6. \A r \in LiveLists : r # q => M[r] = TheLists[r]
    BY <1>7, ListFacts
  <2>7. k \in 1..(Len(TheLists[q]) + 1)
    BY <2>5
  <2>10. /\ M[q] = InsertAt(TheLists[q], k, c)
         /\ next'[c] = Nth(TheLists[q], k) /\ (k > 1 => next'[TheLists[q][k - 1]] = c)
         /\ \A d \in allocated : (k > 1 => d # TheLists[q][k - 1]) => next'[d] = next[d]
    BY <1>7, <2>3, <2>4, <2>5
  <2>11. q \in LiveLists /\ c \in Cell /\ c \notin allocated
    BY <1>2
  <2> HIDE DEF Linked
  <2>8. Owns(LiveLists, M, CallBacks', next', allocated \cup {c})
    <3>1. Links(LiveLists, TheLists, CallBacks, next, allocated, q, c, k, M, CallBacks', next')
      BY <2>1, <2>2, <2>6, <2>7, <2>10, <2>11 DEF Links
    <3>2. QED
      BY <2>5, <3>1, OwnsInsert
  <2>9. QED
    BY <1>1, <1>2, <2>8
<1>10. ListInv' /\ \A r \in LiveLists : Cells(r)' = M[r]
  BY <1>2, <1>9, NextLists
<1>11. Cells(q)' = InsertAt(C, k, c) /\ \A r \in LiveLists : r # q => Cells(r)' = Cells(r)
  BY <1>2, <1>7, <1>10
<1>12. ToSet(C) \subseteq ToSet(Cells(q)')
  <2> HIDE DEF C
  <2>1. ToSet(InsertAt(C, k, c)) = ToSet(C) \cup {c}
    BY <1>3, InsertAtSet
  <2>2. QED
    BY <2>1, <1>11
<1>13. FramesInv'
  <2>1. \A r \in LiveLists : ToSet(Cells(r)) \subseteq ToSet(Cells(r)')
    BY <1>11, <1>12
  <2>2. frames' = frames
    BY <1>1
  <2>3. QED
    BY <2>1, <2>2, <1>2, FramesKept
<1>14. NamesInv'
  BY <1>1, <1>4 DEF XfInv, NamesInv
<1>15. XfTypes'
  <2>1. \A i \in 1..(Len(C) + 1) : Nth(C, i) \in Link
    BY <1>3 DEF Nth, Link
  <2>2. next' \in [Cell -> Link]
    BY <1>4, <1>6, <1>8, <2>1 DEF Link
  <2>3. CallBacks' \in [ListId -> Link]
    BY <1>4, <1>6 DEF Link
  <2>4. proc' \in [Cell -> Proc \cup {NULL}]
    BY <1>1, <1>4
  <2>5. QED
    BY <1>1, <2>2, <2>3, <2>4 DEF XfInv, XfTypes
<1>16. QED
  BY <1>1, <1>2, <1>6, <1>10, <1>11, <1>13, <1>14, <1>15 DEF XfInv
LEMMA DelLists ==
  ASSUME XfInv, NEW q \in ListId, NEW p \in Proc,
         XfDelButtonCallback(q, p), First(Found(q, p)) = 1, ~Running(q[1])
  PROVE  /\ XfInv'
         /\ q \in LiveLists /\ Live' = Live /\ LiveLists' = LiveLists
         /\ \A r \in LiveLists : r # q => Cells(r)' = Cells(r)
         /\ 1 \in 1..Len(Cells(q)) /\ proc[Cells(q)[1]] = p
         /\ Cells(q)' = RemoveAt(Cells(q), 1)
<1> USE DEF XfDelButtonCallback
<1>1. q \in LiveLists /\ Live' = Live /\ LiveLists' = LiveLists
  BY DEF LiveLists, Live
<1> DEFINE C == Cells(q)
<1>2. /\ C \in Seq(Cell) /\ C = TheLists[q]
      /\ \A k \in 1..Len(C) : C[k] \in allocated
  BY <1>1, ListFacts
<1>3. 1 \in 1..Len(C) /\ proc[C[1]] = p
  BY <1>1, FoundFacts, FirstIs
<1>4. /\ ~fault' /\ allocated' = allocated \ {C[1]}
      /\ CallBacks' = [CallBacks EXCEPT ![q] = AfterHead(q)]
      /\ UNCHANGED <<ButtonList, state, proc, next, frames>>
  <2>1. fault' = \E i \in 1..1 : C[i] \notin allocated
    OBVIOUS
  <2>2. C[1] \in allocated
    BY <1>2, <1>3
  <2>3. ~fault'
    BY <2>1, <2>2
  <2>4. QED
    BY <2>3
<1>5. CallBacks \in [ListId -> Link] /\ next \in [Cell -> Link] /\ allocated \subseteq Cell
  BY DEF XfInv, XfTypes
<1>6. CallBacks[q] = C[1] /\ C[1] \in Cell
  <2>1. CallBacks[q] # NULL
    BY <1>1, <1>3, HeadFacts
  <2>2. QED
    BY <2>1, <1>1, <1>2, <1>3, HeadFacts
<1> DEFINE M == [TheLists EXCEPT ![q] = RemoveAt(C, 1)]
<1>7. M[q] = RemoveAt(C, 1) /\ \A r \in LiveLists : r # q => M[r] = Cells(r) /\ M[r] = TheLists[r]
  BY <1>1 DEF TheLists
<1>8. Owns(LiveLists', M, CallBacks', next', allocated')
  <2> HIDE DEF C, M
  <2>1. CallBacks'[q] = next[CallBacks[q]] /\ \A r \in LiveLists : r # q => CallBacks'[r] = CallBacks[r]
    BY <1>4, <1>5 DEF AfterHead, LiveLists
  <2>2. TheLists[q] # <<>>
    BY <1>2, <1>3
  <2>3. M[q] = RemoveAt(TheLists[q], 1) /\ \A r \in LiveLists : r # q => M[r] = TheLists[r]
    BY <1>2, <1>7
  <2>4. Owns(LiveLists, TheLists, CallBacks, next, allocated)
    BY ListFacts
  <2> HIDE DEF XfDelButtonCallback
  <2>5. Owns(LiveLists, M, CallBacks', next, allocated \ {TheLists[q][1]})
    <3>1. q \in LiveLists
      BY <1>1
    <3>2. QED
      BY <3>1, <2>1, <2>2, <2>3, <2>4, OwnsRemoveFirst
  <2>6. QED
    BY <2>5, <1>1, <1>2, <1>4
<1>9. ListInv' /\ \A r \in LiveLists : Cells(r)' = M[r]
  BY <1>1, <1>8, NextLists
<1>10. Cells(q)' = RemoveAt(C, 1) /\ \A r \in LiveLists : r # q => Cells(r)' = Cells(r)
  BY <1>1, <1>7, <1>9
<1>11. FramesInv'
  <2>1. \A i \in 1..Len(frames) : frames[i].list # q
    BY DEF Running
  <2>2. QED
    BY <2>1, <1>1, <1>4, <1>10, FramesKept
<1>12. NamesInv'
  BY <1>4 DEF XfInv, NamesInv
<1>13. XfTypes'
  BY <1>4, <1>5, <1>6 DEF XfInv, XfTypes, AfterHead
<1>14. QED
  BY <1>1, <1>3, <1>4, <1>9, <1>10, <1>11, <1>12, <1>13 DEF XfInv

LEMMA DestroyLists ==
  ASSUME XfInv, NEW b \in Button, XfDestroyButton(b), ~Running(b)
  PROVE  /\ XfInv'
         /\ Live' = Live \ {b}
         /\ \A q \in LiveLists' : q \in LiveLists /\ q[1] # b /\ Cells(q)' = Cells(q)
<1> USE DEF XfDestroyButton
<1>1. ButtonList \in Seq(Button) /\ Distinct(ButtonList)
  BY DEF XfInv, XfTypes
<1>2. PICK i \in 1..Len(ButtonList) : ButtonList[i] = b /\ ButtonList' = RemoveAt(ButtonList, i)
  OBVIOUS
<1>3. /\ ButtonList' \in Seq(Button) /\ Distinct(ButtonList')
      /\ ToSet(ButtonList') = ToSet(ButtonList) \ {b}
  BY <1>1, <1>2, RemoveAtElements, RemoveAtSet
<1>4. Live' = Live \ {b} /\ b \in Live
  BY <1>2, <1>3, LiveIs DEF Live
<1>5. LiveLists' \subseteq LiveLists /\ LiveLists \ LiveLists' = ListsOf(b)
  <2>1. \A q \in LiveLists : q \in LiveLists' <=> q[1] # b
    BY <1>4 DEF LiveLists
  <2>2. \A q \in ListsOf(b) : q \in ListId /\ q[1] = b
    BY DEF ListsOf, ListId
  <2>3. \A q \in ListId : q[1] = b => q \in ListsOf(b)
    BY DEF ListsOf, ListId
  <2>4. LiveLists' \subseteq LiveLists
    BY <1>4 DEF LiveLists
  <2>5. \A q \in LiveLists : q \in ListId
    BY DEF LiveLists
  <2>6. ListsOf(b) \subseteq LiveLists
    BY <2>2, <1>4 DEF LiveLists
  <2>7. QED
    BY <2>1, <2>2, <2>3, <2>4, <2>5, <2>6
<1> DEFINE freed == UNION {{Cells(q)[k] : k \in 1..Len(Cells(q))} : q \in ListsOf(b)}
<1>6. freed = UNION {ToSet(TheLists[q]) : q \in LiveLists \ LiveLists'} /\ freed \subseteq allocated
  <2>1. ASSUME NEW q \in LiveLists
        PROVE  {Cells(q)[k] : k \in 1..Len(Cells(q))} = ToSet(TheLists[q])
    <3>1. TheLists[q] = Cells(q) /\ DOMAIN Cells(q) = 1..Len(Cells(q))
      <4>1. Cells(q) \in Seq(Cell)
        BY ListFacts
      <4>2. QED
        BY <4>1, ListFacts, LenProperties
    <3>2. QED
      BY <3>1, Zenon DEF ToSet
  <2>2. freed = UNION {ToSet(TheLists[q]) : q \in LiveLists \ LiveLists'}
    <3> DEFINE cells(q) == {Cells(q)[k] : k \in 1..Len(Cells(q))}
    <3>1. \A q \in ListsOf(b) : cells(q) = ToSet(TheLists[q])
      BY <2>1, <1>5
    <3>2. freed = UNION {cells(q) : q \in ListsOf(b)}
      BY Zenon
    <3> HIDE DEF cells, freed, XfDestroyButton
    <3>3. UNION {cells(q) : q \in ListsOf(b)} = UNION {ToSet(TheLists[q]) : q \in ListsOf(b)}
      BY <3>1
    <3>4. QED
      BY <3>2, <3>3, <1>5, Zenon
  <2>3. \A q \in LiveLists : ToSet(TheLists[q]) \subseteq allocated
    BY ListFacts
  <2>4. QED
    BY <2>2, <2>3
<1>7. /\ ~fault' /\ allocated' = allocated \ freed
      /\ UNCHANGED <<state, CallBacks, proc, next, frames>>
  BY <1>6
<1> HIDE DEF freed, XfDestroyButton
<1>8. Owns(LiveLists', TheLists, CallBacks', next', allocated')
  <2>1. Owns(LiveLists, TheLists, CallBacks, next, allocated)
    BY ListFacts
  <2>2. Owns(LiveLists', TheLists, CallBacks, next,
             allocated \ UNION {ToSet(TheLists[q]) : q \in LiveLists \ LiveLists'})
    BY <2>1, <1>5, OwnsFewer
  <2>3. QED
    BY <2>2, <1>6, <1>7
<1>9. ListInv' /\ \A q \in LiveLists' : Cells(q)' = TheLists[q]
  BY <1>8, NextLists
<1>10. \A q \in LiveLists' : q \in LiveLists /\ q[1] # b /\ Cells(q)' = Cells(q)
  BY <1>4, <1>5, <1>9, ListFacts DEF LiveLists
<1>11. FramesInv'
  <2>1. ASSUME NEW k \in 1..Len(frames), frames[k].list \in LiveLists PROVE frames[k].list \in LiveLists'
    BY <2>1, <1>4 DEF Running, LiveLists
  <2>2. QED
    BY <2>1, <1>7, <1>10, FramesKept
<1>12. NamesInv'
  BY <1>7 DEF XfInv, NamesInv
<1>13. XfTypes'
  BY <1>3, <1>7 DEF XfInv, XfTypes
<1>14. QED
  BY <1>4, <1>7, <1>9, <1>10, <1>11, <1>12, <1>13 DEF XfInv

-----------------------------------------------------------------------------
(* The dispatcher *)

LEMMA PushLists ==
  ASSUME XfInv, NEW b \in Button, XfButtonPush(b)
  PROVE  XfInv'
<1> DEFINE q == <<b, state[b]>>
<1>1. /\ b \in Live /\ CallBacks[q] # NULL
      /\ fault' = (CallBacks[q] \notin allocated)
      /\ frames' = Append(frames, [list |-> q, next_exec |-> next[CallBacks[q]]])
      /\ UNCHANGED <<ButtonList, state, CallBacks, proc, next, allocated>>
  BY DEF XfButtonPush
<1>2. q \in LiveLists
  <2>1. state[b] \in State
    BY DEF XfInv, XfTypes
  <2>2. QED
    BY <2>1, <1>1 DEF LiveLists, ListId
<1> HIDE DEF q
<1>3. LiveLists' = LiveLists /\ ListInv' /\ \A r \in LiveLists : TheLists'[r] = TheLists[r]
  <2>1. Live' = Live
    BY <1>1 DEF Live
  <2>2. QED
    BY <1>1, <2>1, SameLists, TheListsNext, ListFacts
<1> DEFINE C == TheLists[q]
<1>4. /\ C \in Seq(Cell) /\ Len(C) \in Nat /\ Chain(C, CallBacks[q], next)
      /\ 1 \in 1..Len(C) /\ CallBacks[q] = C[1]
      /\ \A k \in 1..Len(C) : C[k] \in allocated /\ C[k] \in ToSet(C)
  BY <1>1, <1>2, ListFacts, HeadFacts
<1>5. ~fault'
  BY <1>1, <1>4
<1> DEFINE f == [list |-> q, next_exec |-> next[CallBacks[q]]]
<1>6. /\ f.list \in LiveLists /\ f.next_exec \in Link
      /\ f.next_exec # NULL => f.next_exec \in ToSet(TheLists[f.list])
  <2>1. next[CallBacks[q]] = Nth(C, 2)
    BY <1>4 DEF Chain
  <2>2. 2 <= Len(C) => C[2] \in Cell /\ C[2] \in ToSet(C)
    BY <1>4
  <2>3. QED
    BY <1>2, <2>1, <2>2 DEF Nth, Link
<1>7. f \in [list : ListId, next_exec : Link]
  BY <1>6 DEF LiveLists
<1>8. frames \in Seq([list : ListId, next_exec : Link])
  BY DEF XfInv, XfTypes
<1> HIDE DEF f
<1>9. /\ frames' \in Seq([list : ListId, next_exec : Link])
      /\ Len(frames') = Len(frames) + 1 /\ Len(frames) \in Nat
      /\ \A i \in 1..Len(frames) : frames'[i] = frames[i]
      /\ frames'[Len(frames) + 1] = f
  <2>1. frames' = Append(frames, f)
    BY <1>1 DEF f
  <2>2. QED
    BY <2>1, <1>7, <1>8, AppendProperties
<1>10. FramesInv'
  <2> SUFFICES ASSUME NEW i \in 1..Len(frames')
               PROVE  /\ frames'[i].list \in LiveLists'
                      /\ frames'[i].next_exec # NULL =>
                           frames'[i].next_exec \in ToSet(TheLists'[frames'[i].list])
    BY DEF FramesInv
  <2>1. CASE i \in 1..Len(frames)
    <3>1. /\ frames[i].list \in LiveLists
          /\ frames[i].next_exec # NULL => frames[i].next_exec \in ToSet(TheLists[frames[i].list])
      BY <2>1 DEF XfInv, FramesInv
    <3>2. QED
      BY <2>1, <3>1, <1>3, <1>9
  <2>2. CASE i = Len(frames) + 1
    BY <2>2, <1>3, <1>6, <1>9
  <2>3. QED
    BY <2>1, <2>2, <1>9
<1>11. NamesInv'
  BY <1>1 DEF XfInv, NamesInv
<1>12. XfTypes'
  BY <1>1, <1>9 DEF XfInv, XfTypes
<1>13. QED
  BY <1>3, <1>5, <1>10, <1>11, <1>12 DEF XfInv

LEMMA ReturnLists ==
  ASSUME XfInv, Return
  PROVE  XfInv'
<1> USE DEF Return
<1>1. LiveLists' = LiveLists /\ ListInv' /\ \A r \in LiveLists : TheLists'[r] = TheLists[r]
  <2>1. Live' = Live
    BY DEF Live
  <2>2. QED
    BY <2>1, SameLists, TheListsNext, ListFacts
<1> DEFINE Frame == [list : ListId, next_exec : Link]
           n == Len(frames)
<1>2. frames \in Seq(Frame) /\ n \in Nat /\ n \in 1..n /\ Top = frames[n] /\ Top \in Frame
  <2>1. frames \in Seq(Frame) /\ frames # <<>>
    BY DEF XfInv, XfTypes
  <2> HIDE DEF Frame, Return
  <2>2. n \in Nat /\ n \in 1..n
    BY <2>1, EmptySeq, LenProperties
  <2>3. frames[n] \in Frame
    BY <2>1, <2>2, ElementOfSeq
  <2>4. QED
    BY <2>1, <2>2, <2>3 DEF Top
<1>3. /\ Outer \in Seq(Frame) /\ Len(Outer) = n - 1
      /\ \A i \in 1..(n - 1) : Outer[i] = frames[i]
  <2> HIDE DEF Frame, Return
  <2> DEFINE m == n - 1
  <2>1. m \in Nat /\ \A i \in 1..m : i \in 1..n
    BY <1>2
  <2>2. \A i \in 1..m : frames[i] \in Frame
    BY <2>1, <1>2, ElementOfSeq
  <2>3. Outer = SubSeq(frames, 1, m)
    BY DEF Outer
  <2> HIDE DEF m
  <2>4. /\ Outer \in Seq(Frame) /\ Len(Outer) = (IF 1 <= m THEN m - 1 + 1 ELSE 0)
        /\ \A i \in 1..(m - 1 + 1) : Outer[i] = frames[1 + i - 1]
    BY <2>1, <2>2, <2>3, SubSeqProperties
  <2>5. Len(Outer) = m /\ \A i \in 1..m : Outer[i] = frames[i]
    BY <2>1, <2>4
  <2>6. QED
    BY <2>4, <2>5 DEF m
<1>4. \A i \in 1..n : /\ frames[i].list \in LiveLists
                      /\ frames[i].next_exec # NULL => frames[i].next_exec \in ToSet(TheLists[frames[i].list])
  BY DEF XfInv, FramesInv
<1>5. NamesInv'
  BY DEF XfInv, NamesInv
<1> SUFFICES ~fault' /\ frames' \in Seq(Frame) /\ FramesInv'
  BY <1>1, <1>5 DEF XfInv, XfTypes
<1>6. CASE Top.next_exec = NULL /\ frames' = Outer /\ UNCHANGED fault
  <2>1. \A i \in 1..Len(frames') : frames'[i] = frames[i] /\ i \in 1..n
    BY <1>6, <1>2, <1>3
  <2>2. FramesInv'
    <3> SUFFICES ASSUME NEW i \in 1..Len(frames')
                 PROVE  /\ frames'[i].list \in LiveLists'
                        /\ frames'[i].next_exec # NULL =>
                             frames'[i].next_exec \in ToSet(TheLists'[frames'[i].list])
      BY DEF FramesInv
    <3>1. QED
      BY <2>1, <1>1, <1>4
  <2>3. QED
    BY <1>3, <1>6, <2>2 DEF XfInv
<1>7. CASE /\ Top.next_exec # NULL
           /\ fault' = (Top.next_exec \notin allocated)
           /\ frames' = Append(Outer, [Top EXCEPT !.next_exec = next[Top.next_exec]])
  <2> DEFINE C == TheLists[Top.list]
  <2>1. Top.list \in LiveLists /\ Top.next_exec \in ToSet(C)
    BY <1>2, <1>4, <1>7
  <2>2. /\ C \in Seq(Cell) /\ Len(C) \in Nat /\ Chain(C, CallBacks[Top.list], next)
        /\ \A k \in 1..Len(C) : C[k] \in allocated /\ C[k] \in ToSet(C)
    BY <2>1, ListFacts
  <2>3. PICK k \in 1..Len(C) : C[k] = Top.next_exec
    BY <2>1, <2>2, ElementsOf
  <2>4. ~fault'
    BY <1>7, <2>2, <2>3
  <2>5. next[Top.next_exec] = Nth(C, k + 1)
    BY <2>2, <2>3 DEF Chain
  <2>6. k + 1 <= Len(C) => C[k + 1] \in Cell /\ C[k + 1] \in ToSet(C)
    BY <2>2, <2>3
  <2>7. next[Top.next_exec] \in Link /\ (next[Top.next_exec] # NULL => next[Top.next_exec] \in ToSet(C))
    BY <2>5, <2>6 DEF Nth, Link
  <2> DEFINE f == [Top EXCEPT !.next_exec = next[Top.next_exec]]
  <2>8. f \in Frame /\ f.list = Top.list /\ f.next_exec = next[Top.next_exec]
    BY <1>2, <2>7
  <2> HIDE DEF f
  <2>9. /\ frames' \in Seq(Frame) /\ Len(frames') = n
        /\ \A i \in 1..(n - 1) : frames'[i] = frames[i]
        /\ frames'[n] = f
    <3>1. frames' = Append(Outer, f)
      BY <1>7 DEF f
    <3> HIDE DEF Frame
    <3>2. /\ frames' \in Seq(Frame) /\ Len(frames') = Len(Outer) + 1
          /\ \A i \in 1..Len(Outer) : frames'[i] = Outer[i]
          /\ frames'[Len(Outer) + 1] = f
      BY <3>1, <2>8, <1>3, AppendProperties
    <3>3. QED
      BY <3>2, <1>2, <1>3
  <2>10. FramesInv'
    <3> SUFFICES ASSUME NEW i \in 1..Len(frames')
                 PROVE  /\ frames'[i].list \in LiveLists'
                        /\ frames'[i].next_exec # NULL =>
                             frames'[i].next_exec \in ToSet(TheLists'[frames'[i].list])
      BY DEF FramesInv
    <3>1. CASE i = n
      BY <3>1, <2>1, <2>7, <2>8, <2>9, <1>1
    <3>2. CASE i # n
      <4>1. i \in 1..(n - 1) /\ i \in 1..n
        BY <3>2, <2>9, <1>2
      <4>2. QED
        BY <4>1, <2>9, <1>1, <1>4
    <3>3. QED
      BY <3>1, <3>2
  <2>11. QED
    BY <2>4, <2>9, <2>10
<1>8. QED
  BY <1>6, <1>7

-----------------------------------------------------------------------------
(* The theorems *)

LEMMA XfInitInv == Init => XfInv
<1> SUFFICES ASSUME Init PROVE XfInv
  OBVIOUS
<1> USE DEF Init
<1>1. Live = {} /\ LiveLists = {}
  BY DEF Live, LiveLists
<1>2. XfTypes
  <2>1. ButtonList \in Seq(Button) /\ Distinct(ButtonList)
    BY DEF Distinct
  <2>2. state \in [Button -> State]
    BY MaxStateAssumption DEF State
  <2>3. QED
    BY <2>1, <2>2 DEF XfTypes, Link
<1>3. ListInv
  BY <1>1 DEF ListInv, Owns
<1>4. NamesInv /\ FramesInv
  BY DEF NamesInv, FramesInv
<1>5. QED
  BY <1>2, <1>3, <1>4 DEF XfInv

LEMMA XfStepInv == XfInv /\ [Next]_vars => XfInv'
<1> SUFFICES ASSUME XfInv, [Next]_vars PROVE XfInv'
  OBVIOUS
<1>1. CASE UNCHANGED vars
  <2> USE <1>1 DEF vars
  <2>1. Live' = Live
    BY DEF Live
  <2>2. LiveLists' = LiveLists /\ ListInv' /\ \A q \in LiveLists : Cells(q)' = Cells(q)
    BY <2>1, SameLists
  <2>3. FramesInv'
    BY <2>2, FramesKept
  <2>4. QED
    BY <2>2, <2>3 DEF XfInv, XfTypes, NamesInv
<1>2. ASSUME NEW b \in Button, XfCreateButton(b) PROVE XfInv'
  BY <1>2, CreateLists
<1>3. ASSUME NEW b \in Button, XfMoveButton(b) PROVE XfInv'
  BY <1>3, MoveLists
<1>4. ASSUME NEW b \in Button, toggle_state(b) PROVE XfInv'
  BY <1>4, ToggleLists
<1>5. ASSUME NEW q \in ListId, NEW p \in Proc, NEW old \in Proc \cup {NULL},
             old = NULL \/ Found(q, old) # {}, XfAddButtonCallback(q, p, old)
      PROVE  XfInv'
  BY <1>5, AddLists
<1>6. ASSUME NEW q \in ListId, NEW p \in Proc,
             XfDelButtonCallback(q, p), First(Found(q, p)) = 1, ~Running(q[1])
      PROVE  XfInv'
  BY <1>6, DelLists
<1>7. ASSUME NEW b \in Button, XfDestroyButton(b), ~Running(b) PROVE XfInv'
  BY <1>7, DestroyLists
<1>8. ASSUME NEW b \in Button, XfButtonPush(b) PROVE XfInv'
  BY <1>8, PushLists
<1>9. CASE Return
  BY <1>9, ReturnLists
<1>10. QED
  BY <1>1, <1>2, <1>3, <1>4, <1>5, <1>6, <1>7, <1>8, <1>9 DEF Next, Callers, Dispatch

\* The inductive invariant: proper lists that own the cells in use, and
\* dispatchers that have saved a cell of the list they run.
THEOREM XfInvHolds == Spec => []XfInv
<1>1. QED
  BY XfInitInv, XfStepInv, PTL DEF Spec

\* XfButtonPush never follows a link into freed memory: however callbacks
\* add, delete, create, destroy and dispatch again, what a dispatcher has
\* saved is a cell in use, of the list that it runs.
THEOREM WalksAreSafe == Spec => []WalkIsSafe
<1>1. XfInv => WalkIsSafe
  <2> SUFFICES ASSUME XfInv, NEW i \in 1..Len(frames), frames[i].next_exec # NULL
               PROVE  LET f == frames[i] IN
                      /\ f.next_exec \in allocated
                      /\ \E k \in 1..Len(Cells(f.list)) : Cells(f.list)[k] = f.next_exec
    BY DEF WalkIsSafe, XfInv
  <2> DEFINE q == frames[i].list
  <2>1. q \in LiveLists /\ frames[i].next_exec \in ToSet(Cells(q))
    <3>1. q \in LiveLists /\ frames[i].next_exec \in ToSet(TheLists[q])
      BY DEF XfInv, FramesInv
    <3>2. QED
      BY <3>1, ListFacts
  <2>2. Cells(q) \in Seq(Cell) /\ ToSet(Cells(q)) \subseteq allocated
    BY <2>1, ListFacts
  <2>3. QED
    BY <2>1, <2>2, ElementsOf
<1>2. QED
  BY <1>1, XfInvHolds, PTL

\* Every cell in use is in exactly one list of one live button.
THEOREM CellsAreOwned == Spec => []CellsOwned
<1>1. XfInv => CellsOwned
  <2> SUFFICES ASSUME XfInv PROVE CellsOwned
    OBVIOUS
  <2>1. ASSUME NEW q \in LiveLists
        PROVE  {Cells(q)[k] : k \in 1..Len(Cells(q))} = ToSet(TheLists[q])
    <3>1. TheLists[q] = Cells(q) /\ DOMAIN Cells(q) = 1..Len(Cells(q))
      <4>1. Cells(q) \in Seq(Cell)
        BY ListFacts
      <4>2. QED
        BY <4>1, ListFacts, LenProperties
    <3>2. QED
      BY <3>1, Zenon DEF ToSet
  <2>2. /\ allocated = UNION {ToSet(TheLists[q]) : q \in LiveLists}
        /\ \A q, r \in LiveLists : q # r => ToSet(TheLists[q]) \cap ToSet(TheLists[r]) = {}
    BY ListFacts DEF Owns
  <2> DEFINE cells(q) == {Cells(q)[k] : k \in 1..Len(Cells(q))}
  <2>3. \A q \in LiveLists : cells(q) = ToSet(TheLists[q])
    BY <2>1
  <2> HIDE DEF cells
  <2>4. /\ allocated = UNION {cells(q) : q \in LiveLists}
        /\ \A q, r \in LiveLists : q # r => cells(q) \cap cells(r) = {}
    BY <2>2, <2>3
  <2>5. QED
    BY <2>4, Zenon DEF CellsOwned, LiveLists, cells
<1>2. QED
  BY <1>1, XfInvHolds, PTL
-----------------------------------------------------------------------------
(* The linked lists implement CallbackLists *)

\* The procedures of the cells s
Procs(s, pr) == [k \in 1..Len(s) |-> pr[s[k]]]

Shown == [q \in Live \X State |-> [k \in 1..Len(Cells(q)) |-> proc[Cells(q)[k]]]]

LEMMA ProcsFacts ==
  ASSUME NEW s \in Seq(Cell), NEW pr, NEW R, \A k \in 1..Len(s) : pr[s[k]] \in R
  PROVE  /\ Procs(s, pr) \in Seq(R) /\ Len(Procs(s, pr)) = Len(s)
         /\ \A k \in 1..Len(s) : Procs(s, pr)[k] = pr[s[k]]
<1>1. Len(s) \in Nat
  OBVIOUS
<1>2. Procs(s, pr) \in [1..Len(s) -> R]
  BY DEF Procs
<1>3. Procs(s, pr) \in Seq(R)
  BY <1>1, <1>2, IsASeq DEF Procs
<1>4. DOMAIN Procs(s, pr) = 1..Len(s)
  BY DEF Procs
<1>5. Len(Procs(s, pr)) = Len(s)
  BY <1>1, <1>3, <1>4, LenProperties
<1>6. QED
  BY <1>3, <1>5 DEF Procs

\* Linking a cell inserts its procedure.
LEMMA ProcsInsert ==
  ASSUME NEW s \in Seq(Cell), NEW k \in 1..(Len(s) + 1), NEW c \in Cell, NEW p \in Proc,
         NEW pr, NEW qr, \A i \in 1..Len(s) : pr[s[i]] \in Proc /\ qr[s[i]] = pr[s[i]],
         qr[c] = p
  PROVE  Procs(InsertAt(s, k, c), qr) = InsertAt(Procs(s, pr), k, p)
<1> DEFINE t == InsertAt(s, k, c)
           u == Procs(s, pr)
           v == InsertAt(u, k, p)
           w == Procs(t, qr)
<1>1. t \in Seq(Cell) /\ Len(t) = Len(s) + 1 /\ Len(s) \in Nat
  BY InsertAtElements, Zenon, LenProperties
<1>2. ASSUME NEW i \in 1..(Len(s) + 1)
      PROVE  t[i] = IF i < k THEN s[i] ELSE IF i = k THEN c ELSE s[i - 1]
  BY InsertAtElements, SMTT(60)
<1>3. u \in Seq(Proc) /\ Len(u) = Len(s) /\ \A i \in 1..Len(s) : u[i] = pr[s[i]]
  BY ProcsFacts
<1> HIDE DEF t, u
<1>4. v \in Seq(Proc) /\ Len(v) = Len(s) + 1
  BY <1>3, InsertAtElements
<1>5. ASSUME NEW i \in 1..(Len(s) + 1)
      PROVE  v[i] = IF i < k THEN u[i] ELSE IF i = k THEN p ELSE u[i - 1]
  <2>1. k \in 1..(Len(u) + 1) /\ i \in 1..(Len(u) + 1)
    BY <1>3
  <2>2. QED
    BY <1>3, <2>1, InsertAtElements, SMTT(60)
<1>6. ASSUME NEW i \in 1..(Len(s) + 1) PROVE qr[t[i]] = v[i] /\ v[i] \in Proc
  <2>1. CASE i < k
    <3>1. i \in 1..Len(s) /\ t[i] = s[i] /\ v[i] = u[i]
      BY <2>1, <1>1, <1>2, <1>5
    <3>2. QED
      BY <3>1, <1>3
  <2>2. CASE i = k
    <3>1. t[i] = c /\ v[i] = p
      BY <2>2, <1>1, <1>2, <1>5
    <3>2. QED
      BY <3>1
  <2>3. CASE i > k
    <3>1. i - 1 \in 1..Len(s) /\ t[i] = s[i - 1] /\ v[i] = u[i - 1]
      BY <2>3, <1>1, <1>2, <1>5
    <3>2. QED
      BY <3>1, <1>3
  <2>4. QED
    BY <2>1, <2>2, <2>3
<1>7. w \in Seq(Proc) /\ Len(w) = Len(s) + 1 /\ \A i \in 1..(Len(s) + 1) : w[i] = qr[t[i]]
  <2>1. \A i \in 1..Len(t) : qr[t[i]] \in Proc
    BY <1>1, <1>6
  <2>2. w \in Seq(Proc) /\ Len(w) = Len(t) /\ \A i \in 1..Len(t) : w[i] = qr[t[i]]
    BY <1>1, <2>1, ProcsFacts
  <2>3. QED
    BY <1>1, <2>2
<1> HIDE DEF v, w
<1>8. w = v
  BY <1>1, <1>4, <1>6, <1>7, SeqEqual
<1>9. QED
  BY <1>8 DEF t, u, v, w

\* Unlinking the first cell removes the first procedure.
LEMMA ProcsRemove ==
  ASSUME NEW s \in Seq(Cell), 1 \in 1..Len(s), NEW pr, \A i \in 1..Len(s) : pr[s[i]] \in Proc
  PROVE  Procs(RemoveAt(s, 1), pr) = RemoveAt(Procs(s, pr), 1)
<1> DEFINE t == RemoveAt(s, 1)
           u == Procs(s, pr)
           v == RemoveAt(u, 1)
           w == Procs(t, pr)
<1>1. /\ t \in Seq(Cell) /\ Len(t) = Len(s) - 1 /\ Len(s) \in Nat
      /\ \A i \in 1..(Len(s) - 1) : t[i] = IF i < 1 THEN s[i] ELSE s[i + 1]
  BY RemoveAtElements, Zenon, LenProperties
<1>2. u \in Seq(Proc) /\ Len(u) = Len(s) /\ \A i \in 1..Len(s) : u[i] = pr[s[i]]
  BY ProcsFacts
<1> HIDE DEF t, u
<1>3. /\ v \in Seq(Proc) /\ Len(v) = Len(s) - 1
      /\ \A i \in 1..(Len(s) - 1) : v[i] = IF i < 1 THEN u[i] ELSE u[i + 1]
  BY <1>2, RemoveAtElements
<1> HIDE DEF v
<1>4. ASSUME NEW i \in 1..(Len(s) - 1) PROVE pr[t[i]] = v[i] /\ v[i] \in Proc
  <2>1. i + 1 \in 1..Len(s) /\ t[i] = s[i + 1] /\ v[i] = u[i + 1]
    BY <1>1, <1>3
  <2>2. QED
    BY <2>1, <1>2
<1>5. w \in Seq(Proc) /\ Len(w) = Len(s) - 1 /\ \A i \in 1..(Len(s) - 1) : w[i] = pr[t[i]]
  <2>1. \A i \in 1..Len(t) : pr[t[i]] \in Proc
    BY <1>1, <1>4
  <2>2. w \in Seq(Proc) /\ Len(w) = Len(t) /\ \A i \in 1..Len(t) : w[i] = pr[t[i]]
    BY <1>1, <2>1, ProcsFacts
  <2>3. QED
    BY <1>1, <2>2
<1> HIDE DEF w
<1>6. w = v
  <2>1. Len(w) = Len(v) /\ \A i \in 1..Len(w) : w[i] = v[i]
    BY <1>1, <1>3, <1>4, <1>5
  <2>2. QED
    BY <2>1, <1>3, <1>5, SeqEqual
<1>7. QED
  BY <1>6 DEF t, u, v, w

\* What is shown of a list
LEMMA ShownFacts ==
  ASSUME XfInv
  PROVE  /\ LiveLists = Live \X State /\ DOMAIN Shown = LiveLists
         /\ \A q \in LiveLists :
              /\ Shown[q] = Procs(Cells(q), proc)
              /\ Shown[q] \in Seq(Proc) /\ Len(Shown[q]) = Len(Cells(q))
              /\ \A k \in 1..Len(Cells(q)) : Shown[q][k] = proc[Cells(q)[k]]
<1>1. Live \subseteq Button
  BY DEF XfInv, XfTypes, Live
<1>2. LiveLists = Live \X State
  BY <1>1 DEF LiveLists, ListId
<1>3. ASSUME NEW q \in LiveLists
      PROVE  /\ Shown[q] = Procs(Cells(q), proc)
             /\ Shown[q] \in Seq(Proc) /\ Len(Shown[q]) = Len(Cells(q))
             /\ \A k \in 1..Len(Cells(q)) : Shown[q][k] = proc[Cells(q)[k]]
  <2>1. Shown[q] = Procs(Cells(q), proc)
    BY <1>2 DEF Shown, Procs
  <2>2. Cells(q) \in Seq(Cell) /\ \A k \in 1..Len(Cells(q)) : proc[Cells(q)[k]] \in Proc
    BY ListFacts
  <2>3. QED
    BY <2>1, <2>2, ProcsFacts
<1>4. QED
  BY <1>2, <1>3 DEF Shown

LEMMA ShownNext ==
  ASSUME XfInv'
  PROVE  /\ LiveLists' = Live' \X State /\ DOMAIN Shown' = LiveLists'
         /\ Shown' = [q \in LiveLists' |-> Procs(Cells(q)', proc')]
<1>1. Live' \subseteq Button
  BY DEF XfInv, XfTypes, Live
<1>2. LiveLists' = Live' \X State
  BY <1>1 DEF LiveLists, ListId
<1>3. QED
  BY <1>2 DEF Shown, Procs

LEMMA SameShown ==
  ASSUME XfInv, XfInv', LiveLists' = LiveLists, proc' = proc,
         \A q \in LiveLists : Cells(q)' = Cells(q)
  PROVE  Shown' = Shown
<1>1. \A q \in LiveLists : Shown'[q] = Shown[q]
  BY ShownFacts, ShownNext
<1>2. DOMAIN Shown' = DOMAIN Shown
  BY ShownFacts, ShownNext
<1>3. Shown = [q \in LiveLists |-> Shown[q]] /\ Shown' = [q \in LiveLists |-> Shown'[q]]
  <2>1. Shown = [q \in Live \X State |-> Shown[q]]
    BY DEF Shown
  <2>2. QED
    BY <2>1, ShownFacts, ShownNext
<1>4. QED
  BY <1>1, <1>3

LEMMA CreateShown ==
  ASSUME XfInv, XfInv', NEW b \in Button, XfCreateButton(b)
  PROVE  Lists!Create(b)
<1>1. /\ b \notin Live /\ ButtonList' = Append(ButtonList, b) /\ UNCHANGED proc
      /\ Live' = Live \cup {b}
  BY CreateLists DEF XfCreateButton
<1>2. ASSUME NEW q \in LiveLists'
      PROVE  Procs(Cells(q)', proc') = IF q[1] = b THEN <<>> ELSE Shown[q]
  <2>1. CASE q[1] = b
    <3>1. Cells(q)' = <<>>
      BY <2>1, CreateLists
    <3>2. Procs(<<>>, proc') = <<>>
      BY DEF Procs
    <3>3. QED
      BY <2>1, <3>1, <3>2
  <2>2. CASE q[1] # b
    <3>1. q \in LiveLists
      BY <2>2, <1>1 DEF LiveLists
    <3>2. Cells(q)' = Cells(q)
      BY <3>1, CreateLists
    <3>3. QED
      BY <2>2, <3>1, <3>2, <1>1, ShownFacts
  <2>3. QED
    BY <2>1, <2>2
<1>3. Shown' = [q \in (Live \cup {b}) \X State |-> IF q[1] = b THEN <<>> ELSE Shown[q]]
  BY <1>1, <1>2, ShownNext
<1>4. QED
  BY <1>1, <1>3, Zenon DEF Lists!Create, Lists!Live, Live, Shown

LEMMA DestroyShown ==
  ASSUME XfInv, XfInv', NEW b \in Button, XfDestroyButton(b), ~Running(b)
  PROVE  Lists!Destroy(b)
<1>1. \E k \in 1..Len(ButtonList) : ButtonList[k] = b /\ ButtonList' = RemoveAt(ButtonList, k)
  BY DEF XfDestroyButton
<1>2. Live' = Live \ {b} /\ UNCHANGED proc
  BY DestroyLists DEF XfDestroyButton
<1>3. ASSUME NEW q \in LiveLists' PROVE Procs(Cells(q)', proc') = Shown[q]
  <2>1. q \in LiveLists /\ Cells(q)' = Cells(q)
    BY DestroyLists
  <2>2. QED
    BY <2>1, <1>2, ShownFacts
<1>4. Shown' = [q \in (Live \ {b}) \X State |-> Shown[q]]
  BY <1>2, <1>3, ShownNext
<1>5. \E k \in 1..Len(ButtonList) : ButtonList[k] = b /\ ButtonList' = Lists!Remove(ButtonList, k)
  BY <1>1 DEF RemoveAt, Lists!Remove
<1>6. QED
  BY <1>4, <1>5, Zenon DEF Lists!Destroy, Lists!Live, Live, Shown

LEMMA MoveShown ==
  ASSUME XfInv, XfInv', NEW b \in Button, XfMoveButton(b)
  PROVE  Lists!Move(b)
<1>1. \E k \in 1..Len(ButtonList) : ButtonList[k] = b /\ ButtonList' = <<b>> \o Lists!Remove(ButtonList, k)
  BY DEF XfMoveButton, RemoveAt, Lists!Remove
<1>2. UNCHANGED proc
  BY DEF XfMoveButton
<1>3. Shown' = Shown
  BY <1>2, MoveLists, SameShown
<1>4. QED
  BY <1>1, <1>3, Zenon DEF Lists!Move, Live, Shown

\* The same list but for q
LEMMA ShownExcept ==
  ASSUME XfInv, XfInv', NEW q \in LiveLists, LiveLists' = LiveLists,
         NEW s, Procs(Cells(q)', proc') = s,
         \A r \in LiveLists : r # q => Procs(Cells(r)', proc') = Shown[r]
  PROVE  Shown' = [Shown EXCEPT ![q] = s]
<1>1. Shown' = [r \in LiveLists |-> Procs(Cells(r)', proc')]
  BY ShownNext
<1>2. DOMAIN Shown = LiveLists
  BY ShownFacts
<1>3. Shown = [r \in LiveLists |-> Shown[r]]
  BY <1>2 DEF Shown
<1> DEFINE T(r) == Procs(Cells(r)', proc')
<1>4. T(q) = s /\ \A r \in LiveLists : r # q => T(r) = Shown[r]
  OBVIOUS
<1> HIDE DEF T
<1>5. [r \in LiveLists |-> T(r)] = [Shown EXCEPT ![q] = s]
  BY <1>3, <1>4
<1>6. QED
  BY <1>1, <1>5, Zenon DEF T

LEMMA AddShown ==
  ASSUME XfInv, XfInv', NEW q \in ListId, NEW p \in Proc, NEW old \in Proc \cup {NULL},
         old = NULL \/ Found(q, old) # {}, XfAddButtonCallback(q, p, old)
  PROVE  q \in LiveLists /\ Lists!Add(q, p, old)
<1>1. /\ q \in LiveLists /\ LiveLists' = LiveLists
      /\ \A r \in LiveLists : r # q => Cells(r)' = Cells(r)
  BY AddLists
<1>2. PICK c \in Cell \ allocated, k \in 1..(Len(Cells(q)) + 1) :
        /\ Place(q, old, k)
        /\ Cells(q)' = InsertAt(Cells(q), k, c)
        /\ proc' = [proc EXCEPT ![c] = p]
  BY AddLists
<1>3. ButtonList' = ButtonList
  BY DEF XfAddButtonCallback
<1>4. proc \in [Cell -> Proc \cup {NULL}] /\ allocated \subseteq Cell
  BY DEF XfInv, XfTypes
<1>5. \A d \in allocated : proc'[d] = proc[d]
  BY <1>2, <1>4
<1>6. \A r \in LiveLists : /\ Cells(r) \in Seq(Cell)
                           /\ \A i \in 1..Len(Cells(r)) : /\ Cells(r)[i] \in allocated
                                                          /\ proc[Cells(r)[i]] \in Proc
  BY ListFacts
<1>7. Procs(Cells(q)', proc') = InsertAt(Shown[q], k, p)
  <2>1. proc'[c] = p /\ c \in Cell
    BY <1>2, <1>4
  <2>2. Procs(InsertAt(Cells(q), k, c), proc') = InsertAt(Procs(Cells(q), proc), k, p)
    BY <2>1, <1>1, <1>5, <1>6, ProcsInsert
  <2>3. QED
    BY <2>2, <1>1, <1>2, ShownFacts
<1>8. ASSUME NEW r \in LiveLists, r # q PROVE Procs(Cells(r)', proc') = Shown[r]
  <2>1. Procs(Cells(r), proc') = Procs(Cells(r), proc)
    BY <1>5, <1>6 DEF Procs
  <2>2. QED
    BY <2>1, <1>1, <1>8, ShownFacts
<1>9. Shown' = [Shown EXCEPT ![q] = InsertAt(Shown[q], k, p)]
  BY <1>1, <1>7, <1>8, ShownExcept
<1>10. /\ Shown[q] \in Seq(Proc) /\ Len(Shown[q]) = Len(Cells(q)) /\ Len(Shown[q]) \in Nat
       /\ \A i \in 1..Len(Shown[q]) : Shown[q][i] = proc[Cells(q)[i]]
  BY <1>1, ShownFacts, LenProperties
<1> DEFINE before == {i \in 1..Len(Shown[q]) : Shown[q][i] = old}
<1>11. before = Found(q, old)
  BY <1>10 DEF Found
<1>12. \/ \E i \in before : (\A j \in before : i <= j) /\ Shown' = [Shown EXCEPT ![q] = Lists!Insert(@, i, p)]
       \/ old = NULL /\ Shown' = [Shown EXCEPT ![q] = Append(@, p)]
  <2>1. CASE Found(q, old) # {} /\ k = First(Found(q, old))
    <3>1. Found(q, old) \in SUBSET Nat
      BY <1>1, FoundFacts
    <3>2. k \in before /\ \A j \in before : k <= j
      BY <2>1, <3>1, <1>11, FirstIs
    <3>3. Shown' = [Shown EXCEPT ![q] = Lists!Insert(@, k, p)]
      BY <1>9 DEF InsertAt, Lists!Insert
    <3>4. QED
      BY <3>2, <3>3
  <2>2. CASE old = NULL /\ k = Len(Cells(q)) + 1
    <3> DEFINE s == Shown[q]
    <3>1. s \in Seq(Proc) /\ k = Len(s) + 1 /\ Len(s) \in Nat
      BY <2>2, <1>10
    <3> HIDE DEF s
    <3>2. InsertAt(s, k, p) = Append(s, p)
      BY <3>1, InsertAtEnd
    <3>3. QED
      BY <2>2, <3>2, <1>9 DEF s
  <2>3. QED
    BY <2>1, <2>2, <1>2 DEF Place
<1>13. QED
  BY <1>1, <1>3, <1>12, Zenon DEF Lists!Add, Shown

LEMMA DelShown ==
  ASSUME XfInv, XfInv', NEW q \in ListId, NEW p \in Proc,
         XfDelButtonCallback(q, p), First(Found(q, p)) = 1, ~Running(q[1])
  PROVE  q \in LiveLists /\ Lists!Delete(q, p)
<1>1. /\ q \in LiveLists /\ LiveLists' = LiveLists
      /\ \A r \in LiveLists : r # q => Cells(r)' = Cells(r)
      /\ 1 \in 1..Len(Cells(q)) /\ proc[Cells(q)[1]] = p
      /\ Cells(q)' = RemoveAt(Cells(q), 1)
  BY DelLists
<1>2. proc' = proc /\ ButtonList' = ButtonList
  BY DEF XfDelButtonCallback
<1>3. Cells(q) \in Seq(Cell) /\ \A i \in 1..Len(Cells(q)) : proc[Cells(q)[i]] \in Proc
  BY <1>1, ListFacts
<1>4. Procs(Cells(q)', proc') = RemoveAt(Shown[q], 1)
  BY <1>1, <1>2, <1>3, ProcsRemove, ShownFacts
<1>5. \A r \in LiveLists : r # q => Procs(Cells(r)', proc') = Shown[r]
  BY <1>1, <1>2, ShownFacts
<1>6. Shown' = [Shown EXCEPT ![q] = RemoveAt(Shown[q], 1)]
  BY <1>1, <1>4, <1>5, ShownExcept
<1>7. 1 \in 1..Len(Shown[q]) /\ Shown[q][1] = p
  BY <1>1, ShownFacts
<1>8. \E k \in 1..Len(Shown[q]) :
        /\ Shown[q][k] = p
        /\ \A j \in 1..(k - 1) : Shown[q][j] # p
        /\ Shown' = [Shown EXCEPT ![q] = Lists!Remove(@, k)]
  <2>1. Shown' = [Shown EXCEPT ![q] = Lists!Remove(@, 1)]
    BY <1>6 DEF RemoveAt, Lists!Remove
  <2>2. \A j \in 1..(1 - 1) : Shown[q][j] # p
    OBVIOUS
  <2>3. QED
    BY <1>7, <2>1, <2>2
<1>9. QED
  BY <1>1, <1>2, <1>8, Zenon DEF Lists!Delete, Shown

LEMMA RestShown ==
  ASSUME XfInv, XfInv', UNCHANGED <<ButtonList, CallBacks, proc, next, allocated>>
  PROVE  UNCHANGED <<ButtonList, Shown>>
<1>1. Live' = Live
  BY DEF Live
<1>2. QED
  BY <1>1, SameLists, SameShown

LEMMA ListsStep ==
  ASSUME XfInv, [Next]_vars
  PROVE  Lists!Next \/ UNCHANGED <<ButtonList, Shown>>
<1>1. XfInv'
  BY XfStepInv
<1>2. LiveLists = DOMAIN Shown
  BY ShownFacts
<1>3. CASE UNCHANGED vars
  BY <1>1, <1>3, RestShown DEF vars
<1>4. ASSUME NEW b \in Button, XfCreateButton(b) PROVE Lists!Next
  BY <1>1, <1>4, CreateShown DEF Lists!Next
<1>5. ASSUME NEW b \in Button, XfMoveButton(b) PROVE Lists!Next
  BY <1>1, <1>5, MoveShown DEF Lists!Next
<1>6. ASSUME NEW b \in Button, toggle_state(b) PROVE UNCHANGED <<ButtonList, Shown>>
  BY <1>1, <1>6, RestShown DEF toggle_state
<1>7. ASSUME NEW q \in ListId, NEW p \in Proc, NEW old \in Proc \cup {NULL},
             old = NULL \/ Found(q, old) # {}, XfAddButtonCallback(q, p, old)
      PROVE  Lists!Next
  <2>1. q \in DOMAIN Shown /\ Lists!Add(q, p, old)
    BY <1>1, <1>2, <1>7, AddShown
  <2>2. QED
    BY <2>1, Zenon DEF Lists!Next, Shown
<1>8. ASSUME NEW q \in ListId, NEW p \in Proc,
             XfDelButtonCallback(q, p), First(Found(q, p)) = 1, ~Running(q[1])
      PROVE  Lists!Next
  <2>1. q \in DOMAIN Shown /\ Lists!Delete(q, p)
    BY <1>1, <1>2, <1>8, DelShown
  <2>2. QED
    BY <2>1, Zenon DEF Lists!Next, Shown
<1>9. ASSUME NEW b \in Button, XfDestroyButton(b), ~Running(b) PROVE Lists!Next
  BY <1>1, <1>9, DestroyShown DEF Lists!Next
<1>10. ASSUME NEW b \in Button, XfButtonPush(b) PROVE UNCHANGED <<ButtonList, Shown>>
  BY <1>1, <1>10, RestShown DEF XfButtonPush
<1>11. CASE Return
  BY <1>1, <1>11, RestShown DEF Return
<1>12. QED
  BY <1>3, <1>4, <1>5, <1>6, <1>7, <1>8, <1>9, <1>10, <1>11 DEF Next, Callers, Dispatch

LEMMA ListsInit == Init => Lists!Init
<1> SUFFICES ASSUME Init PROVE Lists!Init
  OBVIOUS
<1>1. Live = {}
  BY DEF Init, Live
<1>2. Shown = [p \in {} |-> <<>>]
  BY <1>1 DEF Shown
<1>3. ButtonList = <<>>
  BY DEF Init
<1>4. QED
  BY <1>2, <1>3, Zenon DEF Lists!Init, Shown

\* The linked lists implement CallbackLists: every step of the library is
\* one of the promised operations on one list, or changes none.
THEOREM ListsAreKept == Spec => KeepsLists
<1>1. XfInv /\ [Next]_vars =>
        [Lists!Next]_<<ButtonList,
                       [q \in Live \X State |-> [k \in 1..Len(Cells(q)) |-> proc[Cells(q)[k]]]]>>
  BY ListsStep DEF Shown
<1>2. QED
  BY <1>1, ListsInit, XfInvHolds, PTL DEF Spec, KeepsLists, Lists!Spec
=============================================================================
