-------------------------- MODULE CollectionLemmas --------------------------
(***************************************************************************)
(* What the operators on lists and finite sets that the models share       *)
(* return: inserting an element in a list, removing one and putting one in *)
(* front (the list operations of src/pw/block.c and src/lib/Button.c),      *)
(* and sums, averages and extremes over a finite set of numbers (the loops *)
(* of src/pw/pseudo.c and src/pw/ColorControls.c).                         *)
(***************************************************************************)
EXTENDS Integers, SequencesExt, SequenceTheorems, FiniteSetTheorems,
        WellFoundedInduction, TLAPS

\* A set of numbers has a least one: the form in which the proofs use
\* induction.
LEMMA LeastNat ==
  ASSUME NEW S \in SUBSET Nat, S # {}
  PROVE  \E x \in S : \A y \in S : x <= y
<1>1. PICK x \in S : \A y \in S : ~(<<y, x>> \in OpToRel(<, Nat))
  BY NatLessThanWellFounded, WFMin, Zenon
<1>2. \A y \in S : ~(y < x)
  BY <1>1 DEF OpToRel
<1>3. \A y \in S : x <= y
  BY <1>2
<1>4. QED
  BY <1>3

Distinct(s) == \A i, j \in 1..Len(s) : i # j => s[i] # s[j]

\* An element of a list is at one of its positions.
LEMMA ElementsOf ==
  ASSUME NEW S, NEW s \in Seq(S)
  PROVE  /\ \A x : x \in ToSet(s) <=> \E i \in 1..Len(s) : s[i] = x
         /\ \A i \in 1..Len(s) : s[i] \in ToSet(s) /\ s[i] \in S
  BY LenProperties DEF ToSet

\* The elements of InsertAt(s, k, e): linking a node into a list.
LEMMA InsertAtElements ==
  ASSUME NEW S, NEW s \in Seq(S), NEW e \in S, NEW k \in 1..(Len(s) + 1)
  PROVE  /\ InsertAt(s, k, e) \in Seq(S)
         /\ Len(InsertAt(s, k, e)) = Len(s) + 1
         /\ \A i \in 1..(Len(s) + 1) :
              InsertAt(s, k, e)[i] = IF i < k THEN s[i] ELSE IF i = k THEN e ELSE s[i - 1]
<1> DEFINE before == SubSeq(s, 1, k - 1)
           after  == SubSeq(s, k, Len(s))
<1>1. /\ before \in Seq(S) /\ Len(before) = k - 1
      /\ \A i \in 1..(k - 1) : before[i] = s[i]
  BY SubSeqProperties
<1>2. /\ after \in Seq(S) /\ Len(after) = Len(s) - k + 1
      /\ \A i \in 1..(Len(s) - k + 1) : after[i] = s[k + i - 1]
  BY SubSeqProperties
<1>3. InsertAt(s, k, e) = before \o <<e>> \o after
  BY DEF InsertAt
<1> HIDE DEF before, after
<1> DEFINE front == before \o <<e>>
<1>4. /\ <<e>> \in Seq(S) /\ Len(<<e>>) = 1 /\ <<e>>[1] = e
  OBVIOUS
<1>5. /\ front \in Seq(S) /\ Len(front) = k
      /\ \A i \in 1..k : front[i] = IF i < k THEN s[i] ELSE e
  <2>1. /\ front \in Seq(S) /\ Len(front) = Len(before) + Len(<<e>>)
        /\ \A i \in 1..(Len(before) + Len(<<e>>)) :
             front[i] = IF i <= Len(before) THEN before[i] ELSE <<e>>[i - Len(before)]
    BY <1>1, <1>4, ConcatProperties
  <2>2. QED
    BY <2>1, <1>1, <1>4
<1> HIDE DEF front
<1>6. /\ front \o after \in Seq(S) /\ Len(front \o after) = Len(front) + Len(after)
      /\ \A i \in 1..(Len(front) + Len(after)) :
           (front \o after)[i] = IF i <= Len(front) THEN front[i] ELSE after[i - Len(front)]
  BY <1>2, <1>5, ConcatProperties
<1>7. InsertAt(s, k, e) = front \o after
  BY <1>3 DEF front
<1>8. QED
  BY <1>2, <1>5, <1>6, <1>7

\* The elements of RemoveAt(s, k): unlinking a node.
LEMMA RemoveAtElements ==
  ASSUME NEW S, NEW s \in Seq(S), NEW k \in 1..Len(s)
  PROVE  /\ RemoveAt(s, k) \in Seq(S)
         /\ Len(RemoveAt(s, k)) = Len(s) - 1
         /\ \A i \in 1..(Len(s) - 1) :
              RemoveAt(s, k)[i] = IF i < k THEN s[i] ELSE s[i + 1]
<1> DEFINE before == SubSeq(s, 1, k - 1)
           after  == SubSeq(s, k + 1, Len(s))
<1>1. /\ before \in Seq(S) /\ Len(before) = k - 1
      /\ \A i \in 1..(k - 1) : before[i] = s[i]
  BY SubSeqProperties
<1>2. /\ after \in Seq(S) /\ Len(after) = Len(s) - k
      /\ \A i \in 1..(Len(s) - k) : after[i] = s[k + i]
  BY SubSeqProperties
<1>3. RemoveAt(s, k) = before \o after
  BY DEF RemoveAt
<1> HIDE DEF before, after
<1>4. /\ before \o after \in Seq(S) /\ Len(before \o after) = Len(before) + Len(after)
      /\ \A i \in 1..(Len(before) + Len(after)) :
           (before \o after)[i] = IF i <= Len(before) THEN before[i] ELSE after[i - Len(before)]
  BY <1>1, <1>2, ConcatProperties
<1>5. QED
  BY <1>1, <1>2, <1>3, <1>4

\* Inserting adds one element to the set of them.
LEMMA InsertAtSet ==
  ASSUME NEW S, NEW s \in Seq(S), NEW e \in S, NEW k \in 1..(Len(s) + 1)
  PROVE  ToSet(InsertAt(s, k, e)) = ToSet(s) \cup {e}
<1> DEFINE t == InsertAt(s, k, e)
<1>1. /\ t \in Seq(S) /\ Len(t) = Len(s) + 1
      /\ \A i \in 1..(Len(s) + 1) : t[i] = IF i < k THEN s[i] ELSE IF i = k THEN e ELSE s[i - 1]
  <2>1. t \in Seq(S) /\ Len(t) = Len(s) + 1
    BY InsertAtElements, Zenon
  <2>2. ASSUME NEW i \in 1..(Len(s) + 1)
        PROVE  InsertAt(s, k, e)[i] = IF i < k THEN s[i] ELSE IF i = k THEN e ELSE s[i - 1]
    BY InsertAtElements, SMTT(60)
  <2>3. QED
    BY <2>1, <2>2
<1> HIDE DEF t
<1>2. ASSUME NEW i \in 1..Len(t) PROVE t[i] \in ToSet(s) \cup {e}
  <2>1. CASE i < k
    <3>1. i \in 1..Len(s) /\ t[i] = s[i]
      BY <2>1, <1>1
    <3>2. QED
      BY <3>1, ElementsOf
  <2>2. CASE i = k
    BY <2>2, <1>1
  <2>3. CASE i > k
    <3>1. i - 1 \in 1..Len(s) /\ t[i] = s[i - 1]
      BY <2>3, <1>1
    <3>2. QED
      BY <3>1, ElementsOf
  <2>4. QED
    BY <2>1, <2>2, <2>3, <1>1
<1>3. ASSUME NEW i \in 1..Len(s) PROVE s[i] \in ToSet(t)
  <2>1. CASE i < k
    BY <2>1, <1>1, ElementsOf
  <2>2. CASE i >= k
    <3>1. i + 1 \in 1..Len(t) /\ t[i + 1] = s[i]
      BY <2>2, <1>1
    <3>2. QED
      BY <3>1, <1>1, ElementsOf
  <2>3. QED
    BY <2>1, <2>2
<1>4. e \in ToSet(t)
  BY <1>1, ElementsOf
<1>5. ToSet(t) \subseteq ToSet(s) \cup {e}
  BY <1>1, <1>2, ElementsOf
<1>6. ToSet(s) \subseteq ToSet(t)
  BY <1>3, ElementsOf
<1>7. QED
  BY <1>4, <1>5, <1>6 DEF t

\* Linking at the end appends.
LEMMA InsertAtEnd ==
  ASSUME NEW S, NEW s \in Seq(S), NEW e \in S
  PROVE  InsertAt(s, Len(s) + 1, e) = Append(s, e)
<1> DEFINE k == Len(s) + 1
           t == InsertAt(s, k, e)
           u == Append(s, e)
<1>1. Len(s) \in Nat /\ k \in 1..(Len(s) + 1)
  BY LenProperties
<1>2. /\ t \in Seq(S) /\ Len(t) = Len(s) + 1
      /\ \A i \in 1..(Len(s) + 1) : t[i] = IF i < k THEN s[i] ELSE IF i = k THEN e ELSE s[i - 1]
  <2> HIDE DEF k
  <2>1. QED
    BY <1>1, InsertAtElements
<1>3. u \in Seq(S) /\ Len(u) = Len(s) + 1 /\ (\A i \in 1..Len(s) : u[i] = s[i]) /\ u[Len(s) + 1] = e
  BY AppendProperties
<1> HIDE DEF t, u
<1>4. ASSUME NEW i \in 1..Len(t) PROVE t[i] = u[i]
  BY <1>1, <1>2, <1>3
<1>5. t = u
  BY <1>2, <1>3, <1>4, SeqEqual
<1>6. QED
  BY <1>5 DEF t, u

\* Removing the only occurrence of an element takes it out of the set, and
\* what is left of a list without repetitions has none.
LEMMA RemoveAtSet ==
  ASSUME NEW S, NEW s \in Seq(S), NEW k \in 1..Len(s), Distinct(s)
  PROVE  /\ ToSet(RemoveAt(s, k)) = ToSet(s) \ {s[k]}
         /\ Distinct(RemoveAt(s, k))
<1> DEFINE t == RemoveAt(s, k)
<1>1. /\ t \in Seq(S) /\ Len(t) = Len(s) - 1
      /\ \A i \in 1..(Len(s) - 1) : t[i] = IF i < k THEN s[i] ELSE s[i + 1]
  BY RemoveAtElements, Zenon
<1> HIDE DEF t
<1>2. ASSUME NEW i \in 1..Len(t) PROVE t[i] \in ToSet(s) \ {s[k]}
  <2>1. CASE i < k
    <3>1. i \in 1..Len(s) /\ i # k /\ t[i] = s[i]
      BY <2>1, <1>1
    <3>2. QED
      BY <3>1, ElementsOf DEF Distinct
  <2>2. CASE i >= k
    <3>1. i + 1 \in 1..Len(s) /\ i + 1 # k /\ t[i] = s[i + 1]
      BY <2>2, <1>1
    <3>2. QED
      BY <3>1, ElementsOf DEF Distinct
  <2>3. QED
    BY <2>1, <2>2
<1>3. ASSUME NEW i \in 1..Len(s), i # k PROVE s[i] \in ToSet(t)
  <2>1. CASE i < k
    <3>1. i \in 1..Len(t) /\ t[i] = s[i]
      BY <2>1, <1>1
    <3>2. QED
      BY <3>1, <1>1, ElementsOf
  <2>2. CASE i > k
    <3>1. i - 1 \in 1..Len(t) /\ t[i - 1] = s[i]
      BY <2>2, <1>1
    <3>2. QED
      BY <3>1, <1>1, ElementsOf
  <2>3. QED
    BY <1>3, <2>1, <2>2
<1>4. ToSet(t) \subseteq ToSet(s) \ {s[k]}
  BY <1>1, <1>2, ElementsOf
<1>5. ToSet(s) \ {s[k]} \subseteq ToSet(t)
  BY <1>3, ElementsOf
<1>6. Distinct(t)
  <2> SUFFICES ASSUME NEW i \in 1..Len(t), NEW j \in 1..Len(t), i # j
               PROVE  t[i] # t[j]
    BY DEF Distinct
  <2> DEFINE u(n) == IF n < k THEN n ELSE n + 1
  <2>1. /\ u(i) \in 1..Len(s) /\ t[i] = s[u(i)]
        /\ u(j) \in 1..Len(s) /\ t[j] = s[u(j)]
        /\ u(i) # u(j)
    BY <1>1
  <2>2. QED
    BY <2>1 DEF Distinct
<1>7. QED
  BY <1>4, <1>5, <1>6 DEF t

\* Putting an element in front: pushing a colour on a stack.
LEMMA ConsElements ==
  ASSUME NEW S, NEW s \in Seq(S), NEW e \in S
  PROVE  /\ <<e>> \o s \in Seq(S)
         /\ Len(<<e>> \o s) = Len(s) + 1
         /\ \A i \in 1..(Len(s) + 1) : (<<e>> \o s)[i] = IF i = 1 THEN e ELSE s[i - 1]
<1>1. <<e>> \in Seq(S) /\ Len(<<e>>) = 1 /\ <<e>>[1] = e
  OBVIOUS
<1>2. /\ <<e>> \o s \in Seq(S) /\ Len(<<e>> \o s) = Len(<<e>>) + Len(s)
      /\ \A i \in 1..(Len(<<e>>) + Len(s)) :
           (<<e>> \o s)[i] = IF i <= Len(<<e>>) THEN <<e>>[i] ELSE s[i - Len(<<e>>)]
  BY <1>1, ConcatProperties
<1>3. QED
  BY <1>1, <1>2

\* A push adds one element, and no repetition if the element is new.
LEMMA ConsSet ==
  ASSUME NEW S, NEW s \in Seq(S), NEW e \in S
  PROVE  /\ ToSet(<<e>> \o s) = {e} \cup ToSet(s)
         /\ Distinct(s) /\ e \notin ToSet(s) => Distinct(<<e>> \o s)
<1> DEFINE t == <<e>> \o s
<1>1. /\ t \in Seq(S) /\ Len(t) = Len(s) + 1
      /\ \A i \in 1..(Len(s) + 1) : t[i] = IF i = 1 THEN e ELSE s[i - 1]
  BY ConsElements
<1> HIDE DEF t
<1>2. ASSUME NEW i \in 1..Len(t) PROVE t[i] \in {e} \cup ToSet(s)
  <2>1. CASE i > 1
    <3>1. i - 1 \in 1..Len(s) /\ t[i] = s[i - 1]
      BY <2>1, <1>1
    <3>2. QED
      BY <3>1, ElementsOf
  <2>2. QED
    BY <1>1, <2>1
<1>3. ASSUME NEW i \in 1..Len(s) PROVE s[i] \in ToSet(t)
  <2>1. i + 1 \in 1..Len(t) /\ t[i + 1] = s[i]
    BY <1>1
  <2>2. QED
    BY <2>1, <1>1, ElementsOf
<1>4. e \in ToSet(t)
  <2>1. 1 \in 1..Len(t) /\ t[1] = e
    BY <1>1
  <2>2. QED
    BY <2>1, <1>1, ElementsOf
<1>5. ToSet(t) \subseteq {e} \cup ToSet(s)
  BY <1>1, <1>2, ElementsOf
<1>6. ToSet(s) \subseteq ToSet(t)
  BY <1>3, ElementsOf
<1>7. ASSUME Distinct(s), e \notin ToSet(s) PROVE Distinct(t)
  <2> SUFFICES ASSUME NEW i \in 1..Len(t), NEW j \in 1..Len(t), i < j
               PROVE  t[i] # t[j]
    BY <1>1 DEF Distinct
  <2>1. j - 1 \in 1..Len(s) /\ t[j] = s[j - 1] /\ t[j] \in ToSet(s)
    BY <1>1, ElementsOf
  <2>2. CASE i = 1
    BY <2>1, <2>2, <1>1, <1>7
  <2>3. CASE i > 1
    <3>1. i - 1 \in 1..Len(s) /\ t[i] = s[i - 1] /\ i - 1 # j - 1
      BY <2>3, <1>1
    <3>2. QED
      BY <2>1, <3>1, <1>7 DEF Distinct
  <2>4. QED
    BY <2>2, <2>3
<1>8. QED
  BY <1>4, <1>5, <1>6, <1>7 DEF t

\* The rest of a list from k on is its element k and the rest after it.
LEMMA SubSeqCons ==
  ASSUME NEW S, NEW s \in Seq(S), NEW k \in 1..Len(s)
  PROVE  <<s[k]>> \o SubSeq(s, k + 1, Len(s)) = SubSeq(s, k, Len(s))
<1> DEFINE a == SubSeq(s, k + 1, Len(s))
           b == SubSeq(s, k, Len(s))
           e == s[k]
           d == <<e>> \o a
<1>1. a \in Seq(S) /\ Len(a) = Len(s) - k /\ \A i \in 1..(Len(s) - k) : a[i] = s[k + i]
  BY SubSeqProperties
<1>2. /\ b \in Seq(S) /\ Len(b) = Len(s) - k + 1
      /\ \A i \in 1..(Len(s) - k + 1) : b[i] = s[k + i - 1]
  BY SubSeqProperties
<1>3. e \in S
  OBVIOUS
<1> HIDE DEF a, b, e
<1>4. /\ d \in Seq(S) /\ Len(d) = Len(a) + 1
      /\ \A i \in 1..(Len(a) + 1) : d[i] = IF i = 1 THEN e ELSE a[i - 1]
  <2>1. /\ <<e>> \o a \in Seq(S) /\ Len(<<e>> \o a) = Len(a) + 1
        /\ \A i \in 1..(Len(a) + 1) : (<<e>> \o a)[i] = IF i = 1 THEN e ELSE a[i - 1]
    BY <1>1, <1>3, ConsElements
  <2>2. QED
    BY <2>1
<1> HIDE DEF d
<1>5. ASSUME NEW i \in 1..Len(d) PROVE d[i] = b[i]
  <2>1. CASE i = 1
    <3>1. b[1] = s[k]
      BY <1>2
    <3>2. QED
      BY <2>1, <3>1, <1>4 DEF e
  <2>2. CASE i # 1
    <3>1. i - 1 \in 1..(Len(s) - k) /\ i \in 1..(Len(s) - k + 1) /\ i \in 1..(Len(a) + 1)
      BY <2>2, <1>1, <1>4
    <3>2. d[i] = a[i - 1] /\ a[i - 1] = s[k + (i - 1)] /\ b[i] = s[k + i - 1]
      BY <2>2, <3>1, <1>1, <1>2, <1>4
    <3>3. k + (i - 1) = k + i - 1
      BY <3>1
    <3>4. QED
      BY <3>2, <3>3
  <2>3. QED
    BY <2>1, <2>2
<1>6. d = b
  BY <1>1, <1>2, <1>4, <1>5, SeqEqual
<1>7. QED
  BY <1>6 DEF a, b, d, e

-----------------------------------------------------------------------------
(* Sums over finite sets *)

\* The sum of the numbers g over the finite set S
Total(g, S) == SumFunctionOnSet(g, S)

\* The equation of a sum over the subsets of S, element by element.
SumStep(g, h, s) ==
  IF s = {} THEN 0
  ELSE g[CHOOSE x \in s : TRUE] + h[s \ {CHOOSE x \in s : TRUE}]

LEMMA SumIsFold ==
  ASSUME NEW g, NEW S
  PROVE  Total(g, S) = (CHOOSE h : h = [s \in SUBSET S |-> SumStep(g, h, s)])[S]
BY Zenon DEF Total, SumFunctionOnSet, FoldFunctionOnSet, MapThenFoldSet, SumStep

LEMMA Smaller ==
  ASSUME NEW S, IsFiniteSet(S), NEW s \in SUBSET S, s # {}
  PROVE  LET x == CHOOSE y \in s : TRUE IN
         /\ x \in s
         /\ s \ {x} \in SUBSET S
         /\ Cardinality(s) \in Nat /\ Cardinality(s \ {x}) = Cardinality(s) - 1
         /\ Cardinality(s) <= Cardinality(S)
<1>1. IsFiniteSet(s) /\ Cardinality(s) <= Cardinality(S)
  BY FS_Subset
<1>2. (CHOOSE y \in s : TRUE) \in s
  OBVIOUS
<1>3. QED
  BY <1>1, <1>2, FS_RemoveElement, FS_CardinalityType

\* There is a function that satisfies the equation.
LEMMA SumExists ==
  ASSUME NEW g, NEW S, IsFiniteSet(S)
  PROVE  \E h : h = [s \in SUBSET S |-> SumStep(g, h, s)]
<1> DEFINE Below(n) == {s \in SUBSET S : Cardinality(s) <= n}
           Good(n) == \E h : h = [s \in Below(n) |-> SumStep(g, h, s)]
           Bad == {n \in Nat : ~Good(n)}
<1>1. Bad = {}
  <2> SUFFICES ASSUME Bad # {} PROVE FALSE
    OBVIOUS
  <2>1. PICK n \in Bad : \A m \in Bad : n <= m
    BY LeastNat
  <2>2. CASE n = 0
    <3> DEFINE h == [s \in Below(0) |-> 0]
    <3>1. ASSUME NEW s \in Below(0) PROVE s = {}
      <4>1. IsFiniteSet(s) /\ Cardinality(s) = 0
        BY FS_Subset, FS_CardinalityType
      <4>2. QED
        BY <4>1, FS_EmptySet
    <3>2. h = [s \in Below(0) |-> SumStep(g, h, s)]
      BY <3>1 DEF SumStep
    <3>3. QED
      BY <2>2, <3>2
  <2>3. CASE n # 0
    <3>1. n - 1 \in Nat /\ Good(n - 1)
      <4> HIDE DEF Good
      <4>1. n - 1 \in Nat /\ n - 1 \notin Bad
        BY <2>1, <2>3
      <4>2. QED
        BY <4>1
    <3>2. PICK h : h = [s \in Below(n - 1) |-> SumStep(g, h, s)]
      BY <3>1
    <3> DEFINE k == [s \in Below(n) |-> SumStep(g, h, s)]
    <3>3. ASSUME NEW s \in Below(n) PROVE SumStep(g, h, s) = SumStep(g, k, s)
      <4>1. CASE s = {}
        BY <4>1 DEF SumStep
      <4>2. CASE s # {}
        <5> DEFINE r == s \ {CHOOSE x \in s : TRUE}
        <5>1. r \in Below(n - 1) /\ r \in Below(n)
          BY <4>2, Smaller
        <5>2. h[r] = SumStep(g, h, r)
          BY <3>2, <5>1, Zenon
        <5>3. k[r] = SumStep(g, h, r)
          BY <5>1
        <5>4. QED
          BY <5>2, <5>3 DEF SumStep
      <4>3. QED
        BY <4>1, <4>2
    <3>4. k = [s \in Below(n) |-> SumStep(g, k, s)]
      BY <3>3
    <3>5. QED
      BY <2>1, <3>4
  <2>4. QED
    BY <2>2, <2>3
<1>2. Cardinality(S) \in Nat
  BY FS_CardinalityType
<1>3. Below(Cardinality(S)) = SUBSET S
  BY FS_Subset
<1>4. Good(Cardinality(S))
  <2> HIDE DEF Good
  <2>1. QED
    BY <1>1, <1>2
<1>5. PICK h : h = [s \in Below(Cardinality(S)) |-> SumStep(g, h, s)]
  BY <1>4
<1> HIDE DEF Below
<1>6. h = [s \in SUBSET S |-> SumStep(g, h, s)]
  BY <1>3, <1>5, Zenon
<1>7. QED
  BY <1>6, Zenon

\* The sum over S taken apart at an element chosen in it; and the sums over
\* the subsets of S are the values of one function.
LEMMA SumApart ==
  ASSUME NEW g, NEW S, IsFiniteSet(S)
  PROVE  /\ S = {} => Total(g, S) = 0
         /\ S # {} => LET x == CHOOSE y \in S : TRUE IN
                      Total(g, S) = g[x] + Total(g, S \ {x})
<1> DEFINE H(R) == CHOOSE h : h = [s \in SUBSET R |-> SumStep(g, h, s)]
<1>1. ASSUME NEW R, IsFiniteSet(R)
      PROVE  H(R) = [s \in SUBSET R |-> SumStep(g, H(R), s)]
  BY <1>1, SumExists, Zenon
<1>2. \A R : Total(g, R) = H(R)[R]
  BY SumIsFold
<1> HIDE DEF H
<1>3. CASE S = {}
  <2>1. S \in SUBSET S /\ H(S)[S] = SumStep(g, H(S), S)
    BY <1>1
  <2>2. QED
    BY <1>2, <1>3, <2>1 DEF SumStep
<1>4. CASE S # {}
  <2> DEFINE x == CHOOSE y \in S : TRUE
             R == S \ {x}
  <2>1. x \in S /\ R \in SUBSET S /\ IsFiniteSet(R)
    BY <1>4, FS_Subset
  <2>2. H(S)[S] = SumStep(g, H(S), S)
    BY <1>1
  <2>3. H(S)[S] = g[x] + H(S)[R]
    BY <2>2, <1>4 DEF SumStep
  <2> HIDE DEF x, R
  <2> DEFINE Bad == {n \in Nat : \E s \in SUBSET R : Cardinality(s) = n /\ H(S)[s] # H(R)[s]}
  <2>4. Bad = {}
    <3> SUFFICES ASSUME Bad # {} PROVE FALSE
      OBVIOUS
    <3>1. PICK n \in Bad : \A m \in Bad : n <= m
      BY LeastNat
    <3>2. PICK s \in SUBSET R : Cardinality(s) = n /\ H(S)[s] # H(R)[s]
      BY <3>1
    <3>3. H(S)[s] = SumStep(g, H(S), s) /\ H(R)[s] = SumStep(g, H(R), s)
      <4>1. s \in SUBSET S
        BY <2>1
      <4>2. H(S)[s] = SumStep(g, H(S), s)
        BY <1>1, <4>1, Zenon
      <4>3. H(R)[s] = SumStep(g, H(R), s)
        BY <1>1, <2>1, Zenon
      <4>4. QED
        BY <4>2, <4>3
    <3>4. s # {}
      BY <3>2, <3>3 DEF SumStep
    <3> DEFINE y == CHOOSE z \in s : TRUE
    <3>5. y \in s /\ s \ {y} \in SUBSET R /\ Cardinality(s \ {y}) = n - 1 /\ n - 1 \in Nat
      <4>1. y \in s /\ s \ {y} \in SUBSET R /\ Cardinality(s \ {y}) = n - 1
        BY <2>1, <3>2, <3>4, Smaller
      <4>2. IsFiniteSet(s \ {y})
        BY <2>1, <4>1, FS_Subset
      <4>3. QED
        BY <4>1, <4>2, FS_CardinalityType
    <3>6. H(S)[s \ {y}] = H(R)[s \ {y}]
      BY <3>1, <3>5
    <3>7. QED
      BY <3>2, <3>3, <3>4, <3>6 DEF SumStep
  <2>5. H(S)[R] = H(R)[R]
    BY <2>1, <2>4, FS_CardinalityType
  <2>6. QED
    BY <1>2, <1>4, <2>3, <2>5 DEF x, R
<1>5. QED
  BY <1>3, <1>4

\* Sums of integers are integers, and of naturals naturals.
LEMMA SumType ==
  ASSUME NEW g, NEW S, IsFiniteSet(S), NEW V \in {Int, Nat}, \A i \in S : g[i] \in V
  PROVE  Total(g, S) \in V
<1> DEFINE Bad == {n \in Nat : \E s \in SUBSET S : Cardinality(s) = n /\ Total(g, s) \notin V}
<1>1. Bad = {}
  <2> SUFFICES ASSUME Bad # {} PROVE FALSE
    OBVIOUS
  <2>1. PICK n \in Bad : \A m \in Bad : n <= m
    BY LeastNat
  <2>2. PICK s \in SUBSET S : Cardinality(s) = n /\ Total(g, s) \notin V
    BY <2>1
  <2>3. IsFiniteSet(s)
    BY FS_Subset
  <2>4. CASE s = {}
    <3>1. Total(g, s) = 0
      BY <2>3, <2>4, SumApart
    <3>2. 0 \in V
      OBVIOUS
    <3>3. QED
      BY <2>2, <3>1, <3>2
  <2>5. CASE s # {}
    <3> DEFINE x == CHOOSE y \in s : TRUE
    <3>1. x \in s /\ s \ {x} \in SUBSET S /\ Cardinality(s \ {x}) = n - 1 /\ n - 1 \in Nat
      <4>1. x \in s /\ s \ {x} \in SUBSET S /\ Cardinality(s \ {x}) = n - 1
        BY <2>2, <2>5, Smaller
      <4>2. IsFiniteSet(s \ {x})
        BY <4>1, FS_Subset
      <4>3. QED
        BY <4>1, <4>2, FS_CardinalityType
    <3>2. Total(g, s \ {x}) \in V
      BY <2>1, <3>1
    <3>3. Total(g, s) = g[x] + Total(g, s \ {x})
      BY <2>3, <2>5, SumApart
    <3>4. g[x] \in V
      BY <3>1
    <3>5. \A a, b \in V : a + b \in V
      OBVIOUS
    <3> HIDE DEF x
    <3>6. g[x] + Total(g, s \ {x}) \in V
      BY <3>2, <3>4, <3>5
    <3>7. QED
      BY <2>2, <3>3, <3>6
  <2>6. QED
    BY <2>4, <2>5
<1>2. QED
  BY <1>1, FS_CardinalityType

\* The sum can be taken apart at any element: it does not depend on the
\* order in which the elements are taken.
LEMMA SumPick ==
  ASSUME NEW g, NEW S, IsFiniteSet(S), \A i \in S : g[i] \in Int, NEW x \in S
  PROVE  Total(g, S) = g[x] + Total(g, S \ {x})
<1> DEFINE Good(s) == \A y \in s : Total(g, s) = g[y] + Total(g, s \ {y})
           Bad == {n \in Nat : \E s \in SUBSET S : Cardinality(s) = n /\ ~Good(s)}
<1>1. Bad = {}
  <2> SUFFICES ASSUME Bad # {} PROVE FALSE
    OBVIOUS
  <2>1. PICK n \in Bad : \A m \in Bad : n <= m
    BY LeastNat
  <2>2. PICK s \in SUBSET S : Cardinality(s) = n /\ ~Good(s)
    BY <2>1
  <2>3. PICK y \in s : Total(g, s) # g[y] + Total(g, s \ {y})
    BY <2>2
  <2> DEFINE c == CHOOSE z \in s : TRUE
  <2>4. IsFiniteSet(s) /\ s # {} /\ c \in s
    BY <2>3, FS_Subset
  <2>5. Total(g, s) = g[c] + Total(g, s \ {c})
    BY <2>4, SumApart
  <2> HIDE DEF c
  <2>6. y # c
    BY <2>3, <2>5
  <2>7. ASSUME NEW z \in s PROVE Good(s \ {z})
    <3>1. IsFiniteSet(s \ {z}) /\ Cardinality(s \ {z}) = n - 1 /\ n - 1 \in Nat
      <4>1. IsFiniteSet(s \ {z}) /\ Cardinality(s \ {z}) = n - 1
        BY <2>2, <2>4, FS_RemoveElement
      <4>2. QED
        BY <4>1, FS_CardinalityType
    <3>2. s \ {z} \in SUBSET S /\ n - 1 \notin Bad
      BY <2>1, <3>1
    <3> HIDE DEF Good
    <3>3. QED
      BY <3>1, <3>2
  <2>8. Total(g, s \ {c}) = g[y] + Total(g, (s \ {c}) \ {y})
    BY <2>4, <2>6, <2>7
  <2>9. Total(g, s \ {y}) = g[c] + Total(g, (s \ {y}) \ {c})
    BY <2>4, <2>6, <2>7
  <2>10. (s \ {c}) \ {y} = (s \ {y}) \ {c}
    OBVIOUS
  <2>11. Total(g, (s \ {c}) \ {y}) \in Int /\ g[c] \in Int /\ g[y] \in Int
    <3>1. IsFiniteSet((s \ {c}) \ {y}) /\ \A i \in (s \ {c}) \ {y} : g[i] \in Int
      BY <2>4, FS_Subset
    <3>2. QED
      BY <3>1, <2>4, SumType
  <2>12. \A a, b, d \in Int : a + (b + d) = b + (a + d)
    OBVIOUS
  <2>13. g[c] + (g[y] + Total(g, (s \ {c}) \ {y})) = g[y] + (g[c] + Total(g, (s \ {c}) \ {y}))
    BY <2>11, <2>12
  <2>14. QED
    BY <2>3, <2>5, <2>8, <2>9, <2>10, <2>13
<1>2. Good(S)
  <2> HIDE DEF Good
  <2>1. QED
    BY <1>1, FS_CardinalityType
<1>3. QED
  BY <1>2

\* A sum depends on the values in S only.
LEMMA SumSame ==
  ASSUME NEW g, NEW h, NEW S, IsFiniteSet(S), \A i \in S : g[i] \in Int /\ h[i] = g[i]
  PROVE  Total(h, S) = Total(g, S)
<1> DEFINE Bad == {n \in Nat : \E s \in SUBSET S : Cardinality(s) = n /\ Total(h, s) # Total(g, s)}
<1>1. Bad = {}
  <2> SUFFICES ASSUME Bad # {} PROVE FALSE
    OBVIOUS
  <2>1. PICK n \in Bad : \A m \in Bad : n <= m
    BY LeastNat
  <2>2. PICK s \in SUBSET S : Cardinality(s) = n /\ Total(h, s) # Total(g, s)
    BY <2>1
  <2>3. IsFiniteSet(s)
    BY FS_Subset
  <2>4. s # {}
    BY <2>2, <2>3, SumApart
  <2> DEFINE x == CHOOSE y \in s : TRUE
  <2>5. x \in s /\ s \ {x} \in SUBSET S /\ Cardinality(s \ {x}) = n - 1 /\ n - 1 \in Nat
    <3>1. x \in s /\ s \ {x} \in SUBSET S /\ Cardinality(s \ {x}) = n - 1
      BY <2>2, <2>4, Smaller
    <3>2. IsFiniteSet(s \ {x})
      BY <3>1, FS_Subset
    <3>3. QED
      BY <3>1, <3>2, FS_CardinalityType
  <2>6. Total(h, s \ {x}) = Total(g, s \ {x})
    BY <2>1, <2>5
  <2>7. Total(g, s) = g[x] + Total(g, s \ {x}) /\ Total(h, s) = h[x] + Total(h, s \ {x})
    BY <2>3, <2>4, SumApart
  <2>8. h[x] = g[x]
    BY <2>5
  <2>9. QED
    BY <2>2, <2>6, <2>7, <2>8
<1>2. QED
  BY <1>1, FS_CardinalityType

\* Renaming the elements of the set does not change the sum.
LEMMA SumRenamed ==
  ASSUME NEW g, NEW S, IsFiniteSet(S), NEW R,
         NEW f \in Bijection(S, R), \A i \in R : g[i] \in Int
  PROVE  Total([i \in S |-> g[f[i]]], S) = Total(g, R)
<1> DEFINE h == [i \in S |-> g[f[i]]]
           Image(s) == {f[i] : i \in s}
           Agree(s) == Total(h, s) = Total(g, Image(s))
           Bad == {n \in Nat : \E s \in SUBSET S : Cardinality(s) = n /\ ~Agree(s)}
<1>1. /\ f \in [S -> R] /\ \A i, j \in S : i # j => f[i] # f[j]
      /\ \A r \in R : \E i \in S : f[i] = r
  BY DEF Bijection, Injection, Surjection, IsInjective
<1>2. Bad = {}
  <2> SUFFICES ASSUME Bad # {} PROVE FALSE
    OBVIOUS
  <2>1. PICK n \in Bad : \A m \in Bad : n <= m
    BY LeastNat
  <2>2. PICK s \in SUBSET S : Cardinality(s) = n /\ ~Agree(s)
    BY <2>1
  <2>3. IsFiniteSet(s) /\ IsFiniteSet(Image(s)) /\ Image(s) \subseteq R
    <3>1. IsFiniteSet(s)
      BY FS_Subset
    <3>2. IsFiniteSet(R)
      BY FS_Bijection DEF ExistsBijection
    <3>3. Image(s) \subseteq R
      BY <1>1
    <3>4. QED
      BY <3>1, <3>2, <3>3, FS_Subset
  <2>4. s # {}
    <3> SUFFICES ASSUME s = {} PROVE FALSE
      OBVIOUS
    <3>1. Image(s) = {}
      OBVIOUS
    <3>2. QED
      BY <2>2, <2>3, <3>1, SumApart
  <2> DEFINE x == CHOOSE y \in s : TRUE
  <2>5. x \in s /\ s \ {x} \in SUBSET S /\ Cardinality(s \ {x}) = n - 1 /\ n - 1 \in Nat
    <3>1. x \in s /\ s \ {x} \in SUBSET S /\ Cardinality(s \ {x}) = n - 1
      BY <2>2, <2>4, Smaller
    <3>2. IsFiniteSet(s \ {x})
      BY <3>1, FS_Subset
    <3>3. QED
      BY <3>1, <3>2, FS_CardinalityType
  <2>6. Agree(s \ {x})
    <3> HIDE DEF Agree, x
    <3>1. n - 1 \notin Bad
      BY <2>1, <2>5
    <3>2. QED
      BY <2>5, <3>1
  <2>7. Total(h, s) = h[x] + Total(h, s \ {x})
    BY <2>3, <2>4, SumApart
  <2>8. Image(s \ {x}) = Image(s) \ {f[x]} /\ f[x] \in Image(s)
    <3> HIDE DEF x
    <3>1. \A i \in s : i # x => f[i] # f[x]
      BY <1>1, <2>5
    <3>2. QED
      BY <2>5, <3>1
  <2>9. Total(g, Image(s)) = g[f[x]] + Total(g, Image(s) \ {f[x]})
    <3> HIDE DEF x, Image
    <3>1. \A i \in Image(s) : g[i] \in Int
      BY <2>3
    <3>2. QED
      BY <3>1, <2>3, <2>8, SumPick
  <2>10. h[x] = g[f[x]]
    BY <2>5
  <2>11. QED
    BY <2>2, <2>6, <2>7, <2>8, <2>9, <2>10
<1>3. Agree(S)
  <2> HIDE DEF Agree
  <2>1. QED
    BY <1>2, FS_CardinalityType
<1>4. Image(S) = R
  BY <1>1
<1>5. QED
  BY <1>3, <1>4

\* The sum over two sets that share no element.
LEMMA SumUnion ==
  ASSUME NEW g, NEW S, IsFiniteSet(S), NEW R, IsFiniteSet(R), S \cap R = {},
         \A i \in S \cup R : g[i] \in Int
  PROVE  Total(g, S \cup R) = Total(g, S) + Total(g, R)
<1> DEFINE Adds(s) == Total(g, S \cup s) = Total(g, S) + Total(g, s)
           Bad == {n \in Nat : \E s \in SUBSET R : Cardinality(s) = n /\ ~Adds(s)}
<1>1. Bad = {}
  <2> SUFFICES ASSUME Bad # {} PROVE FALSE
    OBVIOUS
  <2>1. PICK n \in Bad : \A m \in Bad : n <= m
    BY LeastNat
  <2>2. PICK s \in SUBSET R : Cardinality(s) = n /\ ~Adds(s)
    BY <2>1
  <2>3. IsFiniteSet(s) /\ IsFiniteSet(S \cup s) /\ Total(g, S) \in Int
    <3>1. IsFiniteSet(s)
      BY FS_Subset
    <3>2. IsFiniteSet(S \cup s)
      BY <3>1, FS_Union
    <3>3. Total(g, S) \in Int
      BY SumType
    <3>4. QED
      BY <3>1, <3>2, <3>3
  <2>4. s # {}
    <3> SUFFICES ASSUME s = {} PROVE FALSE
      OBVIOUS
    <3>1. S \cup s = S /\ Total(g, s) = 0
      BY <2>3, SumApart
    <3>2. QED
      BY <2>2, <2>3, <3>1
  <2> DEFINE x == CHOOSE y \in s : TRUE
  <2>5. x \in s /\ s \ {x} \in SUBSET R /\ Cardinality(s \ {x}) = n - 1 /\ n - 1 \in Nat
    <3>1. x \in s /\ s \ {x} \in SUBSET R /\ Cardinality(s \ {x}) = n - 1
      BY <2>2, <2>4, Smaller
    <3>2. IsFiniteSet(s \ {x})
      BY <3>1, FS_Subset
    <3>3. QED
      BY <3>1, <3>2, FS_CardinalityType
  <2>6. Adds(s \ {x})
    <3> HIDE DEF Adds, x
    <3>1. n - 1 \notin Bad
      BY <2>1, <2>5
    <3>2. QED
      BY <2>5, <3>1
  <2> HIDE DEF x
  <2>7. Total(g, s) = g[x] + Total(g, s \ {x}) /\ Total(g, s \ {x}) \in Int /\ g[x] \in Int
    <3>1. \A i \in s : g[i] \in Int
      OBVIOUS
    <3>2. Total(g, s) = g[x] + Total(g, s \ {x})
      BY <2>3, <2>5, <3>1, SumPick
    <3>3. Total(g, s \ {x}) \in Int
      <4>1. IsFiniteSet(s \ {x}) /\ \A i \in s \ {x} : g[i] \in Int
        BY <2>3, <3>1, FS_Subset
      <4>2. QED
        BY <4>1, SumType
    <3>4. QED
      BY <2>5, <3>1, <3>2, <3>3
  <2>8. Total(g, S \cup s) = g[x] + Total(g, (S \cup s) \ {x})
    <3> DEFINE u == S \cup s
    <3>1. x \in u /\ IsFiniteSet(u) /\ \A i \in u : g[i] \in Int
      BY <2>3, <2>5
    <3> HIDE DEF u
    <3>2. Total(g, u) = g[x] + Total(g, u \ {x})
      BY <3>1, SumPick
    <3>3. QED
      BY <3>2 DEF u
  <2>9. (S \cup s) \ {x} = S \cup (s \ {x})
    BY <2>5
  <2>10. \A a, b, d \in Int : a + (b + d) = b + (a + d)
    OBVIOUS
  <2>11. g[x] + (Total(g, S) + Total(g, s \ {x})) = Total(g, S) + (g[x] + Total(g, s \ {x}))
    BY <2>3, <2>7, <2>10
  <2>12. QED
    BY <2>2, <2>6, <2>7, <2>8, <2>9, <2>11
<1>2. Adds(R)
  <2> HIDE DEF Adds
  <2>1. QED
    BY <1>1, FS_CardinalityType
<1>3. QED
  BY <1>2

\* The sum of n numbers between lo and hi is between n * lo and n * hi.
LEMMA SumBounds ==
  ASSUME NEW g, NEW S, IsFiniteSet(S), NEW lo \in Int, NEW hi \in Int,
         \A i \in S : g[i] \in Int /\ lo <= g[i] /\ g[i] <= hi
  PROVE  Cardinality(S) * lo <= Total(g, S) /\ Total(g, S) <= Cardinality(S) * hi
<1> DEFINE Lies(s) == Cardinality(s) * lo <= Total(g, s) /\ Total(g, s) <= Cardinality(s) * hi
           Bad == {n \in Nat : \E s \in SUBSET S : Cardinality(s) = n /\ ~Lies(s)}
<1>1. Bad = {}
  <2> SUFFICES ASSUME Bad # {} PROVE FALSE
    OBVIOUS
  <2>1. PICK n \in Bad : \A m \in Bad : n <= m
    BY LeastNat
  <2>2. PICK s \in SUBSET S : Cardinality(s) = n /\ ~Lies(s)
    BY <2>1
  <2>3. IsFiniteSet(s)
    BY FS_Subset
  <2>4. s # {}
    <3> SUFFICES ASSUME s = {} PROVE FALSE
      OBVIOUS
    <3>1. Cardinality(s) = 0 /\ Total(g, s) = 0
      BY <2>3, SumApart, FS_EmptySet
    <3>2. QED
      BY <2>2, <3>1
  <2> DEFINE x == CHOOSE y \in s : TRUE
  <2>5. x \in s /\ s \ {x} \in SUBSET S /\ Cardinality(s \ {x}) = n - 1 /\ n - 1 \in Nat
    <3>1. x \in s /\ s \ {x} \in SUBSET S /\ Cardinality(s \ {x}) = n - 1
      BY <2>2, <2>4, Smaller
    <3>2. IsFiniteSet(s \ {x})
      BY <3>1, FS_Subset
    <3>3. QED
      BY <3>1, <3>2, FS_CardinalityType
  <2>6. Lies(s \ {x})
    <3> HIDE DEF Lies, x
    <3>1. n - 1 \notin Bad
      BY <2>1, <2>5
    <3>2. QED
      BY <2>5, <3>1
  <2>7. Total(g, s) = g[x] + Total(g, s \ {x}) /\ Total(g, s \ {x}) \in Int
    <3>1. Total(g, s) = g[x] + Total(g, s \ {x})
      BY <2>3, <2>4, SumApart
    <3>2. Total(g, s \ {x}) \in Int
      <4>1. IsFiniteSet(s \ {x}) /\ \A i \in s \ {x} : g[i] \in Int
        BY <2>3, FS_Subset
      <4>2. QED
        BY <4>1, SumType
    <3>3. QED
      BY <3>1, <3>2
  <2>8. g[x] \in Int /\ lo <= g[x] /\ g[x] <= hi
    BY <2>5
  <2>9. (n - 1) * lo <= Total(g, s \ {x}) /\ Total(g, s \ {x}) <= (n - 1) * hi
    BY <2>5, <2>6
  <2>10. n \in Nat /\ (n - 1) * lo + lo = n * lo /\ (n - 1) * hi + hi = n * hi
    <3>1. \A m \in Nat, v \in Int : (m - 1) * v + v = m * v
      OBVIOUS
    <3>2. QED
      BY <3>1
  <2>11. (n - 1) * lo \in Int /\ (n - 1) * hi \in Int /\ n * lo \in Int /\ n * hi \in Int
    BY <2>10
  <2>12. n * lo <= Total(g, s) /\ Total(g, s) <= n * hi
    <3> DEFINE a == (n - 1) * lo
               b == (n - 1) * hi
               v == Total(g, s \ {x})
               w == g[x]
    <3>1. a \in Int /\ b \in Int /\ v \in Int /\ w \in Int /\ a <= v /\ v <= b /\ lo <= w /\ w <= hi
      BY <2>7, <2>8, <2>9, <2>11
    <3>2. n * lo = a + lo /\ n * hi = b + hi /\ Total(g, s) = w + v
      BY <2>7, <2>10
    <3> HIDE DEF a, b, v, w
    <3>3. QED
      BY <3>1, <3>2
  <2>13. QED
    BY <2>2, <2>12
<1>2. Lies(S)
  <2> HIDE DEF Lies
  <2>1. QED
    BY <1>1, FS_CardinalityType
<1>3. QED
  BY <1>2

\* ... and their average is between lo and hi.
LEMMA AverageBetween ==
  ASSUME NEW n \in Nat, n > 0, NEW t \in Int, NEW lo \in Int, NEW hi \in Int,
         n * lo <= t, t <= n * hi
  PROVE  t \div n \in Int /\ lo <= t \div n /\ t \div n <= hi
<1> DEFINE q == t \div n
           r == t % n
<1>1. q \in Int /\ r \in 0..(n - 1) /\ t = n * q + r
  OBVIOUS
<1> HIDE DEF q, r
<1>2. ASSUME q < lo PROVE FALSE
  <2>1. n * (q + 1) <= n * lo
    BY <1>1, <1>2
  <2>2. n * (q + 1) = n * q + n
    BY <1>1
  <2>3. QED
    BY <1>1, <2>1, <2>2
<1>3. ASSUME hi < q PROVE FALSE
  <2>1. n * (hi + 1) <= n * q
    BY <1>1, <1>3
  <2>2. n * (hi + 1) = n * hi + n
    OBVIOUS
  <2>3. QED
    BY <1>1, <2>1, <2>2
<1>4. QED
  BY <1>1, <1>2, <1>3 DEF q

\* The sum of a function over its domain, as the models write it.
LEMMA SumOf ==
  ASSUME NEW g, NEW S
  PROVE  SumFunction([i \in S |-> g[i]]) = Total([i \in S |-> g[i]], S)
BY DEF SumFunction, Total

-----------------------------------------------------------------------------
(* Greatest and least elements *)

\* What a function takes a finite set to is finite.
LEMMA FiniteRange ==
  ASSUME NEW S, IsFiniteSet(S), NEW g
  PROVE  IsFiniteSet({g[i] : i \in S})
<1> DEFINE R == {g[i] : i \in S}
           f == [i \in S |-> g[i]]
<1>1. f \in Surjection(S, R)
  BY DEF Surjection
<1>2. QED
  BY <1>1, FS_Surjection

\* A finite set of numbers that is not empty has a greatest one.
LEMMA MaxInSet ==
  ASSUME NEW S \in SUBSET Nat, S # {}, IsFiniteSet(S)
  PROVE  Max(S) \in S /\ \A y \in S : y <= Max(S)
<1> DEFINE HasMax(s) == \E x \in s : \A y \in s : y <= x
           Bad == {n \in Nat : \E s \in SUBSET S : Cardinality(s) = n /\ s # {} /\ ~HasMax(s)}
<1>1. Bad = {}
  <2> SUFFICES ASSUME Bad # {} PROVE FALSE
    OBVIOUS
  <2>1. PICK n \in Bad : \A m \in Bad : n <= m
    BY LeastNat
  <2>2. PICK s \in SUBSET S : Cardinality(s) = n /\ s # {} /\ ~HasMax(s)
    BY <2>1
  <2> DEFINE x == CHOOSE y \in s : TRUE
  <2>3. x \in s /\ s \ {x} \in SUBSET S /\ Cardinality(s \ {x}) = n - 1 /\ n - 1 \in Nat
    <3>1. x \in s /\ s \ {x} \in SUBSET S /\ Cardinality(s \ {x}) = n - 1
      BY <2>2, Smaller
    <3>2. IsFiniteSet(s \ {x})
      BY <3>1, FS_Subset
    <3>3. QED
      BY <3>1, <3>2, FS_CardinalityType
  <2> HIDE DEF x
  <2>4. CASE s \ {x} = {}
    <3>1. \A y \in s : y <= x
      BY <2>3, <2>4
    <3>2. QED
      BY <2>2, <2>3, <3>1
  <2>5. CASE s \ {x} # {}
    <3>1. HasMax(s \ {x})
      <4>1. n - 1 \notin Bad
        BY <2>1, <2>3
      <4> HIDE DEF HasMax
      <4>2. QED
        BY <4>1, <2>3, <2>5
    <3>2. PICK m \in s \ {x} : \A y \in s \ {x} : y <= m
      BY <3>1
    <3>3. IF m <= x THEN \A y \in s : y <= x ELSE \A y \in s : y <= m
      BY <2>3, <3>2
    <3>4. QED
      BY <2>2, <2>3, <3>2, <3>3
  <2>6. QED
    BY <2>4, <2>5
<1>2. HasMax(S)
  BY <1>1, FS_CardinalityType
<1>3. PICK x \in S : \A y \in S : x >= y
  BY <1>2
<1>4. Max(S) \in S /\ \A y \in S : Max(S) >= y
  BY <1>3, Zenon DEF Max
<1>5. QED
  BY <1>4

\* The least of a set of numbers is in it.
LEMMA MinInSet ==
  ASSUME NEW S \in SUBSET Nat, S # {}
  PROVE  Min(S) \in S /\ \A y \in S : Min(S) <= y
<1>1. \E x \in S : \A y \in S : x <= y
  BY LeastNat
<1>2. QED
  BY <1>1 DEF Min
=============================================================================
