----------------------------- MODULE DataLemmas -----------------------------
(***************************************************************************)
(* Facts about the data of several modules: lists in which each element    *)
(* occurs once, least numbers, induction and recursion over numbers.       *)
(***************************************************************************)
EXTENDS Naturals, Sequences, SequencesExt, SequenceTheorems, WellFoundedInduction, TLAPS

LessThan == {ss \in Nat \X Nat : ss[1] < ss[2]}

\* < on the natural numbers, as a set of pairs, is well-founded.
LEMMA LessThanWellFounded == IsWellFoundedOn(LessThan, Nat)
<1>1. OpToRel(<, Nat) = LessThan
  BY DEF OpToRel, LessThan
<1> QED
  BY <1>1, NatLessThanWellFounded

\* A set of natural numbers that is not empty has a least one.
LEMMA HasLeast ==
  ASSUME NEW T \in SUBSET Nat, T # {}
  PROVE  \E x \in T : \A y \in T : x <= y
<1>1. PICK x \in T : \A y \in T : <<y, x>> \notin LessThan
  BY LessThanWellFounded, WFMin
<1>2. ASSUME NEW y \in T PROVE x <= y
  <2>1. x \in Nat /\ y \in Nat
    BY <1>2
  <2>2. ASSUME y < x PROVE FALSE
    <3>1. <<y, x>> \in Nat \X Nat /\ <<y, x>>[1] < <<y, x>>[2]
      BY <2>1, <2>2
    <3>2. <<y, x>> \in LessThan
      BY <3>1 DEF LessThan
    <3> QED
      BY <3>2, <1>1, <1>2
  <2> QED
    BY <2>1, <2>2
<1> QED
  BY <1>2

\* The maximum of a set of positions is one of them.
LEMMA MaxIsMember ==
  ASSUME NEW n \in Nat, NEW I \in SUBSET (1..n), I # {}
  PROVE  Max(I) \in I
<1> DEFINE T == {n - i : i \in I}
<1>1. \A i \in I : n - i \in Nat
  OBVIOUS
<1>2. T \subseteq Nat /\ T # {}
  BY <1>1
<1>3. PICK x \in T : \A y \in T : x <= y
  BY <1>2, HasLeast
<1>4. PICK m \in I : x = n - m
  OBVIOUS
<1>5. ASSUME NEW i \in I PROVE m >= i
  <2>1. n - m <= n - i
    BY <1>3, <1>4
  <2> QED
    BY <2>1
<1> QED
  BY <1>5 DEF Max

\* What RemoveAt returns, position by position.
LEMMA RemovedAt ==
  ASSUME NEW T, NEW q \in Seq(T), NEW i \in 1..Len(q)
  PROVE  /\ RemoveAt(q, i) \in Seq(T)
         /\ Len(RemoveAt(q, i)) = Len(q) - 1
         /\ \A j \in 1..Len(q) - 1 :
              RemoveAt(q, i)[j] = IF j < i THEN q[j] ELSE q[j + 1]
<1> DEFINE a == SubSeq(q, 1, i - 1)
           b == SubSeq(q, i + 1, Len(q))
<1>0. Len(q) \in Nat /\ \A j \in 1..Len(q) : q[j] \in T
  BY LenProperties, ElementOfSeq
<1>1. /\ a \in Seq(T) /\ Len(a) = i - 1
      /\ \A j \in 1..i - 1 : a[j] = q[j]
  <2>1. \A j \in 1..(i - 1) : q[j] \in T
    BY <1>0
  <2>2. /\ SubSeq(q, 1, i - 1) \in Seq(T)
        /\ Len(SubSeq(q, 1, i - 1)) = IF 1 <= i - 1 THEN (i - 1) - 1 + 1 ELSE 0
        /\ \A j \in 1..((i - 1) - 1 + 1) : SubSeq(q, 1, i - 1)[j] = q[1 + j - 1]
    BY <1>0, <2>1, SubSeqProperties
  <2> QED
    BY <1>0, <2>2
<1>2. /\ b \in Seq(T) /\ Len(b) = Len(q) - i
      /\ \A j \in 1..Len(q) - i : b[j] = q[i + j]
  <2>1. \A j \in (i + 1)..Len(q) : q[j] \in T
    BY <1>0
  <2>2. /\ SubSeq(q, i + 1, Len(q)) \in Seq(T)
        /\ Len(SubSeq(q, i + 1, Len(q)))
             = IF i + 1 <= Len(q) THEN Len(q) - (i + 1) + 1 ELSE 0
        /\ \A j \in 1..(Len(q) - (i + 1) + 1) :
             SubSeq(q, i + 1, Len(q))[j] = q[(i + 1) + j - 1]
    BY <1>0, <2>1, SubSeqProperties
  <2> QED
    BY <1>0, <2>2
<1>3. /\ a \o b \in Seq(T)
      /\ Len(a \o b) = Len(a) + Len(b)
      /\ \A j \in 1..Len(a) + Len(b) :
           (a \o b)[j] = IF j <= Len(a) THEN a[j] ELSE b[j - Len(a)]
  BY <1>1, <1>2, ConcatProperties
<1>4. RemoveAt(q, i) = a \o b
  BY DEF RemoveAt
<1> HIDE DEF a, b
<1>5. ASSUME NEW j \in 1..Len(q) - 1
      PROVE  (a \o b)[j] = IF j < i THEN q[j] ELSE q[j + 1]
  <2>1. CASE j < i
    <3>1. j \in 1..i - 1 /\ j \in 1..Len(a) + Len(b) /\ j <= Len(a)
      BY <2>1, <1>0, <1>1, <1>2
    <3> QED
      BY <2>1, <3>1, <1>1, <1>3
  <2>2. CASE ~(j < i)
    <3>1. /\ j - (i - 1) \in 1..Len(q) - i /\ j \in 1..Len(a) + Len(b) /\ ~(j <= Len(a))
          /\ i + (j - (i - 1)) = j + 1 /\ j - Len(a) = j - (i - 1)
      BY <2>2, <1>0, <1>1, <1>2
    <3>2. b[j - (i - 1)] = q[i + (j - (i - 1))]
      BY <3>1, <1>2
    <3> QED
      BY <2>2, <3>1, <3>2, <1>3
  <2> QED
    BY <2>1, <2>2
<1> QED
  BY <1>0, <1>1, <1>2, <1>3, <1>4, <1>5

\* A list in which each element occurs once, as the set of its elements.
LEMMA AppendedOnce ==
  ASSUME NEW T, NEW q \in Seq(T), IsInjective(q), NEW x \in T, x \notin ToSet(q)
  PROVE  /\ Append(q, x) \in Seq(T) /\ IsInjective(Append(q, x))
         /\ ToSet(Append(q, x)) = ToSet(q) \cup {x}
<1> DEFINE a == Append(q, x)
<1>1. /\ DOMAIN q = 1..Len(q) /\ Len(q) \in Nat
      /\ a \in Seq(T) /\ DOMAIN a = 1..Len(q) + 1
      /\ \A i \in 1..Len(q) : a[i] = q[i]
      /\ a[Len(q) + 1] = x
  BY LenProperties, AppendProperties
<1> HIDE DEF a
<1>2. \A i \in DOMAIN q : q[i] # x
  BY DEF ToSet
<1>3. IsInjective(a)
  BY <1>1, <1>2 DEF IsInjective
<1>4. ToSet(a) = ToSet(q) \cup {x}
  <2>1. ASSUME NEW y \in ToSet(a) PROVE y \in ToSet(q) \cup {x}
    BY <1>1, <2>1 DEF ToSet
  <2>2. ASSUME NEW y \in ToSet(q) PROVE y \in ToSet(a)
    <3>1. PICK i \in DOMAIN q : y = q[i]
      BY <2>2 DEF ToSet
    <3>2. i \in DOMAIN a /\ a[i] = y
      BY <1>1, <3>1
    <3> QED
      BY <3>2 DEF ToSet
  <2>3. x \in ToSet(a)
    <3>1. Len(q) + 1 \in DOMAIN a
      BY <1>1
    <3> QED
      BY <1>1, <3>1 DEF ToSet
  <2> QED
    BY <2>1, <2>2, <2>3
<1> QED
  BY <1>1, <1>3, <1>4 DEF a

\* RemoveAt takes one element out of the set of a list's elements.
LEMMA RemovedOnce ==
  ASSUME NEW T, NEW q \in Seq(T), IsInjective(q), NEW i \in DOMAIN q
  PROVE  /\ RemoveAt(q, i) \in Seq(T) /\ IsInjective(RemoveAt(q, i))
         /\ ToSet(RemoveAt(q, i)) = ToSet(q) \ {q[i]}
<1> DEFINE r == RemoveAt(q, i)
<1>0. DOMAIN q = 1..Len(q) /\ Len(q) \in Nat /\ i \in 1..Len(q)
  BY LenProperties
<1>1. /\ r \in Seq(T) /\ Len(r) = Len(q) - 1
      /\ \A j \in 1..Len(q) - 1 : r[j] = IF j < i THEN q[j] ELSE q[j + 1]
  BY <1>0, RemovedAt
<1> HIDE DEF r
<1>2. DOMAIN r = 1..Len(q) - 1
  BY <1>0, <1>1, LenProperties
<1>3. \A j, m \in DOMAIN q : q[j] = q[m] => j = m
  BY DEF IsInjective
<1> DEFINE at(n) == IF n < i THEN n ELSE n + 1
<1>4. \A j \in DOMAIN r : at(j) \in DOMAIN q /\ at(j) # i /\ r[j] = q[at(j)]
  BY <1>0, <1>1, <1>2
<1>5. IsInjective(r)
  <2>1. ASSUME NEW j \in DOMAIN r, NEW m \in DOMAIN r, r[j] = r[m] PROVE j = m
    <3>1. at(j) = at(m)
      BY <1>3, <1>4, <2>1
    <3> QED
      BY <1>0, <1>2, <3>1
  <2> QED
    BY <2>1 DEF IsInjective
<1>6. ToSet(r) = ToSet(q) \ {q[i]}
  <2>1. ASSUME NEW y \in ToSet(r) PROVE y \in ToSet(q) \ {q[i]}
    <3>1. PICK j \in DOMAIN r : y = r[j]
      BY <2>1 DEF ToSet
    <3>2. at(j) \in DOMAIN q /\ at(j) # i /\ y = q[at(j)]
      BY <1>4, <3>1
    <3> HIDE DEF at
    <3> QED
      BY <1>3, <3>2 DEF ToSet
  <2>2. ASSUME NEW y \in ToSet(q) \ {q[i]} PROVE y \in ToSet(r)
    <3>1. PICK m \in DOMAIN q : y = q[m]
      BY <2>2 DEF ToSet
    <3>2. m # i
      BY <2>2, <3>1
    <3>3. CASE m < i
      <4>1. m \in DOMAIN r /\ r[m] = q[m]
        BY <1>0, <1>1, <1>2, <3>3
      <4> QED
        BY <3>1, <4>1 DEF ToSet
    <3>4. CASE m > i
      <4>1. m - 1 \in DOMAIN r /\ ~(m - 1 < i) /\ (m - 1) + 1 = m
        BY <1>0, <1>2, <3>4
      <4>2. r[m - 1] = q[m]
        BY <1>1, <1>2, <4>1
      <4> QED
        BY <3>1, <4>1, <4>2 DEF ToSet
    <3> QED
      BY <1>0, <3>2, <3>3, <3>4
  <2> QED
    BY <2>1, <2>2
<1> QED
  BY <1>1, <1>5, <1>6 DEF r

-----------------------------------------------------------------------------
(* Induction and recursion, for sets and functions in place of operators *)

\* A set that holds a, and with each number below b the next one, holds a..b.
LEMMA IntervalInduction ==
  ASSUME NEW a \in Nat, NEW b \in Nat, NEW S, a \in S,
         \A n \in a..b : n \in S /\ n < b => n + 1 \in S
  PROVE  a..b \subseteq S
<1> DEFINE T == {n \in a..b : n \notin S}
<1> SUFFICES ASSUME T # {} PROVE FALSE
  OBVIOUS
<1>1. T \subseteq Nat
  OBVIOUS
<1>2. PICK m \in T : \A n \in T : m <= n
  <2> HIDE DEF T
  <2> QED
    BY <1>1, HasLeast
<1>3. m \in a..b /\ m \notin S /\ m # a
  OBVIOUS
<1>4. m - 1 \in a..b /\ m - 1 < b /\ ~(m <= m - 1) /\ (m - 1) + 1 = m
  BY <1>3
<1>5. m - 1 \notin T
  BY <1>2, <1>4
<1>6. m - 1 \in S
  BY <1>4, <1>5
<1> QED
  BY <1>3, <1>4, <1>6

\* f is computed number by number from a to b: x first, then one step at a time.
Iterates(f, a, b, x, step) ==
  \A n \in a..b : f[n] = IF n = a THEN x ELSE step[<<n, f[n - 1]>>]

\* There is such a function.
LEMMA IterationExists ==
  ASSUME NEW a \in Nat, NEW b \in Nat, a <= b, NEW X, NEW x \in X,
         NEW step \in [(a..b) \X X -> X]
  PROVE  \E f \in [a..b -> X] : Iterates(f, a, b, x, step)
<1> DEFINE Good(n, f) ==
             /\ f \in [a..n -> X] /\ f[a] = x
             /\ \A m \in a..n : m # a => f[m] = step[<<m, f[m - 1]>>]
           S == {n \in a..b : \E f \in [a..n -> X] : Good(n, f)}
<1>1. a \in S
  <2> DEFINE g == [n \in a..a |-> x]
  <2>1. g \in [a..a -> X] /\ g[a] = x /\ \A m \in a..a : m = a
    OBVIOUS
  <2>2. Good(a, g)
    BY <2>1
  <2> HIDE DEF g
  <2> QED
    BY <2>1, <2>2
<1>2. ASSUME NEW n \in a..b, n \in S, n < b PROVE n + 1 \in S
  <2>1. PICK f \in [a..n -> X] : Good(n, f)
    BY <1>2
  <2> DEFINE g == [m \in a..(n + 1) |-> IF m = n + 1 THEN step[<<n + 1, f[n]>>] ELSE f[m]]
  <2>2. n + 1 \in a..b /\ n \in a..n /\ a # n + 1
    BY <1>2
  <2>3. f[n] \in X /\ <<n + 1, f[n]>> \in (a..b) \X X
    BY <2>2
  <2>4. step[<<n + 1, f[n]>>] \in X
    BY <2>3
  <2>5. g \in [a..(n + 1) -> X]
    BY <2>4
  <2>6. g[a] = x
    BY <2>1, <2>2
  <2>7. ASSUME NEW m \in a..(n + 1), m # a PROVE g[m] = step[<<m, g[m - 1]>>]
    <3>1. CASE m = n + 1
      <4>1. m - 1 = n /\ n \in a..(n + 1) /\ n # n + 1
        BY <2>2, <3>1
      <4> QED
        BY <3>1, <4>1
    <3>2. CASE m # n + 1
      <4>1. m \in a..n /\ m - 1 \in a..(n + 1) /\ m - 1 # n + 1
        BY <2>7, <3>2
      <4> QED
        BY <2>1, <2>7, <3>2, <4>1
    <3> QED
      BY <3>1, <3>2
  <2>8. Good(n + 1, g)
    BY <2>5, <2>6, <2>7
  <2> QED
    BY <2>2, <2>5, <2>8
<1> HIDE DEF S
<1>3. a..b \subseteq S
  BY <1>1, <1>2, IntervalInduction
<1>4. b \in S
  BY <1>3
<1>5. PICK f \in [a..b -> X] : Good(b, f)
  BY <1>4 DEF S
<1>6. \A n \in a..b : f[n] = IF n = a THEN x ELSE step[<<n, f[n - 1]>>]
  BY <1>5
<1> QED
  BY <1>6 DEF Iterates
=============================================================================
