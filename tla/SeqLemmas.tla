------------------------------- MODULE SeqLemmas -------------------------------
(* What the queue operations of the models do to the set of elements of a    *)
(* sequence without repetitions; the least of a set of numbers, by which the *)
(* proofs reason by induction; recursive functions over numbers; the ranks   *)
(* of an order; and sums over finite sets.                                   *)
EXTENDS Integers, Sequences, SequencesExt, SequenceTheorems,
        FiniteSetTheorems, WellFoundedInduction, TLAPS

LEMMA LeastOf ==
  ASSUME NEW T \in SUBSET Nat, T # {}
  PROVE  \E m \in T : \A k \in T : m <= k
<1>1. PICK m \in T : \A k \in T : ~(<<k, m>> \in OpToRel(<, Nat))
  BY NatLessThanWellFounded, WFMin
<1>2. \A k \in T : ~(k < m)
  BY <1>1 DEF OpToRel
<1>3. QED
  BY <1>2

LEMMA MinIn ==
  ASSUME NEW T \in SUBSET Nat, T # {}
  PROVE  Min(T) \in T
<1>1. \E m \in T : \A k \in T : m <= k
  BY LeastOf
<1>2. QED
  BY <1>1 DEF Min

LEMMA MaxIn ==
  ASSUME NEW n \in Nat, NEW T \in SUBSET (1 .. n), T # {}
  PROVE  Max(T) \in T /\ \A k \in T : k <= Max(T)
<1> DEFINE R == {n - k : k \in T}
<1>1. R \in SUBSET Nat /\ R # {}
  <2>1. \A k \in T : n - k \in Nat
    OBVIOUS
  <2>2. QED
    BY <2>1
<1>2. PICK m \in R : \A k \in R : m <= k
  BY <1>1, LeastOf
<1>3. PICK j \in T : m = n - j
  OBVIOUS
<1>4. \A k \in T : n - j <= n - k
  BY <1>2, <1>3
<1>5. \A k \in T : j >= k
  BY <1>4
<1>6. QED
  BY <1>5 DEF Max

LEMMA AppendFacts ==
  ASSUME NEW S, NEW s \in Seq(S), NEW x \in S
  PROVE  /\ Append(s, x) \in Seq(S)
         /\ Append(s, x) # <<>>
         /\ ToSet(Append(s, x)) = ToSet(s) \cup {x}
         /\ s # <<>> => Head(Append(s, x)) = Head(s)
         /\ IsInjective(s) /\ x \notin ToSet(s) => IsInjective(Append(s, x))
<1> DEFINE a == Append(s, x)
<1>1. /\ a \in Seq(S) /\ Len(a) = Len(s) + 1 /\ a[Len(s) + 1] = x
      /\ \A i \in 1..Len(s) : a[i] = s[i]
  BY AppendProperties
<1>2. a # <<>> /\ (s # <<>> => Head(a) = Head(s))
  BY <1>1
<1>3. DOMAIN a = 1..(Len(s) + 1) /\ DOMAIN s = 1..Len(s) /\ Len(s) \in Nat
  BY <1>1
<1>4. ToSet(a) = ToSet(s) \cup {x}
  BY <1>1, <1>3 DEF ToSet
<1>5. IsInjective(s) /\ x \notin ToSet(s) => IsInjective(a)
  BY <1>1, <1>3 DEF ToSet, IsInjective
<1>6. QED
  BY <1>1, <1>2, <1>4, <1>5

LEMMA ConsFacts ==
  ASSUME NEW S, NEW s \in Seq(S), NEW x \in S
  PROVE  /\ <<x>> \o s \in Seq(S)
         /\ ToSet(<<x>> \o s) = ToSet(s) \cup {x}
         /\ IsInjective(s) /\ x \notin ToSet(s) => IsInjective(<<x>> \o s)
<1> DEFINE a == <<x>> \o s
<1>1. /\ a \in Seq(S) /\ Len(a) = Len(s) + 1 /\ a[1] = x
      /\ \A i \in 2..(Len(s) + 1) : a[i] = s[i - 1]
  <2>1. <<x>> \in Seq(S) /\ Len(<<x>>) = 1 /\ <<x>>[1] = x
    OBVIOUS
  <2>2. QED
    BY <2>1, ConcatProperties
<1>2. DOMAIN a = 1..(Len(s) + 1) /\ DOMAIN s = 1..Len(s) /\ Len(s) \in Nat
  BY <1>1
<1>3. \A j \in 1..Len(s) : j + 1 \in 2..(Len(s) + 1) /\ a[j + 1] = s[j]
  BY <1>1, <1>2
<1>4. ToSet(a) = ToSet(s) \cup {x}
  <2>1. ASSUME NEW y \in ToSet(a) PROVE y \in ToSet(s) \cup {x}
    <3>1. PICK i \in 1..(Len(s) + 1) : y = a[i]
      BY <1>2 DEF ToSet
    <3>2. CASE i = 1
      BY <3>1, <3>2, <1>1
    <3>3. CASE i # 1
      <4>1. i - 1 \in 1..Len(s) /\ a[i] = s[i - 1]
        BY <3>3, <1>1, <1>2
      <4>2. QED
        BY <4>1, <3>1, <1>2 DEF ToSet
    <3>4. QED
      BY <3>2, <3>3
  <2>2. x \in ToSet(a)
    <3>1. 1 \in DOMAIN a
      BY <1>2
    <3>2. QED
      BY <3>1, <1>1 DEF ToSet
  <2>3. ASSUME NEW y \in ToSet(s) PROVE y \in ToSet(a)
    <3>1. PICK j \in 1..Len(s) : y = s[j]
      BY <1>2 DEF ToSet
    <3>2. j + 1 \in DOMAIN a /\ a[j + 1] = y
      BY <3>1, <1>2, <1>3
    <3>3. QED
      BY <3>2 DEF ToSet
  <2>4. QED
    BY <2>1, <2>2, <2>3
<1>5. IsInjective(s) /\ x \notin ToSet(s) => IsInjective(a)
  BY <1>1, <1>2 DEF ToSet, IsInjective
<1>6. QED
  BY <1>1, <1>4, <1>5

LEMMA TailFacts ==
  ASSUME NEW S, NEW s \in Seq(S), s # <<>>
  PROVE  /\ Head(s) \in S
         /\ Head(s) \in ToSet(s)
         /\ Tail(s) \in Seq(S)
         /\ IsInjective(s) => /\ ToSet(Tail(s)) = ToSet(s) \ {Head(s)}
                              /\ IsInjective(Tail(s))
<1> DEFINE a == Tail(s)
<1>1. /\ a \in Seq(S) /\ Len(a) = Len(s) - 1 /\ Head(s) \in S /\ Head(s) = s[1]
      /\ \A i \in 1..Len(a) : a[i] = s[i + 1]
  BY HeadTailProperties
<1>2. /\ DOMAIN a = 1..(Len(s) - 1) /\ DOMAIN s = 1..Len(s)
      /\ Len(s) \in Nat /\ Len(s) # 0
  BY <1>1
<1>3. Head(s) \in ToSet(s)
  BY <1>1, <1>2 DEF ToSet
<1>4. \A j \in 2..Len(s) : j - 1 \in 1..Len(a) /\ a[j - 1] = s[j]
  BY <1>1, <1>2
<1>5. IsInjective(s) => ToSet(a) = ToSet(s) \ {Head(s)}
  <2> HAVE IsInjective(s)
  <2>1. \A i \in 1..Len(a) : i + 1 \in 1..Len(s) /\ s[i + 1] # s[1] /\ 1 \in 1..Len(s)
    BY <1>1, <1>2 DEF IsInjective
  <2>2. \A y \in ToSet(a) : y \in ToSet(s) \ {Head(s)}
    BY <2>1, <1>1, <1>2 DEF ToSet
  <2>3. \A j \in 1..Len(s) : j = 1 \/ j \in 2..Len(s)
    BY <1>2
  <2>4. ASSUME NEW y \in ToSet(s) \ {Head(s)} PROVE y \in ToSet(a)
    <3>1. PICK j \in 2..Len(s) : y = s[j]
      BY <2>3, <1>1, <1>2 DEF ToSet
    <3>2. j - 1 \in DOMAIN a /\ a[j - 1] = y
      BY <3>1, <1>1, <1>2, <1>4
    <3>3. QED
      BY <3>2 DEF ToSet
  <2>5. QED
    BY <2>2, <2>4
<1>6. IsInjective(s) => IsInjective(a)
  BY <1>1, <1>2 DEF IsInjective
<1>7. QED
  BY <1>1, <1>3, <1>5, <1>6

\* What RemoveAt leaves is a sequence of the same set.
LEMMA RemoveAtSeq ==
  ASSUME NEW S, NEW s \in Seq(S), NEW k \in DOMAIN s
  PROVE  RemoveAt(s, k) \in Seq(S)
<1>1. Len(s) \in Nat /\ k \in 1..Len(s) /\ \A i \in 1..Len(s) : s[i] \in S
  BY ElementOfSeq
<1>2. SubSeq(s, 1, k - 1) \in Seq(S) /\ SubSeq(s, k + 1, Len(s)) \in Seq(S)
  BY <1>1, SubSeqProperties
<1>3. QED
  BY <1>2, ConcatProperties DEF RemoveAt

LEMMA RemoveAtFacts ==
  ASSUME NEW S, NEW s \in Seq(S), IsInjective(s), NEW k \in DOMAIN s
  PROVE  /\ RemoveAt(s, k) \in Seq(S)
         /\ ToSet(RemoveAt(s, k)) = ToSet(s) \ {s[k]}
         /\ IsInjective(RemoveAt(s, k))
         /\ Len(RemoveAt(s, k)) = Len(s) - 1
<1> DEFINE a == RemoveAt(s, k)
           n == Len(s)
<1>1. n \in Nat /\ DOMAIN s = 1..n /\ k \in 1..n /\ \A i \in 1..n : s[i] \in S
  BY ElementOfSeq
<1>2. /\ SubSeq(s, 1, k - 1) \in Seq(S) /\ Len(SubSeq(s, 1, k - 1)) = k - 1
      /\ \A i \in 1..(k - 1) : SubSeq(s, 1, k - 1)[i] = s[i]
  BY <1>1, SubSeqProperties
<1>3. /\ SubSeq(s, k + 1, n) \in Seq(S) /\ Len(SubSeq(s, k + 1, n)) = n - k
      /\ \A i \in 1..(n - k) : SubSeq(s, k + 1, n)[i] = s[k + i]
  BY <1>1, SubSeqProperties
<1>4. /\ a \in Seq(S) /\ Len(a) = n - 1 /\ DOMAIN a = 1..(n - 1)
      /\ \A i \in 1..(n - 1) : a[i] = IF i < k THEN s[i] ELSE s[i + 1]
  <2> DEFINE u == SubSeq(s, 1, k - 1)
             v == SubSeq(s, k + 1, n)
  <2>1. a = u \o v
    BY DEF RemoveAt
  <2>2. u \in Seq(S) /\ v \in Seq(S) /\ Len(u) = k - 1 /\ Len(v) = n - k
    BY <1>2, <1>3
  <2> HIDE DEF u, v
  <2>3. /\ a \in Seq(S) /\ Len(a) = Len(u) + Len(v)
        /\ \A i \in 1..(Len(u) + Len(v)) :
              a[i] = IF i <= Len(u) THEN u[i] ELSE v[i - Len(u)]
    <3>1. /\ u \o v \in Seq(S) /\ Len(u \o v) = Len(u) + Len(v)
          /\ \A i \in 1..(Len(u) + Len(v)) :
                (u \o v)[i] = IF i <= Len(u) THEN u[i] ELSE v[i - Len(u)]
      BY <2>2, ConcatProperties
    <3>2. QED
      BY <2>1, <3>1
  <2>4. Len(a) = n - 1 /\ DOMAIN a = 1..(n - 1)
    BY <2>2, <2>3, <1>1
  <2>5. ASSUME NEW i \in 1..(n - 1) PROVE a[i] = IF i < k THEN s[i] ELSE s[i + 1]
    <3>1. CASE i < k
      <4>1. i \in 1..(Len(u) + Len(v)) /\ i <= Len(u) /\ i \in 1..(k - 1)
        BY <3>1, <2>2, <1>1
      <4>2. a[i] = u[i] /\ u[i] = s[i]
        BY <4>1, <2>3, <1>2 DEF u
      <4>3. QED
        BY <4>2, <3>1
    <3>2. CASE ~(i < k)
      <4>1. /\ i \in 1..(Len(u) + Len(v)) /\ ~(i <= Len(u)) /\ i - Len(u) = i - k + 1
            /\ i - k + 1 \in 1..(n - k) /\ k + (i - k + 1) = i + 1
        BY <3>2, <2>2, <1>1
      <4>2. a[i] = v[i - k + 1] /\ v[i - k + 1] = s[k + (i - k + 1)]
        BY <4>1, <2>3, <1>3 DEF v
      <4>3. QED
        BY <4>1, <4>2, <3>2
    <3>3. QED
      BY <3>1, <3>2
  <2>6. QED
    BY <2>3, <2>4, <2>5
<1> HIDE DEF a, n
<1>5. \A j \in 1..n : j # k => \E i \in 1..(n - 1) : a[i] = s[j]
  <2> TAKE j \in 1..n
  <2>1. CASE j < k
    BY <2>1, <1>1, <1>4
  <2>2. CASE j > k
    <3>1. j - 1 \in 1..(n - 1) /\ a[j - 1] = s[j]
      BY <2>2, <1>1, <1>4
    <3>2. QED
      BY <3>1
  <2>3. QED
    BY <2>1, <2>2, <1>1
<1>6. ToSet(a) = ToSet(s) \ {s[k]}
  <2>1. \A i \in 1..(n - 1) : a[i] \in ToSet(s) /\ a[i] # s[k]
    <3> TAKE i \in 1..(n - 1)
    <3>1. \E j \in 1..n : j # k /\ a[i] = s[j]
      <4>1. CASE i < k
        BY <4>1, <1>1, <1>4
      <4>2. CASE ~(i < k)
        <5>1. i + 1 \in 1..n /\ i + 1 # k
          BY <4>2, <1>1
        <5>2. QED
          BY <4>2, <5>1, <1>4
      <4>3. QED
        BY <4>1, <4>2
    <3>2. QED
      BY <1>1, <3>1 DEF ToSet, IsInjective
  <2>2. \A y \in ToSet(a) : y \in ToSet(s) \ {s[k]}
    <3> TAKE y \in ToSet(a)
    <3>1. PICK i \in DOMAIN a : y = a[i]
      BY DEF ToSet
    <3>2. QED
      BY <2>1, <1>4, <3>1
  <2>3. \A y \in ToSet(s) \ {s[k]} : y \in ToSet(a)
    <3> TAKE y \in ToSet(s) \ {s[k]}
    <3>1. PICK j \in 1..n : y = s[j]
      BY <1>1 DEF ToSet
    <3>2. \E i \in DOMAIN a : y = a[i]
      BY <1>4, <1>5, <3>1
    <3>3. QED
      BY <3>2 DEF ToSet
  <2>4. QED
    BY <2>2, <2>3
<1>7. IsInjective(a)
  <2> SUFFICES ASSUME NEW i \in 1..(n - 1), NEW j \in 1..(n - 1), a[i] = a[j] PROVE i = j
    BY <1>4 DEF IsInjective
  <2> DEFINE x(h) == IF h < k THEN h ELSE h + 1
  <2>1. a[i] = s[x(i)] /\ a[j] = s[x(j)]
    BY <1>4
  <2>2. x(i) \in 1..n /\ x(j) \in 1..n
    BY <1>1
  <2>3. x(i) = x(j)
    BY <1>1, <2>1, <2>2 DEF IsInjective
  <2>4. QED
    BY <1>1, <2>3
<1>8. QED
  BY <1>4, <1>6, <1>7 DEF a, n

LEMMA ConcatFacts ==
  ASSUME NEW S, NEW s \in Seq(S), NEW t \in Seq(S)
  PROVE  /\ s \o t \in Seq(S)
         /\ Len(s \o t) = Len(s) + Len(t)
         /\ ToSet(s \o t) = ToSet(s) \cup ToSet(t)
         /\ IsInjective(s) /\ IsInjective(t) /\ ToSet(s) \cap ToSet(t) = {} => IsInjective(s \o t)
<1> DEFINE a == s \o t
           m == Len(s)
           n == Len(t)
<1>1. /\ a \in Seq(S) /\ Len(a) = m + n /\ m \in Nat /\ n \in Nat
      /\ \A i \in 1 .. (m + n) : a[i] = IF i <= m THEN s[i] ELSE t[i - m]
  BY ConcatProperties
<1>2. DOMAIN a = 1 .. (m + n) /\ DOMAIN s = 1 .. m /\ DOMAIN t = 1 .. n
  BY <1>1
<1> HIDE DEF a, m, n
<1>3. \A i \in 1 .. m : a[i] = s[i] /\ i \in DOMAIN a
  BY <1>1, <1>2
<1>4. \A i \in 1 .. n : a[m + i] = t[i] /\ m + i \in DOMAIN a
  <2> TAKE i \in 1 .. n
  <2>1. m + i \in 1 .. (m + n) /\ ~(m + i <= m) /\ (m + i) - m = i
    BY <1>1
  <2>2. QED
    BY <1>1, <1>2, <2>1
<1>5. \A i \in DOMAIN a : \/ i \in 1 .. m /\ a[i] = s[i]
                          \/ i - m \in 1 .. n /\ a[i] = t[i - m]
  <2> TAKE i \in DOMAIN a
  <2>1. i \in 1 .. (m + n) /\ i \in Int
    BY <1>1, <1>2
  <2>2. CASE i <= m
    BY <1>1, <2>1, <2>2
  <2>3. CASE ~(i <= m)
    <3>1. i - m \in 1 .. n
      BY <1>1, <2>1, <2>3
    <3>2. QED
      BY <1>1, <2>1, <2>3, <3>1
  <2>4. QED
    BY <2>2, <2>3
<1>6. ToSet(a) = ToSet(s) \cup ToSet(t)
  <2>1. \A y \in ToSet(a) : y \in ToSet(s) \cup ToSet(t)
    BY <1>2, <1>5 DEF ToSet
  <2>2. \A y \in ToSet(s) \cup ToSet(t) : y \in ToSet(a)
    BY <1>2, <1>3, <1>4 DEF ToSet
  <2>3. QED
    BY <2>1, <2>2
<1>7. ASSUME IsInjective(s), IsInjective(t), ToSet(s) \cap ToSet(t) = {}
      PROVE  IsInjective(a)
  <2>1. \A i \in 1 .. m, j \in 1 .. n : s[i] # t[j]
    BY <1>2, <1>7 DEF ToSet
  <2>2. \A i, j \in 1 .. m : s[i] = s[j] => i = j
    BY <1>2, <1>7 DEF IsInjective
  <2>3. \A i, j \in 1 .. n : t[i] = t[j] => i = j
    BY <1>2, <1>7 DEF IsInjective
  <2>4. ASSUME NEW i \in DOMAIN a, NEW j \in DOMAIN a, a[i] = a[j]
        PROVE  i = j
    <3>1. i \in Int /\ j \in Int
      BY <1>1, <1>2
    <3>2. CASE i - m \in 1 .. n /\ a[i] = t[i - m] /\ j - m \in 1 .. n /\ a[j] = t[j - m]
      <4>1. i - m = j - m
        BY <2>3, <2>4, <3>2
      <4>2. QED
        BY <1>1, <3>1, <4>1
    <3>3. QED
      BY <1>5, <2>1, <2>2, <2>4, <3>2
  <2>5. QED
    BY <2>4 DEF IsInjective
<1>8. QED
  BY <1>1, <1>6, <1>7 DEF a, m, n
-------------------------------------------------------------------------------
(* Sums over finite sets. *)

LEMMA SubsetInduction ==
  ASSUME NEW S, IsFiniteSet(S), NEW G, {} \in G,
         \A T \in SUBSET S, x \in S : T \in G /\ x \notin T => T \cup {x} \in G
  PROVE  \A T \in SUBSET S : T \in G
<1> DEFINE Bad == {Cardinality(T) : T \in {R \in SUBSET S : R \notin G}}
<1>1. \A T \in SUBSET S : IsFiniteSet(T) /\ Cardinality(T) \in Nat
  BY FS_Subset, FS_CardinalityType
<1>2. Bad \in SUBSET Nat
  BY <1>1
<1>3. SUFFICES ASSUME Bad # {} PROVE FALSE
  OBVIOUS
<1>4. PICK m \in Bad : \A k \in Bad : m <= k
  BY <1>2, <1>3, LeastOf
<1>5. PICK T \in SUBSET S : T \notin G /\ Cardinality(T) = m
  OBVIOUS
<1>6. PICK x \in T : TRUE
  BY <1>5
<1>7. Cardinality(T \ {x}) = m - 1 /\ m \in Nat
  BY <1>1, <1>5, <1>6, FS_RemoveElement
<1>8. T \ {x} \in G
  <2>1. SUFFICES ASSUME T \ {x} \notin G PROVE FALSE
    OBVIOUS
  <2>2. Cardinality(T \ {x}) \in Bad
    BY <2>1
  <2>3. QED
    BY <2>2, <1>4, <1>7
<1>9. (T \ {x}) \cup {x} = T
  BY <1>6
<1>10. QED
  BY <1>5, <1>6, <1>8, <1>9

Chosen(s) == CHOOSE y \in s : TRUE
IsIter(w, S, f) == f = [s \in SUBSET S |-> IF s = {} THEN 0 ELSE w[Chosen(s)] + f[s \ {Chosen(s)}]]
Iter(w, S) == CHOOSE f : IsIter(w, S, f)

\* The function by which the sum is defined exists.
LEMMA IterExists ==
  ASSUME NEW w, NEW S, IsFiniteSet(S)
  PROVE  IsIter(w, S, Iter(w, S))
<1> DEFINE D(n) == {s \in SUBSET S : Cardinality(s) <= n}
           Rec(f, n) == f = [s \in D(n) |-> IF s = {} THEN 0 ELSE w[Chosen(s)] + f[s \ {Chosen(s)}]]
           Bad == {n \in Nat : ~(\E f : Rec(f, n))}
<1>1. \A s \in SUBSET S : /\ IsFiniteSet(s) /\ Cardinality(s) \in Nat
                          /\ Cardinality(s) = 0 <=> s = {}
                          /\ s # {} => /\ s \ {Chosen(s)} \in SUBSET S
                                       /\ Cardinality(s \ {Chosen(s)}) = Cardinality(s) - 1
  <2> TAKE s \in SUBSET S
  <2>1. IsFiniteSet(s) /\ Cardinality(s) \in Nat /\ (Cardinality(s) = 0 <=> s = {})
    BY FS_Subset, FS_CardinalityType, FS_EmptySet
  <2>2. s # {} => Chosen(s) \in s
    BY DEF Chosen
  <2>3. QED
    BY <2>1, <2>2, FS_RemoveElement
<1>0. /\ \A n, s : s \in D(n) <=> s \in SUBSET S /\ Cardinality(s) <= n
      /\ \A n : n \in Bad <=> n \in Nat /\ ~(\E f : Rec(f, n))
      /\ Bad \in SUBSET Nat
  OBVIOUS
<1>2. Bad = {}
  <2> HIDE DEF D, Rec, Bad
  <2>1. SUFFICES ASSUME Bad # {} PROVE FALSE
    OBVIOUS
  <2>2. PICK m \in Bad : \A k \in Bad : m <= k
    BY <1>0, <2>1, LeastOf
  <2>3. CASE m = 0
    <3> DEFINE g == [s \in D(0) |-> 0]
    <3>1. \A s \in D(0) : s = {}
      <4> TAKE s \in D(0)
      <4>1. s \in SUBSET S /\ Cardinality(s) <= 0
        BY <1>0
      <4>2. Cardinality(s) \in Nat /\ (Cardinality(s) = 0 <=> s = {})
        BY <1>1, <4>1
      <4>3. QED
        BY <4>1, <4>2
    <3>2. Rec(g, 0)
      BY <3>1 DEF Rec
    <3>3. QED
      BY <1>0, <3>2, <2>2, <2>3
  <2>4. CASE m # 0
    <3>1. m - 1 \in Nat /\ m - 1 \notin Bad
      BY <1>0, <2>2, <2>4
    <3>2. PICK f : Rec(f, m - 1)
      BY <1>0, <3>1
    <3> DEFINE g == [s \in D(m) |-> IF s = {} THEN 0 ELSE w[Chosen(s)] + f[s \ {Chosen(s)}]]
    <3>3. \A s \in D(m - 1) : s \in D(m) /\ g[s] = f[s]
      <4> TAKE s \in D(m - 1)
      <4>1. s \in D(m)
        <5>1. s \in SUBSET S /\ Cardinality(s) <= m - 1 /\ m \in Nat
          BY <1>0, <2>2
        <5>2. Cardinality(s) \in Nat
          BY <1>1, <5>1
        <5>3. Cardinality(s) <= m
          BY <5>1, <5>2
        <5>4. QED
          BY <1>0, <5>1, <5>3
      <4>2. f[s] = IF s = {} THEN 0 ELSE w[Chosen(s)] + f[s \ {Chosen(s)}]
        BY <3>2 DEF Rec
      <4>3. QED
        BY <4>1, <4>2
    <3>4. \A s \in D(m) : s # {} => s \ {Chosen(s)} \in D(m - 1)
      BY <1>0, <1>1, <2>2
    <3>5. Rec(g, m)
      BY <3>3, <3>4 DEF Rec
    <3>6. QED
      BY <1>0, <3>5, <2>2
  <2>5. QED
    BY <2>3, <2>4
<1>3. Cardinality(S) \in Nat /\ \E f : Rec(f, Cardinality(S))
  <2> HIDE DEF D, Rec, Bad
  <2> QED BY <1>0, <1>1, <1>2
<1>4. D(Cardinality(S)) = SUBSET S
  <2>1. \A s \in SUBSET S : Cardinality(s) <= Cardinality(S)
    BY FS_Subset
  <2>2. QED
    BY <2>1
<1>5. \E f : IsIter(w, S, f)
  BY <1>3, <1>4 DEF IsIter
<1>6. QED
  BY <1>5 DEF Iter

LEMMA SumIsIter ==
  ASSUME NEW w, NEW S
  PROVE  SumFunctionOnSet(w, S) = Iter(w, S)[S]
BY DEF SumFunctionOnSet, FoldFunctionOnSet, MapThenFoldSet, Iter, IsIter, Chosen

LEMMA IterStep ==
  ASSUME NEW w, NEW S, IsFiniteSet(S), NEW s \in SUBSET S
  PROVE  Iter(w, S)[s] = IF s = {} THEN 0 ELSE w[Chosen(s)] + Iter(w, S)[s \ {Chosen(s)}]
<1> DEFINE f == Iter(w, S)
<1>1. IsIter(w, S, f)
  BY IterExists
<1>2. f[s] = IF s = {} THEN 0 ELSE w[Chosen(s)] + f[s \ {Chosen(s)}]
  <2> HIDE DEF f
  <2> QED BY <1>1 DEF IsIter
<1>3. QED
  BY <1>2

LEMMA IterAgrees ==
  ASSUME NEW w, NEW S, IsFiniteSet(S), NEW R \in SUBSET S
  PROVE  Iter(w, S)[R] = Iter(w, R)[R]
<1>0. IsFiniteSet(R)
  BY FS_Subset
<1> DEFINE Bad == {Cardinality(s) : s \in {r \in SUBSET R : Iter(w, S)[r] # Iter(w, R)[r]}}
<1>1. \A s \in SUBSET R : IsFiniteSet(s) /\ Cardinality(s) \in Nat
  BY <1>0, FS_Subset, FS_CardinalityType
<1>2. Bad \in SUBSET Nat
  BY <1>1
<1>3. SUFFICES ASSUME Bad # {} PROVE FALSE
  OBVIOUS
<1>4. PICK m \in Bad : \A k \in Bad : m <= k
  BY <1>2, <1>3, LeastOf
<1>5. PICK s \in SUBSET R : Iter(w, S)[s] # Iter(w, R)[s] /\ Cardinality(s) = m
  OBVIOUS
<1> HIDE DEF Bad
<1>6. s # {} /\ Iter(w, S)[s \ {Chosen(s)}] # Iter(w, R)[s \ {Chosen(s)}]
  <2>1. /\ Iter(w, S)[s] = IF s = {} THEN 0 ELSE w[Chosen(s)] + Iter(w, S)[s \ {Chosen(s)}]
        /\ Iter(w, R)[s] = IF s = {} THEN 0 ELSE w[Chosen(s)] + Iter(w, R)[s \ {Chosen(s)}]
    <3>1. s \in SUBSET S
      OBVIOUS
    <3>2. Iter(w, S)[s] = IF s = {} THEN 0 ELSE w[Chosen(s)] + Iter(w, S)[s \ {Chosen(s)}]
      BY <3>1, IterStep
    <3>3. Iter(w, R)[s] = IF s = {} THEN 0 ELSE w[Chosen(s)] + Iter(w, R)[s \ {Chosen(s)}]
      BY <1>0, IterStep
    <3>4. QED
      BY <3>2, <3>3
  <2>2. QED
    BY <2>1, <1>5
<1>7. Chosen(s) \in s
  BY <1>6 DEF Chosen
<1>8. Cardinality(s \ {Chosen(s)}) = m - 1 /\ m \in Nat
  BY <1>1, <1>5, <1>7, FS_RemoveElement
<1>9. Cardinality(s \ {Chosen(s)}) \in Bad
  BY <1>6 DEF Bad
<1>10. QED
  BY <1>4, <1>8, <1>9

\* A sum, by the element it takes first.
LEMMA SumFirst ==
  ASSUME NEW w, NEW S, IsFiniteSet(S)
  PROVE  /\ S = {} => SumFunctionOnSet(w, S) = 0
         /\ S # {} => /\ Chosen(S) \in S
                      /\ SumFunctionOnSet(w, S) =
                           w[Chosen(S)] + SumFunctionOnSet(w, S \ {Chosen(S)})
<1>1. SumFunctionOnSet(w, S) = IF S = {} THEN 0 ELSE w[Chosen(S)] + Iter(w, S)[S \ {Chosen(S)}]
  BY SumIsIter, IterStep
<1>2. Iter(w, S)[S \ {Chosen(S)}] = SumFunctionOnSet(w, S \ {Chosen(S)})
  BY SumIsIter, IterAgrees
<1>3. S # {} => Chosen(S) \in S
  BY DEF Chosen
<1>4. QED
  BY <1>1, <1>2, <1>3

LEMMA SumRemove ==
  ASSUME NEW S, IsFiniteSet(S), NEW w \in [S -> Int]
  PROVE  /\ SumFunctionOnSet(w, {}) = 0
         /\ \A T \in SUBSET S : SumFunctionOnSet(w, T) \in Int
         /\ \A T \in SUBSET S, x \in S : x \notin T =>
              SumFunctionOnSet(w, T \cup {x}) = SumFunctionOnSet(w, T) + w[x]
<1> DEFINE Sum(T) == SumFunctionOnSet(w, T)
<1>1. \A T \in SUBSET S : IsFiniteSet(T)
  BY FS_Subset
<1>2. Sum({}) = 0
  BY <1>1, SumFirst
<1>3. \A T \in SUBSET S : T # {} => Chosen(T) \in T /\ Sum(T) = w[Chosen(T)] + Sum(T \ {Chosen(T)})
  BY <1>1, SumFirst
<1> HIDE DEF Sum
<1> DEFINE Good == {T \in SUBSET S : /\ Sum(T) \in Int
                                     /\ \A x \in T : Sum(T) = Sum(T \ {x}) + w[x]
                                     /\ \A x \in T : Sum(T \ {x}) \in Int}
           Bad == {Cardinality(T) : T \in {R \in SUBSET S : R \notin Good}}
<1>4. Bad = {}
  <2>1. SUFFICES ASSUME Bad # {} PROVE FALSE
    OBVIOUS
  <2>2. \A T \in SUBSET S : Cardinality(T) \in Nat
    BY <1>1, FS_CardinalityType
  <2>3. Bad \in SUBSET Nat
    BY <2>2
  <2>4. PICK m \in Bad : \A k \in Bad : m <= k
    BY <2>1, <2>3, LeastOf
  <2>5. PICK T \in SUBSET S : T \notin Good /\ Cardinality(T) = m
    OBVIOUS
  <2>6. \A x \in T : T \ {x} \in Good
    <3> SUFFICES ASSUME NEW x \in T, T \ {x} \notin Good PROVE FALSE
      OBVIOUS
    <3>1. Cardinality(T \ {x}) = m - 1 /\ m \in Nat
      BY <1>1, <2>2, <2>5, FS_RemoveElement
    <3>2. Cardinality(T \ {x}) \in Bad
      OBVIOUS
    <3> HIDE DEF Bad
    <3>3. QED
      BY <2>4, <3>1, <3>2
  <2>7. T # {}
    <3>1. {} \in Good
      BY <1>2
    <3> HIDE DEF Good, Bad
    <3>2. QED
      BY <2>5, <3>1
  <2> DEFINE c == Chosen(T)
  <2>8. c \in T /\ Sum(T) = w[c] + Sum(T \ {c})
    BY <1>3, <2>7
  <2> HIDE DEF c
  <2>9. \A x \in T : w[x] \in Int /\ Sum(T \ {x}) \in Int
    BY <2>6
  <2>10. Sum(T) \in Int
    BY <2>8, <2>9
  <2>11. \A x \in T : Sum(T) = Sum(T \ {x}) + w[x]
    <3> TAKE x \in T
    <3>1. CASE x = c
      BY <3>1, <2>8, <2>9
    <3>2. CASE x # c
      <4>1. (T \ {c}) \ {x} = (T \ {x}) \ {c} /\ x \in T \ {c} /\ c \in T \ {x}
        BY <3>2, <2>8
      <4>2. /\ Sum(T \ {c}) = Sum((T \ {c}) \ {x}) + w[x] /\ Sum((T \ {c}) \ {x}) \in Int
            /\ Sum(T \ {x}) = Sum((T \ {x}) \ {c}) + w[c]
        BY <4>1, <2>6, <2>8
      <4> DEFINE a == Sum((T \ {c}) \ {x})
      <4>3. Sum(T \ {c}) = a + w[x] /\ Sum(T \ {x}) = a + w[c] /\ a \in Int
        BY <4>1, <4>2
      <4> HIDE DEF a, Good, Bad
      <4>4. w[x] \in Int /\ w[c] \in Int
        BY <2>8
      <4>5. QED
        BY <4>3, <4>4, <2>8
    <3>3. QED
      BY <3>1, <3>2
  <2>12. QED
    BY <2>5, <2>9, <2>10, <2>11
<1>5. \A T \in SUBSET S : T \in Good
  BY <1>4
<1>6. \A T \in SUBSET S, x \in S : x \notin T => Sum(T \cup {x}) = Sum(T) + w[x]
  <2> SUFFICES ASSUME NEW T \in SUBSET S, NEW x \in S, x \notin T
               PROVE  Sum(T \cup {x}) = Sum(T) + w[x]
    OBVIOUS
  <2>1. T \cup {x} \in Good /\ (T \cup {x}) \ {x} = T
    BY <1>5
  <2>2. QED
    BY <2>1
<1>7. QED
  BY <1>2, <1>5, <1>6 DEF Sum

LEMMA SumAdd ==
  ASSUME NEW S, IsFiniteSet(S), NEW w \in [S -> Int], NEW T \in SUBSET S, NEW x \in S, x \notin T
  PROVE  SumFunctionOnSet(w, T \cup {x}) = SumFunctionOnSet(w, T) + w[x]
BY SumRemove

LEMMA SumOfNats ==
  ASSUME NEW S, IsFiniteSet(S), NEW w \in [S -> Nat], NEW T \in SUBSET S
  PROVE  /\ SumFunctionOnSet(w, T) \in Nat
         /\ SumFunctionOnSet(w, T) <= SumFunctionOnSet(w, S)
<1>0. w \in [S -> Int]
  OBVIOUS
<1> DEFINE G == {R \in SUBSET S : SumFunctionOnSet(w, R) \in Nat}
<1>1. {} \in G
  BY <1>0, SumRemove
<1>2. \A R \in SUBSET S, x \in S : R \in G /\ x \notin R => R \cup {x} \in G
  <2> SUFFICES ASSUME NEW R \in SUBSET S, NEW x \in S, R \in G, x \notin R
               PROVE  R \cup {x} \in G
    OBVIOUS
  <2>1. SumFunctionOnSet(w, R \cup {x}) = SumFunctionOnSet(w, R) + w[x]
    BY <1>0, SumRemove
  <2>2. SumFunctionOnSet(w, R) \in Nat /\ w[x] \in Nat
    OBVIOUS
  <2>3. QED
    BY <2>1, <2>2
<1>3. \A R \in SUBSET S : R \in G
  <2> HIDE DEF G
  <2> QED BY <1>1, <1>2, SubsetInduction
<1> DEFINE H == {R \in SUBSET S : SumFunctionOnSet(w, T) <= SumFunctionOnSet(w, T \cup R)}
<1>4. {} \in H
  <2>1. T \cup {} = T
    OBVIOUS
  <2>2. QED
    BY <1>3, <2>1
<1>5. \A R \in SUBSET S, x \in S : R \in H /\ x \notin R => R \cup {x} \in H
  <2> SUFFICES ASSUME NEW R \in SUBSET S, NEW x \in S, R \in H, x \notin R
               PROVE  R \cup {x} \in H
    OBVIOUS
  <2>1. CASE x \in T
    <3>1. T \cup (R \cup {x}) = T \cup R
      BY <2>1
    <3>2. QED
      BY <3>1
  <2>2. CASE x \notin T
    <3>1. T \cup (R \cup {x}) = (T \cup R) \cup {x} /\ x \notin T \cup R /\ T \cup R \in SUBSET S
      BY <2>2
    <3>2. SumFunctionOnSet(w, T \cup (R \cup {x})) = SumFunctionOnSet(w, T \cup R) + w[x]
      <4> HIDE DEF H, G
      <4>1. SumFunctionOnSet(w, (T \cup R) \cup {x}) = SumFunctionOnSet(w, T \cup R) + w[x]
        <5> DEFINE U == T \cup R
        <5>1. U \in SUBSET S /\ x \notin U
          BY <3>1
        <5> HIDE DEF U
        <5>2. SumFunctionOnSet(w, U \cup {x}) = SumFunctionOnSet(w, U) + w[x]
          BY <1>0, <5>1, SumAdd
        <5>3. QED
          BY <5>2 DEF U
      <4>2. QED
        BY <3>1, <4>1
    <3>3. /\ SumFunctionOnSet(w, T \cup R) \in Nat /\ SumFunctionOnSet(w, T) \in Nat /\ w[x] \in Nat
          /\ SumFunctionOnSet(w, T) <= SumFunctionOnSet(w, T \cup R)
      BY <1>3, <3>1
    <3>4. QED
      BY <3>2, <3>3
  <2>3. QED
    BY <2>1, <2>2
<1>6. \A R \in SUBSET S : R \in H
  <2> HIDE DEF H
  <2> QED BY <1>4, <1>5, SubsetInduction
<1>7. T \cup S = S
  OBVIOUS
<1>8. QED
  BY <1>3, <1>6, <1>7

LEMMA SumAgrees ==
  ASSUME NEW S, IsFiniteSet(S), NEW R, IsFiniteSet(R), NEW w \in [S -> Int], NEW v \in [R -> Int],
         NEW T \in SUBSET (S \cap R), \A x \in T : w[x] = v[x]
  PROVE  SumFunctionOnSet(w, T) = SumFunctionOnSet(v, T)
<1> DEFINE G == {Q \in SUBSET T : SumFunctionOnSet(w, Q) = SumFunctionOnSet(v, Q)}
<1>1. {} \in G
  BY SumRemove
<1>2. \A Q \in SUBSET T, x \in T : Q \in G /\ x \notin Q => Q \cup {x} \in G
  <2> SUFFICES ASSUME NEW Q \in SUBSET T, NEW x \in T, Q \in G, x \notin Q
               PROVE  Q \cup {x} \in G
    OBVIOUS
  <2>1. Q \in SUBSET S /\ x \in S /\ Q \in SUBSET R /\ x \in R
    OBVIOUS
  <2>2. SumFunctionOnSet(w, Q \cup {x}) = SumFunctionOnSet(w, Q) + w[x]
    BY <2>1, SumRemove
  <2>3. SumFunctionOnSet(v, Q \cup {x}) = SumFunctionOnSet(v, Q) + v[x]
    BY <2>1, SumRemove
  <2>4. QED
    BY <2>2, <2>3
<1>3. IsFiniteSet(T)
  <2>1. T \in SUBSET S
    OBVIOUS
  <2>2. QED
    BY <2>1, FS_Subset
<1>4. \A Q \in SUBSET T : Q \in G
  <2> HIDE DEF G
  <2> QED BY <1>1, <1>2, <1>3, SubsetInduction
<1>5. QED
  BY <1>4

LEMMA SumChanged ==
  ASSUME NEW S, IsFiniteSet(S), NEW w \in [S -> Int], NEW v \in [S -> Int], NEW x \in S,
         \A y \in S \ {x} : v[y] = w[y]
  PROVE  SumFunctionOnSet(v, S) = SumFunctionOnSet(w, S) - w[x] + v[x]
<1> DEFINE R == S \ {x}
<1>1. R \in SUBSET S /\ x \notin R /\ S = R \cup {x} /\ R \in SUBSET (S \cap S)
  OBVIOUS
<1>2. \A y \in R : w[y] = v[y]
  OBVIOUS
<1> HIDE DEF R
<1>3. SumFunctionOnSet(w, S) = SumFunctionOnSet(w, R) + w[x]
  BY <1>1, SumAdd
<1>4. SumFunctionOnSet(v, S) = SumFunctionOnSet(v, R) + v[x]
  BY <1>1, <1>2, SumAdd
<1>5. SumFunctionOnSet(w, R) = SumFunctionOnSet(v, R)
  BY <1>1, <1>2, SumAgrees
<1>6. SumFunctionOnSet(w, R) \in Int /\ w[x] \in Int /\ v[x] \in Int
  BY <1>1, SumRemove
<1>7. QED
  BY <1>3, <1>4, <1>5, <1>6

\* What is zero does not count.
LEMMA SumWithout ==
  ASSUME NEW S, IsFiniteSet(S), NEW w \in [S -> Int], NEW T \in SUBSET S,
         \A x \in S \ T : w[x] = 0
  PROVE  SumFunctionOnSet(w, S) = SumFunctionOnSet(w, T)
<1> DEFINE R == S \ T
           G == {Q \in SUBSET R : SumFunctionOnSet(w, T \cup Q) = SumFunctionOnSet(w, T)}
<1>1. {} \in G
  <2>1. T \cup {} = T
    OBVIOUS
  <2>2. QED
    BY <2>1
<1>2. \A Q \in SUBSET R, x \in R : Q \in G /\ x \notin Q => Q \cup {x} \in G
  <2> SUFFICES ASSUME NEW Q \in SUBSET R, NEW x \in R, Q \in G, x \notin Q
               PROVE  SumFunctionOnSet(w, T \cup (Q \cup {x})) = SumFunctionOnSet(w, T)
    OBVIOUS
  <2> DEFINE F == T \cup Q
  <2>1. F \in SUBSET S /\ x \notin F /\ x \in S /\ T \cup (Q \cup {x}) = F \cup {x}
    OBVIOUS
  <2>2. SumFunctionOnSet(w, F) = SumFunctionOnSet(w, T) /\ w[x] = 0
    OBVIOUS
  <2> HIDE DEF F, G, R
  <2>3. SumFunctionOnSet(w, F \cup {x}) = SumFunctionOnSet(w, F) + w[x]
    BY <2>1, SumAdd
  <2>4. SumFunctionOnSet(w, F) \in Int
    BY <2>1, SumRemove
  <2>5. SumFunctionOnSet(w, F \cup {x}) = SumFunctionOnSet(w, T)
    BY <2>2, <2>3, <2>4
  <2>6. QED
    BY <2>1, <2>5
<1>3. IsFiniteSet(R) /\ R \in SUBSET R /\ T \cup R = S
  BY FS_Difference
<1>4. R \in G
  <2> HIDE DEF G, R
  <2>1. \A Q \in SUBSET R : Q \in G
    BY <1>1, <1>2, <1>3, SubsetInduction
  <2>2. QED
    BY <1>3, <2>1
<1>5. QED
  BY <1>3, <1>4

\* The sum over the elements of a sequence without repetitions.
LEMMA SumAlong ==
  ASSUME NEW S, IsFiniteSet(S), NEW w \in [S -> Int], NEW s \in Seq(S), IsInjective(s)
  PROVE  SumFunction([n \in DOMAIN s |-> w[s[n]]]) = SumFunctionOnSet(w, ToSet(s))
<1> DEFINE D == DOMAIN s
           v == [n \in D |-> w[s[n]]]
           Im(Q) == {s[n] : n \in Q}
           G == {Q \in SUBSET D : SumFunctionOnSet(v, Q) = SumFunctionOnSet(w, Im(Q))}
<1>1. D = 1 .. Len(s) /\ Len(s) \in Nat /\ \A n \in D : s[n] \in S
  OBVIOUS
<1>2. IsFiniteSet(D)
  BY <1>1, FS_Interval
<1>3. v \in [D -> Int]
  BY <1>1
<1> HIDE DEF v
<1>4. {} \in G
  <2>1. Im({}) = {}
    OBVIOUS
  <2>2. QED
    BY <1>2, <1>3, <2>1, SumRemove
<1>5. \A Q \in SUBSET D, x \in D : Q \in G /\ x \notin Q => Q \cup {x} \in G
  <2> SUFFICES ASSUME NEW Q \in SUBSET D, NEW x \in D, Q \in G, x \notin Q
               PROVE  Q \cup {x} \in G
    OBVIOUS
  <2>1. SumFunctionOnSet(v, Q \cup {x}) = SumFunctionOnSet(v, Q) + v[x]
    <3> HIDE DEF D, G, Im
    <3> QED BY <1>2, <1>3, SumAdd
  <2>2. Im(Q \cup {x}) = Im(Q) \cup {s[x]}
    OBVIOUS
  <2>3. Im(Q) \in SUBSET S /\ s[x] \in S /\ s[x] \notin Im(Q)
    BY <1>1 DEF IsInjective
  <2>4. SumFunctionOnSet(w, Im(Q)) = SumFunctionOnSet(v, Q)
    OBVIOUS
  <2> DEFINE J == Im(Q)
             y == s[x]
  <2>5. v[x] = w[y]
    BY DEF v
  <2>6. J \in SUBSET S /\ y \in S /\ y \notin J
    BY <2>3
  <2> HIDE DEF J, y
  <2>7. SumFunctionOnSet(w, J \cup {y}) = SumFunctionOnSet(w, J) + w[y]
    BY <2>6, SumAdd
  <2>8. QED
    <3>1. SumFunctionOnSet(w, Im(Q \cup {x})) = SumFunctionOnSet(v, Q \cup {x})
      <4> HIDE DEF D, Im, G
      <4> QED BY <2>1, <2>2, <2>4, <2>5, <2>7 DEF J, y
    <3>2. QED
      BY <3>1
<1>6. \A Q \in SUBSET D : Q \in G
  <2> HIDE DEF G, D
  <2> QED BY <1>2, <1>4, <1>5, SubsetInduction
<1>7. SumFunctionOnSet(v, D) = SumFunctionOnSet(w, Im(D))
  BY <1>6
<1>8. Im(D) = ToSet(s)
  BY DEF ToSet
<1>9. DOMAIN v = D
  BY DEF v
<1>10. SumFunction(v) = SumFunctionOnSet(v, D)
  BY <1>9 DEF SumFunction, SumFunctionOnSet
<1>11. QED
  BY <1>7, <1>8, <1>10 DEF v

-------------------------------------------------------------------------------
(* Ranks. *)

StrictlyOrders(R, S) ==
  /\ \A x \in S : <<x, x>> \notin R
  /\ \A x, y, z \in S : <<x, y>> \in R /\ <<y, z>> \in R => <<x, z>> \in R
  /\ \A x, y \in S : x # y => <<x, y>> \in R \/ <<y, x>> \in R

Lower(R, S, x) == {y \in S : <<y, x>> \in R}

\* In a finite set with a strict total order every rank is taken.
LEMMA OrderRank ==
  ASSUME NEW S, IsFiniteSet(S), NEW R, StrictlyOrders(R, S), NEW m \in 1 .. Cardinality(S)
  PROVE  \E x \in S : Cardinality(Lower(R, S, x)) = m - 1
<1>0. PICK n : n = Cardinality(S)
  OBVIOUS
<1> DEFINE Less(x) == Lower(R, S, x)
           rank == [x \in S |-> Cardinality(Less(x))]
<1>1. n \in Nat /\ m \in 1 .. n
  BY <1>0, FS_CardinalityType
<1>2. IsFiniteSet(0 .. n - 1) /\ Cardinality(0 .. n - 1) = n
  BY <1>1, FS_Interval
<1>3. \A x \in S : x \notin Less(x) /\ Less(x) \in SUBSET S
  BY DEF StrictlyOrders, Lower
<1>4. \A x, y \in S : y \in Less(x) <=> <<y, x>> \in R
  BY DEF Lower
<1> HIDE DEF Less
<1>5. ASSUME NEW x \in S
      PROVE  /\ IsFiniteSet(Less(x)) /\ Cardinality(Less(x)) \in Nat
             /\ Cardinality(Less(x)) < n
  <2>1. /\ IsFiniteSet(Less(x)) /\ Cardinality(Less(x)) <= n
        /\ n = Cardinality(Less(x)) => S = Less(x)
    BY <1>0, <1>3, FS_Subset
  <2>2. Cardinality(Less(x)) \in Nat
    BY <2>1, FS_CardinalityType
  <2>3. QED
    BY <1>1, <1>3, <2>1, <2>2
<1>6. ASSUME NEW x \in S, NEW y \in S, <<x, y>> \in R
      PROVE  Cardinality(Less(x)) < Cardinality(Less(y))
  <2>1. x \in Less(y) /\ x \notin Less(x)
    BY <1>3, <1>4, <1>6
  <2>2. Less(x) \in SUBSET Less(y)
    BY <1>3, <1>4, <1>6 DEF StrictlyOrders
  <2>3. /\ Cardinality(Less(x)) <= Cardinality(Less(y))
        /\ Cardinality(Less(x)) = Cardinality(Less(y)) => Less(x) = Less(y)
    BY <1>5, <2>2, FS_Subset
  <2>4. QED
    BY <1>5, <2>1, <2>3
<1>7. rank \in Injection(S, 0 .. n - 1)
  <2>1. rank \in [S -> 0 .. n - 1]
    BY <1>1, <1>5
  <2>2. ASSUME NEW x \in S, NEW y \in S, rank[x] = rank[y] PROVE x = y
    <3>1. Cardinality(Less(x)) = Cardinality(Less(y)) /\ Cardinality(Less(x)) \in Nat
      BY <1>5, <2>2
    <3>2. <<x, y>> \notin R /\ <<y, x>> \notin R
      BY <1>6, <3>1
    <3>3. QED
      BY <3>2 DEF StrictlyOrders
  <2>3. QED
    BY <2>1, <2>2 DEF Injection, IsInjective
<1>8. rank \in Surjection(S, 0 .. n - 1)
  BY <1>0, <1>2, <1>7, FS_Injection
<1>9. m - 1 \in 0 .. n - 1
  BY <1>1
<1>10. PICK x \in S : rank[x] = m - 1
  BY <1>8, <1>9 DEF Surjection
<1>11. QED
  BY <1>10 DEF Less

-------------------------------------------------------------------------------
(* Recursion over 0 .. N. *)

StepsBy(t, N, base, step) ==
  t[0] = base /\ \A n \in 1 .. N : t[n] = step[<<n, t[n - 1]>>]

\* A function given by its first value and by a step exists.
LEMMA Recursion ==
  ASSUME NEW N \in Nat, NEW S, NEW base \in S, NEW step \in [(1 .. N) \X S -> S]
  PROVE  \E t \in [0 .. N -> S] : StepsBy(t, N, base, step)
<1> DEFINE Upto(m, t) == /\ t \in [0 .. m -> S] /\ t[0] = base
                         /\ \A n \in 1 .. m : t[n] = step[<<n, t[n - 1]>>]
           Bad == {m \in 0 .. N : ~(\E t : Upto(m, t))}
<1>1. Bad = {}
  <2>1. SUFFICES ASSUME Bad # {} PROVE FALSE
    OBVIOUS
  <2>2. Bad \in SUBSET Nat
    OBVIOUS
  <2>3. PICK m \in Bad : \A k \in Bad : m <= k
    BY <2>1, <2>2, LeastOf
  <2>4. \E t : Upto(0, t)
    <3> DEFINE t0 == [n \in 0 .. 0 |-> base]
    <3>1. t0[0] = base /\ t0 \in [0 .. 0 -> S] /\ \A n \in 1 .. 0 : t0[n] = step[<<n, t0[n - 1]>>]
      OBVIOUS
    <3> HIDE DEF t0
    <3>2. Upto(0, t0)
      BY <3>1
    <3> HIDE DEF Upto
    <3>3. QED
      BY <3>2
  <2>5. m \in 1 .. N
    <3>1. m \in 0 .. N
      OBVIOUS
    <3>2. m # 0
      <4> HIDE DEF Upto
      <4>1. QED
        BY <2>4
    <3>3. QED
      BY <3>1, <3>2
  <2>6. m - 1 \in 0 .. N /\ m - 1 \notin Bad
    BY <2>3, <2>5
  <2>7. PICK t : Upto(m - 1, t)
    BY <2>6
  <2> DEFINE u == [n \in 0 .. m |-> IF n = m THEN step[<<m, t[m - 1]>>] ELSE t[n]]
  <2>8. t[m - 1] \in S /\ step[<<m, t[m - 1]>>] \in S
    BY <2>5, <2>7
  <2>9. u \in [0 .. m -> S]
    BY <2>5, <2>7, <2>8
  <2>10. u[0] = base
    BY <2>5, <2>7
  <2>11. ASSUME NEW n \in 1 .. m PROVE u[n] = step[<<n, u[n - 1]>>]
    <3>0. n \in 0 .. m /\ n - 1 \in 0 .. m /\ n - 1 # m /\ u[n - 1] = t[n - 1]
      BY <2>5
    <3>1. CASE n = m
      BY <3>0, <3>1
    <3>2. CASE n # m
      <4>1. n \in 1 .. m - 1 /\ u[n] = t[n]
        BY <3>0, <3>2, <2>5
      <4>2. t[n] = step[<<n, t[n - 1]>>]
        BY <4>1, <2>7
      <4>3. QED
        BY <3>0, <4>1, <4>2
    <3>3. QED
      BY <3>1, <3>2
  <2>12. Upto(m, u)
    BY <2>9, <2>10, <2>11
  <2>13. QED
    BY <2>3, <2>12
<1>2. PICK t : Upto(N, t)
  <2>1. N \in 0 .. N
    OBVIOUS
  <2>2. QED
    BY <1>1, <2>1
<1>3. QED
  BY <1>2 DEF StepsBy

=============================================================================
