------------------------------ MODULE LexerProofs ------------------------------
(* For any rules, any inputs and any calls: the machine stays in the code it *)
(* runs, line and column are those of the position, and the lists of threads *)
(* are bounded by the code.                                                  *)
EXTENDS Lexer, SeqLemmas, FiniteSetTheorems

-------------------------------------------------------------------------------
(* Sorting. *)

SortedBefore(rules, j, k) ==
  \/ rules[j].priority > rules[k].priority
  \/ rules[j].priority = rules[k].priority /\ j < k

\* Every rule has a rank of its own, so that every rank has a rule.
LEMMA RankTaken ==
  ASSUME NEW n \in Nat, NEW rules,
         \A k \in 1 .. n : rules[k].priority \in Int,
         NEW m \in 1 .. n
  PROVE  \E k \in 1 .. n :
           Cardinality({j \in 1 .. n : SortedBefore(rules, j, k)}) = m - 1
<1> DEFINE D == 1 .. n
           R == {p \in D \X D : SortedBefore(rules, p[1], p[2])}
<1>1. IsFiniteSet(D) /\ Cardinality(D) = n
  <2>1. 1 \in Int /\ n \in Int /\ (1 > n <=> n = 0) /\ n - 1 + 1 = n
    OBVIOUS
  <2>2. QED
    BY <2>1, FS_Interval
<1>2. \A j, k \in D : <<j, k>> \in R <=> SortedBefore(rules, j, k)
  OBVIOUS
<1>3. /\ \A k \in D : ~SortedBefore(rules, k, k)
      /\ \A i, j, k \in D : SortedBefore(rules, i, j) /\ SortedBefore(rules, j, k)
                              => SortedBefore(rules, i, k)
      /\ \A j, k \in D : j # k => SortedBefore(rules, j, k) \/ SortedBefore(rules, k, j)
  BY DEF SortedBefore
<1>4. StrictlyOrders(R, D) /\ m \in 1 .. Cardinality(D)
  BY <1>1, <1>2, <1>3 DEF StrictlyOrders
<1>5. \A k \in D : Lower(R, D, k) = {j \in D : SortedBefore(rules, j, k)}
  BY <1>2 DEF Lower
<1> HIDE DEF D, R
<1>6. \E k \in D : Cardinality(Lower(R, D, k)) = m - 1
  BY <1>1, <1>4, OrderRank
<1>7. QED
  BY <1>5, <1>6 DEF D

\* So the sorted list is made of the rules there are.
LEMMA SortedFrom ==
  ASSUME NEW S, NEW rules \in Seq(S), \A k \in DOMAIN rules : rules[k].priority \in Int
  PROVE  /\ DOMAIN SortProgSet(rules) = DOMAIN rules
         /\ \A n \in DOMAIN rules : \E k \in DOMAIN rules : SortProgSet(rules)[n] = rules[k]
<1> DEFINE At(n) == CHOOSE k \in DOMAIN rules :
              Cardinality({j \in DOMAIN rules : SortedBefore(rules, j, k)}) = n - 1
<1>1. DOMAIN rules = 1 .. Len(rules) /\ Len(rules) \in Nat
  OBVIOUS
<1>2. \A n \in DOMAIN rules : At(n) \in DOMAIN rules
  <2> SUFFICES ASSUME NEW n \in DOMAIN rules PROVE At(n) \in DOMAIN rules
    OBVIOUS
  <2>1. \E k \in DOMAIN rules :
          Cardinality({j \in DOMAIN rules : SortedBefore(rules, j, k)}) = n - 1
    BY <1>1, RankTaken
  <2>2. QED
    BY <2>1
<1>3. SortProgSet(rules) = [n \in DOMAIN rules |-> rules[At(n)]]
  BY DEF SortProgSet, SortedBefore
<1>4. QED
  BY <1>2, <1>3

-------------------------------------------------------------------------------
(* Places. *)

\* Line and column are those of the position, and a line feed that is to end the
\* line of the return before it is there.
AtPlace(text, i, l, c, act) ==
  /\ l \in Nat /\ c \in Nat /\ act \in BOOLEAN
  /\ <<l, c>> = Place(text, i)
  /\ act => CharAt(text, i) = "LF"

LEMMA MaxIs ==
  ASSUME NEW S \in SUBSET Int, NEW m \in S, \A k \in S : k <= m
  PROVE  Max(S) = m
<1>1. \A x \in S : (\A y \in S : x >= y) => x = m
  OBVIOUS
<1>2. \A y \in S : m >= y
  OBVIOUS
<1>3. QED
  BY <1>1, <1>2 DEF Max

LEMMA FirstPlace ==
  ASSUME NEW text
  PROVE  AtPlace(text, 1, 0, 0, FALSE)
<1>1. {k \in 1 .. 1 - 1 : EndsLine(text, k)} = {}
  OBVIOUS
<1>2. Max({} \cup {0}) = 0
  BY MaxIs
<1>3. Place(text, 1) = <<Cardinality({}), 1 - 1 - Max({} \cup {0})>>
  BY <1>1 DEF Place
<1>4. Place(text, 1) = <<0, 0>>
  BY <1>2, <1>3, FS_EmptySet
<1>5. QED
  BY <1>4 DEF AtPlace

LEMMA NextPlace ==
  ASSUME NEW text, NEW i \in Nat \ {0}, NEW l \in Nat, NEW c \in Nat,
         <<l, c>> = Place(text, i)
  PROVE  Place(text, i + 1) = IF EndsLine(text, i) THEN <<l + 1, 0>> ELSE <<l, c + 1>>
<1> DEFINE ends(n) == {k \in 1 .. n - 1 : EndsLine(text, k)}
<1>1. /\ Place(text, i) = <<Cardinality(ends(i)), i - 1 - Max(ends(i) \cup {0})>>
      /\ Place(text, i + 1) = <<Cardinality(ends(i + 1)), (i + 1) - 1 - Max(ends(i + 1) \cup {0})>>
  <2>1. Place(text, i) = <<Cardinality(ends(i)), i - 1 - Max(ends(i) \cup {0})>>
    BY Zenon DEF Place
  <2>2. Place(text, i + 1) = <<Cardinality(ends(i + 1)), (i + 1) - 1 - Max(ends(i + 1) \cup {0})>>
    BY Zenon DEF Place
  <2>3. QED
    BY Zenon, <2>1, <2>2
<1> HIDE DEF ends
<1>2. l = Cardinality(ends(i)) /\ c = i - 1 - Max(ends(i) \cup {0})
  BY <1>1
<1> USE DEF ends
<1>3. ends(i) \in SUBSET (1 .. i - 1) /\ i \notin ends(i) /\ IsFiniteSet(ends(i))
  <2>1. ends(i) \in SUBSET (1 .. i - 1) /\ i \notin ends(i)
    OBVIOUS
  <2>2. IsFiniteSet(1 .. i - 1)
    BY FS_Interval
  <2>3. QED
    BY <2>1, <2>2, FS_Subset
<1>4. ends(i + 1) = IF EndsLine(text, i) THEN ends(i) \cup {i} ELSE ends(i)
  <2>1. 1 .. (i + 1) - 1 = (1 .. i - 1) \cup {i}
    OBVIOUS
  <2>2. QED
    BY <2>1
<1> HIDE DEF ends
<1>5. CASE EndsLine(text, i)
  <2>1. Cardinality(ends(i) \cup {i}) = l + 1
    BY <1>2, <1>3, FS_AddElement
  <2>2. Max((ends(i) \cup {i}) \cup {0}) = i
    <3>1. /\ (ends(i) \cup {i}) \cup {0} \in SUBSET Int
          /\ \A k \in (ends(i) \cup {i}) \cup {0} : k <= i
      BY <1>3
    <3>2. QED
      BY <3>1, MaxIs
  <2>3. Place(text, i + 1) = <<l + 1, (i + 1) - 1 - i>>
    <3>1. ends(i + 1) = ends(i) \cup {i}
      BY <1>4, <1>5
    <3>2. QED
      BY <1>1, <2>1, <2>2, <3>1
  <2>4. QED
    BY <2>3, <1>5
<1>6. CASE ~EndsLine(text, i)
  <2>1. ends(i + 1) = ends(i)
    BY <1>4, <1>6
  <2>2. (i + 1) - 1 - Max(ends(i) \cup {0}) = c + 1
    <3> DEFINE m == Max(ends(i) \cup {0})
    <3>1. m \in Int
      <4>1. CASE ends(i) = {}
        <5>1. ends(i) \cup {0} = {0}
          BY <4>1
        <5>2. QED
          BY <5>1, MaxIs
      <4>2. CASE ends(i) # {}
        <5>1. i \in Nat /\ ends(i) \in SUBSET (1 .. i)
          BY <1>3
        <5>2. Max(ends(i)) \in ends(i)
          BY <4>2, <5>1, MaxIn
        <5>3. \A k \in ends(i) : k <= Max(ends(i))
          BY <5>1, <4>2, MaxIn
        <5>4. /\ ends(i) \cup {0} \in SUBSET Int
              /\ \A k \in ends(i) \cup {0} : k <= Max(ends(i))
          BY <5>1, <5>2, <5>3
        <5>5. m = Max(ends(i))
          BY <5>2, <5>4, MaxIs
        <5>6. QED
          BY <5>5, <5>2, <5>1
      <4>3. QED
        BY <4>1, <4>2
    <3> HIDE DEF m
    <3>2. c = i - 1 - m
      BY <1>2 DEF m
    <3>3. (i + 1) - 1 - m = c + 1
      BY <3>1, <3>2
    <3>4. QED
      BY <3>3 DEF m
  <2>3. QED
    BY <1>1, <1>2, <1>6, <2>1, <2>2
<1>7. QED
  BY <1>5, <1>6

\* The next place: behind the end of a line, behind the return of a return and
\* line feed, or behind another character.
LEMMA Advance ==
  ASSUME NEW text, NEW i \in Nat \ {0}, NEW l, NEW c, NEW act,
         AtPlace(text, i, l, c, act),
         NEW l2, NEW c2, NEW act2 \in BOOLEAN,
         IF EndsLine(text, i) THEN l2 = l + 1 /\ c2 = 0 /\ ~act2
         ELSE l2 = l /\ c2 = c + 1 /\ (act2 => CharAt(text, i) = "CR")
  PROVE  AtPlace(text, i + 1, l2, c2, act2)
<1>1. l \in Nat /\ c \in Nat /\ <<l, c>> = Place(text, i)
  BY DEF AtPlace
<1>2. Place(text, i + 1) = IF EndsLine(text, i) THEN <<l + 1, 0>> ELSE <<l, c + 1>>
  BY <1>1, NextPlace
<1>3. <<l2, c2>> = Place(text, i + 1) /\ l2 \in Nat /\ c2 \in Nat
  BY <1>1, <1>2
<1>4. act2 => CharAt(text, i + 1) = "LF"
  BY DEF EndsLine
<1>5. QED
  BY <1>3, <1>4 DEF AtPlace

\* __check_is_newline counts as the positions do.
LEMMA NewlineCounted ==
  ASSUME NEW t, t.sp \in Nat \ {0}, AtPlace(input, t.sp, t.line, t.col, t.act),
         {"line", "col", "act", "sp"} \subseteq DOMAIN t
  PROVE  LET u == CheckIsNewline(t)
         IN AtPlace(input, t.sp + 1, u.line, u.col, u.act)
<1> DEFINE c == CharAt(input, t.sp)
           u == CheckIsNewline(t)
<1>1. t.act => c = "LF"
  BY DEF AtPlace
<1>2. t.act \in BOOLEAN
  BY DEF AtPlace
<1>3. CASE ~IsLineTerminator(c)
  <2>1. u = [t EXCEPT !.col = @ + 1]
    BY <1>3 DEF CheckIsNewline, IsLineTerminator
  <2>2. u.line = t.line /\ u.col = t.col + 1 /\ u.act = t.act
    BY <2>1
  <2>3. ~EndsLine(input, t.sp) /\ ~t.act
    BY <1>1, <1>3 DEF EndsLine, IsLineTerminator
  <2>4. QED
    BY <1>2, <2>2, <2>3, Advance
<1>4. CASE c = "CR" /\ CharAt(input, t.sp + 1) = "LF"
  <2>1. u = [t EXCEPT !.col = @ + 1, !.act = TRUE]
    BY <1>1, <1>2, <1>4 DEF CheckIsNewline, IsLineTerminator
  <2>2. u.line = t.line /\ u.col = t.col + 1 /\ u.act = TRUE
    BY <2>1
  <2>3. ~EndsLine(input, t.sp)
    BY <1>4 DEF EndsLine
  <2>4. QED
    BY <1>4, <2>2, <2>3, Advance
<1>5. CASE IsLineTerminator(c) /\ ~(c = "CR" /\ CharAt(input, t.sp + 1) = "LF")
  <2>1. u.line = t.line + 1 /\ u.col = 0 /\ u.act = FALSE
    <3>1. CASE t.act
      <4>1. u = [t EXCEPT !.line = @ + 1, !.col = 0, !.act = FALSE]
        BY <3>1, <1>1, <1>5 DEF CheckIsNewline
      <4>2. QED
        BY <4>1
    <3>2. CASE ~t.act
      <4>1. u = [t EXCEPT !.line = @ + 1, !.col = 0]
        BY <3>2, <1>5 DEF CheckIsNewline
      <4>2. QED
        BY <4>1, <3>2, <1>2
    <3>3. QED
      BY <3>1, <3>2
  <2>2. EndsLine(input, t.sp)
    BY <1>5 DEF EndsLine, IsLineTerminator
  <2>3. QED
    BY <2>1, <2>2, Advance
<1>6. QED
  BY <1>3, <1>4, <1>5

\* So does Lex_SkipN, character by character.
AllPlaces == [next : Nat, line : Nat, col : Nat, act : BOOLEAN]
PlaceOK(p) == AtPlace(input, p.next, p.line, p.col, p.act)

LEMMA SkipOneCounted ==
  ASSUME NEW p \in AllPlaces, p.next # 0, PlaceOK(p)
  PROVE  SkipOne(p) \in AllPlaces /\ SkipOne(p).next = p.next + 1 /\ PlaceOK(SkipOne(p))
<1> DEFINE c == CharAt(input, p.next)
           q == SkipOne(p)
<1>1. p.act => c = "LF"
  BY DEF PlaceOK, AtPlace
<1>2. CASE IsLineTerminator(c) /\ ~(c = "CR" /\ CharAt(input, p.next + 1) = "LF")
  <2>1. q = [next |-> p.next + 1, line |-> p.line + 1, col |-> 0, act |-> FALSE]
    BY <1>2 DEF SkipOne
  <2>2. EndsLine(input, p.next)
    BY <1>2 DEF EndsLine, IsLineTerminator
  <2>3. AtPlace(input, p.next + 1, p.line + 1, 0, FALSE)
    BY <2>2, Advance DEF PlaceOK, AllPlaces
  <2>4. q.next = p.next + 1 /\ q.line = p.line + 1 /\ q.col = 0 /\ q.act = FALSE
    BY <2>1
  <2>5. q \in AllPlaces
    BY <2>1 DEF AllPlaces
  <2> HIDE DEF q
  <2>6. QED
    BY <2>3, <2>4, <2>5 DEF PlaceOK, q
<1>3. CASE ~(IsLineTerminator(c) /\ ~(c = "CR" /\ CharAt(input, p.next + 1) = "LF"))
  <2> DEFINE act == p.act \/ IsLineTerminator(c)
  <2>1. q = [next |-> p.next + 1, line |-> p.line, col |-> p.col + 1, act |-> act]
    BY <1>3 DEF SkipOne
  <2>2. ~EndsLine(input, p.next) /\ (act => c = "CR")
    BY <1>1, <1>3 DEF EndsLine, IsLineTerminator
  <2>3. act \in BOOLEAN
    OBVIOUS
  <2> HIDE DEF act
  <2>4. AtPlace(input, p.next + 1, p.line, p.col + 1, act)
    BY <2>2, <2>3, Advance DEF PlaceOK, AllPlaces
  <2>5. q.next = p.next + 1 /\ q.line = p.line /\ q.col = p.col + 1 /\ q.act = act
    BY <2>1
  <2>6. q \in AllPlaces
    BY <2>1, <2>3 DEF AllPlaces
  <2> HIDE DEF q
  <2>7. QED
    BY <2>4, <2>5, <2>6 DEF PlaceOK, q
<1>4. QED
  BY <1>2, <1>3

\* The function by which SkipFrom is defined exists: one more step can always be
\* added at its end.
LEMMA SkipFromCounted ==
  ASSUME NEW p \in AllPlaces, p.next # 0, PlaceOK(p), NEW n \in Nat
  PROVE  LET q == SkipFrom(p, n)
         IN q \in AllPlaces /\ q.next = p.next + n /\ PlaceOK(q)
<1> DEFINE Walk(at, m) == /\ at = [k \in 0 .. m |-> at[k]]
                          /\ \A k \in 0 .. m : at[k] = IF k = 0 THEN p ELSE SkipOne(at[k - 1])
           Missing == {m \in Nat : \A at : ~Walk(at, m)}
<1> HIDE DEF Walk
<1>0. Missing \in SUBSET Nat /\ \A m \in Nat : m \in Missing <=> \A at : ~Walk(at, m)
  OBVIOUS
<1> HIDE DEF Missing
<1>1. Missing = {}
  <2> SUFFICES ASSUME Missing # {} PROVE FALSE
    OBVIOUS
  <2>1. PICK m \in Missing : \A k \in Missing : m <= k
    BY <1>0, LeastOf
  <2>2. CASE m = 0
    <3>1. Walk([k \in 0 .. 0 |-> p], 0)
      BY DEF Walk
    <3>2. QED
      BY <2>1, <2>2, <3>1, <1>0
  <2>3. CASE m # 0
    <3>1. m \in Nat /\ m - 1 \in Nat /\ m - 1 \notin Missing
      BY <2>1, <2>3, <1>0
    <3>2. PICK at : Walk(at, m - 1)
      BY <3>1, <1>0
    <3> DEFINE more == [k \in 0 .. m |-> IF k = m THEN SkipOne(at[m - 1]) ELSE at[k]]
    <3>3. ASSUME NEW k \in 0 .. m
          PROVE  more[k] = IF k = 0 THEN p ELSE SkipOne(more[k - 1])
      <4>1. CASE k = m
        <5>1. more[k] = SkipOne(at[m - 1]) /\ more[k - 1] = at[m - 1]
          BY <4>1, <2>3, <3>1
        <5>2. QED
          BY <5>1, <4>1, <2>3
      <4>2. CASE k # m /\ k # 0
        <5>1. k \in 0 .. m - 1 /\ k - 1 \in 0 .. m - 1 /\ k - 1 # m
          BY <4>2, <3>1
        <5>2. more[k] = at[k] /\ more[k - 1] = at[k - 1]
          BY <5>1, <4>2, <3>1
        <5>3. at[k] = SkipOne(at[k - 1])
          BY <5>1, <4>2, <3>2 DEF Walk
        <5>4. QED
          BY <5>2, <5>3, <4>2
      <4>3. CASE k # m /\ k = 0
        <5>1. 0 \in 0 .. m - 1 /\ more[0] = at[0]
          BY <4>3, <3>1
        <5>2. at[0] = p
          BY <5>1, <3>2 DEF Walk
        <5>3. QED
          BY <5>1, <5>2, <4>3
      <4>4. QED
        BY <4>1, <4>2, <4>3
    <3>4. Walk(more, m)
      BY <3>3 DEF Walk
    <3>5. QED
      BY <2>1, <3>1, <3>4, <1>0
  <2>4. QED
    BY <2>2, <2>3
<1> DEFINE found == CHOOSE at : at = [k \in 0 .. n |-> IF k = 0 THEN p ELSE SkipOne(at[k - 1])]
<1>2. found = [k \in 0 .. n |-> IF k = 0 THEN p ELSE SkipOne(found[k - 1])]
  <2>1. PICK at : Walk(at, n)
    BY <1>0, <1>1
  <2>2. at = [k \in 0 .. n |-> IF k = 0 THEN p ELSE SkipOne(at[k - 1])]
    BY <2>1 DEF Walk
  <2>3. QED
    BY Zenon, <2>2
<1>3. SkipFrom(p, n) = found[n]
  BY DEF SkipFrom
<1> HIDE DEF found
<1> DEFINE Good(k) == found[k] \in AllPlaces /\ found[k].next = p.next + k /\ PlaceOK(found[k])
           Bad == {k \in 0 .. n : ~Good(k)}
<1>4. Bad = {}
  <2> SUFFICES ASSUME Bad # {} PROVE FALSE
    OBVIOUS
  <2>0. Bad \in SUBSET Nat
    OBVIOUS
  <2>1. PICK k \in Bad : \A j \in Bad : k <= j
    BY <2>0, LeastOf
  <2>2. CASE k = 0
    <3>1. found[0] = p
      BY <1>2
    <3>2. Good(0)
      BY <3>1 DEF AllPlaces
    <3>3. QED
      BY <2>1, <2>2, <3>2
  <2>3. CASE k # 0
    <3>1. k - 1 \in 0 .. n /\ k - 1 \notin Bad
      BY <2>1, <2>3
    <3>2. Good(k - 1)
      BY <3>1
    <3>3. found[k] = SkipOne(found[k - 1])
      BY <1>2, <2>3
    <3>4. found[k - 1].next = p.next + (k - 1) /\ found[k - 1].next # 0
      BY <3>1, <3>2 DEF AllPlaces
    <3>5. Good(k)
      BY <3>1, <3>2, <3>3, <3>4, SkipOneCounted DEF AllPlaces
    <3>6. QED
      BY <2>1, <3>5
  <2>4. QED
    BY <2>2, <2>3
<1>5. Good(n)
  BY <1>4
<1>6. QED
  BY <1>3, <1>5

-------------------------------------------------------------------------------
(* Threads and activations. *)

AllThreads(c, s) ==
  [pc : DOMAIN c, sp : 1 .. Len(s) + 1, line : Nat, col : Nat, act : BOOLEAN]

\* The threads of an activation: they stay in its part of the code and, outside
\* look-aheads, know the coordinates of their place.
ThreadsOf(c, s, kind, counted) ==
  {t \in AllThreads(c, s) : /\ Within(c, t.pc) = kind
                            /\ counted => AtPlace(s, t.sp, t.line, t.col, t.act)}

Kinds == {"match", "loop", "ahead"}

AllFrames(c, s) ==
  [kind : Kinds, start : DOMAIN c, times : Nat \ {0}, curr : Seq(AllThreads(c, s)),
   next : Seq(AllThreads(c, s)), i : Nat \ {0}, found : Seq(AllThreads(c, s))]

FrameOK(c, s, f, counted) ==
  /\ f \in AllFrames(c, s)
  /\ Within(c, f.start) = f.kind
  /\ f.curr \in Seq(ThreadsOf(c, s, f.kind, counted))
  /\ f.next \in Seq(ThreadsOf(c, s, f.kind, counted))
  /\ f.found \in Seq(ThreadsOf(c, s, f.kind, counted)) /\ Len(f.found) <= 1

\* Whether the activations up to the n-th count lines.
Counted(fs, n) == \A k \in 1 .. n : fs[k].kind # "ahead"

\* The thread that f runs entered an activation of that kind.
Entered(c, f, kind) ==
  /\ f.i \in DOMAIN f.curr
  /\ c[f.curr[f.i].pc].op \in Openers /\ KindOf(c[f.curr[f.i].pc].op) = kind

FramesOK(c, s, fs) ==
  /\ fs \in Seq(AllFrames(c, s))
  /\ \A n \in 1 .. Len(fs) : /\ FrameOK(c, s, fs[n], Counted(fs, n))
                             /\ fs[n].kind = "match" <=> n = 1
  /\ \A n \in 1 .. Len(fs) - 1 : Entered(c, fs[n], fs[n + 1].kind)

LEMMA ThreadsTyped ==
  ASSUME NEW c, NEW s, NEW kind, NEW counted
  PROVE  /\ ThreadsOf(c, s, kind, counted) \subseteq AllThreads(c, s)
         /\ Seq(ThreadsOf(c, s, kind, counted)) \subseteq Seq(AllThreads(c, s))
<1>1. ThreadsOf(c, s, kind, counted) \subseteq AllThreads(c, s)
  BY DEF ThreadsOf
<1> HIDE DEF ThreadsOf, AllThreads
<1>2. QED
  BY <1>1

\* A thread is replaced by threads like it.
LEMMA BranchesOK ==
  ASSUME NEW c, IsCode(c), NEW s, NEW kind, NEW counted, NEW t \in ThreadsOf(c, s, kind, counted)
  PROVE  Branches(c, t) \in Seq(ThreadsOf(c, s, kind, counted))
<1> DEFINE L == Leaves(c)[t.pc]
           Q == {q \in DOMAIN c : Within(c, q) = Within(c, t.pc)}
<1>1. t \in AllThreads(c, s) /\ t.pc \in DOMAIN c /\ Within(c, t.pc) = kind
  BY DEF ThreadsOf, AllThreads
<1>2. L \in Seq(Q)
  BY <1>1 DEF IsCode
<1> HIDE DEF L
<1>3. \A q \in Q : [t EXCEPT !.pc = q] \in ThreadsOf(c, s, kind, counted)
  BY <1>1 DEF ThreadsOf, AllThreads
<1> HIDE DEF Q
<1>4. Branches(c, t) = [k \in DOMAIN L |-> [t EXCEPT !.pc = L[k]]]
  BY DEF Branches, L
<1>5. DOMAIN L = 1 .. Len(L) /\ Len(L) \in Nat /\ \A k \in 1 .. Len(L) : L[k] \in Q
  BY <1>2
<1>6. \A k \in 1 .. Len(L) : [t EXCEPT !.pc = L[k]] \in ThreadsOf(c, s, kind, counted)
  BY <1>3, <1>5
<1>7. QED
  BY <1>4, <1>5, <1>6

LEMMA AddThreadOK ==
  ASSUME IsCode(code), NEW s, NEW kind, NEW counted,
         NEW list \in Seq(ThreadsOf(code, s, kind, counted)),
         NEW t \in ThreadsOf(code, s, kind, counted)
  PROVE  AddThread(list, t) \in Seq(ThreadsOf(code, s, kind, counted))
<1>1. Branches(code, t) \in Seq(ThreadsOf(code, s, kind, counted))
  BY BranchesOK
<1>2. list \o Branches(code, t) \in Seq(ThreadsOf(code, s, kind, counted))
  BY <1>1, ConcatProperties
<1>3. QED
  BY <1>2 DEF AddThread

LEMMA FrameAt ==
  ASSUME NEW c, NEW s, NEW fs, FramesOK(c, s, fs), NEW n \in 1 .. Len(fs)
  PROVE  /\ Len(fs) \in Nat /\ DOMAIN fs = 1 .. Len(fs)
         /\ fs[n] \in AllFrames(c, s) /\ FrameOK(c, s, fs[n], Counted(fs, n))
         /\ fs[n].kind = "match" <=> n = 1
  BY DEF FramesOK

\* The innermost activation goes on.
LEMMA GoesOn ==
  ASSUME NEW c, NEW s, NEW fs, FramesOK(c, s, fs), fs # <<>>, NEW f,
         f.kind = fs[Len(fs)].kind, FrameOK(c, s, f, Counted(fs, Len(fs)))
  PROVE  FramesOK(c, s, [fs EXCEPT ![Len(fs)] = f])
<1> DEFINE gs == [fs EXCEPT ![Len(fs)] = f]
<1>1. fs \in Seq(AllFrames(c, s)) /\ f \in AllFrames(c, s)
  BY DEF FramesOK, FrameOK
<1>2. Len(fs) \in Nat \ {0} /\ DOMAIN fs = 1 .. Len(fs)
  BY <1>1
<1>3. gs \in Seq(AllFrames(c, s)) /\ Len(gs) = Len(fs)
  BY <1>1, <1>2
<1>4. \A n \in 1 .. Len(fs) : gs[n] = IF n = Len(fs) THEN f ELSE fs[n]
  BY <1>1, <1>2
<1>5. \A n \in 1 .. Len(fs) : gs[n].kind = fs[n].kind
  BY <1>4
<1> HIDE DEF gs
<1>6. \A n \in 1 .. Len(fs) : Counted(gs, n) = Counted(fs, n)
  BY <1>2, <1>5 DEF Counted
<1>7. ASSUME NEW n \in 1 .. Len(fs)
      PROVE  FrameOK(c, s, gs[n], Counted(gs, n)) /\ (gs[n].kind = "match" <=> n = 1)
  BY <1>4, <1>5, <1>6 DEF FramesOK
<1>8. ASSUME NEW n \in 1 .. Len(fs) - 1
      PROVE  Entered(c, gs[n], gs[n + 1].kind)
  <2>1. n \in 1 .. Len(fs) /\ n + 1 \in 1 .. Len(fs) /\ n # Len(fs)
    <3>1. Len(fs) \in Nat
      BY <1>2
    <3>2. QED
      BY <3>1
  <2>2. gs[n] = fs[n] /\ gs[n + 1].kind = fs[n + 1].kind
    BY <2>1, <1>4, <1>5
  <2>3. QED
    BY <2>2 DEF FramesOK
<1>9. QED
  BY <1>3, <1>7, <1>8 DEF FramesOK, gs

\* An activation starts within the innermost one.
LEMMA Starts ==
  ASSUME NEW c, NEW s, NEW fs, FramesOK(c, s, fs), NEW f, f.kind # "match",
         fs # <<>>, Entered(c, fs[Len(fs)], f.kind),
         FrameOK(c, s, f, Counted(fs, Len(fs)) /\ f.kind # "ahead")
  PROVE  FramesOK(c, s, Append(fs, f))
<1> DEFINE gs == Append(fs, f)
<1>1. fs \in Seq(AllFrames(c, s)) /\ f \in AllFrames(c, s)
  BY DEF FramesOK, FrameOK
<1>2. Len(fs) \in Nat \ {0} /\ DOMAIN fs = 1 .. Len(fs)
  BY <1>1
<1>3. gs \in Seq(AllFrames(c, s)) /\ Len(gs) = Len(fs) + 1
  BY <1>1
<1>4. \A n \in 1 .. Len(fs) + 1 : gs[n] = IF n = Len(fs) + 1 THEN f ELSE fs[n]
  BY <1>1
<1> HIDE DEF gs
<1>5. \A n \in 1 .. Len(fs) : Counted(gs, n) = Counted(fs, n)
  BY <1>2, <1>4 DEF Counted
<1>6. Counted(gs, Len(fs) + 1) = (Counted(fs, Len(fs)) /\ f.kind # "ahead")
  <2>1. 1 .. Len(fs) + 1 = (1 .. Len(fs)) \cup {Len(fs) + 1}
    BY <1>2
  <2>2. \A k \in 1 .. Len(fs) : gs[k] = fs[k]
    BY <1>2, <1>4
  <2>3. gs[Len(fs) + 1] = f
    BY <1>2, <1>4
  <2>4. QED
    BY <2>1, <2>2, <2>3 DEF Counted
<1>7. ASSUME NEW n \in 1 .. Len(fs) + 1
      PROVE  FrameOK(c, s, gs[n], Counted(gs, n)) /\ (gs[n].kind = "match" <=> n = 1)
  <2>1. CASE n = Len(fs) + 1
    BY <2>1, <1>2, <1>4, <1>6
  <2>2. CASE n # Len(fs) + 1
    <3>1. n \in 1 .. Len(fs) /\ gs[n] = fs[n]
      BY <2>2, <1>2, <1>4
    <3>2. QED
      BY <3>1, <1>5 DEF FramesOK
  <2>3. QED
    BY <2>1, <2>2
<1>8. ASSUME NEW n \in 1 .. Len(fs)
      PROVE  Entered(c, gs[n], gs[n + 1].kind)
  <2>1. CASE n = Len(fs)
    BY <2>1, <1>2, <1>4
  <2>2. CASE n # Len(fs)
    <3>1. n \in 1 .. Len(fs) - 1 /\ gs[n] = fs[n] /\ gs[n + 1] = fs[n + 1]
      BY <2>2, <1>2, <1>4
    <3>2. QED
      BY <3>1 DEF FramesOK
  <2>3. QED
    BY <2>1, <2>2
<1>9. Len(gs) - 1 = Len(fs)
  BY <1>2, <1>3
<1>10. QED
  BY <1>3, <1>7, <1>8, <1>9 DEF FramesOK, gs

\* The innermost activation is over, and the one outside is where it was.
LEMMA Returns ==
  ASSUME NEW c, NEW s, NEW fs, FramesOK(c, s, fs), fs # <<>>, fs[Len(fs)].kind # "match"
  PROVE  LET gs == SubSeq(fs, 1, Len(fs) - 1)
         IN /\ FramesOK(c, s, gs) /\ gs # <<>> /\ Len(gs) = Len(fs) - 1
            /\ gs[Len(gs)] = fs[Len(fs) - 1]
            /\ Entered(c, gs[Len(gs)], fs[Len(fs)].kind)
            /\ Counted(fs, Len(fs)) <=> Counted(gs, Len(gs)) /\ fs[Len(fs)].kind # "ahead"
<1> DEFINE gs == SubSeq(fs, 1, Len(fs) - 1)
<1>1. fs \in Seq(AllFrames(c, s)) /\ Len(fs) \in Nat \ {0}
  BY DEF FramesOK
<1>2. Len(fs) - 1 \in Nat \ {0}
  BY <1>1 DEF FramesOK
<1>3. /\ gs \in Seq(AllFrames(c, s)) /\ Len(gs) = Len(fs) - 1
      /\ \A n \in 1 .. Len(fs) - 1 : gs[n] = fs[n]
  <2> DEFINE m == Len(fs) - 1
  <2>1. m \in Nat \ {0} /\ m < Len(fs)
    BY <1>1, <1>2
  <2>2. \A i \in 1 .. m : fs[i] \in AllFrames(c, s)
    BY <1>1, <2>1
  <2>3. gs = SubSeq(fs, 1, m)
    OBVIOUS
  <2> HIDE DEF m, gs
  <2>4. /\ SubSeq(fs, 1, m) \in Seq(AllFrames(c, s)) /\ Len(SubSeq(fs, 1, m)) = m
        /\ \A i \in 1 .. m : SubSeq(fs, 1, m)[i] = fs[i]
    <3>1. m \in Int /\ 1 <= m /\ m - 1 + 1 = m /\ \A i \in 1 .. m : 1 + i - 1 = i
      BY <2>1
    <3>2. QED
      BY <2>1, <2>2, <3>1, SubSeqProperties
  <2>5. QED
    BY <2>3, <2>4 DEF m
<1> HIDE DEF gs
<1>4. gs # <<>>
  BY <1>2, <1>3
<1>5. \A n \in 1 .. Len(fs) - 1 : Counted(gs, n) = Counted(fs, n)
  BY <1>2, <1>3 DEF Counted
<1>6. \A n \in 1 .. Len(fs) - 1 :
        FrameOK(c, s, gs[n], Counted(gs, n)) /\ (gs[n].kind = "match" <=> n = 1)
  BY <1>2, <1>3, <1>5 DEF FramesOK
<1>7. ASSUME NEW n \in 1 .. Len(gs) - 1
      PROVE  Entered(c, gs[n], gs[n + 1].kind)
  <2>1. n \in 1 .. Len(fs) - 1 /\ n + 1 \in 1 .. Len(fs) - 1
    BY <1>2, <1>3
  <2>2. gs[n] = fs[n] /\ gs[n + 1] = fs[n + 1]
    BY <2>1, <1>3
  <2>3. QED
    BY <2>1, <2>2 DEF FramesOK
<1>8. FramesOK(c, s, gs)
  BY <1>3, <1>6, <1>7 DEF FramesOK
<1>9. /\ gs[Len(gs)] = fs[Len(fs) - 1]
      /\ Entered(c, fs[Len(fs) - 1], fs[Len(fs)].kind)
  <2>1. Len(fs) - 1 \in 1 .. Len(fs) - 1 /\ (Len(fs) - 1) + 1 = Len(fs)
    BY <1>1, <1>2
  <2>2. QED
    BY <2>1, <1>3 DEF FramesOK
<1>10. Counted(fs, Len(fs)) <=> Counted(gs, Len(gs)) /\ fs[Len(fs)].kind # "ahead"
  <2>1. 1 .. Len(fs) = (1 .. Len(fs) - 1) \cup {Len(fs)}
    BY <1>1, <1>2
  <2>2. QED
    BY <2>1, <1>3 DEF Counted
<1>11. QED
  BY <1>3, <1>4, <1>8, <1>9, <1>10 DEF gs

-------------------------------------------------------------------------------
(* The machine. *)

MarksOK == /\ marks \in [DOMAIN code -> Nat] /\ mark \in Nat
           /\ \A pc \in DOMAIN code : marks[pc] <= mark

VMOK == /\ frames # <<>> => IsCode(code)
        /\ FramesOK(code, input, frames)
        /\ MarksOK

TopCounted == Counted(frames, Len(frames))

LEMMA TopOK ==
  ASSUME VMOK, frames # <<>>
  PROVE  /\ IsCode(code) /\ FrameOK(code, input, Top, TopCounted)
         /\ Top.kind \in Kinds /\ Top \in AllFrames(code, input)
         /\ Top = frames[Len(frames)] /\ Len(frames) \in Nat \ {0}
         /\ Top.kind = "match" <=> Len(frames) = 1
         /\ TopCounted => Top.kind # "ahead"
<1>1. IsCode(code) /\ FramesOK(code, input, frames)
  BY DEF VMOK
<1>2. Len(frames) \in Nat \ {0}
  BY <1>1 DEF FramesOK
<1>3. Len(frames) \in 1 .. Len(frames)
  BY <1>2
<1>4. /\ FrameOK(code, input, Top, TopCounted) /\ Top = frames[Len(frames)]
      /\ Top.kind = "match" <=> Len(frames) = 1
  BY <1>1, <1>3, FrameAt DEF Top, TopCounted
<1>5. Top \in AllFrames(code, input)
  BY <1>4 DEF FrameOK
<1>6. Top.kind \in Kinds
  BY <1>5 DEF AllFrames
<1>7. TopCounted => Top.kind # "ahead"
  BY <1>3 DEF TopCounted, Counted, Top
<1>8. QED
  BY <1>1, <1>2, <1>4, <1>5, <1>6, <1>7

TopThreads == ThreadsOf(code, input, Top.kind, TopCounted)

LEMMA RunningOK ==
  ASSUME VMOK, Running
  PROVE  /\ frames # <<>> /\ IsCode(code)
         /\ Top.i \in DOMAIN Top.curr /\ T \in TopThreads /\ T \in AllThreads(code, input)
         /\ T.pc \in DOMAIN code /\ Within(code, T.pc) = Top.kind
<1>1. frames # <<>> /\ Top.i <= Len(Top.curr)
  BY DEF Running
<1>2. IsCode(code) /\ FrameOK(code, input, Top, TopCounted) /\ Top \in AllFrames(code, input)
  BY <1>1, TopOK
<1>3. Top.curr \in Seq(TopThreads) /\ Top.i \in Nat \ {0}
  BY <1>2 DEF FrameOK, TopThreads, AllFrames
<1> HIDE DEF TopThreads
<1>4. Top.i \in 1 .. Len(Top.curr) /\ DOMAIN Top.curr = 1 .. Len(Top.curr)
  BY <1>1, <1>3
<1>5. T \in TopThreads
  BY <1>3, <1>4 DEF T
<1>6. T \in AllThreads(code, input) /\ T.pc \in DOMAIN code /\ Within(code, T.pc) = Top.kind
  BY <1>5 DEF TopThreads, ThreadsOf, AllThreads
<1>7. QED
  BY <1>1, <1>2, <1>4, <1>5, <1>6

LEMMA MarkSet ==
  ASSUME MarksOK, NEW pc \in DOMAIN code, NEW k \in Nat, NEW m \in Nat, k <= m, mark <= m,
         code' = code, marks' = [marks EXCEPT ![pc] = k], mark' = m
  PROVE  MarksOK'
<1>1. marks' \in [DOMAIN code -> Nat]
  BY DEF MarksOK
<1>2. \A q \in DOMAIN code : marks'[q] = IF q = pc THEN k ELSE marks[q]
  BY DEF MarksOK
<1>3. \A q \in DOMAIN code : marks'[q] <= m
  BY <1>2 DEF MarksOK
<1>4. QED
  BY <1>1, <1>3 DEF MarksOK

LEMMA MarkNext ==
  ASSUME MarksOK, code' = code, marks' = marks, mark' \in {mark, mark + 1}
  PROVE  MarksOK'
  BY DEF MarksOK

LEMMA TopGoesOn ==
  ASSUME VMOK, frames # <<>>, NEW f, f.kind = Top.kind, FrameOK(code, input, f, TopCounted),
         frames' = WithTop(f), UNCHANGED <<input, code>>, MarksOK'
  PROVE  VMOK' /\ frames' # <<>>
<1>1. FramesOK(code, input, [frames EXCEPT ![Len(frames)] = f])
  BY TopOK, GoesOn DEF VMOK, TopCounted
<1>2. frames' = [frames EXCEPT ![Len(frames)] = f]
  BY DEF WithTop
<1>3. FramesOK(code, input, frames)'
  BY <1>1, <1>2
<1>4. frames' # <<>>
  <2>1. frames \in Seq(AllFrames(code, input)) /\ Len(frames) \in Nat \ {0}
    BY TopOK DEF VMOK, FramesOK
  <2>2. DOMAIN frames' = 1 .. Len(frames)
    BY <2>1, <1>2
  <2>3. 1 \in DOMAIN frames'
    BY <2>1, <2>2
  <2>4. QED
    BY <2>3
<1>5. QED
  BY <1>3, <1>4, TopOK DEF VMOK

\* What the instructions do to a frame.
LEMMA FieldsSet ==
  ASSUME NEW c, NEW s, NEW f, NEW counted, FrameOK(c, s, f, counted),
         NEW k \in Nat \ {0},
         NEW u \in Seq(ThreadsOf(c, s, f.kind, counted)),
         NEW v \in Seq(ThreadsOf(c, s, f.kind, counted))
  PROVE  /\ FrameOK(c, s, [f EXCEPT !.i = k], counted)
         /\ FrameOK(c, s, [f EXCEPT !.i = k, !.next = u], counted)
         /\ FrameOK(c, s, [f EXCEPT !.curr = u, !.next = v, !.i = k], counted)
         /\ Len(u) <= 1 => FrameOK(c, s, [f EXCEPT !.found = u, !.i = k], counted)
<1> DEFINE Ts == ThreadsOf(c, s, f.kind, counted)
           A == AllThreads(c, s)
<1>1. f \in AllFrames(c, s)
  BY DEF FrameOK
<1>2. Seq(Ts) \subseteq Seq(A)
  BY ThreadsTyped
<1>3. /\ f.curr \in Seq(Ts) /\ f.next \in Seq(Ts) /\ f.found \in Seq(Ts) /\ Len(f.found) <= 1
      /\ Within(c, f.start) = f.kind
  BY DEF FrameOK
<1>4. u \in Seq(A) /\ v \in Seq(A)
  BY <1>2
<1> HIDE DEF Ts, A
<1>5. FrameOK(c, s, [f EXCEPT !.i = k], counted)
  <2> DEFINE g == [f EXCEPT !.i = k]
  <2>1. g \in AllFrames(c, s)
    BY <1>1 DEF AllFrames
  <2>2. /\ g.kind = f.kind /\ g.start = f.start /\ g.curr = f.curr /\ g.next = f.next
        /\ g.found = f.found
    BY <1>1 DEF AllFrames
  <2> HIDE DEF g
  <2>3. FrameOK(c, s, g, counted)
    BY <2>1, <2>2, <1>3 DEF FrameOK, Ts
  <2>4. QED
    BY <2>3 DEF g
<1>6. FrameOK(c, s, [f EXCEPT !.i = k, !.next = u], counted)
  <2> DEFINE g == [f EXCEPT !.i = k, !.next = u]
  <2>1. g \in AllFrames(c, s)
    BY <1>1, <1>4 DEF AllFrames, A
  <2>2. /\ g.kind = f.kind /\ g.start = f.start /\ g.curr = f.curr /\ g.next = u
        /\ g.found = f.found
    BY <1>1 DEF AllFrames
  <2> HIDE DEF g
  <2>3. FrameOK(c, s, g, counted)
    BY <2>1, <2>2, <1>3 DEF FrameOK, Ts
  <2>4. QED
    BY <2>3 DEF g
<1>7. FrameOK(c, s, [f EXCEPT !.curr = u, !.next = v, !.i = k], counted)
  <2> DEFINE g == [f EXCEPT !.curr = u, !.next = v, !.i = k]
  <2>1. g \in AllFrames(c, s)
    BY <1>1, <1>4 DEF AllFrames, A
  <2>2. /\ g.kind = f.kind /\ g.start = f.start /\ g.curr = u /\ g.next = v
        /\ g.found = f.found
    BY <1>1 DEF AllFrames
  <2> HIDE DEF g
  <2>3. FrameOK(c, s, g, counted)
    BY <2>1, <2>2, <1>3 DEF FrameOK, Ts
  <2>4. QED
    BY <2>3 DEF g
<1>8. ASSUME Len(u) <= 1 PROVE FrameOK(c, s, [f EXCEPT !.found = u, !.i = k], counted)
  <2> DEFINE g == [f EXCEPT !.found = u, !.i = k]
  <2>1. g \in AllFrames(c, s)
    BY <1>1, <1>4 DEF AllFrames, A
  <2>2. /\ g.kind = f.kind /\ g.start = f.start /\ g.curr = f.curr /\ g.next = f.next
        /\ g.found = u
    BY <1>1 DEF AllFrames
  <2> HIDE DEF g
  <2>3. FrameOK(c, s, g, counted)
    BY <1>8, <2>1, <2>2, <1>3 DEF FrameOK, Ts
  <2>4. QED
    BY <2>3 DEF g
<1>9. QED
  BY <1>5, <1>6, <1>7, <1>8

LEMMA FrameMoves ==
  ASSUME NEW c, NEW s, NEW f, NEW counted, FrameOK(c, s, f, counted)
  PROVE  /\ FrameOK(c, s, [f EXCEPT !.i = @ + 1], counted)
         /\ \A list \in Seq(ThreadsOf(c, s, f.kind, counted)) :
              FrameOK(c, s, [f EXCEPT !.i = @ + 1, !.next = list], counted)
         /\ \A t \in ThreadsOf(c, s, f.kind, counted), k \in Nat \ {0} :
              FrameOK(c, s, [f EXCEPT !.found = <<t>>, !.i = k], counted)
         /\ FrameOK(c, s, [f EXCEPT !.curr = f.next, !.next = <<>>, !.i = 1], counted)
<1> DEFINE Ts == ThreadsOf(c, s, f.kind, counted)
<1>1. f.i + 1 \in Nat \ {0} /\ f.next \in Seq(Ts)
  BY DEF FrameOK, AllFrames
<1>2. <<>> \in Seq(Ts) /\ \A t \in Ts : <<t>> \in Seq(Ts) /\ Len(<<t>>) <= 1
  <2> HIDE DEF Ts
  <2>1. QED
    OBVIOUS
<1>3. FrameOK(c, s, [f EXCEPT !.i = @ + 1], counted)
  BY <1>1, FieldsSet
<1>4. \A list \in Seq(Ts) : FrameOK(c, s, [f EXCEPT !.i = @ + 1, !.next = list], counted)
  BY <1>1, FieldsSet
<1>5. \A t \in Ts, k \in Nat \ {0} : FrameOK(c, s, [f EXCEPT !.found = <<t>>, !.i = k], counted)
  BY <1>2, FieldsSet
<1>6. FrameOK(c, s, [f EXCEPT !.curr = f.next, !.next = <<>>, !.i = 1], counted)
  <2>1. \A k \in Nat \ {0}, u \in Seq(Ts), v \in Seq(Ts) :
          FrameOK(c, s, [f EXCEPT !.curr = u, !.next = v, !.i = k], counted)
    BY FieldsSet
  <2>2. 1 \in Nat \ {0} /\ f.next \in Seq(Ts) /\ <<>> \in Seq(Ts)
    BY <1>1, <1>2
  <2> HIDE DEF Ts
  <2>3. QED
    BY <2>1, <2>2
<1>7. QED
  BY <1>3, <1>4, <1>5, <1>6

LEMMA ActivationOK ==
  ASSUME NEW c, IsCode(c), NEW s, NEW kind \in Kinds, NEW counted, NEW times \in Nat \ {0},
         NEW t \in ThreadsOf(c, s, kind, counted)
  PROVE  /\ FrameOK(c, s, Activation(c, kind, t, times), counted)
         /\ Activation(c, kind, t, times).kind = kind
<1> DEFINE g == Activation(c, kind, t, times)
           Ts == ThreadsOf(c, s, kind, counted)
<1>1. t.pc \in DOMAIN c /\ Within(c, t.pc) = kind
  BY DEF ThreadsOf, AllThreads
<1>2. Seq(Ts) \subseteq Seq(AllThreads(c, s)) /\ Branches(c, t) \in Seq(Ts)
  BY ThreadsTyped, BranchesOK
<1> HIDE DEF Ts
<1>3. <<>> \in Seq(Ts) /\ Len(<<>>) = 0
  OBVIOUS
<1>4. g \in AllFrames(c, s)
  BY <1>1, <1>2, <1>3 DEF Activation, AllFrames
<1>5. /\ g.kind = kind /\ g.start = t.pc /\ g.curr = Branches(c, t) /\ g.next = <<>>
      /\ g.found = <<>>
  BY DEF Activation
<1> HIDE DEF g
<1>6. FrameOK(c, s, g, counted)
  BY <1>1, <1>2, <1>3, <1>4, <1>5 DEF FrameOK, Ts
<1>7. QED
  BY <1>5, <1>6 DEF g

LEMMA NewlineTyped ==
  ASSUME NEW c, NEW t \in AllThreads(c, input)
  PROVE  /\ CheckIsNewline(t) \in AllThreads(c, input)
         /\ CheckIsNewline(t).pc = t.pc /\ CheckIsNewline(t).sp = t.sp
<1>1. CheckIsNewline(t) \in {[t EXCEPT !.col = @ + 1],
                             [t EXCEPT !.line = @ + 1, !.col = 0, !.act = FALSE],
                             [t EXCEPT !.col = @ + 1, !.act = TRUE],
                             [t EXCEPT !.line = @ + 1, !.col = 0]}
  BY DEF CheckIsNewline
<1>2. t.line + 1 \in Nat /\ t.col + 1 \in Nat
  BY DEF AllThreads
<1> DEFINE Good(u) == u \in AllThreads(c, input) /\ u.pc = t.pc /\ u.sp = t.sp
<1>3. ASSUME NEW k \in Nat, NEW l \in Nat, NEW b \in BOOLEAN
      PROVE  /\ Good([t EXCEPT !.col = k])
             /\ Good([t EXCEPT !.line = l, !.col = k, !.act = b])
             /\ Good([t EXCEPT !.col = k, !.act = b])
             /\ Good([t EXCEPT !.line = l, !.col = k])
  <2>1. Good([t EXCEPT !.col = k])
    BY DEF AllThreads
  <2>2. Good([t EXCEPT !.line = l, !.col = k, !.act = b])
    BY DEF AllThreads
  <2>3. Good([t EXCEPT !.col = k, !.act = b])
    BY DEF AllThreads
  <2>4. Good([t EXCEPT !.line = l, !.col = k])
    BY DEF AllThreads
  <2>5. QED
    BY <2>1, <2>2, <2>3, <2>4
<1> HIDE DEF Good
<1>5. /\ Good([t EXCEPT !.col = @ + 1])
      /\ Good([t EXCEPT !.line = @ + 1, !.col = 0, !.act = FALSE])
      /\ Good([t EXCEPT !.col = @ + 1, !.act = TRUE])
      /\ Good([t EXCEPT !.line = @ + 1, !.col = 0])
  BY <1>2, <1>3
<1>6. Good(CheckIsNewline(t))
  BY <1>1, <1>5
<1>7. QED
  BY <1>6 DEF Good

LEMMA DropOK ==
  ASSUME VMOK, Running, Drop, UNCHANGED <<input, code, mark>>
  PROVE  VMOK' /\ frames' # <<>>
<1>1. frames # <<>> /\ FrameOK(code, input, Top, TopCounted)
  BY RunningOK, TopOK
<1> DEFINE f == [Top EXCEPT !.i = @ + 1]
<1>2. FrameOK(code, input, f, TopCounted) /\ f.kind = Top.kind
  <2>1. FrameOK(code, input, f, TopCounted)
    BY <1>1, FrameMoves
  <2>2. f.kind = Top.kind
    BY <1>1 DEF FrameOK, AllFrames
  <2>3. QED
    BY <2>1, <2>2
<1>3. frames' = WithTop(f) /\ marks' = marks
  BY DEF Drop
<1>4. MarksOK'
  BY <1>3, MarkNext DEF VMOK
<1> HIDE DEF f
<1>5. QED
  BY <1>1, <1>2, <1>3, <1>4, TopGoesOn

LEMMA ContinueOK ==
  ASSUME VMOK, Running, NEW t \in TopThreads, Continue(t), UNCHANGED <<input, code, mark>>
  PROVE  VMOK' /\ frames' # <<>>
<1>1. frames # <<>> /\ FrameOK(code, input, Top, TopCounted) /\ IsCode(code)
  BY RunningOK, TopOK
<1> DEFINE list == AddThread(Top.next, t)
           f == [Top EXCEPT !.i = @ + 1, !.next = AddThread(@, t)]
<1>2. list \in Seq(TopThreads)
  BY <1>1, AddThreadOK DEF TopThreads, FrameOK
<1>3. f = [Top EXCEPT !.i = @ + 1, !.next = list]
  OBVIOUS
<1> HIDE DEF list
<1>4. FrameOK(code, input, f, TopCounted) /\ f.kind = Top.kind
  <2>1. \A ls \in Seq(TopThreads) :
          FrameOK(code, input, [Top EXCEPT !.i = @ + 1, !.next = ls], TopCounted)
    BY <1>1, FrameMoves DEF TopThreads
  <2>2. f.kind = Top.kind
    BY <1>1, <1>3 DEF FrameOK, AllFrames
  <2>3. QED
    BY <1>2, <1>3, <2>1, <2>2
<1>5. frames' = WithTop(f) /\ marks' = [marks EXCEPT ![t.pc] = mark]
  BY DEF Continue
<1>6. MarksOK'
  <2>1. t.pc \in DOMAIN code
    BY DEF TopThreads, ThreadsOf, AllThreads
  <2>2. MarksOK /\ mark \in Nat
    BY DEF VMOK, MarksOK
  <2>3. mark <= mark /\ mark' = mark /\ code' = code
    BY <2>2
  <2>4. QED
    BY <1>5, <2>1, <2>2, <2>3, MarkSet
<1> HIDE DEF f
<1>7. QED
  BY <1>1, <1>4, <1>5, <1>6, TopGoesOn

\* The thread behind the character that it consumed.
LEMMA Consumed ==
  ASSUME VMOK, Running, I.op \in Plain, Accepts(I, CharAt(input, T.sp), flags)
  PROVE  LET t == IF Top.kind = "ahead" THEN T ELSE CheckIsNewline(T)
             u == [t EXCEPT !.pc = @ + 1, !.sp = @ + 1]
         IN u \in TopThreads /\ u.pc = T.pc + 1
<1> DEFINE t == IF Top.kind = "ahead" THEN T ELSE CheckIsNewline(T)
           u == [t EXCEPT !.pc = @ + 1, !.sp = @ + 1]
<1>1. /\ frames # <<>> /\ IsCode(code) /\ T \in TopThreads
      /\ T \in AllThreads(code, input) /\ T.pc \in DOMAIN code
      /\ Within(code, T.pc) = Top.kind
  BY RunningOK
<1>2. T.pc + 1 \in DOMAIN code /\ Within(code, T.pc + 1) = Top.kind
  BY <1>1 DEF IsCode, I
<1>3. T.sp + 1 \in 1 .. Len(input) + 1 /\ T.sp \in Nat \ {0}
  <2>1. T.sp \in 1 .. Len(input)
    BY DEF Accepts, CharAt
  <2>2. Len(input) \in Nat \/ Len(input) \notin Nat
    OBVIOUS
  <2>3. QED
    BY <2>1
<1>4. t \in AllThreads(code, input) /\ t.pc = T.pc /\ t.sp = T.sp
  BY <1>1, NewlineTyped
<1>5. TopCounted => AtPlace(input, T.sp + 1, t.line, t.col, t.act)
  <2> SUFFICES ASSUME TopCounted PROVE AtPlace(input, T.sp + 1, t.line, t.col, t.act)
    OBVIOUS
  <2>1. Top.kind # "ahead" /\ AtPlace(input, T.sp, T.line, T.col, T.act)
    BY <1>1, TopOK DEF TopThreads, ThreadsOf
  <2>2. {"line", "col", "act", "sp"} \subseteq DOMAIN T
    BY <1>1 DEF AllThreads
  <2>3. QED
    BY <1>3, <2>1, <2>2, NewlineCounted
<1> HIDE DEF t
<1>6. /\ u \in AllThreads(code, input) /\ u.pc = T.pc + 1 /\ u.sp = T.sp + 1
      /\ u.line = t.line /\ u.col = t.col /\ u.act = t.act
  BY <1>2, <1>3, <1>4 DEF AllThreads
<1> HIDE DEF u
<1>7. u \in TopThreads
  BY <1>2, <1>5, <1>6 DEF TopThreads, ThreadsOf
<1>8. QED
  BY <1>6, <1>7 DEF t, u

LEMMA ConsumeOK ==
  ASSUME VMOK, Consume, UNCHANGED <<input, flags, code>>
  PROVE  VMOK' /\ frames' # <<>>
<1>1. Running /\ I.op \in Plain /\ mark' = mark
  BY Zenon DEF Consume, Plain
<1>2. CASE ~Accepts(I, CharAt(input, T.sp), flags)
  <2>1. Drop
    BY <1>2 DEF Consume
  <2>2. QED
    BY <1>1, <2>1, DropOK
<1>3. CASE Accepts(I, CharAt(input, T.sp), flags)
  <2> DEFINE t == IF Top.kind = "ahead" THEN T ELSE CheckIsNewline(T)
             u == [t EXCEPT !.pc = @ + 1, !.sp = @ + 1]
  <2>1. Continue(u)
    BY <1>3 DEF Consume
  <2>2. u \in TopThreads
    BY <1>1, <1>3, Consumed
  <2> HIDE DEF u
  <2>3. QED
    BY <1>1, <2>1, <2>2, ContinueOK
<1>4. QED
  BY <1>2, <1>3

\* A thread that only changes its instruction stays among its like.
LEMMA MoveTo ==
  ASSUME NEW c, NEW s, NEW kind, NEW counted, NEW t \in ThreadsOf(c, s, kind, counted),
         NEW pc \in DOMAIN c
  PROVE  [t EXCEPT !.pc = pc] \in ThreadsOf(c, s, Within(c, pc), counted)
  BY DEF ThreadsOf, AllThreads

LEMMA TestOK ==
  ASSUME VMOK, Test, UNCHANGED <<input, flags, code>>
  PROVE  VMOK' /\ frames' # <<>>
<1>1. Running /\ I.op \in Plain /\ mark' = mark
  BY DEF Test, Plain
<1>2. CASE ~Holds(I, input, T.sp)
  <2>1. Drop
    BY <1>2 DEF Test
  <2>2. QED
    BY <1>1, <2>1, DropOK
<1>3. CASE Holds(I, input, T.sp)
  <2> DEFINE u == [T EXCEPT !.pc = @ + 1]
  <2>1. Continue(u)
    BY <1>3 DEF Test
  <2>2. T.pc + 1 \in DOMAIN code /\ Within(code, T.pc + 1) = Top.kind /\ T \in TopThreads
    BY <1>1, RunningOK DEF IsCode, I
  <2>3. u \in TopThreads
    BY <2>2, MoveTo DEF TopThreads
  <2>4. QED
    BY <1>1, <2>1, <2>3, ContinueOK
<1>4. QED
  BY <1>2, <1>3

LEMMA SucceedOK ==
  ASSUME VMOK, Succeed, UNCHANGED <<input, flags, code>>
  PROVE  VMOK' /\ frames' # <<>>
<1> DEFINE f == [Top EXCEPT !.found = <<T>>, !.i = Len(Top.curr) + 1]
<1>1. Running /\ frames' = WithTop(f) /\ UNCHANGED <<marks, mark>>
  BY DEF Succeed
<1>2. /\ frames # <<>> /\ FrameOK(code, input, Top, TopCounted)
      /\ T \in ThreadsOf(code, input, Top.kind, TopCounted)
  BY <1>1, RunningOK, TopOK DEF TopThreads
<1>3. Len(Top.curr) + 1 \in Nat \ {0}
  <2>1. Top.curr \in Seq(AllThreads(code, input))
    BY <1>2 DEF FrameOK, AllFrames
  <2>2. Len(Top.curr) \in Nat
    BY <2>1
  <2>3. QED
    BY <2>2
<1>4. FrameOK(code, input, f, TopCounted)
  BY <1>2, <1>3, FrameMoves
<1>5. f.kind = Top.kind
  BY <1>2 DEF FrameOK, AllFrames
<1>6. MarksOK'
  BY <1>1, MarkNext DEF VMOK
<1> HIDE DEF f
<1>7. QED
  BY <1>1, <1>2, <1>4, <1>5, <1>6, TopGoesOn

LEMMA EnterOK ==
  ASSUME VMOK, IsCode(code), NEW fs, FramesOK(code, input, fs), fs # <<>>,
         NEW kind \in {"loop", "ahead"},
         Entered(code, fs[Len(fs)], kind), NEW times \in Nat \ {0},
         NEW t \in ThreadsOf(code, input, kind, Counted(fs, Len(fs)) /\ kind # "ahead"),
         Enter(fs, kind, t, times), UNCHANGED <<input, code>>
  PROVE  VMOK' /\ frames' # <<>>
<1> DEFINE f == Activation(code, kind, t, times)
           counted == Counted(fs, Len(fs)) /\ kind # "ahead"
<1>1. /\ frames' = Append(fs, f)
      /\ marks' = [marks EXCEPT ![t.pc] = mark + 1] /\ mark' = mark + 2
  BY DEF Enter
<1> HIDE DEF counted
<1>2. FrameOK(code, input, f, counted) /\ f.kind = kind
  <2>1. kind \in Kinds /\ t \in ThreadsOf(code, input, kind, counted)
    BY DEF Kinds, counted
  <2>2. QED
    BY <2>1, ActivationOK
<1> HIDE DEF f
<1>3. FramesOK(code, input, Append(fs, f))
  BY <1>2, Starts DEF counted
<1>4. MarksOK'
  <2>1. t.pc \in DOMAIN code
    BY DEF ThreadsOf, AllThreads
  <2>2. MarksOK /\ mark \in Nat
    BY DEF VMOK, MarksOK
  <2>3. mark + 1 \in Nat /\ mark + 2 \in Nat /\ mark + 1 <= mark + 2 /\ mark <= mark + 2
    BY <2>2
  <2>4. code' = code
    OBVIOUS
  <2>5. QED
    BY <1>1, <2>1, <2>2, <2>3, <2>4, MarkSet
<1>5. Append(fs, f) # <<>>
  <2>1. fs \in Seq(AllFrames(code, input)) /\ f \in AllFrames(code, input)
    BY <1>2 DEF FramesOK, FrameOK
  <2>2. QED
    BY <2>1
<1>6. QED
  BY <1>1, <1>3, <1>4, <1>5 DEF VMOK

LEMMA EnterLoopOK ==
  ASSUME VMOK, EnterLoop, UNCHANGED <<input, flags, code>>
  PROVE  VMOK' /\ frames' # <<>>
<1> DEFINE t == [T EXCEPT !.pc = @ + 1]
<1>1. Running /\ I.op = "loop begin" /\ Enter(frames, "loop", t, I.count)
  BY DEF EnterLoop
<1>2. /\ frames # <<>> /\ IsCode(code) /\ T \in TopThreads
      /\ T.pc \in DOMAIN code /\ Top.i \in DOMAIN Top.curr
  BY <1>1, RunningOK
<1>3. /\ T.pc + 1 \in DOMAIN code /\ Within(code, T.pc + 1) = "loop"
      /\ I.count \in Nat \ {0}
  BY <1>1, <1>2 DEF IsCode, I, Openers, KindOf
<1>4. Entered(code, Top, "loop")
  BY <1>1, <1>2 DEF Entered, I, T, Openers, KindOf
<1>5. t \in ThreadsOf(code, input, "loop", TopCounted)
  BY <1>2, <1>3, MoveTo DEF TopThreads
<1> HIDE DEF t
<1>6. t \in ThreadsOf(code, input, "loop", TopCounted /\ "loop" # "ahead")
  BY <1>5 DEF ThreadsOf
<1>7. QED
  BY <1>1, <1>2, <1>3, <1>4, <1>6, EnterOK DEF VMOK, Top, TopCounted

LEMMA EnterLookaheadOK ==
  ASSUME VMOK, EnterLookahead, UNCHANGED <<input, flags, code>>
  PROVE  VMOK' /\ frames' # <<>>
<1> DEFINE t == [Uncounted(T) EXCEPT !.pc = @ + 1]
<1>1. Running /\ I.op = "ahead begin" /\ Enter(frames, "ahead", t, 1)
  BY DEF EnterLookahead
<1>2. /\ frames # <<>> /\ IsCode(code) /\ T \in AllThreads(code, input)
      /\ T.pc \in DOMAIN code /\ Top.i \in DOMAIN Top.curr
  BY <1>1, RunningOK
<1>3. T.pc + 1 \in DOMAIN code /\ Within(code, T.pc + 1) = "ahead"
  BY <1>1, <1>2 DEF IsCode, I, Openers, KindOf
<1>4. Entered(code, Top, "ahead")
  BY <1>1, <1>2 DEF Entered, I, T, Openers, KindOf
<1>5. t \in AllThreads(code, input) /\ t.pc = T.pc + 1
  BY <1>2, <1>3 DEF Uncounted, AllThreads
<1> HIDE DEF t
<1>6. t \in ThreadsOf(code, input, "ahead", TopCounted /\ "ahead" # "ahead")
  BY <1>3, <1>5 DEF ThreadsOf
<1>7. FramesOK(code, input, frames) /\ 1 \in Nat \ {0}
  BY DEF VMOK
<1>8. Entered(code, frames[Len(frames)], "ahead")
  BY <1>4 DEF Top
<1>9. t \in ThreadsOf(code, input, "ahead", Counted(frames, Len(frames)) /\ "ahead" # "ahead")
  BY <1>6 DEF TopCounted
<1>10. QED
  BY <1>1, <1>2, <1>7, <1>8, <1>9, EnterOK

\* The activation that entered the innermost one, and where it goes on.
Outer == frames[Len(frames) - 1]
OuterCounted == Counted(frames, Len(frames) - 1)
OuterThreads == ThreadsOf(code, input, Outer.kind, OuterCounted)
Around == SubSeq(frames, 1, Len(frames) - 1)

LEMMA OuterOK ==
  ASSUME VMOK, frames # <<>>, Top.kind # "match"
  PROVE  /\ IsCode(code)
         /\ FramesOK(code, input, Around) /\ Around # <<>> /\ Around[Len(Around)] = Outer
         /\ Counted(Around, Len(Around)) <=> OuterCounted
         /\ Entered(code, Outer, Top.kind)
         /\ FrameOK(code, input, Outer, OuterCounted)
         /\ TopCounted <=> OuterCounted /\ Top.kind # "ahead"
         /\ OuterCounted => Outer.kind # "ahead"
<1>1. IsCode(code) /\ FramesOK(code, input, frames) /\ Len(frames) \in Nat \ {0}
  BY TopOK DEF VMOK
<1>2. /\ FramesOK(code, input, Around) /\ Around # <<>> /\ Len(Around) = Len(frames) - 1
      /\ Around[Len(Around)] = Outer
      /\ Entered(code, Around[Len(Around)], Top.kind)
      /\ TopCounted <=> Counted(Around, Len(Around)) /\ Top.kind # "ahead"
  BY <1>1, Returns DEF Around, Top, TopCounted, Outer
<1>3. Len(Around) \in Nat \ {0} /\ DOMAIN Around = 1 .. Len(Around)
  <2>1. Around \in Seq(AllFrames(code, input))
    BY <1>2 DEF FramesOK
  <2>2. QED
    BY <2>1, <1>2
<1>4. \A k \in 1 .. Len(Around) : Around[k] = frames[k]
  <2>1. frames \in Seq(AllFrames(code, input))
    BY <1>1 DEF FramesOK
  <2>2. QED
    BY <2>1, <1>2, <1>3 DEF Around
<1>5. Counted(Around, Len(Around)) <=> OuterCounted
  BY <1>2, <1>4 DEF Counted, OuterCounted
<1>6. FrameOK(code, input, Outer, Counted(Around, Len(Around)))
  BY <1>2, <1>3, FrameAt
<1>7. FrameOK(code, input, Outer, OuterCounted)
  BY <1>5, <1>6 DEF FrameOK, ThreadsOf
<1>8. OuterCounted => Outer.kind # "ahead"
  <2>1. Len(frames) - 1 \in 1 .. Len(frames) - 1
    BY <1>1, <1>2, <1>3
  <2>2. QED
    BY <2>1 DEF OuterCounted, Counted, Outer
<1>9. QED
  BY <1>1, <1>2, <1>5, <1>7, <1>8

LEMMA CallerOK ==
  ASSUME VMOK, frames # <<>>, Top.kind # "match"
  PROVE  /\ Caller \in OuterThreads
         /\ code[Caller.pc].left \in DOMAIN code
         /\ Within(code, code[Caller.pc].left) = Outer.kind
<1>1. /\ IsCode(code) /\ Entered(code, Outer, Top.kind)
      /\ FrameOK(code, input, Outer, OuterCounted)
  BY OuterOK
<1>2. Outer.curr \in Seq(OuterThreads) /\ Outer.i \in DOMAIN Outer.curr
  BY <1>1 DEF FrameOK, OuterThreads, Entered
<1>3. Caller = Outer.curr[Outer.i]
  BY DEF Caller, Outer
<1> HIDE DEF OuterThreads
<1>4. Caller \in OuterThreads
  BY <1>2, <1>3
<1>5. Caller.pc \in DOMAIN code /\ Within(code, Caller.pc) = Outer.kind
  BY <1>4 DEF OuterThreads, ThreadsOf, AllThreads
<1>6. code[Caller.pc].op \in Openers
  BY <1>1, <1>3 DEF Entered
<1>7. QED
  BY <1>1, <1>4, <1>5, <1>6 DEF IsCode

LEMMA ReturnOK ==
  ASSUME VMOK, frames # <<>>, Top.kind # "match", NEW ts, ts = <<>> \/ ts[1] \in OuterThreads,
         Return(ts), UNCHANGED <<input, code, mark>>
  PROVE  VMOK' /\ frames' # <<>>
<1>1. /\ IsCode(code)
      /\ FramesOK(code, input, Around) /\ Around # <<>> /\ Around[Len(Around)] = Outer
      /\ Counted(Around, Len(Around)) <=> OuterCounted
      /\ FrameOK(code, input, Outer, OuterCounted)
  BY OuterOK
<1>2. ASSUME NEW f, f.kind = Outer.kind, FrameOK(code, input, f, OuterCounted),
             frames' = [Around EXCEPT ![Len(Around)] = f], MarksOK'
      PROVE  VMOK' /\ frames' # <<>>
  <2>1. FrameOK(code, input, f, Counted(Around, Len(Around)))
    BY <1>1, <1>2 DEF FrameOK, ThreadsOf
  <2>2. FramesOK(code, input, frames')
    BY <1>1, <1>2, <2>1, GoesOn
  <2>3. frames' # <<>>
    <3>1. Around \in Seq(AllFrames(code, input))
      BY <1>1 DEF FramesOK
    <3>2. Len(Around) \in Nat \ {0} /\ DOMAIN Around = 1 .. Len(Around)
      BY <3>1, <1>1
    <3>3. DOMAIN frames' = 1 .. Len(Around) /\ 1 \in 1 .. Len(Around)
      BY <3>2, <1>2
    <3>4. QED
      BY <3>3
  <2>4. QED
    BY <1>1, <1>2, <2>2, <2>3 DEF VMOK
<1>3. CASE ts = <<>>
  <2> DEFINE f == [Outer EXCEPT !.i = @ + 1]
  <2>1. frames' = [Around EXCEPT ![Len(Around)] = f] /\ marks' = marks
    BY <1>1, <1>3 DEF Return, Around
  <2>2. FrameOK(code, input, f, OuterCounted)
    BY <1>1, FrameMoves
  <2>3. f.kind = Outer.kind
    BY <1>1 DEF FrameOK, AllFrames
  <2>4. MarksOK'
    BY <2>1, MarkNext DEF VMOK
  <2> HIDE DEF f
  <2>5. QED
    BY <1>2, <2>1, <2>2, <2>3, <2>4
<1>4. CASE ts # <<>>
  <2> DEFINE list == AddThread(Outer.next, ts[1])
             f == [Outer EXCEPT !.i = @ + 1, !.next = AddThread(@, ts[1])]
  <2>1. /\ frames' = [Around EXCEPT ![Len(Around)] = f]
        /\ marks' = [marks EXCEPT ![ts[1].pc] = mark]
    BY <1>1, <1>4 DEF Return, Around
  <2>2. ts[1] \in OuterThreads
    BY <1>4
  <2>3. list \in Seq(OuterThreads)
    BY <1>1, <2>2, AddThreadOK DEF OuterThreads, FrameOK
  <2>4. f = [Outer EXCEPT !.i = @ + 1, !.next = list]
    OBVIOUS
  <2> HIDE DEF list
  <2>5. FrameOK(code, input, f, OuterCounted)
    <3>1. \A ls \in Seq(OuterThreads) :
            FrameOK(code, input, [Outer EXCEPT !.i = @ + 1, !.next = ls], OuterCounted)
      BY <1>1, FrameMoves DEF OuterThreads
    <3>2. QED
      BY <2>3, <2>4, <3>1
  <2>6. f.kind = Outer.kind
    BY <1>1, <2>4 DEF FrameOK, AllFrames
  <2>7. MarksOK'
    <3>1. ts[1].pc \in DOMAIN code
      BY <2>2 DEF OuterThreads, ThreadsOf, AllThreads
    <3>2. MarksOK /\ mark \in Nat
      BY DEF VMOK, MarksOK
    <3>3. mark <= mark /\ mark' = mark /\ code' = code
      BY <3>2
    <3>4. QED
      BY <2>1, <3>1, <3>2, <3>3, MarkSet
  <2> HIDE DEF f
  <2>8. QED
    BY <1>2, <2>1, <2>5, <2>6, <2>7
<1>5. QED
  BY <1>3, <1>4

LEMMA AheadHoldsOK ==
  ASSUME VMOK, AheadHolds, UNCHANGED <<input, flags, code>>
  PROVE  VMOK' /\ frames' # <<>>
<1> DEFINE t == [Caller EXCEPT !.pc = code[Caller.pc].left]
           ts == IF code[Caller.pc].negative THEN <<>> ELSE <<t>>
<1>1. Running /\ I.op = "ahead end" /\ Return(ts) /\ mark' = mark
  BY DEF AheadHolds
<1>2. /\ frames # <<>> /\ IsCode(code) /\ T.pc \in DOMAIN code
      /\ Within(code, T.pc) = Top.kind
  BY <1>1, RunningOK
<1>3. Top.kind = "ahead"
  BY <1>1, <1>2 DEF IsCode, I, Closers, KindOf
<1>4. t \in OuterThreads
  BY <1>2, <1>3, CallerOK, MoveTo DEF OuterThreads
<1> HIDE DEF t
<1>5. ts = <<>> \/ ts[1] \in OuterThreads
  BY <1>4
<1> HIDE DEF ts
<1>6. QED
  BY <1>1, <1>2, <1>3, <1>5, ReturnOK

LEMMA AheadFailsOK ==
  ASSUME VMOK, AheadFails, UNCHANGED <<input, flags, code>>
  PROVE  VMOK' /\ frames' # <<>>
<1> DEFINE t == [Caller EXCEPT !.pc = code[Caller.pc].left]
           ts == IF code[Caller.pc].negative THEN <<t>> ELSE <<>>
<1>1. frames # <<>> /\ Top.kind = "ahead" /\ Return(ts) /\ mark' = mark
  BY DEF AheadFails, Over
<1>2. t \in OuterThreads
  BY <1>1, CallerOK, MoveTo DEF OuterThreads
<1> HIDE DEF t
<1>3. ts = <<>> \/ ts[1] \in OuterThreads
  BY <1>2
<1> HIDE DEF ts
<1>4. QED
  BY <1>1, <1>3, ReturnOK

LEMMA NextRoundOK ==
  ASSUME VMOK, NextRound, UNCHANGED <<input, flags, code>>
  PROVE  VMOK' /\ frames' # <<>>
<1> DEFINE f == [Top EXCEPT !.curr = Top.next, !.next = <<>>, !.i = 1]
<1>1. frames # <<>> /\ frames' = WithTop(f) /\ mark' = mark + 1 /\ marks' = marks
  BY DEF NextRound
<1>2. FrameOK(code, input, Top, TopCounted)
  BY <1>1, TopOK
<1>3. FrameOK(code, input, f, TopCounted)
  BY <1>2, FrameMoves
<1>4. f.kind = Top.kind
  BY <1>2 DEF FrameOK, AllFrames
<1>5. MarksOK'
  BY <1>1, MarkNext DEF VMOK
<1> HIDE DEF f
<1>6. QED
  BY <1>1, <1>3, <1>4, <1>5, TopGoesOn

LEMMA Single ==
  ASSUME NEW S, NEW q \in Seq(S), q # <<>>, Len(q) <= 1
  PROVE  q[1] \in S /\ Len(q) = 1 /\ DOMAIN q = {1}
<1>1. Len(q) \in Nat \ {0} /\ DOMAIN q = 1 .. Len(q)
  OBVIOUS
<1>2. Len(q) = 1
  BY <1>1
<1>3. QED
  BY <1>1, <1>2

LEMMA FoundOK ==
  ASSUME VMOK, frames # <<>>, Top.found # <<>>
  PROVE  /\ Top.found[1] \in ThreadsOf(code, input, Top.kind, TopCounted)
         /\ Len(Top.found) = 1 /\ DOMAIN Top.found = {1}
<1> DEFINE Ts == ThreadsOf(code, input, Top.kind, TopCounted)
<1>1. Top.found \in Seq(Ts) /\ Len(Top.found) <= 1
  BY TopOK DEF FrameOK
<1> HIDE DEF Ts
<1>2. QED
  BY <1>1, Single DEF Ts

LEMMA LoopAgainOK ==
  ASSUME VMOK, LoopAgain, UNCHANGED <<input, flags, code>>
  PROVE  VMOK' /\ frames' # <<>>
<1> DEFINE t == [Top.found[1] EXCEPT !.pc = Top.start]
<1>1. /\ frames # <<>> /\ Top.kind = "loop" /\ Top.found # <<>> /\ Top.times > 1
      /\ Enter(Around, "loop", t, Top.times - 1)
  BY DEF LoopAgain, Over, Around
<1>2. /\ IsCode(code) /\ FramesOK(code, input, Around) /\ Around # <<>>
      /\ Entered(code, Around[Len(Around)], "loop")
      /\ TopCounted <=> Counted(Around, Len(Around)) /\ "loop" # "ahead"
  BY <1>1, OuterOK
<1>3. /\ Top.start \in DOMAIN code /\ Within(code, Top.start) = "loop"
      /\ Top.times - 1 \in Nat \ {0}
  BY <1>1, TopOK DEF FrameOK, AllFrames
<1>4. t \in ThreadsOf(code, input, "loop", TopCounted)
  BY <1>1, <1>3, FoundOK, MoveTo
<1> HIDE DEF t
<1>5. t \in ThreadsOf(code, input, "loop", Counted(Around, Len(Around)) /\ "loop" # "ahead")
  BY <1>2, <1>4 DEF ThreadsOf
<1>6. QED
  BY <1>1, <1>2, <1>3, <1>5, EnterOK

LEMMA LoopReturnsOK ==
  ASSUME VMOK, LoopReturns, UNCHANGED <<input, flags, code>>
  PROVE  VMOK' /\ frames' # <<>>
<1> DEFINE t(k) == IF Outer.kind = "ahead" THEN Uncounted(Top.found[k]) ELSE Top.found[k]
           ts == [k \in DOMAIN Top.found |-> [t(k) EXCEPT !.pc = code[Caller.pc].left]]
<1>1. frames # <<>> /\ Top.kind = "loop" /\ Return(ts) /\ mark' = mark
  BY DEF LoopReturns, Over, Outer
<1>2. ts = <<>> \/ ts[1] \in OuterThreads
  <2>1. CASE Top.found = <<>>
    <3>1. DOMAIN ts = {}
      BY <2>1
    <3>2. ts = <<>>
      BY <3>1
    <3>3. QED
      BY <3>2
  <2>2. CASE Top.found # <<>>
    <3>1. /\ Top.found[1] \in ThreadsOf(code, input, "loop", TopCounted)
          /\ DOMAIN Top.found = {1}
      BY <1>1, <2>2, FoundOK
    <3>2. /\ TopCounted <=> OuterCounted
          /\ OuterCounted => Outer.kind # "ahead"
      BY <1>1, OuterOK
    <3>3. t(1) \in ThreadsOf(code, input, "loop", OuterCounted)
      <4>1. CASE Outer.kind = "ahead"
        <5>1. Top.found[1] \in AllThreads(code, input) /\ Within(code, Top.found[1].pc) = "loop"
          BY <3>1 DEF ThreadsOf
        <5>2. Uncounted(Top.found[1]) \in AllThreads(code, input)
          BY <5>1 DEF Uncounted, AllThreads
        <5>3. Uncounted(Top.found[1]).pc = Top.found[1].pc
          BY <5>1 DEF Uncounted, AllThreads
        <5>4. QED
          BY <4>1, <3>2, <5>1, <5>2, <5>3 DEF ThreadsOf
      <4>2. CASE Outer.kind # "ahead"
        BY <4>2, <3>1, <3>2 DEF ThreadsOf
      <4>3. QED
        BY <4>1, <4>2
    <3>4. ts[1] = [t(1) EXCEPT !.pc = code[Caller.pc].left]
      BY <3>1
    <3> HIDE DEF t, ts
    <3>5. ts[1] \in OuterThreads
      BY <1>1, <3>3, <3>4, CallerOK, MoveTo DEF OuterThreads
    <3>6. QED
      BY <3>5
  <2>3. QED
    BY <2>1, <2>2
<1> HIDE DEF ts
<1>3. QED
  BY <1>1, <1>2, ReturnOK

LEMMA VMStepOK ==
  ASSUME VMOK, VMStep
  PROVE  VMOK' /\ frames' # <<>>
<1>1. UNCHANGED <<input, flags, code>>
  BY DEF VMStep
<1>2. CASE Consume
  BY <1>1, <1>2, ConsumeOK
<1>3. CASE Test
  BY <1>1, <1>3, TestOK
<1>4. CASE Succeed
  BY <1>1, <1>4, SucceedOK
<1>5. CASE EnterLoop
  BY <1>1, <1>5, EnterLoopOK
<1>6. CASE EnterLookahead
  BY <1>1, <1>6, EnterLookaheadOK
<1>7. CASE AheadHolds
  BY <1>1, <1>7, AheadHoldsOK
<1>8. CASE NextRound
  BY <1>1, <1>8, NextRoundOK
<1>9. CASE LoopAgain
  BY <1>1, <1>9, LoopAgainOK
<1>10. CASE LoopReturns
  BY <1>1, <1>10, LoopReturnsOK
<1>11. CASE AheadFails
  BY <1>1, <1>11, AheadFailsOK
<1>12. QED
  BY <1>2, <1>3, <1>4, <1>5, <1>6, <1>7, <1>8, <1>9, <1>10, <1>11 DEF VMStep

\* A search starts, at a place whose coordinates are those of the position.
LEMMA StartSearchOK ==
  ASSUME NEW c, IsCode(c), NEW t \in AllThreads(c, input), t.pc = 1,
         AtPlace(input, t.sp, t.line, t.col, t.act),
         StartSearch(c, t), UNCHANGED input
  PROVE  VMOK' /\ frames' # <<>>
<1> DEFINE f == Activation(c, "match", t, 1)
<1>1. /\ code' = c /\ frames' = <<f>> /\ mark' = 2
      /\ marks' = [pc \in DOMAIN c |-> IF pc = t.pc THEN 1 ELSE 0]
  BY DEF StartSearch
<1>2. f.kind = "match"
  BY DEF Activation
<1> HIDE DEF f
<1> DEFINE fs == <<f>>
<1>3. fs[1] = f
  OBVIOUS
<1> HIDE DEF fs
<1>4. Counted(fs, 1)
  BY <1>2, <1>3 DEF Counted
<1>5. FrameOK(c, input, f, Counted(fs, 1))
  <2>1. Within(c, 1) = "match"
    BY DEF IsCode
  <2>2. /\ t \in ThreadsOf(c, input, "match", Counted(fs, 1))
        /\ "match" \in Kinds /\ 1 \in Nat \ {0}
    BY <2>1 DEF ThreadsOf, Kinds
  <2>3. QED
    BY <2>2, ActivationOK DEF f
<1>6. fs \in Seq(AllFrames(c, input)) /\ Len(fs) = 1
  <2>1. f \in AllFrames(c, input)
    BY <1>5 DEF FrameOK
  <2>2. QED
    BY <2>1 DEF fs
<1>7. FramesOK(c, input, fs)
  BY <1>2, <1>3, <1>5, <1>6 DEF FramesOK
<1>8. FramesOK(code, input, frames)'
  BY <1>1, <1>7 DEF fs
<1>9. MarksOK'
  BY <1>1 DEF MarksOK
<1>10. frames' # <<>>
  BY <1>1
<1>11. QED
  BY <1>1, <1>8, <1>9, <1>10 DEF VMOK

\* What a search found has the coordinates of its place.
LEMMA EndFound ==
  ASSUME VMOK, frames # <<>>, Top.kind = "match", Top.found # <<>>
  PROVE  LET t == Top.found[1]
         IN t.sp \in 1 .. Len(input) + 1 /\ AtPlace(input, t.sp, t.line, t.col, t.act)
<1>1. Len(frames) = 1 /\ Top = frames[1]
  BY TopOK
<1>2. TopCounted
  BY <1>1 DEF TopCounted, Counted
<1>3. QED
  BY <1>2, FoundOK DEF ThreadsOf, AllThreads

-------------------------------------------------------------------------------
(* The lexer. *)

\* Inputs are texts, and one of them is being read.
ClientOK ==
  /\ client \in [inputs : {client.inputs}, calls : Nat]
  /\ \A s \in client.inputs : s \in Seq(ToSet(s))
  /\ input \in client.inputs

ProgsOK ==
  /\ progs \in Seq(ToSet(progs))
  /\ \A r \in DOMAIN progs : IsCode(progs[r].code)
  /\ enable \in [DOMAIN progs -> BOOLEAN]

PlaceKept ==
  /\ next \in 1 .. Len(input) + 1 /\ is_ok \in BOOLEAN
  /\ AtPlace(input, next, line, col, next_action)

TokKept ==
  tok # NoTok => /\ tok.index \in 1 .. Len(input) + 1
                 /\ tok.line \in Nat /\ tok.col \in Nat
                 /\ <<tok.line, tok.col>> = Place(input, tok.index)

CallOK ==
  /\ rule \in 0 .. Len(progs) + 1 /\ empties \in 0 .. 1
  /\ answer \in {"none", "yes", "no", "empty match", "not ready", "no memory"}
  /\ frames # <<>> => rule \in DOMAIN progs

LexerInv == ClientOK /\ ProgsOK /\ PlaceKept /\ TokKept /\ CallOK /\ VMOK

\* No search, on any code and in any input.
LEMMA NoFrames ==
  ASSUME NEW c, NEW s
  PROVE  FramesOK(c, s, <<>>)
<1>1. <<>> \in Seq(AllFrames(c, s)) /\ Len(<<>>) = 0
  BY EmptySeq
<1>2. QED
  BY <1>1 DEF FramesOK

LEMMA InputTyped ==
  ASSUME LexerInv
  PROVE  /\ input \in Seq(ToSet(input)) /\ Len(input) \in Nat /\ DOMAIN input = 1 .. Len(input)
         /\ progs \in Seq(ToSet(progs)) /\ Len(progs) \in Nat /\ DOMAIN progs = 1 .. Len(progs)
<1>1. input \in Seq(ToSet(input)) /\ progs \in Seq(ToSet(progs))
  BY DEF LexerInv, ClientOK, ProgsOK
<1>2. QED
  BY <1>1

LEMMA LexerInitially ==
  ASSUME Init
  PROVE  LexerInv
<1>1. PICK l \in Lexers : /\ progs = CreateMatch(l.rules)
                          /\ enable = [r \in DOMAIN l.rules |-> TRUE]
                          /\ client = [inputs |-> l.inputs, calls |-> l.calls]
                          /\ input \in l.inputs
  BY DEF Init
<1>2. /\ l.calls \in Nat /\ \A s \in l.inputs : s \in Seq(ToSet(s))
      /\ l.rules \in Seq(ToSet(l.rules))
      /\ \A r \in ToSet(l.rules) : r.priority \in Int /\ IsCode(Compile(r.expr))
  BY LexerAssumption
<1>3. /\ next = 1 /\ line = 0 /\ col = 0 /\ next_action = FALSE /\ is_ok = TRUE
      /\ tok = NoTok /\ rule = 0 /\ empties = 0 /\ answer = "none"
      /\ frames = <<>> /\ code = <<>> /\ marks = <<>> /\ mark = 0
  BY DEF Init, VMInit
<1>4. ClientOK
  BY <1>1, <1>2 DEF ClientOK
<1>5. ProgsOK
  <2> DEFINE rs == l.rules
             sorted == SortProgSet(rs)
             p(n) == [code |-> Compile(sorted[n].expr), expr |-> sorted[n].expr,
                      value |-> sorted[n].value, skip |-> sorted[n].skip]
  <2>1. \A r \in DOMAIN rs : rs[r] \in ToSet(rs)
    BY DEF ToSet
  <2>2. \A r \in DOMAIN rs : rs[r].priority \in Int /\ IsCode(Compile(rs[r].expr))
    BY <1>2, <2>1
  <2>3. progs = [n \in DOMAIN rs |-> p(n)]
    BY <1>1 DEF CreateMatch
  <2>4. \A n \in DOMAIN rs : \E k \in DOMAIN rs : sorted[n] = rs[k]
    BY <1>2, <2>2, SortedFrom
  <2> HIDE DEF sorted
  <2>5. \A n \in DOMAIN rs : IsCode(p(n).code)
    BY <2>2, <2>4
  <2>6. DOMAIN rs = 1 .. Len(rs) /\ Len(rs) \in Nat
    BY <1>2
  <2> HIDE DEF p, rs
  <2>7. /\ DOMAIN progs = 1 .. Len(rs)
        /\ \A n \in DOMAIN progs : progs[n] \in ToSet(progs) /\ IsCode(progs[n].code)
    BY <2>3, <2>5, <2>6 DEF ToSet
  <2>8. progs = [n \in 1 .. Len(rs) |-> progs[n]]
    BY <2>3, <2>6
  <2>9. progs \in Seq(ToSet(progs))
    <3> DEFINE S == ToSet(progs)
    <3>1. \A n \in 1 .. Len(rs) : progs[n] \in S
      BY <2>7
    <3> HIDE DEF S
    <3>2. progs \in [1 .. Len(rs) -> S]
      BY <2>8, <3>1
    <3>3. progs \in Seq(S)
      BY <2>6, <3>2, SeqDef
    <3>4. QED
      BY <3>3 DEF S
  <2>10. enable \in [DOMAIN progs -> BOOLEAN]
    BY <1>1, <2>6, <2>7 DEF rs
  <2>11. QED
    BY <2>7, <2>9, <2>10 DEF ProgsOK
<1>6. PlaceKept
  <2>1. Len(input) \in Nat
    BY <1>1, <1>2
  <2>2. AtPlace(input, 1, 0, 0, FALSE)
    BY FirstPlace
  <2>3. AtPlace(input, next, line, col, next_action)
    BY Zenon, <2>2, <1>3
  <2>4. next \in 1 .. Len(input) + 1 /\ is_ok \in BOOLEAN
    BY <2>1, <1>3
  <2>5. QED
    BY <2>3, <2>4 DEF PlaceKept
<1>7. TokKept
  BY <1>3 DEF TokKept
<1>8. CallOK
  <2>1. Len(progs) \in Nat
    BY <1>5 DEF ProgsOK
  <2>2. QED
    BY <2>1, <1>3 DEF CallOK
<1>9. VMOK
  <2>1. MarksOK
    BY <1>3 DEF MarksOK
  <2>2. FramesOK(code, input, frames)
    BY <1>3, NoFrames
  <2>3. QED
    BY <1>3, <2>1, <2>2 DEF VMOK
<1>10. QED
  BY <1>4, <1>5, <1>6, <1>7, <1>8, <1>9 DEF LexerInv

\* Between the calls there is no search.
LEMMA CalledOK ==
  ASSUME LexerInv, Called, input' \in client.inputs
  PROVE  ClientOK' /\ CallOK' /\ VMOK' /\ progs' = progs
<1>1. /\ rule = 0 /\ client.calls > 0 /\ client' = [client EXCEPT !.calls = @ - 1]
      /\ answer' = "none"
      /\ UNCHANGED <<code, frames, marks, mark, progs, rule, empties>>
  BY DEF Called, Idle, Spend
<1>2. frames = <<>>
  <2>1. frames # <<>> => rule \in DOMAIN progs
    BY DEF LexerInv, CallOK
  <2>2. DOMAIN progs = 1 .. Len(progs)
    BY InputTyped
  <2>3. QED
    BY <1>1, <2>1, <2>2
<1>3. client.calls - 1 \in Nat /\ client'.inputs = client.inputs /\ client'.calls = client.calls - 1
  BY <1>1 DEF LexerInv, ClientOK
<1>4. ClientOK'
  BY <1>1, <1>3 DEF LexerInv, ClientOK
<1>5. CallOK'
  BY <1>1 DEF LexerInv, CallOK
<1>6. VMOK'
  <2>1. MarksOK'
    BY <1>1 DEF LexerInv, VMOK, MarksOK
  <2>2. FramesOK(code, input, frames)'
    BY <1>1, <1>2, NoFrames
  <2>3. frames' = <<>>
    BY <1>1, <1>2
  <2>4. QED
    BY <2>1, <2>2, <2>3 DEF VMOK
<1>7. QED
  BY <1>1, <1>4, <1>5, <1>6

\* A call that leaves the place, the token and the input alone.
LEMMA SettingOK ==
  ASSUME LexerInv, Called, enable' \in [DOMAIN progs -> BOOLEAN], is_ok' \in BOOLEAN,
         UNCHANGED <<input, place, tok>>
  PROVE  LexerInv'
<1>1. input' \in client.inputs
  BY DEF LexerInv, ClientOK
<1>2. ClientOK' /\ CallOK' /\ VMOK' /\ progs' = progs
  BY <1>1, CalledOK
<1>3. ProgsOK' /\ PlaceKept' /\ TokKept'
  BY <1>2 DEF LexerInv, ProgsOK, PlaceKept, TokKept, place
<1>4. QED
  BY <1>2, <1>3 DEF LexerInv

\* Lex_SkipN counts, so that every skip does.
LEMMA SkipNOK ==
  ASSUME LexerInv, NEW n \in Nat, SkipN(n)
  PROVE  LexerInv'
<1> DEFINE steps == IF Len(input) + 1 - next < n THEN Len(input) + 1 - next ELSE n
           p == [next |-> next, line |-> line, col |-> col, act |-> next_action]
           q == SkipFrom(p, steps)
<1>1. /\ Called /\ next' = q.next /\ line' = q.line /\ col' = q.col /\ next_action' = q.act
      /\ UNCHANGED <<input, flags, enable, is_ok, tok>>
  BY DEF SkipN
<1>2. next \in 1 .. Len(input) + 1 /\ Len(input) \in Nat
  BY InputTyped DEF LexerInv, PlaceKept
<1>3. steps \in Nat /\ next + steps \in 1 .. Len(input) + 1
  BY <1>2
<1>4. p \in AllPlaces /\ p.next # 0 /\ p.next = next /\ PlaceOK(p)
  BY <1>2 DEF LexerInv, PlaceKept, AllPlaces, PlaceOK, AtPlace
<1> HIDE DEF steps, p
<1>5. q \in AllPlaces /\ q.next = p.next + steps /\ PlaceOK(q)
  BY <1>3, <1>4, SkipFromCounted
<1> HIDE DEF q
<1>6. PlaceKept'
  BY <1>1, <1>3, <1>4, <1>5 DEF LexerInv, PlaceKept, PlaceOK
<1>7. ClientOK' /\ CallOK' /\ VMOK' /\ progs' = progs
  <2>1. input' \in client.inputs
    BY <1>1 DEF LexerInv, ClientOK
  <2>2. QED
    BY <1>1, <2>1, CalledOK
<1>8. ProgsOK' /\ TokKept'
  BY <1>1, <1>7 DEF LexerInv, ProgsOK, TokKept
<1>9. QED
  BY <1>6, <1>7, <1>8 DEF LexerInv

LEMMA FirstFromIn ==
  ASSUME LexerInv, NEW i \in 1 .. Len(input) + 1, NEW S \in SUBSET (1 .. Len(input))
  PROVE  FirstFrom(i, S) \in i .. Len(input) + 1
<1> DEFINE R == {j \in S : j >= i} \cup {Len(input) + 1}
<1>1. Len(input) \in Nat
  BY InputTyped
<1>2. R \in SUBSET Nat /\ R # {} /\ \A j \in R : j \in i .. Len(input) + 1
  <2> DEFINE m == Len(input)
  <2>1. m \in Nat /\ i \in 1 .. m + 1 /\ S \in SUBSET (1 .. m)
    BY <1>1
  <2> HIDE DEF m
  <2>2. ASSUME NEW j \in {h \in S : h >= i} \cup {m + 1}
        PROVE  j \in Nat /\ j \in i .. m + 1
    BY <2>1
  <2>3. R = {h \in S : h >= i} \cup {m + 1}
    BY DEF m
  <2> HIDE DEF R
  <2>4. \A j \in R : j \in Nat /\ j \in i .. m + 1
    BY <2>2, <2>3
  <2>5. R # {}
    BY <2>3
  <2>6. QED
    BY <2>4, <2>5 DEF m
<1>3. FirstFrom(i, S) = Min(R)
  BY DEF FirstFrom
<1> HIDE DEF R
<1>4. Min(R) \in R
  BY <1>2, MinIn
<1>5. QED
  BY <1>2, <1>3, <1>4

LEMMA SkipOK ==
  ASSUME LexerInv, Skip
  PROVE  LexerInv'
<1> DEFINE spaces == {k \in DOMAIN input : input[k] \in {" ", "CR", "LF"}}
           space == FirstFrom(next, spaces)
           word == FirstFrom(space, DOMAIN input \ spaces)
<1>1. /\ next \in 1 .. Len(input) + 1 /\ Len(input) \in Nat
      /\ spaces \in SUBSET (1 .. Len(input))
      /\ DOMAIN input \ spaces \in SUBSET (1 .. Len(input))
  BY InputTyped DEF LexerInv, PlaceKept
<1>2. SkipN(word - next)
  BY DEF Skip
<1> HIDE DEF spaces
<1>3. space \in next .. Len(input) + 1
  BY <1>1, FirstFromIn
<1>4. space \in 1 .. Len(input) + 1
  BY <1>1, <1>3
<1> HIDE DEF space
<1>5. word \in space .. Len(input) + 1
  BY <1>1, <1>4, FirstFromIn
<1> HIDE DEF word
<1>6. word - next \in Nat
  BY <1>1, <1>3, <1>5
<1>7. QED
  BY <1>2, <1>6, SkipNOK

LEMMA SkipToOK ==
  ASSUME LexerInv, NEW c, SkipTo(c)
  PROVE  LexerInv'
<1> DEFINE S == {k \in DOMAIN input : input[k] = c}
           n == FirstFrom(next, S)
<1>1. /\ next \in 1 .. Len(input) + 1 /\ Len(input) \in Nat
      /\ S \in SUBSET (1 .. Len(input))
  BY InputTyped DEF LexerInv, PlaceKept
<1>2. SkipN(n - next)
  BY DEF SkipTo
<1> HIDE DEF S
<1>3. n \in next .. Len(input) + 1
  BY <1>1, FirstFromIn
<1> HIDE DEF n
<1>4. n - next \in Nat
  BY <1>1, <1>3
<1>5. QED
  BY <1>2, <1>4, SkipNOK

LEMMA PutBackOK ==
  ASSUME LexerInv, PutBack
  PROVE  LexerInv'
<1>1. /\ Called /\ tok # NoTok
      /\ next' = tok.index /\ line' = tok.line /\ col' = tok.col /\ next_action' = FALSE
      /\ UNCHANGED <<input, flags, enable, is_ok, tok>>
  BY DEF PutBack
<1>2. ClientOK' /\ CallOK' /\ VMOK' /\ progs' = progs
  <2>1. input' \in client.inputs
    BY <1>1 DEF LexerInv, ClientOK
  <2>2. QED
    BY <1>1, <2>1, CalledOK
<1>3. ProgsOK' /\ TokKept'
  BY <1>1, <1>2 DEF LexerInv, ProgsOK, TokKept
<1>4. PlaceKept'
  BY <1>1 DEF LexerInv, TokKept, PlaceKept, AtPlace
<1>5. QED
  BY <1>2, <1>3, <1>4 DEF LexerInv

LEMMA ResetInputOK ==
  ASSUME LexerInv, NEW s \in client.inputs, ResetInput(s)
  PROVE  LexerInv'
<1>1. /\ Called /\ input' = s
      /\ next' = 1 /\ line' = 0 /\ col' = 0 /\ next_action' = FALSE /\ is_ok' = TRUE
      /\ enable' = [r \in DOMAIN progs |-> TRUE]
      /\ tok' = IF s = input THEN tok ELSE NoTok
  BY DEF ResetInput
<1>2. ClientOK' /\ CallOK' /\ VMOK' /\ progs' = progs
  BY <1>1, CalledOK
<1>3. ProgsOK'
  BY <1>1, <1>2 DEF LexerInv, ProgsOK
<1>4. PlaceKept'
  <2>1. Len(s) \in Nat
    <3>1. s \in Seq(ToSet(s))
      BY DEF LexerInv, ClientOK
    <3>2. QED
      BY <3>1
  <2>2. AtPlace(s, 1, 0, 0, FALSE)
    BY FirstPlace
  <2>3. AtPlace(input', next', line', col', next_action')
    BY Zenon, <2>2, <1>1
  <2>4. next' \in 1 .. Len(input') + 1 /\ is_ok' \in BOOLEAN
    BY <2>1, <1>1
  <2>5. QED
    BY <2>3, <2>4 DEF PlaceKept
<1>5. TokKept'
  BY <1>1 DEF LexerInv, TokKept
<1>6. QED
  BY <1>2, <1>3, <1>4, <1>5 DEF LexerInv

\* Lex_Match is at a rule, or through with them, and no search is on.
LEMMA BetweenSearches ==
  ASSUME LexerInv, UNCHANGED <<vmvars, progs, enable, next, line, col, next_action, tok>>,
         frames = <<>>, is_ok' \in BOOLEAN, ClientOK', CallOK'
  PROVE  LexerInv'
<1>1. VMOK'
  <2>1. MarksOK' /\ frames' = <<>>
    BY DEF LexerInv, VMOK, MarksOK, vmvars
  <2>2. FramesOK(code, input, frames)'
    BY <2>1, NoFrames
  <2>3. QED
    BY <2>1, <2>2 DEF VMOK
<1>2. ProgsOK' /\ PlaceKept' /\ TokKept'
  BY DEF LexerInv, ProgsOK, PlaceKept, TokKept, vmvars
<1>3. QED
  BY <1>1, <1>2 DEF LexerInv

LEMMA MatchOK ==
  ASSUME LexerInv, Match
  PROVE  LexerInv'
<1>1. /\ rule = 0 /\ client.calls > 0 /\ client' = [client EXCEPT !.calls = @ - 1]
      /\ rule' = 1 /\ empties' = 0 /\ answer' = "none"
      /\ UNCHANGED <<vmvars, progs, enable, next, line, col, next_action, is_ok, tok>>
  BY DEF Match, Idle, Spend, vmvars, place
<1>2. Len(progs) \in Nat /\ DOMAIN progs = 1 .. Len(progs)
  BY InputTyped
<1>3. frames = <<>>
  <2>1. frames # <<>> => rule \in DOMAIN progs
    BY DEF LexerInv, CallOK
  <2>2. QED
    BY <1>1, <1>2, <2>1
<1>4. CallOK'
  <2>1. frames' = <<>> /\ progs' = progs
    BY <1>1, <1>3 DEF vmvars
  <2>2. rule' \in 0 .. Len(progs) + 1
    BY <1>1, <1>2
  <2>3. QED
    BY <1>1, <2>1, <2>2 DEF CallOK
<1>5. ClientOK'
  <2>1. client.calls - 1 \in Nat /\ client'.inputs = client.inputs
        /\ client'.calls = client.calls - 1
    BY <1>1 DEF LexerInv, ClientOK
  <2>2. input' = input
    BY <1>1 DEF vmvars
  <2>3. QED
    BY <1>1, <2>1, <2>2 DEF LexerInv, ClientOK
<1>6. is_ok' \in BOOLEAN
  BY <1>1 DEF LexerInv, PlaceKept
<1>7. QED
  BY <1>1, <1>3, <1>4, <1>5, <1>6, BetweenSearches

LEMMA SkipRuleOK ==
  ASSUME LexerInv, SkipRule
  PROVE  LexerInv'
<1>1. /\ rule \in DOMAIN progs /\ frames = <<>> /\ rule' = rule + 1
      /\ UNCHANGED <<vmvars, progs, enable, client, next, line, col, next_action, is_ok, tok,
                     empties, answer>>
  BY DEF SkipRule, Trying, place
<1>2. CallOK'
  <2>1. rule \in 1 .. Len(progs) /\ Len(progs) \in Nat
    BY <1>1, InputTyped
  <2>2. rule' \in 0 .. Len(progs) + 1
    BY <1>1, <2>1
  <2>3. frames' = <<>> /\ progs' = progs
    BY <1>1 DEF vmvars
  <2>4. QED
    BY <1>1, <2>2, <2>3 DEF LexerInv, CallOK
<1>3. ClientOK' /\ is_ok' \in BOOLEAN
  BY <1>1 DEF LexerInv, ClientOK, PlaceKept, vmvars
<1>4. QED
  BY <1>1, <1>2, <1>3, BetweenSearches

LEMMA InRange == 0 \in 0 .. 1 /\ \A m \in Nat : 0 \in 0 .. m + 1
OBVIOUS

\* The call answers.
LEMMA Answered ==
  ASSUME LexerInv, UNCHANGED <<progs, client, input>>, rule' = 0, empties' = 0,
         answer' \in {"none", "yes", "no", "empty match", "not ready", "no memory"}, frames' = <<>>
  PROVE  ClientOK' /\ CallOK'
<1>1. Len(progs) \in Nat
  BY InputTyped
<1>2. 0 \in 0 .. Len(progs) + 1 /\ 0 \in 0 .. 1
  BY Zenon, <1>1, InRange
<1>3. CallOK'
  BY <1>2 DEF CallOK
<1>4. ClientOK'
  BY DEF LexerInv, ClientOK
<1>5. QED
  BY <1>3, <1>4

LEMMA RefusedOK ==
  ASSUME LexerInv, Refused
  PROVE  LexerInv'
<1>1. /\ frames = <<>> /\ rule' = 0 /\ empties' = 0 /\ answer' = "not ready"
      /\ UNCHANGED <<vmvars, progs, enable, client, next, line, col, next_action, is_ok, tok>>
  BY DEF Refused, Trying, Answer, place, vmvars
<1>2. ClientOK' /\ CallOK'
  BY <1>1, Answered DEF vmvars
<1>3. is_ok' \in BOOLEAN
  BY <1>1 DEF LexerInv, PlaceKept
<1>4. QED
  BY <1>1, <1>2, <1>3, BetweenSearches

LEMMA ExhaustedOK ==
  ASSUME LexerInv, Exhausted
  PROVE  LexerInv'
<1>1. /\ rule > Len(progs) /\ rule' = 0 /\ empties' = 0
      /\ answer' \in {"not ready", "no"} /\ is_ok' \in BOOLEAN
      /\ UNCHANGED <<vmvars, progs, enable, client, next, line, col, next_action, tok>>
  <2>1. is_ok' \in BOOLEAN
    BY DEF Exhausted
  <2>2. QED
    BY <2>1 DEF Exhausted, Answer, place, vmvars
<1>2. frames = <<>>
  <2>1. frames # <<>> => rule \in DOMAIN progs
    BY DEF LexerInv, CallOK
  <2>2. Len(progs) \in Nat /\ DOMAIN progs = 1 .. Len(progs)
    BY InputTyped
  <2>3. \A m \in Nat : \A k \in 1 .. m : ~(k > m)
    OBVIOUS
  <2>4. QED
    BY <1>1, <2>1, <2>2, <2>3
<1>3. ClientOK' /\ CallOK'
  BY <1>1, <1>2, Answered DEF vmvars
<1>4. QED
  BY <1>1, <1>2, <1>3, BetweenSearches

LEMMA SearchOK ==
  ASSUME LexerInv, Search
  PROVE  LexerInv'
<1> DEFINE c == progs[rule].code
           t == Thread(1, next, line, col, next_action)
<1>1. /\ rule \in DOMAIN progs /\ StartSearch(c, t) /\ tok' = NoTok
      /\ UNCHANGED <<input, flags, progs, enable, client, next, line, col, next_action, is_ok,
                     rule, empties, answer>>
  BY DEF Search, Trying, place
<1>2. IsCode(c)
  BY <1>1 DEF LexerInv, ProgsOK
<1>3. /\ next \in 1 .. Len(input) + 1
      /\ AtPlace(input, next, line, col, next_action)
  BY DEF LexerInv, PlaceKept
<1> HIDE DEF c
<1>4. t \in AllThreads(c, input) /\ t.pc = 1 /\ t.sp = next /\ t.line = line /\ t.col = col
      /\ t.act = next_action
  BY <1>2, <1>3 DEF Thread, AllThreads, IsCode, AtPlace
<1>5. AtPlace(input, t.sp, t.line, t.col, t.act)
  BY <1>3, <1>4
<1> HIDE DEF t
<1>6. VMOK'
  BY <1>1, <1>2, <1>4, <1>5, StartSearchOK
<1>7. ClientOK' /\ ProgsOK' /\ PlaceKept' /\ TokKept' /\ CallOK'
  BY <1>1 DEF LexerInv, ClientOK, ProgsOK, PlaceKept, TokKept, CallOK
<1>8. QED
  BY <1>6, <1>7 DEF LexerInv

LEMMA StepOK ==
  ASSUME LexerInv, Step
  PROVE  LexerInv'
<1>1. /\ VMStep
      /\ UNCHANGED <<progs, enable, client, next, line, col, next_action, is_ok, tok,
                     rule, empties, answer>>
  BY DEF Step, place
<1>2. input' = input
  BY <1>1 DEF VMStep
<1>3. VMOK' /\ frames' # <<>>
  BY <1>1, VMStepOK DEF LexerInv
<1>4. frames # <<>>
  BY <1>1 DEF VMStep, Consume, Test, Succeed, EnterLoop, EnterLookahead, AheadHolds, NextRound,
              LoopAgain, LoopReturns, AheadFails, Over, Running
<1>5. ClientOK' /\ ProgsOK' /\ PlaceKept' /\ TokKept' /\ CallOK'
  BY <1>1, <1>2, <1>4 DEF LexerInv, ClientOK, ProgsOK, PlaceKept, TokKept, CallOK
<1>6. QED
  BY <1>3, <1>5 DEF LexerInv

\* A search ends.
LEMMA Stopped ==
  ASSUME NEW found, Stop(found)
  PROVE  VMOK' /\ frames' = <<>>
<1>1. frames' = <<>> /\ code' = <<>> /\ marks' = <<>> /\ mark' = 0
  BY DEF Stop
<1>2. MarksOK'
  BY <1>1 DEF MarksOK
<1>3. FramesOK(code, input, frames)'
  BY <1>1, NoFrames
<1>4. QED
  BY <1>1, <1>2, <1>3 DEF VMOK

LEMMA NotFoundOK ==
  ASSUME LexerInv, NotFound
  PROVE  LexerInv'
<1>1. /\ Stop(FALSE) /\ rule' = rule + 1
      /\ UNCHANGED <<input, flags, progs, enable, client, next, line, col, next_action, is_ok,
                     tok, empties, answer>>
  BY DEF NotFound, place
<1>2. VMOK' /\ frames' = <<>>
  BY <1>1, Stopped
<1>3. rule' \in 0 .. Len(progs) + 1
  <2>1. frames # <<>> /\ (frames # <<>> => rule \in DOMAIN progs)
    BY <1>1 DEF LexerInv, CallOK, Stop, Over
  <2>2. Len(progs) \in Nat /\ DOMAIN progs = 1 .. Len(progs)
    BY InputTyped
  <2>3. QED
    BY <1>1, <2>1, <2>2
<1>4. ClientOK' /\ ProgsOK' /\ PlaceKept' /\ TokKept' /\ CallOK'
  BY <1>1, <1>2, <1>3 DEF LexerInv, ClientOK, ProgsOK, PlaceKept, TokKept, CallOK
<1>5. QED
  BY <1>2, <1>4 DEF LexerInv

\* The token is where the search started, and the place is behind it.
LEMMA TokenTaken ==
  ASSUME LexerInv, Stop(TRUE), TakeToken(Top.found[1]), UNCHANGED input
  PROVE  VMOK' /\ frames' = <<>> /\ PlaceKept' /\ TokKept'
<1> DEFINE t == Top.found[1]
<1>1. VMOK' /\ frames' = <<>>
  BY Stopped
<1>2. frames # <<>> /\ Top.kind = "match" /\ Top.found # <<>>
  BY DEF Stop, Over
<1>3. t.sp \in 1 .. Len(input) + 1 /\ AtPlace(input, t.sp, t.line, t.col, t.act)
  BY <1>2, EndFound DEF LexerInv
<1>4. /\ tok' = [index |-> next, count |-> t.sp - next, line |-> line, col |-> col,
                 value |-> progs[rule].value]
      /\ next' = t.sp /\ line' = t.line /\ col' = t.col /\ next_action' = t.act
      /\ is_ok' = is_ok
  BY DEF TakeToken, TokenTo
<1> HIDE DEF t
<1>5. PlaceKept'
  BY <1>3, <1>4 DEF LexerInv, PlaceKept
<1>6. TokKept'
  <2>1. tok'.index = next /\ tok'.line = line /\ tok'.col = col
    BY <1>4
  <2>2. QED
    BY <2>1 DEF LexerInv, PlaceKept, AtPlace, TokKept
<1>7. QED
  BY <1>1, <1>5, <1>6

\* Whatever was under way, nothing of it is left.
LEMMA NoMemoryOK ==
  ASSUME LexerInv, NoMemory
  PROVE  LexerInv'
<1>1. frames' = <<>> /\ code' = <<>> /\ marks' = <<>> /\ mark' = 0
  BY DEF NoMemory
<1>2. /\ rule' = 0 /\ empties' = 0 /\ answer' = "no memory" /\ is_ok' = FALSE
      /\ UNCHANGED <<input, progs, enable, client, next, line, col, next_action>>
  BY DEF NoMemory, Answer, place
<1>3. VMOK'
  <2>1. MarksOK'
    BY <1>1 DEF MarksOK
  <2>2. FramesOK(code, input, frames)'
    BY <1>1, NoFrames
  <2>3. QED
    BY <1>1, <2>1, <2>2 DEF VMOK
<1>4. ClientOK' /\ CallOK'
  BY <1>1, <1>2, Answered
<1>5. ProgsOK' /\ PlaceKept'
  BY <1>2 DEF LexerInv, ProgsOK, PlaceKept
<1>6. TokKept'
  <2>1. tok' = NoTok \/ tok' = TokenTo(frames[1].found[1])
    BY DEF NoMemory
  <2>2. tok' # NoTok => tok'.index = next /\ tok'.line = line /\ tok'.col = col
    BY <2>1 DEF TokenTo
  <2>3. QED
    BY <1>2, <2>2 DEF LexerInv, PlaceKept, AtPlace, TokKept
<1>7. QED
  BY <1>3, <1>4, <1>5, <1>6 DEF LexerInv

LEMMA GotTokenOK ==
  ASSUME LexerInv, GotToken
  PROVE  LexerInv'
<1>1. /\ Stop(TRUE) /\ TakeToken(Top.found[1])
      /\ rule' = 0 /\ empties' = 0 /\ answer' = "yes"
      /\ UNCHANGED <<input, progs, enable, client>>
  BY DEF GotToken, Answer
<1>2. VMOK' /\ frames' = <<>> /\ PlaceKept' /\ TokKept'
  BY <1>1, TokenTaken
<1>3. ClientOK' /\ CallOK'
  BY <1>1, <1>2, Answered
<1>4. ProgsOK'
  BY <1>1 DEF LexerInv, ProgsOK
<1>5. QED
  BY <1>2, <1>3, <1>4 DEF LexerInv

LEMMA GotSkipOK ==
  ASSUME LexerInv, GotSkip
  PROVE  LexerInv'
<1> DEFINE n == IF Top.found[1].sp = next THEN empties + 1 ELSE empties
<1>1. /\ Stop(TRUE) /\ TakeToken(Top.found[1])
      /\ UNCHANGED <<input, progs, enable, client>>
      /\ IF n > 1 THEN rule' = 0 /\ empties' = 0 /\ answer' = "empty match"
         ELSE rule' = 1 /\ empties' = n /\ answer' = answer
  BY DEF GotSkip, Answer
<1>2. VMOK' /\ frames' = <<>> /\ PlaceKept' /\ TokKept'
  BY <1>1, TokenTaken
<1>3. n \in Nat
  <2>1. empties \in 0 .. 1
    BY DEF LexerInv, CallOK
  <2>2. QED
    BY <2>1
<1> HIDE DEF n
<1>4. ClientOK' /\ CallOK'
  <2>1. CASE n > 1
    BY <1>1, <1>2, <2>1, Answered
  <2>2. CASE ~(n > 1)
    <3>1. rule' = 1 /\ empties' = n /\ answer' = answer
      BY <1>1, <2>2
    <3>2. 1 \in 0 .. Len(progs) + 1 /\ n \in 0 .. 1
      BY <1>3, <2>2, InputTyped
    <3>3. QED
      BY <1>1, <1>2, <3>1, <3>2 DEF LexerInv, ClientOK, CallOK
  <2>3. QED
    BY <2>1, <2>2
<1>5. ProgsOK'
  BY <1>1 DEF LexerInv, ProgsOK
<1>6. QED
  BY <1>2, <1>4, <1>5 DEF LexerInv

LEMMA ClientStep ==
  ASSUME LexerInv, Client
  PROVE  LexerInv'
<1>1. enable \in [DOMAIN progs -> BOOLEAN] /\ is_ok \in BOOLEAN
  BY DEF LexerInv, ProgsOK, PlaceKept
<1>2. CASE Match
  BY <1>2, MatchOK
<1>3. CASE \E n \in 1 .. 2 : SkipN(n)
  BY <1>3, SkipNOK
<1>4. CASE Skip
  BY <1>4, SkipOK
<1>5. CASE \E c \in ToSet(input) : SkipTo(c)
  BY <1>5, SkipToOK
<1>6. CASE PutBack
  BY <1>6, PutBackOK
<1>7. CASE \E s \in client.inputs : ResetInput(s)
  BY <1>7, ResetInputOK
<1>8. CASE ClearError
  BY <1>1, <1>8, SettingOK DEF ClearError
<1>9. CASE \E r \in DOMAIN progs, on \in BOOLEAN : EnableRule(progs[r].value, on)
  <2>1. PICK r \in DOMAIN progs, on \in BOOLEAN : EnableRule(progs[r].value, on)
    BY <1>9
  <2>2. enable' \in [DOMAIN progs -> BOOLEAN]
    BY <1>1, <2>1 DEF EnableRule
  <2>3. QED
    BY <1>1, <2>1, <2>2, SettingOK DEF EnableRule
<1>10. CASE \E on \in BOOLEAN : EnableAll(on)
  <2>1. PICK on \in BOOLEAN : EnableAll(on)
    BY <1>10
  <2>2. enable' \in [DOMAIN progs -> BOOLEAN]
    BY <2>1 DEF EnableAll
  <2>3. QED
    BY <1>1, <2>1, <2>2, SettingOK DEF EnableAll
<1>11. CASE \E fs \in FlagSets : MatchFlags(fs)
  BY <1>1, <1>11, SettingOK DEF MatchFlags
<1>12. QED
  BY <1>2, <1>3, <1>4, <1>5, <1>6, <1>7, <1>8, <1>9, <1>10, <1>11 DEF Client

LEMMA LexerStep ==
  ASSUME LexerInv, [Next]_vars
  PROVE  LexerInv'
<1>1. CASE LexMatch
  BY <1>1, SkipRuleOK, RefusedOK, SearchOK, StepOK, NoMemoryOK, NotFoundOK, GotTokenOK,
     GotSkipOK, ExhaustedOK DEF LexMatch
<1>2. CASE Client
  BY <1>2, ClientStep
<1>3. CASE UNCHANGED vars
  BY <1>3 DEF vars, place, LexerInv, ClientOK, ProgsOK, PlaceKept, TokKept, CallOK, VMOK, MarksOK
<1>4. QED
  BY <1>1, <1>2, <1>3 DEF Next

\* The invariant, for any rules, any inputs and any sequence of calls.
THEOREM LexerInvHolds == Spec => []LexerInv
<1>1. Init => LexerInv
  BY LexerInitially
<1>2. LexerInv /\ [Next]_vars => LexerInv'
  BY LexerStep
<1>3. QED
  BY <1>1, <1>2, PTL DEF Spec

\* The machine never leaves the code it runs, its activations and its marks are
\* what __thompson, __loop and __lookahead take them for, and the fields of
\* lexMatch_t keep their ranges.
THEOREM LexerTypesHold == Spec => []TypeOK
<1>1. LexerInv => TypeOK
  <2> SUFFICES ASSUME LexerInv PROVE TypeOK
    OBVIOUS
  <2>1. ASSUME NEW f \in ToSet(frames)
        PROVE  /\ f.kind \in {"match", "loop", "ahead"} /\ f.times \in Nat \ {0}
               /\ \A t \in ToSet(f.curr \o f.next) : t.pc \in DOMAIN code
    <3>1. frames \in Seq(AllFrames(code, input))
      BY DEF LexerInv, VMOK, FramesOK
    <3>2. f \in AllFrames(code, input)
      BY <3>1 DEF ToSet
    <3>3. /\ f.kind \in {"match", "loop", "ahead"} /\ f.times \in Nat \ {0}
          /\ f.curr \in Seq(AllThreads(code, input)) /\ f.next \in Seq(AllThreads(code, input))
      BY <3>2 DEF AllFrames, Kinds
    <3> DEFINE list == f.curr \o f.next
    <3>4. list \in Seq(AllThreads(code, input))
      BY <3>3, ConcatProperties
    <3> HIDE DEF list
    <3>5. \A t \in ToSet(list) : t \in AllThreads(code, input)
      BY <3>4 DEF ToSet
    <3>6. \A t \in ToSet(list) : t.pc \in DOMAIN code
      BY <3>5 DEF AllThreads
    <3>7. QED
      BY <3>3, <3>6 DEF list
  <2>2. \A pc \in DOMAIN marks : marks[pc] <= mark
    BY DEF LexerInv, VMOK, MarksOK
  <2>3. input \in client.inputs /\ client.calls \in Nat /\ enable \in [DOMAIN progs -> BOOLEAN]
    BY DEF LexerInv, ClientOK, ProgsOK
  <2>4. /\ next \in 1 .. Len(input) + 1
        /\ {line, col} \subseteq Nat /\ {next_action, is_ok} \subseteq BOOLEAN
    BY DEF LexerInv, PlaceKept, AtPlace
  <2>5. /\ rule \in 0 .. Len(progs) + 1 /\ empties \in 0 .. 1
        /\ answer \in {"none", "yes", "no", "empty match", "not ready", "no memory"}
    BY DEF LexerInv, CallOK
  <2>6. QED
    BY <2>1, <2>2, <2>3, <2>4, <2>5 DEF TypeOK
<1>2. QED
  BY <1>1, LexerInvHolds, PTL

\* Line and column are those of the position, for any rules and any texts: the
\* three loops of rgx_exec.c and Lex_SkipN count alike, and Lex_PutBack loses
\* nothing.
THEOREM CoordinatesKept == Spec => []CoordinatesMatchPosition
<1>1. LexerInv => CoordinatesMatchPosition
  <2> SUFFICES ASSUME LexerInv PROVE CoordinatesMatchPosition
    OBVIOUS
  <2>1. <<line, col>> = Place(input, next)
    BY DEF LexerInv, PlaceKept, AtPlace
  <2>2. tok # NoTok => <<tok.line, tok.col>> = Place(input, tok.index)
    BY DEF LexerInv, TokKept
  <2>3. ASSUME NEW n \in DOMAIN frames, \A k \in 1 .. n : frames[k].kind # "ahead",
               NEW t \in ToSet(frames[n].curr \o frames[n].next \o frames[n].found)
        PROVE  <<t.line, t.col>> = Place(input, t.sp)
    <3>1. FramesOK(code, input, frames) /\ DOMAIN frames = 1 .. Len(frames)
      BY DEF LexerInv, VMOK, FramesOK
    <3>2. Counted(frames, n) /\ FrameOK(code, input, frames[n], Counted(frames, n))
      <4>1. Counted(frames, n)
        BY <2>3 DEF Counted
      <4>2. n \in 1 .. Len(frames)
        BY <2>3, <3>1
      <4>3. FrameOK(code, input, frames[n], Counted(frames, n))
        BY <3>1, <4>2, FrameAt
      <4>4. QED
        BY <4>1, <4>3
    <3> DEFINE Ts == ThreadsOf(code, input, frames[n].kind, Counted(frames, n))
               f == frames[n]
               both == f.curr \o f.next
               all == both \o f.found
    <3>3. f.curr \in Seq(Ts) /\ f.next \in Seq(Ts) /\ f.found \in Seq(Ts)
      BY <3>2 DEF FrameOK
    <3> HIDE DEF Ts
    <3>4. both \in Seq(Ts)
      BY <3>3, ConcatProperties
    <3> HIDE DEF both
    <3>5. all \in Seq(Ts)
      BY <3>3, <3>4, ConcatProperties
    <3>6. t \in ToSet(all)
      BY DEF both
    <3> HIDE DEF all
    <3>7. t \in Ts
      BY <3>5, <3>6 DEF ToSet
    <3>8. QED
      BY <3>2, <3>7 DEF Ts, ThreadsOf, AtPlace
  <2>4. QED
    BY <2>1, <2>2, <2>3 DEF CoordinatesMatchPosition
<1>2. QED
  BY <1>1, LexerInvHolds, PTL
-------------------------------------------------------------------------------
(* How many threads a list holds. *)

NoOpeners(c) == \A pc \in DOMAIN c : c[pc].op \notin Openers

\* The instructions that lead on to the next one, and to how many each does.
Consuming(c) == {pc \in DOMAIN c : c[pc].op \notin {"branch", "jmp", "match"}}
Ways(c) == [pc \in Consuming(c) |-> Len(Leaves(c)[pc + 1])]

\* Those behind which threads have been added in this round.
Begun(c, ms, m) == {pc \in Consuming(c) : ms[pc + 1] = m}
Room(c, ms, m) == SumFunctionOnSet(Ways(c), Begun(c, ms, m))

\* Without counted repetitions and look-aheads there is one activation, and its
\* list has no more threads than the instructions begun in this round lead to.
FewInv == NoOpeners(code) =>
            \A n \in DOMAIN frames : n = 1 /\ Len(frames[n].next) <= Room(code, marks, mark)

LEMMA OtherOps ==
  ASSUME NEW op \in Plain \cup Closers \cup Openers \cup {"jmp", "branch"},
         op \notin {"branch", "jmp", "match"}, op \notin Openers
  PROVE  op \in Plain \/ (op \in Closers /\ KindOf(op) # "match")
<1>1. KindOf("loop end") # "match" /\ KindOf("ahead end") # "match"
  BY Zenon DEF KindOf
<1>2. CASE op \in Closers
  BY <1>1, <1>2, Zenon DEF Closers
<1>3. QED
  BY <1>2, Zenon

LEMMA WaysTyped ==
  ASSUME NEW c, IsCode(c), NoOpeners(c)
  PROVE  /\ IsFiniteSet(Consuming(c)) /\ Ways(c) \in [Consuming(c) -> Nat]
         /\ \A pc \in Consuming(c) : c[pc].op \in Plain /\ pc \in DOMAIN c /\ pc + 1 \in DOMAIN c
         /\ \A pc \in DOMAIN c : Within(c, pc) = "match" /\ pc \in Int
<1>0. PICK m \in Nat : DOMAIN c = 1 .. m
  <2>1. c \in Seq(ToSet(c))
    BY Zenon DEF IsCode
  <2>2. DOMAIN c = 1 .. Len(c) /\ Len(c) \in Nat
    BY <2>1
  <2>3. QED
    BY <2>2
<1>1. \A pc \in DOMAIN c : Within(c, pc) = "match" /\ pc \in Int
  <2> TAKE pc \in DOMAIN c
  <2>1. pc \in Int /\ \A p \in 1 .. pc - 1 : p \in DOMAIN c
    BY <1>0
  <2> DEFINE around == {p \in 1 .. pc - 1 : c[p].op \in Openers /\ pc < c[p].left}
  <2>2. around = {}
    BY <2>1 DEF NoOpeners
  <2>3. Within(c, pc) = IF around = {} THEN "match" ELSE KindOf(c[Max(around)].op)
    BY Zenon DEF Within
  <2>4. QED
    BY <2>1, <2>2, <2>3
<1>2. \A pc \in Consuming(c) : c[pc].op \in Plain /\ pc \in DOMAIN c /\ pc + 1 \in DOMAIN c
  <2> TAKE pc \in Consuming(c)
  <2> DEFINE op == c[pc].op
  <2>1. pc \in DOMAIN c /\ op \notin {"branch", "jmp", "match"} /\ op \notin Openers
    BY DEF Consuming, NoOpeners
  <2>2. /\ op \in Plain \cup Closers \cup Openers \cup {"jmp", "branch"}
        /\ op \in Plain => pc + 1 \in DOMAIN c
        /\ op \in Closers => Within(c, pc) = KindOf(op)
    BY <2>1, Zenon DEF IsCode
  <2> HIDE DEF op
  <2>3. op \in Plain \/ (op \in Closers /\ KindOf(op) # "match")
    BY <2>1, <2>2, OtherOps
  <2>4. Within(c, pc) = "match"
    BY <1>1, <2>1
  <2>5. QED
    BY <2>1, <2>2, <2>3, <2>4 DEF op
<1>3. IsFiniteSet(Consuming(c))
  <2>1. IsFiniteSet(DOMAIN c)
    BY <1>0, FS_Interval
  <2>2. Consuming(c) \in SUBSET DOMAIN c
    BY DEF Consuming
  <2>3. QED
    BY <2>1, <2>2, FS_Subset
<1>4. \A pc \in Consuming(c) : Len(Leaves(c)[pc + 1]) \in Nat
  <2> TAKE pc \in Consuming(c)
  <2> DEFINE q == pc + 1
  <2>1. q \in DOMAIN c
    BY <1>2
  <2> HIDE DEF q
  <2>2. Leaves(c)[q] \in Seq({r \in DOMAIN c : Within(c, r) = Within(c, q)})
    BY <2>1, Zenon DEF IsCode
  <2>3. QED
    BY <2>2 DEF q
<1>5. Ways(c) \in [Consuming(c) -> Nat]
  BY <1>4 DEF Ways
<1>6. QED
  BY <1>1, <1>2, <1>3, <1>5

LEMMA RoomIs ==
  ASSUME NEW c, IsCode(c), NoOpeners(c), NEW ms, NEW m
  PROVE  /\ Room(c, ms, m) \in Nat
         /\ Room(c, ms, m) <= SumFunctionOnSet(Ways(c), Consuming(c))
<1>1. Begun(c, ms, m) \in SUBSET Consuming(c)
  BY DEF Begun
<1>2. QED
  BY <1>1, WaysTyped, SumOfNats DEF Room

\* Threads begun behind one more instruction need as much more room.
LEMMA RoomGrows ==
  ASSUME NEW c, IsCode(c), NoOpeners(c), NEW ms, NEW m, NEW ns,
         NEW pc \in Consuming(c) \ Begun(c, ms, m),
         Begun(c, ns, m) = Begun(c, ms, m) \cup {pc}
  PROVE  Room(c, ns, m) = Room(c, ms, m) + Ways(c)[pc]
<1>1. IsFiniteSet(Consuming(c)) /\ Ways(c) \in [Consuming(c) -> Nat]
  BY WaysTyped
<1>2. Begun(c, ms, m) \in SUBSET Consuming(c) /\ pc \notin Begun(c, ms, m)
  BY DEF Begun
<1>3. Ways(c) \in [Consuming(c) -> Int]
  BY <1>1
<1>4. SumFunctionOnSet(Ways(c), Begun(c, ms, m) \cup {pc}) =
        SumFunctionOnSet(Ways(c), Begun(c, ms, m)) + Ways(c)[pc]
  BY <1>1, <1>2, <1>3, SumAdd
<1>5. QED
  BY <1>4 DEF Room

\* Then the activation is that of __thompson.
LEMMA OnlyThompson ==
  ASSUME VMOK, frames # <<>>, NoOpeners(code)
  PROVE  Len(frames) = 1 /\ DOMAIN frames = {1} /\ Top = frames[1] /\ Top.kind = "match"
<1>1. /\ IsCode(code) /\ FrameOK(code, input, Top, TopCounted)
      /\ Top.kind = "match" <=> Len(frames) = 1
  BY TopOK
<1>2. Top.start \in DOMAIN code /\ Within(code, Top.start) = Top.kind
  BY <1>1 DEF FrameOK, AllFrames
<1>3. Top.kind = "match"
  BY <1>1, <1>2, WaysTyped
<1>4. Len(frames) = 1
  BY <1>1, <1>3
<1>5. frames \in Seq(AllFrames(code, input))
  BY DEF VMOK, FramesOK
<1>6. QED
  BY <1>3, <1>4, <1>5 DEF Top

\* One list and its length.
LEMMA FewIs ==
  ASSUME VMOK, frames # <<>>, NoOpeners(code), FewInv
  PROVE  Len(Top.next) <= Room(code, marks, mark)
  BY OnlyThompson DEF FewInv

LEMMA FewNext ==
  ASSUME VMOK, frames # <<>>, NoOpeners(code), code' = code, NEW f, frames' = WithTop(f),
         Len(f.next) <= Room(code, marks', mark')
  PROVE  FewInv'
<1>1. Len(frames) = 1 /\ DOMAIN frames = {1}
  BY OnlyThompson
<1>2. DOMAIN frames' = {1} /\ frames'[1] = f
  BY <1>1 DEF WithTop
<1>3. QED
  BY <1>2 DEF FewInv

LEMMA DropFew ==
  ASSUME VMOK, frames # <<>>, NoOpeners(code), FewInv, Drop, code' = code, mark' = mark
  PROVE  FewInv'
<1> DEFINE f == [Top EXCEPT !.i = @ + 1]
<1>1. frames' = WithTop(f) /\ marks' = marks
  BY DEF Drop
<1>2. f.next = Top.next
  BY TopOK DEF AllFrames
<1>3. Len(f.next) <= Room(code, marks', mark')
  BY <1>1, <1>2, FewIs
<1> HIDE DEF f
<1>4. QED
  BY <1>1, <1>3, FewNext

LEMMA ConcatLen ==
  ASSUME NEW S, NEW s \in Seq(S), NEW u \in Seq(S)
  PROVE  Len(s \o u) = Len(s) + Len(u) /\ Len(s) \in Nat /\ Len(u) \in Nat
  OBVIOUS

LEMMA ContinueFew ==
  ASSUME VMOK, Running, NoOpeners(code), FewInv, I.op \in Plain,
         NEW t \in TopThreads, t.pc = T.pc + 1,
         Continue(t), code' = code, mark' = mark
  PROVE  FewInv'
<1> DEFINE list == AddThread(Top.next, t)
           f == [Top EXCEPT !.i = @ + 1, !.next = AddThread(@, t)]
<1>1. /\ frames # <<>> /\ IsCode(code) /\ Top \in AllFrames(code, input)
      /\ FrameOK(code, input, Top, TopCounted) /\ T.pc \in DOMAIN code
      /\ MarksOK
  BY RunningOK, TopOK DEF VMOK
<1>2. frames' = WithTop(f) /\ marks' = [marks EXCEPT ![t.pc] = mark]
  BY DEF Continue
<1>3. f.next = list
  BY <1>1 DEF AllFrames
<1>4. T.pc \in Consuming(code)
  <2>1. I.op \notin {"branch", "jmp", "match"}
    BY Zenon DEF Plain
  <2>2. QED
    BY <1>1, <2>1 DEF Consuming, I
<1>5. Top.next \in Seq(TopThreads)
  BY <1>1 DEF FrameOK, TopThreads
<1>6. Branches(code, t) \in Seq(TopThreads) /\ Len(Branches(code, t)) = Len(Leaves(code)[t.pc])
  <2>1. Branches(code, t) \in Seq(TopThreads)
    BY <1>1, BranchesOK DEF TopThreads
  <2>2. t.pc \in DOMAIN code
    BY DEF TopThreads, ThreadsOf, AllThreads
  <2> DEFINE L == Leaves(code)[t.pc]
             Q == {q \in DOMAIN code : Within(code, q) = Within(code, t.pc)}
  <2>3. L \in Seq(Q)
    BY <1>1, <2>2, Zenon DEF IsCode
  <2> HIDE DEF L, Q
  <2>4. DOMAIN L = 1 .. Len(L) /\ Len(L) \in Nat
    BY <2>3
  <2>5. DOMAIN Branches(code, t) = DOMAIN L
    BY DEF Branches, L
  <2> DEFINE B == Branches(code, t)
             n == Len(B)
             m == Len(L)
  <2>6. B \in Seq(TopThreads)
    BY <2>1
  <2> HIDE DEF B
  <2>7. DOMAIN B = 1 .. n /\ n \in Nat
    BY <2>6
  <2>8. 1 .. n = 1 .. m /\ m \in Nat
    BY <2>4, <2>5, <2>7 DEF B
  <2> HIDE DEF n, m
  <2>9. n = m
    BY <2>7, <2>8
  <2>10. QED
    BY <2>1, <2>9 DEF n, m, B, L
<1>7. Len(Top.next) <= Room(code, marks, mark) /\ Len(Top.next) \in Nat
  BY <1>1, <1>5, FewIs
<1>8. /\ marks[t.pc] = mark => Room(code, marks', mark) = Room(code, marks, mark)
      /\ marks[t.pc] # mark =>
           Room(code, marks', mark) = Room(code, marks, mark) + Len(Leaves(code)[t.pc])
  <2>1. marks \in [DOMAIN code -> Nat] /\ mark \in Nat /\ marks' = [marks EXCEPT ![T.pc + 1] = mark]
    BY <1>1, <1>2 DEF MarksOK
  <2> DEFINE pc == T.pc
  <2>2. pc \in Consuming(code) /\ IsCode(code) /\ t.pc = pc + 1
    BY <1>1, <1>4
  <2>3. \A p \in Consuming(code) : p + 1 \in DOMAIN code /\ p \in Int
    BY <1>1, WaysTyped
  <2>4. Begun(code, marks', mark) = Begun(code, marks, mark) \cup {pc}
    BY <2>1, <2>2, <2>3 DEF Begun
  <2>5. CASE marks[pc + 1] = mark
    <3>1. Begun(code, marks', mark) = Begun(code, marks, mark)
      BY <2>2, <2>4, <2>5 DEF Begun
    <3>2. QED
      BY <2>2, <2>5, <3>1 DEF Room
  <2>6. CASE marks[pc + 1] # mark
    <3>1. pc \in Consuming(code) \ Begun(code, marks, mark)
      BY <2>2, <2>6 DEF Begun
    <3>2. Ways(code)[pc] = Len(Leaves(code)[pc + 1])
      BY <2>2 DEF Ways
    <3> HIDE DEF pc
    <3>3. Room(code, marks', mark) = Room(code, marks, mark) + Ways(code)[pc]
      BY <2>2, <2>4, <3>1, RoomGrows
    <3>4. QED
      BY <2>2, <2>6, <3>2, <3>3
  <2>7. QED
    BY <2>5, <2>6
<1>9. Len(list) <= Room(code, marks', mark)
  <2>1. CASE marks[t.pc] = mark
    BY <1>7, <1>8, <2>1 DEF AddThread
  <2>2. CASE marks[t.pc] # mark
    <3> DEFINE B == Branches(code, t)
               b == Len(B)
               a == Len(Top.next)
               r == Room(code, marks, mark)
    <3>1. list = Top.next \o B
      BY <2>2 DEF AddThread
    <3>2. B \in Seq(TopThreads) /\ b = Len(Leaves(code)[t.pc])
      BY <1>6
    <3> DEFINE q == Top.next
    <3> HIDE DEF B, list, TopThreads, q
    <3>3. Len(list) = a + b /\ a \in Nat /\ b \in Nat
      <4>1. q \in Seq(TopThreads) /\ list = q \o B /\ a = Len(q)
        BY <1>5, <3>1 DEF q
      <4>2. Len(q \o B) = Len(q) + Len(B) /\ Len(q) \in Nat /\ Len(B) \in Nat
        BY <4>1, <3>2, ConcatLen
      <4>3. QED
        BY <4>1, <4>2
    <3>4. Room(code, marks', mark) = r + b /\ r \in Nat /\ a <= r
      BY <1>1, <1>7, <1>8, <2>2, <3>2, RoomIs
    <3> HIDE DEF a, b, r
    <3>5. a + b <= r + b
      BY <3>3, <3>4
    <3>6. QED
      BY <3>3, <3>4, <3>5
  <2>3. QED
    BY <2>1, <2>2
<1> HIDE DEF list, f
<1>10. Len(f.next) <= Room(code, marks', mark')
  BY <1>3, <1>9
<1>11. QED
  BY <1>1, <1>2, <1>10, FewNext

LEMMA StepFew ==
  ASSUME VMOK, VMStep, FewInv
  PROVE  FewInv'
<1>1. code' = code /\ input' = input
  BY DEF VMStep
<1>2. SUFFICES ASSUME NoOpeners(code) PROVE FewInv'
  BY <1>1 DEF FewInv
<1>3. frames # <<>>
  BY DEF VMStep, Consume, Test, Succeed, EnterLoop, EnterLookahead, AheadHolds, NextRound,
         LoopAgain, LoopReturns, AheadFails, Over, Running
<1>4. IsCode(code) /\ Top.kind = "match"
  BY <1>2, <1>3, OnlyThompson, TopOK
<1>5. ASSUME Running
      PROVE  /\ T \in TopThreads /\ T \in AllThreads(code, input) /\ T.pc \in DOMAIN code
             /\ I.op \notin Openers
  BY <1>2, <1>5, RunningOK DEF NoOpeners, I
<1>6. CASE Consume
  <2>1. Running /\ I.op \in Plain /\ mark' = mark
    BY <1>6, Zenon DEF Consume, Plain
  <2>2. CASE ~Accepts(I, CharAt(input, T.sp), flags)
    <3>1. Drop
      BY <1>6, <2>2 DEF Consume
    <3>2. QED
      BY <1>1, <1>2, <1>3, <2>1, <3>1, DropFew
  <2>3. CASE Accepts(I, CharAt(input, T.sp), flags)
    <3> DEFINE u == [CheckIsNewline(T) EXCEPT !.pc = @ + 1, !.sp = @ + 1]
    <3>1. Continue(u)
      BY <1>4, <1>6, <2>3 DEF Consume
    <3>2. u \in TopThreads /\ u.pc = T.pc + 1
      BY <1>4, <2>1, <2>3, Consumed
    <3> HIDE DEF u
    <3>3. QED
      BY <1>1, <1>2, <2>1, <3>1, <3>2, ContinueFew
  <2>4. QED
    BY <2>2, <2>3
<1>7. CASE Test
  <2>1. Running /\ I.op \in Plain /\ mark' = mark
    BY <1>7, Zenon DEF Test, Plain
  <2>2. CASE ~Holds(I, input, T.sp)
    <3>1. Drop
      BY <1>7, <2>2 DEF Test
    <3>2. QED
      BY <1>1, <1>2, <1>3, <2>1, <3>1, DropFew
  <2>3. CASE Holds(I, input, T.sp)
    <3> DEFINE u == [T EXCEPT !.pc = @ + 1]
    <3>1. Continue(u)
      BY <1>7, <2>3 DEF Test
    <3>2. T.pc + 1 \in DOMAIN code /\ Within(code, T.pc + 1) = Top.kind /\ T \in TopThreads
      BY <2>1, RunningOK DEF IsCode, I
    <3>3. u \in TopThreads
      BY <3>2, MoveTo DEF TopThreads
    <3>4. u.pc = T.pc + 1
      BY <2>1, <1>5 DEF AllThreads
    <3> HIDE DEF u
    <3>5. QED
      BY <1>1, <1>2, <2>1, <3>1, <3>3, <3>4, ContinueFew
  <2>4. QED
    BY <2>2, <2>3
<1>8. CASE Succeed
  <2> DEFINE f == [Top EXCEPT !.found = <<T>>, !.i = Len(Top.curr) + 1]
  <2>1. frames' = WithTop(f) /\ marks' = marks /\ mark' = mark
    BY <1>8 DEF Succeed
  <2>2. f.next = Top.next
    BY <1>3, TopOK DEF AllFrames
  <2>3. Len(f.next) <= Room(code, marks', mark')
    BY <1>2, <1>3, <2>1, <2>2, FewIs
  <2> HIDE DEF f
  <2>4. QED
    BY <1>1, <1>2, <1>3, <2>1, <2>3, FewNext
<1>9. CASE NextRound
  <2> DEFINE f == [Top EXCEPT !.curr = Top.next, !.next = <<>>, !.i = 1]
  <2>1. frames' = WithTop(f)
    BY <1>9 DEF NextRound
  <2>2. f.next = <<>>
    BY <1>3, TopOK DEF AllFrames
  <2>3. Len(f.next) = 0
    BY <2>2
  <2> DEFINE n == Len(f.next)
             r == Room(code, marks', mark')
  <2>4. r \in Nat /\ n = 0
    BY <1>2, <1>4, <2>3, RoomIs
  <2> HIDE DEF n, r
  <2>5. n <= r
    BY <2>4
  <2> HIDE DEF f
  <2>6. QED
    BY <1>1, <1>2, <1>3, <2>1, <2>5, FewNext DEF n, r
<1>10. CASE EnterLoop \/ EnterLookahead
  <2>1. Running /\ I.op \in Openers
    BY <1>10, Zenon DEF EnterLoop, EnterLookahead, Openers
  <2>2. QED
    BY <1>5, <2>1
<1>11. CASE AheadHolds
  <2>1. Running /\ I.op = "ahead end"
    BY <1>11 DEF AheadHolds
  <2>2. Within(code, T.pc) = "match" /\ T.pc \in DOMAIN code
    BY <1>4, <2>1, RunningOK
  <2>3. Within(code, T.pc) = KindOf(I.op)
    <3>1. I.op \in Closers
      BY <2>1, Zenon DEF Closers
    <3>2. QED
      BY <1>4, <2>2, <3>1, Zenon DEF IsCode, I
  <2>4. KindOf("ahead end") # "match"
    BY Zenon DEF KindOf
  <2>5. QED
    BY <2>1, <2>2, <2>3, <2>4, Zenon
<1>12. CASE LoopAgain \/ LoopReturns \/ AheadFails
  BY <1>4, <1>12 DEF LoopAgain, LoopReturns, AheadFails, Over
<1>13. QED
  BY <1>6, <1>7, <1>8, <1>9, <1>10, <1>11, <1>12 DEF VMStep

LEMMA FewStep ==
  ASSUME LexerInv, FewInv, [Next]_vars
  PROVE  FewInv'
<1>1. CASE Search
  <2>1. PICK f : f.next = <<>> /\ frames' = <<f>> /\ code' = progs[rule].code
    BY <1>1, Zenon DEF Search, StartSearch, Activation
  <2>2. LexerInv'
    BY LexerStep
  <2>3. SUFFICES ASSUME NoOpeners(code')
                 PROVE  \A n \in DOMAIN frames' : n = 1 /\ Len(frames'[n].next) <= Room(code', marks', mark')
    BY DEF FewInv
  <2>4. IsCode(code')
    <3>1. frames' # <<>>
      BY <2>1
    <3>2. QED
      BY <2>2, <3>1 DEF LexerInv, VMOK
  <2>5. Room(code', marks', mark') \in Nat
    BY <2>3, <2>4, RoomIs
  <2>6. DOMAIN frames' = {1} /\ frames'[1].next = <<>> /\ Len(<<>>) = 0
    BY <2>1
  <2>7. QED
    BY <2>5, <2>6
<1>2. CASE Step
  BY <1>2, StepFew DEF Step, LexerInv
<1>3. CASE frames' = <<>>
  BY <1>3 DEF FewInv
<1>4. CASE UNCHANGED <<code, frames, marks, mark>>
  BY <1>4 DEF FewInv, NoOpeners, Room, Begun, Ways, Consuming
<1>5. CASE LexMatch
  BY <1>1, <1>2, <1>3, <1>4, <1>5
     DEF LexMatch, SkipRule, Refused, NoMemory, NotFound, GotToken, GotSkip, Exhausted, Stop, vmvars
<1>6. CASE Client
  BY <1>4, <1>6
     DEF Client, Match, SkipN, Skip, SkipTo, PutBack, ResetInput, ClearError, EnableRule,
         EnableAll, MatchFlags, Called
<1>7. CASE UNCHANGED vars
  BY <1>4, <1>7 DEF vars
<1>8. QED
  BY <1>5, <1>6, <1>7 DEF Next

\* A list of threads never outgrows what the code of its expression allows,
\* whatever the text: __add_thread's marks are enough where nothing is counted
\* and nothing looks ahead.
THEOREM ListsStayBounded == Spec => []ThreadsStayFew
<1>1. Init => FewInv
  BY DEF Init, VMInit, FewInv
<1>2. LexerInv /\ FewInv => ThreadsStayFew
  <2> SUFFICES ASSUME LexerInv, FewInv, NoOpeners(code), NEW f \in ToSet(frames)
               PROVE  Len(f.next) <= SumFunction(Ways(code))
    BY DEF ThreadsStayFew, NoOpeners, Ways, Consuming
  <2>1. PICK n \in DOMAIN frames : f = frames[n]
    BY DEF ToSet
  <2>2. Len(f.next) <= Room(code, marks, mark)
    BY <2>1 DEF FewInv
  <2>3. IsCode(code)
    <3>1. frames # <<>>
      BY <2>1
    <3>2. QED
      BY <3>1 DEF LexerInv, VMOK
  <2>4. SumFunction(Ways(code)) = SumFunctionOnSet(Ways(code), Consuming(code))
    BY DEF SumFunction, SumFunctionOnSet, Ways
  <2>5. Len(f.next) \in Nat
    <3>1. frames \in Seq(AllFrames(code, input))
      BY DEF LexerInv, VMOK, FramesOK
    <3>2. f \in AllFrames(code, input)
      BY <2>1, <3>1
    <3>3. f.next \in Seq(AllThreads(code, input))
      BY <3>2 DEF AllFrames
    <3> HIDE DEF AllThreads
    <3>4. QED
      BY <3>3
  <2> DEFINE n1 == Len(f.next)
             r == Room(code, marks, mark)
             m == SumFunctionOnSet(Ways(code), Consuming(code))
  <2>6. r \in Nat /\ r <= m /\ n1 <= r /\ n1 \in Nat /\ m \in Nat
    <3>1. m \in Nat
      BY <2>3, WaysTyped, SumOfNats
    <3>2. QED
      BY <2>2, <2>3, <2>5, <3>1, RoomIs
  <2> HIDE DEF n1, r, m
  <2>7. n1 <= m
    BY <2>6
  <2>8. QED
    BY <2>4, <2>7 DEF n1, m
<1>3. QED
  BY <1>1, <1>2, FewStep, LexerInvHolds, PTL DEF Spec
===============================================================================
