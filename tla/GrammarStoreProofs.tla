-------------------------- MODULE GrammarStoreProofs --------------------------
(* For any names, token values and numbers of rules: the count of a symbol is *)
(* the number of its holders at every step of every call that builds a        *)
(* grammar, a lent list stays alive while the grammar grows, and each call    *)
(* keeps the promise of GrammarPromise and what that promise implies.         *)
EXTENDS GrammarStore, SeqLemmas, FiniteSetTheorems

-------------------------------------------------------------------------------
(* Counting the places that hold a symbol. *)

Hits(h, o) == {p \in DOMAIN h : h[p] = o}
IfSame(x, o) == IF x = o THEN 1 ELSE 0

LEMMA CountType ==
  ASSUME NEW h, IsFiniteSet(DOMAIN h)
  PROVE  \A o : /\ IsFiniteSet(Hits(h, o))
                /\ Count(h, o) = Cardinality(Hits(h, o))
                /\ Count(h, o) \in Nat
                /\ Count(h, o) # 0 <=> \E p \in DOMAIN h : h[p] = o
<1> TAKE o
<1>1. Hits(h, o) \in SUBSET DOMAIN h /\ Count(h, o) = Cardinality(Hits(h, o))
  BY DEF Hits, Count
<1>2. IsFiniteSet(Hits(h, o))
  BY <1>1, FS_Subset
<1>3. Cardinality(Hits(h, o)) \in Nat /\ (Cardinality(Hits(h, o)) = 0 <=> Hits(h, o) = {})
  BY <1>2, FS_CardinalityType, FS_EmptySet
<1>4. Hits(h, o) = {} <=> ~ \E p \in DOMAIN h : h[p] = o
  BY DEF Hits
<1>5. QED
  BY <1>1, <1>2, <1>3, <1>4

LEMMA CountNone ==
  \A o : Count(<<>>, o) = 0
<1> TAKE o
<1>1. DOMAIN <<>> = {}
  OBVIOUS
<1>2. {p \in DOMAIN <<>> : <<>>[p] = o} = {}
  BY <1>1
<1>3. QED
  BY <1>2, FS_EmptySet DEF Count

\* One more place.
LEMMA CountMore ==
  ASSUME NEW h, IsFiniteSet(DOMAIN h), NEW h1, NEW x, x \notin DOMAIN h,
         DOMAIN h1 = DOMAIN h \cup {x}, \A p \in DOMAIN h : h1[p] = h[p]
  PROVE  /\ IsFiniteSet(DOMAIN h1)
         /\ \A o : Count(h1, o) = Count(h, o) + IfSame(h1[x], o)
<1>1. IsFiniteSet(DOMAIN h1)
  BY FS_AddElement
<1>2. ASSUME NEW o PROVE Count(h1, o) = Count(h, o) + IfSame(h1[x], o)
  <2>1. /\ IsFiniteSet(Hits(h, o)) /\ Count(h, o) = Cardinality(Hits(h, o)) /\ Count(h, o) \in Nat
        /\ Count(h1, o) = Cardinality(Hits(h1, o))
    BY <1>1, CountType
  <2>2. CASE h1[x] = o
    <3>1. Hits(h1, o) = Hits(h, o) \cup {x} /\ x \notin Hits(h, o)
      BY <2>2 DEF Hits
    <3>2. Cardinality(Hits(h, o) \cup {x}) = Cardinality(Hits(h, o)) + 1
      BY <2>1, <3>1, FS_AddElement
    <3>3. QED
      BY <2>1, <2>2, <3>1, <3>2 DEF IfSame
  <2>3. CASE h1[x] # o
    <3>1. Hits(h1, o) = Hits(h, o)
      BY <2>3 DEF Hits
    <3>2. QED
      BY <2>1, <2>3, <3>1 DEF IfSame
  <2>4. QED
    BY <2>2, <2>3
<1>3. QED
  BY <1>1, <1>2

\* One place gets another symbol.
LEMMA CountChange ==
  ASSUME NEW h, IsFiniteSet(DOMAIN h), NEW h1, NEW x \in DOMAIN h,
         DOMAIN h1 = DOMAIN h, \A p \in DOMAIN h \ {x} : h1[p] = h[p]
  PROVE  \A o : Count(h1, o) + IfSame(h[x], o) = Count(h, o) + IfSame(h1[x], o)
<1> TAKE o
<1> DEFINE g == [p \in DOMAIN h \ {x} |-> h[p]]
<1>1. DOMAIN g = DOMAIN h \ {x} /\ \A p \in DOMAIN g : h[p] = g[p] /\ h1[p] = g[p]
  OBVIOUS
<1> HIDE DEF g
<1>2. IsFiniteSet(DOMAIN g) /\ x \notin DOMAIN g /\ DOMAIN h = DOMAIN g \cup {x}
  BY <1>1, FS_RemoveElement
<1>3. Count(h, o) = Count(g, o) + IfSame(h[x], o)
  <2>1. \A p \in DOMAIN g : h[p] = g[p]
    BY <1>1
  <2>2. QED
    BY <1>2, <2>1, CountMore
<1>4. Count(h1, o) = Count(g, o) + IfSame(h1[x], o)
  BY <1>1, <1>2, CountMore
<1>5. Count(g, o) \in Nat
  BY <1>2, CountType
<1>6. QED
  BY <1>3, <1>4, <1>5 DEF IfSame

\* The places of a rule are added to those of a grammar.
AddsBlock(h, h1, i, r) ==
  /\ \A k \in DOMAIN r : <<i, k>> \notin DOMAIN h
  /\ DOMAIN h1 = DOMAIN h \cup {<<i, k>> : k \in DOMAIN r}
  /\ \A p \in DOMAIN h : h1[p] = h[p]
  /\ \A k \in DOMAIN r : h1[<<i, k>>] = r[k]

LEMMA CountBlock ==
  ASSUME NEW h, IsFiniteSet(DOMAIN h), NEW r, IsFiniteSet(DOMAIN r), NEW h1, NEW i,
         AddsBlock(h, h1, i, r)
  PROVE  /\ IsFiniteSet(DOMAIN h1)
         /\ \A o : Count(h1, o) = Count(h, o) + Count(r, o)
<1> DEFINE new(S) == {<<i, k>> : k \in S}
<1>1. ASSUME NEW S, IsFiniteSet(S)
      PROVE  IsFiniteSet(new(S)) /\ Cardinality(new(S)) = Cardinality(S)
  <2> DEFINE f == [k \in S |-> <<i, k>>]
  <2>1. f \in [S -> new(S)]
    OBVIOUS
  <2>2. \A j, k \in S : f[j] = f[k] => j = k
    OBVIOUS
  <2>3. \A t \in new(S) : \E k \in S : f[k] = t
    OBVIOUS
  <2>4. f \in Bijection(S, new(S))
    BY <2>1, <2>2, <2>3 DEF Bijection, Injection, Surjection, IsInjective
  <2>5. ExistsBijection(S, new(S))
    BY <2>4 DEF ExistsBijection
  <2> HIDE DEF new
  <2>6. QED
    BY <1>1, <2>5, FS_Bijection
<1>2. IsFiniteSet(DOMAIN h1)
  <2>1. IsFiniteSet(new(DOMAIN r))
    BY <1>1
  <2>2. DOMAIN h1 = DOMAIN h \cup new(DOMAIN r)
    BY DEF AddsBlock
  <2>3. QED
    BY <2>1, <2>2, FS_Union
<1>3. ASSUME NEW o PROVE Count(h1, o) = Count(h, o) + Count(r, o)
  <2>1. /\ IsFiniteSet(Hits(h, o)) /\ Count(h, o) = Cardinality(Hits(h, o)) /\ Count(h, o) \in Nat
        /\ IsFiniteSet(Hits(r, o)) /\ Count(r, o) = Cardinality(Hits(r, o)) /\ Count(r, o) \in Nat
        /\ Count(h1, o) = Cardinality(Hits(h1, o))
    BY <1>2, CountType
  <2>2. Hits(h1, o) = Hits(h, o) \cup new(Hits(r, o))
    BY DEF Hits, AddsBlock
  <2>3. Hits(h, o) \cap new(Hits(r, o)) = {}
    BY DEF Hits, AddsBlock
  <2>4. IsFiniteSet(new(Hits(r, o))) /\ Cardinality(new(Hits(r, o))) = Cardinality(Hits(r, o))
    BY <1>1, <2>1
  <2> HIDE DEF new
  <2>5. Cardinality(Hits(h1, o)) = Cardinality(Hits(h, o)) + Cardinality(new(Hits(r, o)))
                                     - Cardinality({})
    BY <2>1, <2>2, <2>3, <2>4, FS_Union
  <2>6. QED
    BY <2>1, <2>4, <2>5, FS_EmptySet
<1>4. QED
  BY <1>2, <1>3

-------------------------------------------------------------------------------
(* What the state is made of. *)

NamesOf == Names \cup {EOI, ErrorT, DefPrec, Start}
Precs   == Names \cup {EOI, ErrorT, DefPrec, NoName}
Symb == [name : NamesOf, type : {"term", "nonterm"}, refs : Nat]
Term == [term : Nat, val : Values \cup {0, 3, 4}]
Rule == [head : Nat, body : Seq(Nat), prec : Precs]
Gr   == [open : BOOLEAN, terms : Seq(Term), rules : Seq(Rule), cap : Nat,
         symb_list : SUBSET Nat]
Call == [doing : {"none", "create", "scan", "copy", "insert"}, by : {"str", "list"},
         head : Nat, body : Seq(Nat), rule : Rule]

TermPlace(g, p) == \E k \in DOMAIN g.terms : p = <<0, k>>
RulePlace(g, p) == \E i \in DOMAIN g.rules : \E k \in 0 .. Len(g.rules[i].body) : p = <<i, k>>

LEMMA PlaceIn ==
  ASSUME NEW g, NEW p
  PROVE  p \in Places(g) <=> TermPlace(g, p) \/ RulePlace(g, p)
  BY DEF Places, TermPlace, RulePlace

LEMMA HeldAt ==
  ASSUME NEW g \in Gr
  PROVE  /\ DOMAIN Held(g) = Places(g)
         /\ \A k \in DOMAIN g.terms : <<0, k>> \in Places(g) /\ Held(g)[<<0, k>>] = g.terms[k].term
         /\ \A i \in DOMAIN g.rules : \A k \in 0 .. Len(g.rules[i].body) :
              <<i, k>> \in Places(g) /\ Held(g)[<<i, k>>] = SymbAt(g.rules[i], k)
<1>1. DOMAIN Held(g) = Places(g)
  BY DEF Held
<1>2. ASSUME NEW k \in DOMAIN g.terms
      PROVE  <<0, k>> \in Places(g) /\ Held(g)[<<0, k>>] = g.terms[k].term
  <2>1. <<0, k>> \in Places(g)
    BY PlaceIn DEF TermPlace
  <2>2. QED
    BY <2>1 DEF Held
<1>3. ASSUME NEW i \in DOMAIN g.rules, NEW k \in 0 .. Len(g.rules[i].body)
      PROVE  <<i, k>> \in Places(g) /\ Held(g)[<<i, k>>] = SymbAt(g.rules[i], k)
  <2>1. <<i, k>> \in Places(g)
    BY PlaceIn DEF RulePlace
  <2>2. i # 0
    <3>1. g.rules \in Seq(Rule)
      BY DEF Gr
    <3>2. QED
      BY <3>1, LenProperties
  <2>3. QED
    BY <2>1, <2>2 DEF Held
<1>4. QED
  BY <1>1, <1>2, <1>3

\* What g held stays where it was.
Still(g, g1) == \A p \in Places(g) : p \in Places(g1) /\ Held(g1)[p] = Held(g)[p]

LEMMA HeldTerm ==
  ASSUME NEW g \in Gr, IsFiniteSet(Places(g)), NEW t \in Term, NEW g1 \in Gr,
         g1.terms = Append(g.terms, t), g1.rules = g.rules
  PROVE  /\ IsFiniteSet(Places(g1)) /\ Still(g, g1)
         /\ \A o : Count(Held(g1), o) = Count(Held(g), o) + IfSame(t.term, o)
<1> DEFINE n == Len(g.terms)
           x == <<0, n + 1>>
<1>1. /\ n \in Nat /\ DOMAIN g.terms = 1 .. n /\ DOMAIN g1.terms = 1 .. n + 1
      /\ \A k \in 1 .. n : g1.terms[k] = g.terms[k]
      /\ g1.terms[n + 1] = t
  <2>1. g.terms \in Seq(Term)
    BY DEF Gr
  <2>2. QED
    BY <2>1, AppendProperties, LenProperties
<1>2. DOMAIN g.rules \subseteq Nat \ {0}
  <2>1. g.rules \in Seq(Rule)
    BY DEF Gr
  <2>2. QED
    BY <2>1, LenProperties
<1> HIDE DEF n
<1>3. Places(g1) = Places(g) \cup {x} /\ x \notin Places(g)
  <2>1. ASSUME NEW p PROVE p \in Places(g1) <=> p \in Places(g) \/ p = x
    BY <1>1, PlaceIn DEF TermPlace, RulePlace
  <2>2. x \notin Places(g)
    BY <1>1, <1>2, PlaceIn DEF TermPlace, RulePlace
  <2>3. QED
    BY <2>1, <2>2
<1>4. ASSUME NEW p \in Places(g) PROVE Held(g1)[p] = Held(g)[p]
  <2>1. CASE TermPlace(g, p)
    BY <1>1, <2>1, HeldAt DEF TermPlace
  <2>2. CASE RulePlace(g, p)
    BY <2>2, HeldAt DEF RulePlace
  <2>3. QED
    BY <2>1, <2>2, PlaceIn
<1>5. Held(g1)[x] = t.term
  BY <1>1, HeldAt
<1>6. DOMAIN Held(g) = Places(g) /\ DOMAIN Held(g1) = Places(g1)
  BY HeldAt
<1> HIDE DEF x
<1>7. IsFiniteSet(Places(g1)) /\ \A o : Count(Held(g1), o) = Count(Held(g), o) + IfSame(t.term, o)
  BY <1>3, <1>4, <1>5, <1>6, CountMore
<1>8. QED
  BY <1>3, <1>4, <1>7 DEF Still

LEMMA RuleAt ==
  ASSUME NEW r, r.body \in Seq(Nat), r.head # 0
  PROVE  /\ DOMAIN RuleSymbs(r) = 0 .. Len(r.body)
         /\ \A k \in 0 .. Len(r.body) : RuleSymbs(r)[k] = SymbAt(r, k)
         /\ IsFiniteSet(DOMAIN RuleSymbs(r))
<1>1. Len(r.body) \in Nat
  BY LenProperties
<1>2. QED
  BY <1>1, FS_Interval DEF RuleSymbs

LEMMA HeldRule ==
  ASSUME NEW g \in Gr, IsFiniteSet(Places(g)), NEW r \in Rule, r.head # 0, NEW g1 \in Gr,
         g1.rules = Append(g.rules, r), g1.terms = g.terms
  PROVE  /\ IsFiniteSet(Places(g1)) /\ Still(g, g1)
         /\ \A o : Count(Held(g1), o) = Count(Held(g), o) + Count(RuleSymbs(r), o)
<1> DEFINE n == Len(g.rules)
           i == n + 1
<1>1. /\ n \in Nat /\ DOMAIN g.rules = 1 .. n /\ DOMAIN g1.rules = 1 .. i
      /\ \A k \in 1 .. n : g1.rules[k] = g.rules[k]
      /\ g1.rules[i] = r
  <2>1. g.rules \in Seq(Rule)
    BY DEF Gr
  <2>2. QED
    BY <2>1, AppendProperties, LenProperties
<1> HIDE DEF n
<1>2. /\ DOMAIN RuleSymbs(r) = 0 .. Len(r.body) /\ IsFiniteSet(DOMAIN RuleSymbs(r))
      /\ \A k \in 0 .. Len(r.body) : RuleSymbs(r)[k] = SymbAt(r, k)
  BY RuleAt DEF Rule
<1>3. Places(g1) = Places(g) \cup {<<i, k>> : k \in 0 .. Len(r.body)}
  <2>1. ASSUME NEW p PROVE p \in Places(g1) <=> p \in Places(g) \/ \E k \in 0 .. Len(r.body) : p = <<i, k>>
    <3>1. TermPlace(g1, p) <=> TermPlace(g, p)
      BY DEF TermPlace
    <3>2. RulePlace(g1, p) <=> RulePlace(g, p) \/ \E k \in 0 .. Len(r.body) : p = <<i, k>>
      BY <1>1 DEF RulePlace
    <3>3. QED
      BY <3>1, <3>2, PlaceIn
  <2>2. QED
    BY <2>1
<1>4. \A k \in 0 .. Len(r.body) : <<i, k>> \notin Places(g)
  BY <1>1, PlaceIn DEF TermPlace, RulePlace
<1>5. ASSUME NEW p \in Places(g) PROVE Held(g1)[p] = Held(g)[p]
  <2>1. CASE TermPlace(g, p)
    BY <2>1, HeldAt DEF TermPlace
  <2>2. CASE RulePlace(g, p)
    <3>1. PICK j \in DOMAIN g.rules : \E k \in 0 .. Len(g.rules[j].body) : p = <<j, k>>
      BY <2>2 DEF RulePlace
    <3>2. j \in DOMAIN g1.rules /\ g1.rules[j] = g.rules[j]
      BY <1>1
    <3>3. QED
      BY <3>1, <3>2, HeldAt
  <2>3. QED
    BY <2>1, <2>2, PlaceIn
<1>6. \A k \in 0 .. Len(r.body) : Held(g1)[<<i, k>>] = SymbAt(r, k)
  <2>1. i \in DOMAIN g1.rules /\ g1.rules[i] = r
    BY <1>1
  <2> HIDE DEF i
  <2>2. QED
    BY <2>1, HeldAt
<1>7. DOMAIN Held(g) = Places(g) /\ DOMAIN Held(g1) = Places(g1)
  BY HeldAt
<1>8. /\ IsFiniteSet(Places(g1))
      /\ \A o : Count(Held(g1), o) = Count(Held(g), o) + Count(RuleSymbs(r), o)
  <2> DEFINE h == Held(g)
             h1 == Held(g1)
             b == RuleSymbs(r)
  <2>1. IsFiniteSet(DOMAIN h) /\ IsFiniteSet(DOMAIN b) /\ AddsBlock(h, h1, i, b)
    BY <1>2, <1>3, <1>4, <1>5, <1>6, <1>7 DEF AddsBlock
  <2>2. DOMAIN h1 = Places(g1)
    BY <1>7
  <2> HIDE DEF h, h1, b, i
  <2>3. IsFiniteSet(DOMAIN h1) /\ \A o : Count(h1, o) = Count(h, o) + Count(b, o)
    BY <2>1, CountBlock
  <2>4. QED
    BY <2>2, <2>3 DEF h, h1, b
<1>9. QED
  BY <1>3, <1>5, <1>8 DEF Still

\* The augmented rule gets its body.
LEMMA HeldStart ==
  ASSUME NEW g \in Gr, IsFiniteSet(Places(g)), 1 \in DOMAIN g.rules, g.rules[1].body = <<>>,
         NEW x \in Nat, NEW g1 \in Gr, g1.terms = g.terms, DOMAIN g1.rules = DOMAIN g.rules,
         \A i \in DOMAIN g.rules \ {1} : g1.rules[i] = g.rules[i],
         g1.rules[1].head = g.rules[1].head, g1.rules[1].body = <<x>>
  PROVE  /\ IsFiniteSet(Places(g1)) /\ Still(g, g1)
         /\ \A o : Count(Held(g1), o) = Count(Held(g), o) + IfSame(x, o)
<1> DEFINE y == <<1, 1>>
<1>1. Len(<<x>>) = 1 /\ <<x>>[1] = x /\ Len(<<>>) = 0 /\ 0 .. 1 = {0, 1} /\ 0 .. 0 = {0}
  OBVIOUS
<1>2. Places(g1) = Places(g) \cup {y} /\ y \notin Places(g)
  <2>1. ASSUME NEW p PROVE p \in Places(g1) <=> p \in Places(g) \/ p = y
    <3>1. TermPlace(g1, p) <=> TermPlace(g, p)
      BY DEF TermPlace
    <3>2. RulePlace(g1, p) <=> RulePlace(g, p) \/ p = y
      <4>1. \A i \in DOMAIN g.rules \ {1} :
              (\E k \in 0 .. Len(g1.rules[i].body) : p = <<i, k>>)
                <=> \E k \in 0 .. Len(g.rules[i].body) : p = <<i, k>>
        OBVIOUS
      <4>2. (\E k \in 0 .. Len(g1.rules[1].body) : p = <<1, k>>) <=> p = <<1, 0>> \/ p = y
        BY <1>1
      <4>3. (\E k \in 0 .. Len(g.rules[1].body) : p = <<1, k>>) <=> p = <<1, 0>>
        BY <1>1
      <4>4. QED
        BY <4>1, <4>2, <4>3 DEF RulePlace
    <3>3. QED
      BY <3>1, <3>2, PlaceIn
  <2>2. y \notin Places(g)
    BY <1>1, PlaceIn DEF TermPlace, RulePlace
  <2>3. QED
    BY <2>1, <2>2
<1>3. ASSUME NEW p \in Places(g) PROVE Held(g1)[p] = Held(g)[p]
  <2>1. CASE TermPlace(g, p)
    BY <2>1, HeldAt DEF TermPlace
  <2>2. CASE RulePlace(g, p)
    <3>1. PICK i \in DOMAIN g.rules : \E k \in 0 .. Len(g.rules[i].body) : p = <<i, k>>
      BY <2>2 DEF RulePlace
    <3>2. CASE i = 1
      <4>1. p = <<1, 0>> /\ 0 \in 0 .. Len(g.rules[1].body) /\ 0 \in 0 .. Len(g1.rules[1].body)
        BY <1>1, <3>1, <3>2
      <4>2. Held(g)[p] = SymbAt(g.rules[1], 0) /\ Held(g1)[p] = SymbAt(g1.rules[1], 0)
        BY <4>1, HeldAt
      <4>3. QED
        BY <4>2 DEF SymbAt
    <3>3. CASE i # 1
      <4>1. i \in DOMAIN g1.rules /\ g1.rules[i] = g.rules[i]
        BY <3>3
      <4>2. QED
        BY <3>1, <4>1, HeldAt
    <3>4. QED
      BY <3>2, <3>3
  <2>3. QED
    BY <2>1, <2>2, PlaceIn
<1>4. Held(g1)[y] = x
  <2>1. 1 \in 0 .. Len(g1.rules[1].body)
    BY <1>1
  <2>2. Held(g1)[y] = SymbAt(g1.rules[1], 1)
    BY <2>1, HeldAt
  <2>3. QED
    BY <1>1, <2>2 DEF SymbAt
<1>5. DOMAIN Held(g) = Places(g) /\ DOMAIN Held(g1) = Places(g1)
  BY HeldAt
<1> HIDE DEF y
<1>6. IsFiniteSet(Places(g1)) /\ \A o : Count(Held(g1), o) = Count(Held(g), o) + IfSame(x, o)
  BY <1>2, <1>3, <1>4, <1>5, CountMore
<1>7. QED
  BY <1>2, <1>3, <1>6 DEF Still

\* The augmented rule gets another body.
LEMMA HeldSwap ==
  ASSUME NEW g \in Gr, IsFiniteSet(Places(g)), 1 \in DOMAIN g.rules,
         NEW y \in Nat, g.rules[1].body = <<y>>,
         NEW x \in Nat, NEW g1 \in Gr, g1.terms = g.terms, DOMAIN g1.rules = DOMAIN g.rules,
         \A i \in DOMAIN g.rules \ {1} : g1.rules[i] = g.rules[i],
         g1.rules[1].head = g.rules[1].head, g1.rules[1].body = <<x>>
  PROVE  /\ Places(g1) = Places(g)
         /\ \A p \in Places(g) \ {<<1, 1>>} : Held(g1)[p] = Held(g)[p]
         /\ \A o : Count(Held(g1), o) + IfSame(y, o) = Count(Held(g), o) + IfSame(x, o)
<1> DEFINE z == <<1, 1>>
<1>1. Len(<<x>>) = 1 /\ Len(<<y>>) = 1 /\ <<x>>[1] = x /\ <<y>>[1] = y /\ 0 .. 1 = {0, 1}
  OBVIOUS
<1>2. Places(g1) = Places(g) /\ z \in Places(g)
  <2>1. ASSUME NEW p PROVE p \in Places(g1) <=> p \in Places(g)
    <3>1. TermPlace(g1, p) <=> TermPlace(g, p)
      BY DEF TermPlace
    <3>2. RulePlace(g1, p) <=> RulePlace(g, p)
      BY <1>1 DEF RulePlace
    <3>3. QED
      BY <3>1, <3>2, PlaceIn
  <2>2. z \in Places(g)
    BY <1>1, PlaceIn DEF RulePlace
  <2>3. QED
    BY <2>1, <2>2
<1>3. ASSUME NEW p \in Places(g) \ {z} PROVE Held(g1)[p] = Held(g)[p]
  <2>1. CASE TermPlace(g, p)
    BY <2>1, HeldAt DEF TermPlace
  <2>2. CASE RulePlace(g, p)
    <3>1. PICK i \in DOMAIN g.rules : \E k \in 0 .. Len(g.rules[i].body) : p = <<i, k>>
      BY <2>2 DEF RulePlace
    <3>2. CASE i = 1
      <4>1. p = <<1, 0>> /\ 0 \in 0 .. Len(g.rules[1].body) /\ 0 \in 0 .. Len(g1.rules[1].body)
        BY <1>1, <3>1, <3>2
      <4>2. Held(g)[p] = SymbAt(g.rules[1], 0) /\ Held(g1)[p] = SymbAt(g1.rules[1], 0)
        BY <4>1, HeldAt
      <4>3. QED
        BY <4>2 DEF SymbAt
    <3>3. CASE i # 1
      <4>1. i \in DOMAIN g1.rules /\ g1.rules[i] = g.rules[i]
        BY <3>3
      <4>2. QED
        BY <3>1, <4>1, HeldAt
    <3>4. QED
      BY <3>2, <3>3
  <2>3. QED
    BY <2>1, <2>2, PlaceIn
<1>4. Held(g1)[z] = x /\ Held(g)[z] = y
  <2>1. 1 \in 0 .. Len(g1.rules[1].body) /\ 1 \in 0 .. Len(g.rules[1].body)
    BY <1>1
  <2>2. Held(g1)[z] = SymbAt(g1.rules[1], 1) /\ Held(g)[z] = SymbAt(g.rules[1], 1)
    BY <2>1, HeldAt
  <2>3. QED
    BY <1>1, <2>2 DEF SymbAt
<1>5. DOMAIN Held(g) = Places(g) /\ DOMAIN Held(g1) = Places(g1)
  BY HeldAt
<1> HIDE DEF z
<1>6. \A o : Count(Held(g1), o) + IfSame(y, o) = Count(Held(g), o) + IfSame(x, o)
  BY <1>2, <1>3, <1>4, <1>5, CountChange
<1>7. QED
  BY <1>2, <1>3, <1>6 DEF z

LEMMA RuleNew ==
  ASSUME NEW r, r.head # 0, r.body = <<>>
  PROVE  \A o : Count(RuleSymbs(r), o) = IfSame(r.head, o)
<1>1. Len(<<>>) = 0 /\ 0 .. 0 = {0} /\ DOMAIN <<>> = {}
  OBVIOUS
<1>2. DOMAIN RuleSymbs(r) = {0} /\ RuleSymbs(r)[0] = r.head
  <2>1. r.body \in Seq(Nat)
    OBVIOUS
  <2>2. QED
    BY <1>1, <2>1, RuleAt DEF SymbAt
<1>3. \A o : Count(RuleSymbs(r), o) = Count(<<>>, o) + IfSame(RuleSymbs(r)[0], o)
  BY <1>1, <1>2, FS_EmptySet, CountMore
<1>4. QED
  BY <1>2, <1>3, CountNone DEF IfSame

LEMMA RuleMore ==
  ASSUME NEW r, r.body \in Seq(Nat), r.head # 0, NEW x \in Nat, NEW r1,
         r1.head = r.head, r1.body = Append(r.body, x)
  PROVE  \A o : Count(RuleSymbs(r1), o) = Count(RuleSymbs(r), o) + IfSame(x, o)
<1> DEFINE n == Len(r.body)
<1>1. /\ n \in Nat /\ Len(r1.body) = n + 1 /\ r1.body[n + 1] = x
      /\ \A k \in 1 .. n : r1.body[k] = r.body[k]
      /\ r1.body \in Seq(Nat)
  BY AppendProperties, LenProperties
<1> HIDE DEF n
<1>2. /\ DOMAIN RuleSymbs(r) = 0 .. n /\ DOMAIN RuleSymbs(r1) = 0 .. (n + 1)
      /\ \A k \in 0 .. n : RuleSymbs(r)[k] = SymbAt(r, k)
      /\ \A k \in 0 .. (n + 1) : RuleSymbs(r1)[k] = SymbAt(r1, k)
      /\ IsFiniteSet(DOMAIN RuleSymbs(r))
  BY <1>1, RuleAt DEF n
<1>3. DOMAIN RuleSymbs(r1) = DOMAIN RuleSymbs(r) \cup {n + 1} /\ n + 1 \notin DOMAIN RuleSymbs(r)
  BY <1>1, <1>2
<1>4. ASSUME NEW k \in DOMAIN RuleSymbs(r) PROVE RuleSymbs(r1)[k] = RuleSymbs(r)[k]
  <2>1. CASE k = 0
    BY <1>1, <1>2, <2>1 DEF SymbAt
  <2>2. CASE k # 0
    <3>1. k \in 1 .. n /\ k \in 0 .. (n + 1)
      BY <1>1, <1>2, <2>2
    <3>2. QED
      BY <1>1, <1>2, <2>2, <3>1 DEF SymbAt
  <2>3. QED
    BY <2>1, <2>2
<1>5. RuleSymbs(r1)[n + 1] = x
  <2>1. n + 1 \in 0 .. (n + 1) /\ n + 1 # 0
    BY <1>1
  <2>2. QED
    BY <1>1, <1>2, <2>1 DEF SymbAt
<1> DEFINE h == RuleSymbs(r)
           h1 == RuleSymbs(r1)
           y == n + 1
<1>6. /\ IsFiniteSet(DOMAIN h) /\ y \notin DOMAIN h /\ DOMAIN h1 = DOMAIN h \cup {y}
      /\ \A k \in DOMAIN h : h1[k] = h[k]
      /\ h1[y] = x
  BY <1>2, <1>3, <1>4, <1>5
<1> HIDE DEF h, h1, y
<1>7. \A o : Count(h1, o) = Count(h, o) + IfSame(x, o)
  BY <1>6, CountMore
<1>8. QED
  BY <1>7 DEF h, h1

-------------------------------------------------------------------------------
(* Symbols whose counts are exactly c, and what the three operations on       *)
(* references make of them.                                                   *)
Exact(m, c) ==
  /\ m \in [DOMAIN m -> Symb] /\ IsFiniteSet(DOMAIN m)
  /\ DOMAIN m = {o \in Nat : c[o] # 0} /\ 0 \notin DOMAIN m
  /\ \A o \in DOMAIN m : m[o].refs = c[o]

\* A symbol that is there before and after is the same.
Keeps(m, m1) ==
  \A o \in DOMAIN m : o \in DOMAIN m1 => m1[o].name = m[o].name /\ m1[o].type = m[o].type

LEMMA CopiedExact ==
  ASSUME NEW m, NEW c \in [Nat -> Nat], Exact(m, c), NEW x \in DOMAIN m,
         NEW c1 \in [Nat -> Nat], \A o \in Nat : c1[o] = c[o] + IfSame(x, o)
  PROVE  /\ Exact(Copied(m, x), c1)
         /\ DOMAIN Copied(m, x) = DOMAIN m /\ Keeps(m, Copied(m, x))
<1> DEFINE m1 == Copied(m, x)
<1>1. /\ DOMAIN m \subseteq Nat /\ \A o \in DOMAIN m : m[o] \in Symb /\ m[o].refs = c[o] /\ c[o] # 0
      /\ m = [o \in DOMAIN m |-> m[o]]
  BY DEF Exact
<1>2. m1 = [o \in DOMAIN m |-> IF o = x THEN [m[o] EXCEPT !.refs = m[o].refs + 1] ELSE m[o]]
  BY <1>1 DEF Copied
<1> HIDE DEF m1
<1>3. \A o \in DOMAIN m : /\ m1[o] \in Symb /\ m1[o].refs = c1[o] /\ c1[o] # 0
                          /\ m1[o].name = m[o].name /\ m1[o].type = m[o].type
  <2> TAKE o \in DOMAIN m
  <2>1. m[o] \in Symb /\ m[o].refs = c[o] /\ c[o] \in Nat /\ c[o] # 0 /\ c1[o] = c[o] + IfSame(x, o)
    BY <1>1
  <2>2. CASE o = x
    <3>1. m1[o] = [m[o] EXCEPT !.refs = m[o].refs + 1]
      BY <1>2, <2>2
    <3>2. m1[o].refs = c[o] + 1 /\ m1[o] \in Symb /\ m1[o].name = m[o].name /\ m1[o].type = m[o].type
      BY <2>1, <3>1 DEF Symb
    <3>3. c1[o] = c[o] + 1
      BY <2>1, <2>2 DEF IfSame
    <3>4. QED
      BY <2>1, <3>2, <3>3
  <2>3. CASE o # x
    <3>1. m1[o] = m[o] /\ c1[o] = c[o]
      BY <1>2, <2>1, <2>3 DEF IfSame
    <3>2. QED
      BY <2>1, <3>1
  <2>4. QED
    BY <2>2, <2>3
<1>4. DOMAIN m1 = DOMAIN m /\ m1 \in [DOMAIN m -> Symb]
  BY <1>2, <1>3
<1>5. \A o \in Nat : c1[o] # 0 <=> c[o] # 0
  <2> TAKE o \in Nat
  <2>1. CASE o \in DOMAIN m
    BY <1>1, <1>3, <2>1
  <2>2. CASE o \notin DOMAIN m
    BY <2>2 DEF Exact, IfSame
  <2>3. QED
    BY <2>1, <2>2
<1>6. Exact(m1, c1)
  BY <1>3, <1>4, <1>5 DEF Exact
<1>7. QED
  BY <1>3, <1>4, <1>6 DEF Keeps, m1

LEMMA DestroyedExact ==
  ASSUME NEW m, NEW c \in [Nat -> Nat], Exact(m, c), NEW h,
         \A o \in Nat : Count(h, o) \in Nat,
         NEW c1 \in [Nat -> Nat], \A o \in Nat : c[o] = c1[o] + Count(h, o)
  PROVE  /\ Exact(Destroyed(m, h), c1)
         /\ DOMAIN Destroyed(m, h) \subseteq DOMAIN m /\ Keeps(m, Destroyed(m, h))
<1> DEFINE m1 == Destroyed(m, h)
           D == {o \in DOMAIN m : m[o].refs # Count(h, o)}
<1>1. /\ DOMAIN m \subseteq Nat /\ 0 \notin DOMAIN m
      /\ \A o \in DOMAIN m : m[o] \in Symb /\ m[o].refs = c[o] /\ c[o] # 0
  BY DEF Exact
<1>2. m1 = [o \in D |-> [m[o] EXCEPT !.refs = m[o].refs - Count(h, o)]]
  BY DEF Destroyed
<1>3. D = {o \in Nat : c1[o] # 0} /\ D \subseteq DOMAIN m
  <2>1. ASSUME NEW o \in Nat PROVE o \in D <=> c1[o] # 0
    <3>1. c[o] = c1[o] + Count(h, o) /\ c[o] \in Nat /\ c1[o] \in Nat /\ Count(h, o) \in Nat
      OBVIOUS
    <3>2. CASE o \in DOMAIN m
      <4>1. o \in D <=> c[o] # Count(h, o)
        BY <1>1, <3>2
      <4>2. c[o] # Count(h, o) <=> c1[o] # 0
        BY <3>1
      <4>3. QED
        BY <4>1, <4>2
    <3>3. CASE o \notin DOMAIN m
      <4>1. c[o] = 0
        BY <3>3 DEF Exact
      <4>2. QED
        BY <3>1, <3>3, <4>1
    <3>4. QED
      BY <3>2, <3>3
  <2>2. QED
    BY <1>1, <2>1
<1> HIDE DEF m1, D
<1>4. \A o \in D : /\ m1[o] \in Symb /\ m1[o].refs = c1[o]
                   /\ m1[o].name = m[o].name /\ m1[o].type = m[o].type
  <2> TAKE o \in D
  <2>1. m[o] \in Symb /\ m[o].refs = c[o] /\ o \in Nat
    BY <1>1, <1>3
  <2>2. c[o] = c1[o] + Count(h, o) /\ c[o] \in Nat /\ c1[o] \in Nat /\ Count(h, o) \in Nat
    BY <2>1
  <2>3. m1[o] = [m[o] EXCEPT !.refs = m[o].refs - Count(h, o)]
    BY <1>2
  <2>4. m[o].refs - Count(h, o) = c1[o]
    BY <2>1, <2>2
  <2>5. QED
    BY <2>1, <2>2, <2>3, <2>4 DEF Symb
<1>5. DOMAIN m1 = D /\ m1 \in [D -> Symb] /\ IsFiniteSet(D)
  <2>1. IsFiniteSet(D)
    BY <1>3, FS_Subset DEF Exact
  <2>2. QED
    BY <1>2, <1>4, <2>1
<1>6. Exact(m1, c1)
  BY <1>1, <1>3, <1>4, <1>5 DEF Exact
<1>7. QED
  BY <1>3, <1>4, <1>5, <1>6 DEF Keeps, m1

Extends(m, m1, x, n, t) ==
  /\ x \in Nat \ {0} /\ x \notin DOMAIN m /\ n \in NamesOf /\ t \in {"term", "nonterm"}
  /\ m1 = [o \in DOMAIN m \cup {x} |->
             IF o = x THEN [name |-> n, type |-> t, refs |-> 1] ELSE m[o]]

OneMore(c, c1, x) ==
  c \in [Nat -> Nat] /\ c1 \in [Nat -> Nat] /\ \A o \in Nat : c1[o] = c[o] + IfSame(x, o)

LEMMA WithExact ==
  ASSUME NEW m, NEW c, Exact(m, c), NEW x, NEW n, NEW t, NEW m1, Extends(m, m1, x, n, t),
         NEW c1, OneMore(c, c1, x)
  PROVE  /\ Exact(m1, c1) /\ Keeps(m, m1) /\ DOMAIN m1 = DOMAIN m \cup {x}
         /\ m1[x].name = n /\ m1[x].type = t
<1> DEFINE D == DOMAIN m \cup {x}
           new == [name |-> n, type |-> t, refs |-> 1]
<1>1. /\ DOMAIN m \subseteq Nat /\ 0 \notin DOMAIN m /\ x \notin DOMAIN m
      /\ \A o \in DOMAIN m : m[o] \in Symb /\ m[o].refs = c[o] /\ c[o] # 0
  BY DEF Exact, Extends
<1>2. m1 = [o \in D |-> IF o = x THEN new ELSE m[o]]
  BY DEF Extends
<1>3. new \in Symb /\ new.refs = 1 /\ new.name = n /\ new.type = t
  BY DEF Symb, Extends
<1> HIDE DEF new
<1>0. /\ x \in Nat /\ x # 0 /\ c \in [Nat -> Nat] /\ c1 \in [Nat -> Nat]
      /\ \A o \in Nat : c1[o] = c[o] + IfSame(x, o)
  BY DEF Extends, OneMore
<1>4. c[x] = 0 /\ c1[x] = 1 /\ \A o \in DOMAIN m : c1[o] = c[o]
  <2>1. c[x] = 0
    BY <1>1, <1>0 DEF Exact
  <2>2. c1[x] = c[x] + 1
    BY <1>0 DEF IfSame
  <2>3. \A o \in DOMAIN m : c1[o] = c[o]
    BY <1>1, <1>0 DEF IfSame
  <2>4. QED
    BY <2>1, <2>2, <2>3
<1>5. D = {o \in Nat : c1[o] # 0}
  <2>1. ASSUME NEW o \in Nat PROVE o \in D <=> c1[o] # 0
    <3>1. CASE o = x
      BY <1>4, <1>0, <3>1
    <3>2. CASE o # x
      <4>1. c1[o] = c[o]
        BY <1>0, <3>2 DEF IfSame
      <4>2. QED
        BY <3>2, <4>1 DEF Exact
    <3>3. QED
      BY <3>1, <3>2
  <2>2. QED
    BY <1>1, <1>0, <2>1
<1>6. DOMAIN m1 = D /\ m1 \in [D -> Symb] /\ m1[x] = new /\ \A o \in DOMAIN m : m1[o] = m[o]
  BY <1>1, <1>2, <1>3
<1>7. IsFiniteSet(D)
  BY <1>1, FS_AddElement DEF Exact
<1>8. \A o \in D : m1[o].refs = c1[o]
  BY <1>1, <1>3, <1>4, <1>6
<1>9. Exact(m1, c1)
  BY <1>0, <1>1, <1>5, <1>6, <1>7, <1>8 DEF Exact
<1>10. QED
  BY <1>3, <1>6, <1>9 DEF Keeps

\* A number that no symbol has can always be found.
LEMMA UnusedIs ==
  ASSUME NEW c, Exact(symbs, c), NEW least \in Nat
  PROVE  Unused(least) \in Nat /\ Unused(least) >= least /\ Unused(least) \notin Objects
<1> DEFINE n == Cardinality(DOMAIN symbs)
           R == least .. least + n
           T == R \ DOMAIN symbs
<1>1. IsFiniteSet(DOMAIN symbs) /\ n \in Nat
  BY FS_CardinalityType DEF Exact
<1>2. IsFiniteSet(R) /\ Cardinality(R) = n + 1
  <2> HIDE DEF n
  <2>1. least \in Int /\ least + n \in Int /\ ~(least > least + n)
        /\ (least + n) - least + 1 = n + 1
    BY <1>1
  <2>2. /\ IsFiniteSet(least .. least + n)
        /\ Cardinality(least .. least + n)
              = IF least > least + n THEN 0 ELSE (least + n) - least + 1
    BY <2>1, FS_Interval
  <2>3. QED
    BY <2>1, <2>2
<1>3. T # {}
  <2> SUFFICES ASSUME R \subseteq DOMAIN symbs PROVE FALSE
    OBVIOUS
  <2>1. Cardinality(R) <= n
    <3> HIDE DEF R
    <3>1. QED
      BY <1>1, FS_Subset
  <2>2. QED
    BY <1>1, <1>2, <2>1
<1>4. T \in SUBSET Nat
  BY <1>1
<1>5. Min(T) \in T
  BY <1>3, <1>4, MinIn
<1>6. Unused(least) = Min(T)
  BY DEF Unused
<1> HIDE DEF T
<1>7. Unused(least) \in T
  BY <1>5, <1>6
<1>8. QED
  BY <1>1, <1>7 DEF T, Objects

-------------------------------------------------------------------------------
(* The inductive invariant.                                                   *)

Typed ==
  /\ grammar \in Gr /\ IsFiniteSet(Places(grammar))
  /\ fresh \in Gr /\ IsFiniteSet(Places(fresh))
  /\ call \in Call

Tally == [o \in Nat |-> Owners(o)]
Owned == Exact(symbs, Tally)

\* The names of terminals, and so the precedences that rules have.
Terminals == Names \cup {EOI, ErrorT, DefPrec}

NameAt(m, g, k) == m[g.terms[k].term].name
TermsOK(g) ==
  /\ \A k \in DOMAIN g.terms : NameAt(symbs, g, k) \in Terminals
  /\ \A j, k \in DOMAIN g.terms : NameAt(symbs, g, j) = NameAt(symbs, g, k) => j = k
  /\ \A k \in DOMAIN g.terms : k <= Len(BuiltIns) =>
       NameAt(symbs, g, k) = BuiltIns[k].name /\ g.terms[k].val = BuiltIns[k].val

\* The augmented rule is the first; what it derives is the head of another.
RulesOK ==
  /\ ~grammar.open => grammar = NoGrammar
  /\ symbs[StartSymb].name = Start
  /\ grammar.open =>
       /\ Len(grammar.terms) >= Len(BuiltIns)
       /\ Len(grammar.rules) \in 1 .. grammar.cap
       /\ grammar.rules[1].head = StartSymb
       /\ First => grammar.rules[1].body = <<>> /\ ~IsFull
       /\ ~First => \E i \in 2 .. Len(grammar.rules) :
                      grammar.rules[1].body = <<grammar.rules[i].head>>
       /\ \A i \in DOMAIN grammar.rules : grammar.rules[i].prec \in Terminals

\* What Parser_CreateRule has tested, when m are the symbols and T the terminals.
Sound(m, T, head, body) ==
  /\ m[head].name \notin T
  /\ \A k \in DOMAIN body : m[body[k]].type = "term" <=> m[body[k]].name \in T
  /\ \A j, k \in DOMAIN body : m[body[j]].name = ErrorT /\ m[body[k]].name = ErrorT => j = k

Creating ==
  /\ call = [Idle EXCEPT !.doing = "create"]
  /\ fresh.open /\ fresh.rules = <<>> /\ fresh.symb_list = {}
  /\ Len(fresh.terms) <= Len(BuiltIns)

Scanning == grammar.open /\ call.head # 0 /\ call.rule = NoRule

Copying ==
  /\ grammar.open /\ call.head # 0 /\ call.rule.head = call.head
  /\ Len(call.rule.body) <= Len(call.body)
  /\ \A k \in DOMAIN call.rule.body : call.rule.body[k] = call.body[k]
  /\ Sound(symbs, TermNames, call.head, call.body) /\ call.rule.prec \in TermNames

Inserting ==
  /\ grammar.open /\ call.rule.head # 0
  /\ Sound(symbs, TermNames, call.rule.head, call.rule.body)
  /\ call.rule.prec \in TermNames

CallOK ==
  /\ call.doing = "none" => call = Idle
  /\ call.doing = "create" => Creating
  /\ call.doing # "create" => fresh = NoGrammar
  /\ call.doing = "scan" => Scanning
  /\ call.doing = "copy" => Copying
  /\ call.doing = "insert" => Inserting

SInv ==
  /\ Typed /\ Owned
  /\ TermsOK(grammar) /\ TermsOK(fresh) /\ RulesOK /\ CallOK /\ BorrowedAlive

-------------------------------------------------------------------------------
(* Who holds a symbol.                                                        *)

LocalRule == [head |-> call.head, body |-> call.body]

LEMMA RuleFinite ==
  ASSUME NEW r, r.body \in Seq(Nat)
  PROVE  IsFiniteSet(DOMAIN RuleSymbs(r))
<1>1. CASE r.head = 0
  <2>1. RuleSymbs(r) = <<>> /\ DOMAIN <<>> = {}
    BY <1>1 DEF RuleSymbs
  <2>2. QED
    BY <2>1, FS_EmptySet
<1>2. CASE r.head # 0
  BY <1>2, RuleAt
<1>3. QED
  BY <1>1, <1>2

Parts(o) ==
  /\ Tally[o] \in Nat
  /\ Tally[o] = IfSame(StartSymb, o) + Count(Held(grammar), o) + Count(Held(fresh), o)
                  + Count(Locals, o) + Count(RuleSymbs(call.rule), o)
  /\ Count(Held(grammar), o) \in Nat /\ Count(Held(fresh), o) \in Nat
  /\ Count(Locals, o) \in Nat /\ Count(RuleSymbs(call.rule), o) \in Nat

TallySum == Tally \in [Nat -> Nat] /\ \A o \in Nat : Parts(o)

LEMMA TallyIs ==
  Typed => TallySum
<1> SUFFICES ASSUME Typed PROVE TallySum
  OBVIOUS
<1>1. /\ IsFiniteSet(DOMAIN Held(grammar)) /\ IsFiniteSet(DOMAIN Held(fresh))
      /\ IsFiniteSet(DOMAIN Locals) /\ IsFiniteSet(DOMAIN RuleSymbs(call.rule))
  <2>1. IsFiniteSet(DOMAIN Held(grammar)) /\ IsFiniteSet(DOMAIN Held(fresh))
    BY HeldAt DEF Typed
  <2>2. LocalRule.body \in Seq(Nat) /\ call.rule.body \in Seq(Nat)
    BY DEF Typed, Call, Rule, LocalRule
  <2>3. Locals = RuleSymbs(LocalRule)
    BY DEF Locals, LocalRule
  <2> HIDE DEF LocalRule
  <2>4. QED
    BY <2>1, <2>2, <2>3, RuleFinite
<1>2. \A o : /\ Count(Held(grammar), o) \in Nat /\ Count(Held(fresh), o) \in Nat
             /\ Count(Locals, o) \in Nat /\ Count(RuleSymbs(call.rule), o) \in Nat
  BY <1>1, CountType
<1>3. \A o \in Nat : Tally[o] = Owners(o)
  BY DEF Tally
<1>4. \A o \in Nat : Parts(o)
  BY <1>2, <1>3 DEF Parts, Owners, IfSame, StartSymb
<1>5. QED
  BY <1>4 DEF TallySum, Parts, Tally

\* Whatever holds a symbol holds one that is alive.
Alive ==
  /\ Objects \in SUBSET (Nat \ {0}) /\ StartSymb \in Objects
  /\ \A p \in Places(grammar) : Held(grammar)[p] \in Objects
  /\ \A p \in Places(fresh) : Held(fresh)[p] \in Objects
  /\ \A k \in DOMAIN Locals : Locals[k] \in Objects
  /\ \A k \in DOMAIN RuleSymbs(call.rule) : RuleSymbs(call.rule)[k] \in Objects
  /\ symbs \in [Objects -> Symb]

LEMMA HoldsNat ==
  ASSUME NEW g \in Gr, NEW p \in Places(g)
  PROVE  Held(g)[p] \in Nat
<1>1. CASE TermPlace(g, p)
  <2>1. PICK k \in DOMAIN g.terms : p = <<0, k>>
    BY <1>1 DEF TermPlace
  <2>2. g.terms[k] \in Term
    BY ElementOfSeq, LenProperties DEF Gr
  <2>3. QED
    BY <2>1, <2>2, HeldAt DEF Term
<1>2. CASE RulePlace(g, p)
  <2>1. PICK i \in DOMAIN g.rules : \E k \in 0 .. Len(g.rules[i].body) : p = <<i, k>>
    BY <1>2 DEF RulePlace
  <2>2. PICK k \in 0 .. Len(g.rules[i].body) : p = <<i, k>>
    BY <2>1
  <2>3. g.rules[i] \in Rule
    BY ElementOfSeq, LenProperties DEF Gr
  <2>4. SymbAt(g.rules[i], k) \in Nat
    BY <2>3, ElementOfSeq, LenProperties DEF Rule, SymbAt
  <2>5. QED
    BY <2>2, <2>4, HeldAt
<1>3. QED
  BY <1>1, <1>2, PlaceIn

LEMMA RuleHoldsNat ==
  ASSUME NEW r, r.head \in Nat, r.body \in Seq(Nat), NEW k \in DOMAIN RuleSymbs(r)
  PROVE  RuleSymbs(r)[k] \in Nat
<1>1. r.head # 0
  BY DEF RuleSymbs
<1>2. k \in 0 .. Len(r.body) /\ RuleSymbs(r)[k] = SymbAt(r, k)
  BY <1>1, RuleAt
<1>3. QED
  BY <1>2, ElementOfSeq, LenProperties DEF SymbAt

LEMMA HeldAreAlive ==
  Typed /\ Owned => Alive
<1> SUFFICES ASSUME Typed, Owned PROVE Alive
  OBVIOUS
<1>1. TallySum
  BY TallyIs
<1>2. /\ symbs \in [Objects -> Symb] /\ Objects = {o \in Nat : Tally[o] # 0} /\ 0 \notin Objects
  BY DEF Owned, Exact, Objects
<1>3. StartSymb \in Objects
  <2>1. StartSymb \in Nat /\ IfSame(StartSymb, StartSymb) = 1
    BY DEF StartSymb, IfSame
  <2>2. Parts(StartSymb)
    BY <1>1, <2>1 DEF TallySum
  <2>3. Tally[StartSymb] # 0
    BY <2>1, <2>2 DEF Parts
  <2>4. QED
    BY <1>2, <2>1, <2>3
<1>4. ASSUME NEW o \in Nat,
             \/ Count(Held(grammar), o) # 0 \/ Count(Held(fresh), o) # 0
             \/ Count(Locals, o) # 0 \/ Count(RuleSymbs(call.rule), o) # 0
      PROVE  o \in Objects
  <2>1. Parts(o)
    BY <1>1 DEF TallySum
  <2>2. IfSame(StartSymb, o) \in Nat
    BY DEF IfSame
  <2>3. Tally[o] # 0
    BY <1>4, <2>1, <2>2 DEF Parts
  <2>4. QED
    BY <1>2, <2>3
<1>5. ASSUME NEW g \in Gr, IsFiniteSet(Places(g)), NEW p \in Places(g)
      PROVE  Held(g)[p] \in Nat /\ Count(Held(g), Held(g)[p]) # 0
  <2>1. DOMAIN Held(g) = Places(g)
    BY HeldAt
  <2>2. Count(Held(g), Held(g)[p]) # 0
    BY <1>5, <2>1, CountType
  <2>3. QED
    BY <2>2, HoldsNat
<1>6. ASSUME NEW r, r.head \in Nat, r.body \in Seq(Nat), NEW k \in DOMAIN RuleSymbs(r)
      PROVE  RuleSymbs(r)[k] \in Nat /\ Count(RuleSymbs(r), RuleSymbs(r)[k]) # 0
  <2>1. IsFiniteSet(DOMAIN RuleSymbs(r))
    BY <1>6, RuleFinite
  <2>2. Count(RuleSymbs(r), RuleSymbs(r)[k]) # 0
    BY <1>6, <2>1, CountType
  <2>3. QED
    BY <1>6, <2>2, RuleHoldsNat
<1>7. \A k \in DOMAIN Locals : Locals[k] \in Objects
  <2>1. LocalRule.head \in Nat /\ LocalRule.body \in Seq(Nat) /\ Locals = RuleSymbs(LocalRule)
    BY DEF Typed, Call, LocalRule, Locals
  <2> HIDE DEF LocalRule
  <2>2. \A k \in DOMAIN Locals : Locals[k] \in Nat /\ Count(Locals, Locals[k]) # 0
    BY <1>6, <2>1
  <2>3. QED
    BY <1>4, <2>2
<1>8. \A k \in DOMAIN RuleSymbs(call.rule) : RuleSymbs(call.rule)[k] \in Objects
  <2>1. call.rule.head \in Nat /\ call.rule.body \in Seq(Nat)
    BY DEF Typed, Call, Rule
  <2>2. QED
    BY <1>4, <1>6, <2>1
<1>9. \A p \in Places(grammar) : Held(grammar)[p] \in Objects
  BY <1>4, <1>5 DEF Typed
<1>10. \A p \in Places(fresh) : Held(fresh)[p] \in Objects
  BY <1>4, <1>5 DEF Typed
<1>11. QED
  BY <1>2, <1>3, <1>7, <1>8, <1>9, <1>10 DEF Alive

-------------------------------------------------------------------------------
(* Every step keeps the counts exact, and the names of the symbols that live. *)

Carried == Typed' /\ Owned' /\ Keeps(symbs, symbs')

LEMMA CountEmpty ==
  ASSUME NEW h, DOMAIN h = {}
  PROVE  \A o : Count(h, o) = 0
<1>1. \A o : {p \in DOMAIN h : h[p] = o} = {}
  OBVIOUS
<1>2. QED
  BY <1>1, FS_EmptySet DEF Count

LEMMA NothingHeld ==
  /\ NoGrammar \in Gr /\ Places(NoGrammar) = {} /\ IsFiniteSet(Places(NoGrammar))
  /\ \A o : Count(Held(NoGrammar), o) = 0
<1>1. NoGrammar \in Gr
  <2>1. <<>> \in Seq(Term) /\ <<>> \in Seq(Rule)
    OBVIOUS
  <2>2. QED
    BY <2>1 DEF NoGrammar, Gr
<1>2. NoGrammar.terms = <<>> /\ NoGrammar.rules = <<>> /\ DOMAIN <<>> = {}
  BY DEF NoGrammar
<1>3. Places(NoGrammar) = {}
  <2>1. \A p : p \notin Places(NoGrammar)
    BY <1>2, PlaceIn DEF TermPlace, RulePlace
  <2>2. QED
    BY <2>1
<1>4. DOMAIN Held(NoGrammar) = {}
  BY <1>3 DEF Held
<1>5. QED
  BY <1>1, <1>3, <1>4, CountEmpty, FS_EmptySet

LEMMA IdleHolds ==
  /\ NoRule \in Rule /\ Idle \in Call /\ Idle.head = 0 /\ Idle.rule = NoRule
  /\ \A r : r.head = 0 => RuleSymbs(r) = <<>>
  /\ \A o : Count(RuleSymbs(NoRule), o) = 0
<1>1. \A r : r.head = 0 => RuleSymbs(r) = <<>>
  BY DEF RuleSymbs
<1>2. NoRule \in Rule /\ NoRule.head = 0
  <2>1. <<>> \in Seq(Nat)
    OBVIOUS
  <2>2. QED
    BY <2>1 DEF NoRule, Rule, Precs
<1>3. Idle \in Call /\ Idle.head = 0 /\ Idle.rule = NoRule
  <2>1. <<>> \in Seq(Nat)
    OBVIOUS
  <2>2. QED
    BY <1>2, <2>1 DEF Idle, Call
<1>4. QED
  BY <1>1, <1>2, <1>3, CountNone

LEMMA LocalsNone ==
  (call.head = 0) => \A o : Count(Locals, o) = 0
<1> SUFFICES ASSUME call.head = 0 PROVE \A o : Count(Locals, o) = 0
  OBVIOUS
<1>1. Locals = <<>>
  BY IdleHolds DEF Locals
<1>2. QED
  BY <1>1, CountNone

LEMMA KeepsTwice ==
  ASSUME NEW m, NEW m1, NEW m2, Keeps(m, m1), Keeps(m1, m2), DOMAIN m2 \subseteq DOMAIN m1
  PROVE  Keeps(m, m2)
  BY DEF Keeps

LEMMA NewSymbIs ==
  ASSUME Owned
  PROVE  NewSymb \in Nat \ {0} /\ NewSymb \notin Objects
<1>1. Unused(8) \in Nat /\ Unused(8) >= 8 /\ Unused(8) \notin Objects
  BY UnusedIs DEF Owned
<1>2. 2 + 2 * Len(BuiltIns) = 8
  BY DEF BuiltIns
<1>3. QED
  BY <1>1, <1>2 DEF NewSymb

LEMMA CreateGrammarCarries ==
  ASSUME SInv, CreateGrammar
  PROVE  Carried
<1>1. /\ call' = [Idle EXCEPT !.doing = "create"] /\ fresh' = [NoGrammar EXCEPT !.open = TRUE]
      /\ symbs' = symbs /\ grammar' = grammar /\ call = Idle
  BY DEF CreateGrammar
<1>2. fresh = NoGrammar
  BY <1>1 DEF SInv, CallOK, Idle
<1>3. call'.head = call.head /\ call'.body = call.body /\ call'.rule = call.rule /\ call' \in Call
  BY <1>1, IdleHolds DEF Idle, Call
<1>4. /\ fresh' \in Gr /\ fresh'.terms = fresh.terms /\ fresh'.rules = fresh.rules
  BY <1>1, <1>2, NothingHeld DEF NoGrammar, Gr
<1>5. Places(fresh') = Places(fresh) /\ Held(fresh') = Held(fresh)
  BY <1>4 DEF Places, Held
<1>6. Typed'
  BY <1>1, <1>3, <1>4, <1>5 DEF SInv, Typed
<1>7. Locals' = Locals /\ RuleSymbs(call.rule)' = RuleSymbs(call.rule)
  BY <1>3 DEF Locals
<1>8. Tally' = Tally
  BY <1>1, <1>5, <1>7 DEF Tally, Owners
<1>9. Owned'
  BY <1>1, <1>8 DEF SInv, Owned
<1>10. QED
  BY <1>1, <1>6, <1>9 DEF Carried, Keeps

LEMMA InitTermCarries ==
  ASSUME SInv, InitTerm
  PROVE  Carried
<1> DEFINE x == TermSymb
           b == BuiltIns[Len(fresh.terms) + 1]
           t == [term |-> x, val |-> b.val]
<1>1. /\ symbs' = With(x, b.name, "term") /\ fresh' = [fresh EXCEPT !.terms = Append(@, t)]
      /\ grammar' = grammar /\ call' = call /\ Len(fresh.terms) < Len(BuiltIns)
  BY DEF InitTerm
<1>2. x \in Nat \ {0} /\ x \notin Objects
  <2>1. Unused(2) \in Nat /\ Unused(2) >= 2 /\ Unused(2) \notin Objects
    BY UnusedIs DEF SInv, Owned
  <2>2. QED
    BY <2>1 DEF TermSymb
<1>3. b.name \in NamesOf /\ b.val \in {0, 3, 4}
  <2>1. Len(fresh.terms) \in Nat
    BY LenProperties DEF SInv, Typed, Gr
  <2>2. Len(BuiltIns) = 3
    BY DEF BuiltIns
  <2>3. Len(fresh.terms) + 1 \in 1 .. 3
    BY <1>1, <2>1, <2>2
  <2> DEFINE i == Len(fresh.terms) + 1
  <2> HIDE DEF i
  <2>4. i \in 1 .. 3 => BuiltIns[i].name \in NamesOf /\ BuiltIns[i].val \in {0, 3, 4}
    BY DEF BuiltIns, NamesOf
  <2>5. QED
    BY <2>3, <2>4 DEF i
<1> HIDE DEF x, b
<1>4. t \in Term /\ t.term = x
  BY <1>2, <1>3 DEF Term
<1> HIDE DEF t
<1>5. fresh' \in Gr /\ fresh'.terms = Append(fresh.terms, t) /\ fresh'.rules = fresh.rules
  <2>1. fresh \in Gr
    BY DEF SInv, Typed
  <2>2. Append(fresh.terms, t) \in Seq(Term)
    BY <1>4, <2>1, AppendProperties DEF Gr
  <2>3. QED
    BY <1>1, <2>1, <2>2 DEF Gr
<1>6. /\ IsFiniteSet(Places(fresh'))
      /\ \A o : Count(Held(fresh'), o) = Count(Held(fresh), o) + IfSame(x, o)
  BY <1>4, <1>5, HeldTerm DEF SInv, Typed
<1>7. Typed'
  BY <1>1, <1>5, <1>6 DEF SInv, Typed
<1>8. TallySum /\ TallySum'
  <2>1. TallySum
    BY TallyIs DEF SInv
  <2>2. TallySum'
    BY <1>7, TallyIs, PTL
  <2>3. QED
    BY <2>1, <2>2
<1>9. Locals' = Locals /\ Held(grammar)' = Held(grammar) /\ RuleSymbs(call.rule)' = RuleSymbs(call.rule)
  BY <1>1 DEF Locals
<1>10. \A o \in Nat : Tally'[o] = Tally[o] + IfSame(x, o)
  <2> TAKE o \in Nat
  <2>1. Parts(o) /\ Parts(o)'
    BY <1>8 DEF TallySum
  <2>2. IfSame(x, o) \in Nat /\ IfSame(StartSymb, o) \in Nat
    BY DEF IfSame
  <2>3. QED
    BY <1>6, <1>9, <2>1, <2>2 DEF Parts
<1>11. Exact(symbs', Tally') /\ Keeps(symbs, symbs')
  <2>1. Exact(symbs, Tally) /\ Tally \in [Nat -> Nat] /\ Tally' \in [Nat -> Nat]
    BY <1>8 DEF SInv, Owned, TallySum
  <2>2. Extends(symbs, symbs', x, b.name, "term")
    BY <1>1, <1>2, <1>3 DEF With, Extends, Objects
  <2>3. OneMore(Tally, Tally', x)
    BY <1>10, <2>1 DEF OneMore
  <2>4. QED
    BY <2>1, <2>2, <2>3, WithExact
<1>12. QED
  BY <1>7, <1>11 DEF Carried, Owned

LEMMA InitStartCarries ==
  ASSUME SInv, InitStart
  PROVE  Carried
<1> DEFINE r == [head |-> StartSymb, body |-> <<>>, prec |-> DefPrec]
           m == Copied(symbs, StartSymb)
<1>1. /\ symbs' = Destroyed(m, Held(grammar)) /\ fresh' = NoGrammar /\ call' = Idle
      /\ grammar' = [fresh EXCEPT !.rules = <<r>>, !.cap = Grown(0)]
      /\ call.doing = "create"
  BY DEF InitStart
<1>2. Creating
  BY <1>1 DEF SInv, CallOK
<1>3. r \in Rule /\ r.head # 0 /\ r.head = StartSymb /\ r.body = <<>>
  <2>1. <<>> \in Seq(Nat)
    OBVIOUS
  <2>2. QED
    BY <2>1 DEF Rule, Precs, StartSymb
<1> HIDE DEF r
<1>4. grammar' \in Gr /\ grammar'.rules = Append(fresh.rules, r) /\ grammar'.terms = fresh.terms
  <2>1. fresh \in Gr
    BY DEF SInv, Typed
  <2>2. <<r>> \in Seq(Rule) /\ Append(<<>>, r) = <<r>>
    BY <1>3
  <2>3. Grown(0) \in Nat
    BY StoreAssumption DEF Grown
  <2>4. QED
    BY <1>1, <1>2, <2>1, <2>2, <2>3 DEF Gr, Creating
<1>5. /\ IsFiniteSet(Places(grammar'))
      /\ \A o : Count(Held(grammar'), o) = Count(Held(fresh), o) + Count(RuleSymbs(r), o)
  BY <1>3, <1>4, HeldRule DEF SInv, Typed
<1>6. \A o : Count(RuleSymbs(r), o) = IfSame(StartSymb, o)
  BY <1>3, RuleNew
<1>7. Typed'
  BY <1>1, <1>4, <1>5, IdleHolds, NothingHeld DEF Typed
<1>8. TallySum /\ TallySum'
  <2>1. TallySum
    BY TallyIs DEF SInv
  <2>2. TallySum'
    BY <1>7, TallyIs, PTL
  <2>3. QED
    BY <2>1, <2>2
<1>9. \A o : /\ Count(Held(fresh)', o) = 0 /\ Count(Locals, o) = 0 /\ Count(Locals', o) = 0
             /\ Count(RuleSymbs(call.rule), o) = 0 /\ Count(RuleSymbs(call.rule)', o) = 0
  <2>1. call.head = 0 /\ call.rule = NoRule /\ call'.head = 0 /\ call'.rule = NoRule
    BY <1>1, <1>2 DEF Creating, Idle
  <2>2. \A o : Count(Locals, o) = 0
    BY <2>1, LocalsNone
  <2>3. \A o : Count(Locals', o) = 0
    BY <2>1, CountNone, IdleHolds DEF Locals
  <2>4. QED
    BY <1>1, <2>1, <2>2, <2>3, IdleHolds, NothingHeld
<1> DEFINE c == [o \in Nat |-> Tally[o] + IfSame(StartSymb, o)]
<1>10. c \in [Nat -> Nat] /\ \A o \in Nat : c[o] = Tally[o] + IfSame(StartSymb, o)
  BY <1>8 DEF TallySum, IfSame
<1> HIDE DEF c
<1>11. \A o \in Nat : c[o] = Tally'[o] + Count(Held(grammar), o) /\ Count(Held(grammar), o) \in Nat
  <2> TAKE o \in Nat
  <2>1. Parts(o) /\ Parts(o)'
    BY <1>8 DEF TallySum
  <2>2. IfSame(StartSymb, o) \in Nat
    BY DEF IfSame
  <2>3. QED
    BY <1>5, <1>6, <1>9, <1>10, <2>1, <2>2 DEF Parts
<1>12. Exact(m, c) /\ Keeps(symbs, m)
  <2>1. Exact(symbs, Tally) /\ Tally \in [Nat -> Nat]
    BY <1>8 DEF SInv, Owned, TallySum
  <2>2. StartSymb \in DOMAIN symbs
    BY HeldAreAlive DEF SInv, Alive, Objects
  <2>3. QED
    BY <1>10, <2>1, <2>2, CopiedExact
<1> HIDE DEF m
<1>13. Exact(symbs', Tally') /\ Keeps(m, symbs') /\ DOMAIN symbs' \subseteq DOMAIN m
  <2>1. Tally' \in [Nat -> Nat]
    BY <1>8 DEF TallySum
  <2>2. QED
    BY <1>1, <1>10, <1>11, <1>12, <2>1, DestroyedExact
<1>14. QED
  BY <1>7, <1>12, <1>13, KeepsTwice DEF Carried, Owned

LEMMA CreateFailsCarries ==
  ASSUME SInv, CreateFails
  PROVE  Carried
<1>1. /\ symbs' = Destroyed(symbs, Held(fresh)) /\ fresh' = NoGrammar /\ call' = Idle
      /\ grammar' = grammar /\ call.doing = "create"
  BY DEF CreateFails
<1>2. Creating
  BY <1>1 DEF SInv, CallOK
<1>3. Typed'
  BY <1>1, IdleHolds, NothingHeld DEF SInv, Typed
<1>4. TallySum /\ TallySum'
  <2>1. TallySum
    BY TallyIs DEF SInv
  <2>2. TallySum'
    BY <1>3, TallyIs, PTL
  <2>3. QED
    BY <2>1, <2>2
<1>5. \A o : /\ Count(Held(fresh)', o) = 0 /\ Count(Locals, o) = Count(Locals', o)
             /\ Count(RuleSymbs(call.rule), o) = Count(RuleSymbs(call.rule)', o)
             /\ Count(Held(grammar), o) = Count(Held(grammar)', o)
  <2>1. call.head = 0 /\ call.rule = NoRule /\ call'.head = 0 /\ call'.rule = NoRule
    BY <1>1, <1>2 DEF Creating, Idle
  <2>2. Locals = <<>> /\ Locals' = <<>>
    BY <2>1, IdleHolds DEF Locals
  <2>3. QED
    BY <1>1, <2>1, <2>2, NothingHeld
<1>6. \A o \in Nat : Tally[o] = Tally'[o] + Count(Held(fresh), o) /\ Count(Held(fresh), o) \in Nat
  <2> TAKE o \in Nat
  <2>1. Parts(o) /\ Parts(o)'
    BY <1>4 DEF TallySum
  <2>2. IfSame(StartSymb, o) \in Nat
    BY DEF IfSame
  <2>3. QED
    BY <1>5, <2>1, <2>2 DEF Parts
<1>7. Exact(symbs', Tally') /\ Keeps(symbs, symbs')
  <2>1. Exact(symbs, Tally) /\ Tally \in [Nat -> Nat] /\ Tally' \in [Nat -> Nat]
    BY <1>4 DEF SInv, Owned, TallySum
  <2>2. QED
    BY <1>1, <1>6, <2>1, DestroyedExact
<1>8. QED
  BY <1>3, <1>7 DEF Carried, Owned

LEMMA DestroyGrammarCarries ==
  ASSUME SInv, DestroyGrammar
  PROVE  Carried
<1>1. /\ symbs' = Destroyed(symbs, Held(grammar)) /\ grammar' = NoGrammar /\ call' = call
      /\ fresh' = fresh
  BY DEF DestroyGrammar
<1>2. Typed'
  BY <1>1, NothingHeld DEF SInv, Typed
<1>3. TallySum /\ TallySum'
  <2>1. TallySum
    BY TallyIs DEF SInv
  <2>2. TallySum'
    BY <1>2, TallyIs, PTL
  <2>3. QED
    BY <2>1, <2>2
<1>4. \A o : /\ Count(Held(grammar)', o) = 0 /\ Count(Locals, o) = Count(Locals', o)
             /\ Count(RuleSymbs(call.rule), o) = Count(RuleSymbs(call.rule)', o)
             /\ Count(Held(fresh), o) = Count(Held(fresh)', o)
  BY <1>1, NothingHeld DEF Locals
<1>5. \A o \in Nat : Tally[o] = Tally'[o] + Count(Held(grammar), o) /\ Count(Held(grammar), o) \in Nat
  <2> TAKE o \in Nat
  <2>1. Parts(o) /\ Parts(o)'
    BY <1>3 DEF TallySum
  <2>2. IfSame(StartSymb, o) \in Nat
    BY DEF IfSame
  <2>3. QED
    BY <1>4, <2>1, <2>2 DEF Parts
<1>6. Exact(symbs', Tally') /\ Keeps(symbs, symbs')
  <2>1. Exact(symbs, Tally) /\ Tally \in [Nat -> Nat] /\ Tally' \in [Nat -> Nat]
    BY <1>3 DEF SInv, Owned, TallySum
  <2>2. QED
    BY <1>1, <1>5, <2>1, DestroyedExact
<1>7. QED
  BY <1>2, <1>6 DEF Carried, Owned

LEMMA InsertTermCarries ==
  ASSUME SInv, NEW n \in Names, NEW v \in Values, InsertTerm(n, v)
  PROVE  Carried
<1> DEFINE x == NewSymb
           t == [term |-> x, val |-> v]
<1>1. /\ symbs' = With(x, n, "term") /\ grammar' = [grammar EXCEPT !.terms = Append(@, t)]
      /\ fresh' = fresh /\ call' = call
  BY DEF InsertTerm, Created
<1>2. x \in Nat \ {0} /\ x \notin Objects
  BY NewSymbIs DEF SInv
<1>3. n \in NamesOf
  BY DEF NamesOf
<1> HIDE DEF x
<1>4. t \in Term /\ t.term = x
  BY <1>2 DEF Term
<1> HIDE DEF t
<1>5. grammar' \in Gr /\ grammar'.terms = Append(grammar.terms, t) /\ grammar'.rules = grammar.rules
  <2>1. grammar \in Gr
    BY DEF SInv, Typed
  <2>2. Append(grammar.terms, t) \in Seq(Term)
    BY <1>4, <2>1, AppendProperties DEF Gr
  <2>3. QED
    BY <1>1, <2>1, <2>2 DEF Gr
<1>6. /\ IsFiniteSet(Places(grammar'))
      /\ \A o : Count(Held(grammar'), o) = Count(Held(grammar), o) + IfSame(x, o)
  BY <1>4, <1>5, HeldTerm DEF SInv, Typed
<1>7. Typed'
  BY <1>1, <1>5, <1>6 DEF SInv, Typed
<1>8. TallySum /\ TallySum'
  <2>1. TallySum
    BY TallyIs DEF SInv
  <2>2. TallySum'
    BY <1>7, TallyIs, PTL
  <2>3. QED
    BY <2>1, <2>2
<1>9. Locals' = Locals /\ Held(fresh)' = Held(fresh) /\ RuleSymbs(call.rule)' = RuleSymbs(call.rule)
  BY <1>1 DEF Locals
<1>10. \A o \in Nat : Tally'[o] = Tally[o] + IfSame(x, o)
  <2> TAKE o \in Nat
  <2>1. Parts(o) /\ Parts(o)'
    BY <1>8 DEF TallySum
  <2>2. IfSame(x, o) \in Nat /\ IfSame(StartSymb, o) \in Nat
    BY DEF IfSame
  <2>3. QED
    BY <1>6, <1>9, <2>1, <2>2 DEF Parts
<1>11. Exact(symbs', Tally') /\ Keeps(symbs, symbs')
  <2>1. Exact(symbs, Tally) /\ Tally \in [Nat -> Nat] /\ Tally' \in [Nat -> Nat]
    BY <1>8 DEF SInv, Owned, TallySum
  <2>2. Extends(symbs, symbs', x, n, "term")
    BY <1>1, <1>2, <1>3 DEF With, Extends, Objects
  <2>3. OneMore(Tally, Tally', x)
    BY <1>10, <2>1 DEF OneMore
  <2>4. QED
    BY <2>1, <2>2, <2>3, WithExact
<1>12. QED
  BY <1>7, <1>11 DEF Carried, Owned

LEMMA TalliesSum ==
  ASSUME SInv, Typed'
  PROVE  TallySum /\ TallySum'
<1>1. TallySum
  BY TallyIs DEF SInv
<1>2. TallySum'
  BY TallyIs, PTL
<1>3. QED
  BY <1>1, <1>2

\* What the call in progress holds, and a reference that it takes.
CallHolds(o) == Count(Locals, o) + Count(RuleSymbs(call.rule), o)

LEMMA CallTakes ==
  ASSUME SInv, Typed', UNCHANGED <<grammar, fresh>>, NEW x,
         \A o \in Nat : CallHolds(o)' = CallHolds(o) + IfSame(x, o)
  PROVE  OneMore(Tally, Tally', x)
<1>1. TallySum /\ TallySum'
  BY TalliesSum
<1>2. ASSUME NEW o \in Nat PROVE Tally'[o] = Tally[o] + IfSame(x, o)
  <2>1. Parts(o) /\ Parts(o)'
    BY <1>1 DEF TallySum
  <2>2. IfSame(x, o) \in Nat /\ IfSame(StartSymb, o) \in Nat
    BY DEF IfSame
  <2>3. CallHolds(o)' = CallHolds(o) + IfSame(x, o)
    OBVIOUS
  <2>4. Count(Held(grammar), o)' = Count(Held(grammar), o) /\ Count(Held(fresh), o)' = Count(Held(fresh), o)
    OBVIOUS
  <2>5. QED
    BY <2>1, <2>2, <2>3, <2>4 DEF Parts, CallHolds
<1>3. QED
  BY <1>1, <1>2 DEF OneMore, TallySum

LEMMA OneCopied ==
  ASSUME SInv, Typed', NEW x, x \in Objects, symbs' = Copied(symbs, x), OneMore(Tally, Tally', x)
  PROVE  Carried
<1>1. /\ Tally \in [Nat -> Nat] /\ Tally' \in [Nat -> Nat]
      /\ \A o \in Nat : Tally'[o] = Tally[o] + IfSame(x, o)
  BY DEF OneMore
<1>2. Exact(symbs, Tally) /\ x \in DOMAIN symbs
  BY DEF SInv, Owned, Objects
<1>3. Exact(symbs', Tally') /\ Keeps(symbs, symbs')
  BY <1>1, <1>2, CopiedExact
<1>4. QED
  BY <1>3 DEF Carried, Owned

LEMMA OneCreated ==
  ASSUME SInv, Typed', NEW x, NEW n, NEW t, Extends(symbs, symbs', x, n, t),
         OneMore(Tally, Tally', x)
  PROVE  Carried
<1>1. Exact(symbs, Tally)
  BY DEF SInv, Owned
<1>2. Exact(symbs', Tally') /\ Keeps(symbs, symbs')
  BY <1>1, WithExact
<1>3. QED
  BY <1>2 DEF Carried, Owned

LEMMA GetSymbListCarries ==
  ASSUME SInv, GetSymbList
  PROVE  Carried /\ Places(grammar') = Places(grammar) /\ Held(grammar') = Held(grammar)
<1>1. /\ grammar' = [grammar EXCEPT !.symb_list = Lent]
      /\ symbs' = symbs /\ fresh' = fresh /\ call' = call
  BY DEF GetSymbList
<1>2. grammar \in Gr
  BY DEF SInv, Typed
<1>3. Lent \in SUBSET Nat
  BY <1>2, HoldsNat DEF Lent
<1>4. grammar' \in Gr /\ grammar'.terms = grammar.terms /\ grammar'.rules = grammar.rules
  BY <1>1, <1>2, <1>3 DEF Gr
<1>5. Places(grammar') = Places(grammar) /\ Held(grammar') = Held(grammar)
  BY <1>4 DEF Places, Held
<1>6. Typed'
  BY <1>1, <1>4, <1>5 DEF SInv, Typed
<1>7. Locals' = Locals
  BY <1>1 DEF Locals
<1>8. Tally' = Tally
  BY <1>1, <1>5, <1>7 DEF Tally, Owners
<1>9. Owned'
  BY <1>1, <1>8 DEF SInv, Owned
<1>10. QED
  BY <1>1, <1>5, <1>6, <1>9 DEF Carried, Keeps

LEMMA BeginRuleCarries ==
  ASSUME SInv, NEW by \in {"str", "list"}, NEW head \in Names \cup {Start}, BeginRule(by, head)
  PROVE  Carried
<1> DEFINE x == NewSymb
<1>1. /\ symbs' = With(x, head, "nonterm")
      /\ call' = [Idle EXCEPT !.doing = "scan", !.by = by, !.head = x]
      /\ grammar' = grammar /\ fresh' = fresh /\ call = Idle
  BY DEF BeginRule, Created
<1>2. x \in Nat \ {0} /\ x \notin Objects
  BY NewSymbIs DEF SInv
<1> HIDE DEF x
<1>3. Extends(symbs, symbs', x, head, "nonterm")
  BY <1>1, <1>2 DEF Extends, With, NamesOf, Objects
<1>4. call' \in Call /\ call'.head = x /\ call'.body = <<>> /\ call'.rule = NoRule
  BY <1>1, <1>2, IdleHolds DEF Idle, Call
<1>5. Typed'
  BY <1>1, <1>4 DEF SInv, Typed
<1>6. \A o : Count(Locals, o) = 0 /\ Count(RuleSymbs(call.rule), o) = 0
  BY <1>1, LocalsNone, IdleHolds
<1>7. \A o : Count(Locals', o) = IfSame(x, o) /\ Count(RuleSymbs(call.rule)', o) = 0
  <2> DEFINE r == [head |-> call'.head, body |-> call'.body]
  <2>1. Locals' = RuleSymbs(r) /\ r.head = x /\ r.head # 0 /\ r.body = <<>>
    BY <1>2, <1>4 DEF Locals
  <2> HIDE DEF r
  <2>2. \A o : Count(RuleSymbs(r), o) = IfSame(x, o)
    BY <2>1, RuleNew
  <2>3. QED
    BY <1>4, <2>1, <2>2, IdleHolds
<1>8. \A o \in Nat : CallHolds(o)' = CallHolds(o) + IfSame(x, o)
  BY <1>6, <1>7 DEF CallHolds, IfSame
<1>9. OneMore(Tally, Tally', x)
  BY <1>1, <1>5, <1>8, CallTakes
<1>10. QED
  BY <1>3, <1>5, <1>9, OneCreated

\* One more symbol in the body that is scanned or given.
LEMMA LocalsMore ==
  ASSUME Typed, call.head # 0, NEW x \in Nat, call' = [call EXCEPT !.body = Append(@, x)]
  PROVE  /\ call' \in Call
         /\ \A o \in Nat : CallHolds(o)' = CallHolds(o) + IfSame(x, o)
<1>1. call \in Call /\ call.body \in Seq(Nat)
  BY DEF Typed, Call
<1>2. Append(call.body, x) \in Seq(Nat)
  BY <1>1, AppendProperties
<1>3. /\ call' \in Call /\ call'.head = call.head /\ call'.rule = call.rule
      /\ call'.body = Append(call.body, x)
  BY <1>1, <1>2 DEF Call
<1>4. \A o : Count(Locals', o) = Count(Locals, o) + IfSame(x, o)
  <2> DEFINE r == [head |-> call.head, body |-> call.body]
             r1 == [head |-> call'.head, body |-> call'.body]
  <2>1. /\ Locals' = RuleSymbs(r1) /\ Locals = RuleSymbs(r)
        /\ r.head # 0 /\ r1.head = r.head /\ r.body \in Seq(Nat) /\ r1.body = Append(r.body, x)
    BY <1>1, <1>3 DEF Locals
  <2> HIDE DEF r, r1
  <2>2. \A o : Count(RuleSymbs(r1), o) = Count(RuleSymbs(r), o) + IfSame(x, o)
    BY <2>1, RuleMore
  <2>3. QED
    BY <2>1, <2>2
<1>5. ASSUME NEW o \in Nat PROVE CallHolds(o)' = CallHolds(o) + IfSame(x, o)
  <2>1. TallySum
    BY TallyIs
  <2>2. Count(Locals, o) \in Nat /\ Count(RuleSymbs(call.rule), o) \in Nat
    BY <2>1 DEF TallySum, Parts
  <2>3. RuleSymbs(call.rule)' = RuleSymbs(call.rule)
    BY <1>3
  <2>4. IfSame(x, o) \in Nat
    BY DEF IfSame
  <2>5. QED
    BY <1>4, <2>2, <2>3, <2>4 DEF CallHolds
<1>6. QED
  BY <1>3, <1>5

LEMMA ScanSymbCarries ==
  ASSUME SInv, NEW n \in Names \cup {ErrorT}, ScanSymb(n)
  PROVE  Carried
<1> DEFINE x == NewSymb
<1>1. PICK type \in {"term", "nonterm"} :
        /\ symbs' = With(x, n, type) /\ call' = [call EXCEPT !.body = Append(@, x)]
        /\ grammar' = grammar /\ fresh' = fresh /\ call.doing = "scan"
  BY DEF ScanSymb, Created
<1>2. x \in Nat \ {0} /\ x \notin Objects
  BY NewSymbIs DEF SInv
<1> HIDE DEF x
<1>3. Extends(symbs, symbs', x, n, type)
  BY <1>1, <1>2 DEF Extends, With, NamesOf, Objects
<1>4. call.head # 0 /\ x \in Nat
  BY <1>1, <1>2 DEF SInv, CallOK, Scanning
<1>5. call' \in Call /\ \A o \in Nat : CallHolds(o)' = CallHolds(o) + IfSame(x, o)
  BY <1>1, <1>4, LocalsMore DEF SInv
<1>6. Typed'
  BY <1>1, <1>5 DEF SInv, Typed
<1>7. OneMore(Tally, Tally', x)
  BY <1>1, <1>5, <1>6, CallTakes
<1>8. QED
  BY <1>3, <1>6, <1>7, OneCreated

LEMMA ShareSymbCarries ==
  ASSUME SInv, ShareSymb
  PROVE  Carried
<1>1. PICK x \in ToSet(Locals) :
        /\ symbs' = Copied(symbs, x) /\ call' = [call EXCEPT !.body = Append(@, x)]
        /\ grammar' = grammar /\ fresh' = fresh /\ call.doing = "scan"
  BY DEF ShareSymb
<1>2. x \in Objects /\ x \in Nat
  BY HeldAreAlive DEF SInv, Alive, ToSet
<1>3. call.head # 0
  BY <1>1 DEF SInv, CallOK, Scanning
<1>4. call' \in Call /\ \A o \in Nat : CallHolds(o)' = CallHolds(o) + IfSame(x, o)
  BY <1>1, <1>2, <1>3, LocalsMore DEF SInv
<1>5. Typed'
  BY <1>1, <1>4 DEF SInv, Typed
<1>6. OneMore(Tally, Tally', x)
  BY <1>1, <1>4, <1>5, CallTakes
<1>7. QED
  BY <1>1, <1>2, <1>5, <1>6, OneCopied

LEMMA TermNamesAre ==
  ASSUME SInv
  PROVE  /\ TermNames \subseteq Terminals
         /\ grammar.open => DefPrec \in TermNames
<1>1. TermNames = {NameAt(symbs, grammar, k) : k \in DOMAIN grammar.terms}
  BY DEF TermNames, NameAt
<1>2. TermsOK(grammar)
  BY DEF SInv
<1>3. TermNames \subseteq Terminals
  BY <1>1, <1>2 DEF TermsOK
<1>4. ASSUME grammar.open PROVE DefPrec \in TermNames
  <2>1. Len(BuiltIns) = 3 /\ BuiltIns[3].name = DefPrec
    BY DEF BuiltIns
  <2>2. grammar.terms \in Seq(Term) /\ Len(grammar.terms) >= 3
    BY <1>4, <2>1 DEF SInv, RulesOK, Typed, Gr
  <2>3. 3 \in DOMAIN grammar.terms
    BY <2>2, LenProperties
  <2>4. NameAt(symbs, grammar, 3) = DefPrec
    BY <1>2, <2>1, <2>3 DEF TermsOK
  <2>5. QED
    BY <1>1, <2>3, <2>4
<1>5. QED
  BY <1>3, <1>4

\* The precedence of a rule is that of a terminal that exists.
LEMMA PrecTokIs ==
  ASSUME SInv, grammar.open, NEW head, NEW body \in Seq(Nat), NEW asked,
         Acceptable(head, body, asked)
  PROVE  PrecTok(body, asked) \in TermNames
<1> DEFINE terms == {k \in DOMAIN body : symbs[body[k]].type = "term"}
<1>1. CASE asked # NoName
  <2>1. PrecTok(body, asked) = asked
    BY <1>1 DEF PrecTok
  <2>2. QED
    BY <1>1, <2>1 DEF Acceptable
<1>2. CASE asked = NoName /\ terms # {}
  <2>1. PrecTok(body, asked) = symbs[body[Max(terms)]].name
    BY <1>2 DEF PrecTok
  <2>2. terms \in SUBSET (1 .. Len(body)) /\ Len(body) \in Nat
    BY LenProperties
  <2>3. Max(terms) \in terms
    <3> HIDE DEF terms
    <3>1. QED
      BY <1>2, <2>2, MaxIn
  <2>4. QED
    BY <2>1, <2>3 DEF Acceptable
<1>3. CASE asked = NoName /\ terms = {}
  <2>1. PrecTok(body, asked) = DefPrec
    BY <1>3 DEF PrecTok
  <2>2. QED
    BY <2>1, TermNamesAre
<1>4. QED
  BY <1>1, <1>2, <1>3

LEMMA CreateRuleCarries ==
  ASSUME SInv, NEW asked, CreateRule(asked)
  PROVE  Carried
<1> DEFINE x == call.head
           r == [head |-> x, body |-> <<>>, prec |-> PrecTok(call.body, asked)]
<1>1. /\ symbs' = Copied(symbs, x) /\ grammar' = grammar /\ fresh' = fresh
      /\ call' = [call EXCEPT !.doing = "copy", !.rule = r]
      /\ call.doing = "scan" /\ Acceptable(x, call.body, asked)
  BY DEF CreateRule
<1>2. Scanning /\ call \in Call
  BY <1>1 DEF SInv, CallOK, Typed
<1>3. PrecTok(call.body, asked) \in Precs
  <2>1. PrecTok(call.body, asked) \in TermNames
    BY <1>1, <1>2, PrecTokIs DEF Scanning, Call
  <2>2. QED
    BY <2>1, TermNamesAre DEF Precs, Terminals
<1>4. r \in Rule /\ r.head = x /\ r.body = <<>>
  <2>1. <<>> \in Seq(Nat) /\ x \in Nat
    BY <1>2 DEF Call
  <2>2. QED
    BY <1>3, <2>1 DEF Rule
<1>5. x # 0 /\ x \in Objects /\ call.rule = NoRule
  <2>1. x # 0 /\ LocalRule.body \in Seq(Nat) /\ LocalRule.head = x /\ Locals = RuleSymbs(LocalRule)
    BY <1>2 DEF Scanning, Call, LocalRule, Locals
  <2>2. Len(LocalRule.body) \in Nat
    BY <2>1, LenProperties
  <2>3. 0 \in DOMAIN Locals /\ Locals[0] = x
    BY <2>1, <2>2, RuleAt DEF SymbAt
  <2>4. Alive
    BY HeldAreAlive DEF SInv
  <2>5. QED
    BY <1>2, <2>1, <2>3, <2>4 DEF Alive, Scanning
<1> HIDE DEF r
<1>6. call' \in Call /\ call'.rule = r /\ call'.head = call.head /\ call'.body = call.body
  BY <1>1, <1>2, <1>4 DEF Call
<1>7. Typed'
  BY <1>1, <1>6 DEF SInv, Typed
<1>8. ASSUME NEW o \in Nat PROVE CallHolds(o)' = CallHolds(o) + IfSame(x, o)
  <2>1. Locals' = Locals
    BY <1>6 DEF Locals
  <2>2. Count(RuleSymbs(call.rule)', o) = IfSame(x, o)
    BY <1>4, <1>5, <1>6, RuleNew
  <2>3. Count(RuleSymbs(call.rule), o) = 0
    BY <1>5, IdleHolds
  <2>4. Count(Locals, o) \in Nat
    BY TallyIs DEF SInv, TallySum, Parts
  <2>5. QED
    BY <2>1, <2>2, <2>3, <2>4 DEF CallHolds, IfSame
<1>9. OneMore(Tally, Tally', x)
  BY <1>1, <1>7, <1>8, CallTakes
<1>10. QED
  BY <1>1, <1>5, <1>7, <1>9, OneCopied

LEMMA CopySymbCarries ==
  ASSUME SInv, CopySymb
  PROVE  Carried
<1> DEFINE x == call.body[Len(call.rule.body) + 1]
<1>1. /\ symbs' = Copied(symbs, x) /\ grammar' = grammar /\ fresh' = fresh
      /\ call' = [call EXCEPT !.rule.body = Append(@, x)]
      /\ call.doing = "copy" /\ Len(call.rule.body) < Len(call.body)
  BY DEF CopySymb
<1>2. Copying /\ call \in Call /\ call.rule \in Rule
  BY <1>1 DEF SInv, CallOK, Typed, Call
<1>3. x \in Objects /\ x \in Nat
  <2>1. /\ call.head # 0 /\ LocalRule.body = call.body /\ LocalRule.head = call.head
        /\ Locals = RuleSymbs(LocalRule)
    BY <1>2 DEF Copying, LocalRule, Locals
  <2>2. call.body \in Seq(Nat) /\ call.rule.body \in Seq(Nat)
    BY <1>2 DEF Call, Rule
  <2>3. Len(call.rule.body) + 1 \in 1 .. Len(call.body) /\ Len(call.body) \in Nat
    BY <1>1, <2>2, LenProperties
  <2>4. Len(call.rule.body) + 1 \in DOMAIN Locals /\ Locals[Len(call.rule.body) + 1] = x
    BY <2>1, <2>2, <2>3, RuleAt DEF SymbAt
  <2>5. Alive
    BY HeldAreAlive DEF SInv
  <2>6. QED
    BY <2>4, <2>5 DEF Alive
<1> HIDE DEF x
<1>4. /\ call' \in Call /\ call'.head = call.head /\ call'.body = call.body
      /\ call'.rule.head = call.rule.head /\ call'.rule.body = Append(call.rule.body, x)
  <2>1. Append(call.rule.body, x) \in Seq(Nat)
    BY <1>2, <1>3, AppendProperties DEF Rule
  <2>2. call' = [call EXCEPT !.rule = [call.rule EXCEPT !.body = Append(call.rule.body, x)]]
    BY <1>1, <1>2 DEF Call
  <2>3. [call.rule EXCEPT !.body = Append(call.rule.body, x)] \in Rule
    BY <1>2, <2>1 DEF Rule
  <2>4. QED
    BY <1>2, <2>1, <2>2, <2>3 DEF Call, Rule
<1>5. Typed'
  BY <1>1, <1>4 DEF SInv, Typed
<1>6. ASSUME NEW o \in Nat PROVE CallHolds(o)' = CallHolds(o) + IfSame(x, o)
  <2>1. Locals' = Locals
    BY <1>4 DEF Locals
  <2>2. call.rule.head # 0 /\ call.rule.body \in Seq(Nat)
    BY <1>2 DEF Copying, Rule
  <2>3. Count(RuleSymbs(call.rule)', o) = Count(RuleSymbs(call.rule), o) + IfSame(x, o)
    <3> DEFINE r == call.rule
               r1 == call'.rule
    <3>1. /\ r.head # 0 /\ r.body \in Seq(Nat) /\ r1.head = r.head
          /\ r1.body = Append(r.body, x) /\ x \in Nat
      BY <1>3, <1>4, <2>2
    <3> HIDE DEF r, r1
    <3>2. \A p : Count(RuleSymbs(r1), p) = Count(RuleSymbs(r), p) + IfSame(x, p)
      BY <3>1, RuleMore
    <3>3. QED
      BY <3>2 DEF r, r1
  <2>4. Count(Locals, o) \in Nat /\ Count(RuleSymbs(call.rule), o) \in Nat /\ IfSame(x, o) \in Nat
    BY TallyIs DEF SInv, TallySum, Parts, IfSame
  <2>5. QED
    BY <2>1, <2>3, <2>4 DEF CallHolds
<1>7. OneMore(Tally, Tally', x)
  BY <1>1, <1>5, <1>6, CallTakes
<1>8. QED
  BY <1>1, <1>3, <1>5, <1>7, OneCopied

LEMMA GiveUpCarries ==
  ASSUME SInv, call.doing # "create", GiveUp
  PROVE  Carried
<1> DEFINE m == Destroyed(symbs, RuleSymbs(call.rule))
           c == [o \in Nat |-> Tally'[o] + Count(Locals, o)]
<1>1. /\ symbs' = Destroyed(m, Locals) /\ call' = Idle
      /\ grammar' = grammar /\ fresh' = fresh
  BY DEF GiveUp
<1>2. Typed'
  BY <1>1, IdleHolds DEF SInv, Typed
<1>3. TallySum /\ TallySum'
  BY <1>2, TalliesSum
<1>4. \A o : Count(Locals', o) = 0 /\ Count(RuleSymbs(call.rule)', o) = 0
  <2>1. call'.head = 0 /\ call'.rule = NoRule
    BY <1>1, IdleHolds
  <2>2. Locals' = <<>>
    BY <2>1, IdleHolds DEF Locals
  <2>3. QED
    BY <2>1, <2>2, CountNone, IdleHolds
<1>5. /\ c \in [Nat -> Nat]
      /\ \A o \in Nat : /\ c[o] = Tally'[o] + Count(Locals, o) /\ Count(Locals, o) \in Nat
                        /\ Tally[o] = c[o] + Count(RuleSymbs(call.rule), o)
                        /\ Count(RuleSymbs(call.rule), o) \in Nat
  <2>1. ASSUME NEW o \in Nat
        PROVE  /\ Tally[o] = (Tally'[o] + Count(Locals, o)) + Count(RuleSymbs(call.rule), o)
               /\ Tally'[o] \in Nat /\ Count(Locals, o) \in Nat
               /\ Count(RuleSymbs(call.rule), o) \in Nat
    <3>1. Parts(o) /\ Parts(o)'
      BY <1>3 DEF TallySum
    <3>2. IfSame(StartSymb, o) \in Nat
      BY DEF IfSame
    <3>3. QED
      BY <1>1, <1>4, <3>1, <3>2 DEF Parts
  <2>2. QED
    BY <2>1
<1> HIDE DEF c
<1>6. Exact(m, c) /\ Keeps(symbs, m)
  <2>1. Exact(symbs, Tally) /\ Tally \in [Nat -> Nat]
    BY <1>3 DEF SInv, Owned, TallySum
  <2>2. QED
    BY <1>5, <2>1, DestroyedExact
<1> HIDE DEF m
<1>7. Exact(symbs', Tally') /\ Keeps(m, symbs') /\ DOMAIN symbs' \subseteq DOMAIN m
  <2>1. Tally' \in [Nat -> Nat]
    BY <1>3 DEF TallySum
  <2>2. QED
    BY <1>1, <1>5, <1>6, <2>1, DestroyedExact
<1>8. QED
  BY <1>2, <1>6, <1>7, KeepsTwice DEF Carried, Owned

LEMMA RuleCreatedCarries ==
  ASSUME SInv, RuleCreated
  PROVE  Carried
<1>1. /\ grammar' = grammar /\ fresh' = fresh
      /\ IF call.by = "str"
         THEN /\ symbs' = Destroyed(symbs, Locals)
              /\ call' = [call EXCEPT !.doing = "insert", !.head = 0, !.body = <<>>]
         ELSE symbs' = symbs /\ call' = [call EXCEPT !.doing = "insert"]
  BY DEF RuleCreated
<1>2. call \in Call
  BY DEF SInv, Typed
<1>3. CASE call.by = "str"
  <2>1. /\ symbs' = Destroyed(symbs, Locals)
        /\ call' = [call EXCEPT !.doing = "insert", !.head = 0, !.body = <<>>]
    BY <1>1, <1>3
  <2>2. call' \in Call /\ call'.head = 0 /\ call'.rule = call.rule
    <3>1. <<>> \in Seq(Nat)
      OBVIOUS
    <3>2. QED
      BY <1>2, <2>1, <3>1 DEF Call
  <2>3. Typed'
    BY <1>1, <2>2 DEF SInv, Typed
  <2>4. TallySum /\ TallySum'
    BY <2>3, TalliesSum
  <2>5. ASSUME NEW o \in Nat PROVE Tally[o] = Tally'[o] + Count(Locals, o) /\ Count(Locals, o) \in Nat
    <3>1. Parts(o) /\ Parts(o)'
      BY <2>4 DEF TallySum
    <3>2. IfSame(StartSymb, o) \in Nat
      BY DEF IfSame
    <3>3. Locals' = <<>>
      BY <2>2, IdleHolds DEF Locals
    <3>4. Count(Locals', o) = 0
      BY <3>3, CountNone
    <3>5. QED
      BY <1>1, <2>2, <3>1, <3>2, <3>4 DEF Parts
  <2>6. Exact(symbs', Tally') /\ Keeps(symbs, symbs')
    <3>1. Exact(symbs, Tally) /\ Tally \in [Nat -> Nat] /\ Tally' \in [Nat -> Nat]
      BY <2>4 DEF SInv, Owned, TallySum
    <3>2. QED
      BY <2>1, <2>5, <3>1, DestroyedExact
  <2>7. QED
    BY <2>3, <2>6 DEF Carried, Owned
<1>4. CASE call.by # "str"
  <2>1. symbs' = symbs /\ call' = [call EXCEPT !.doing = "insert"]
    BY <1>1, <1>4
  <2>2. /\ call' \in Call /\ call'.head = call.head /\ call'.body = call.body
        /\ call'.rule = call.rule
    BY <1>2, <2>1 DEF Call
  <2>3. Typed'
    BY <1>1, <2>2 DEF SInv, Typed
  <2>4. Locals' = Locals
    BY <2>2 DEF Locals
  <2>5. Tally' = Tally
    BY <1>1, <2>2, <2>4 DEF Tally, Owners
  <2>6. QED
    BY <2>1, <2>3, <2>5 DEF SInv, Owned, Carried, Keeps
<1>5. QED
  BY <1>3, <1>4

\* A full array of rules has room for more than the augmented rule.
LEMMA InsertFailsGivesUp ==
  ASSUME SInv, InsertFails
  PROVE  GiveUp
<1>1. /\ call.doing = "insert" /\ IsFull /\ grammar' = StartSet /\ call' = Idle /\ fresh' = fresh
      /\ symbs' = Destroyed(Destroyed(StartCopied, RuleSymbs(call.rule)), Locals)
  BY DEF InsertFails
<1>2. ~First
  BY <1>1 DEF SInv, CallOK, Inserting, RulesOK
<1>3. StartSet = grammar /\ StartCopied = symbs
  BY <1>2 DEF StartSet, StartCopied
<1>4. QED
  BY <1>1, <1>3 DEF GiveUp

LEMMA StillTwice ==
  ASSUME NEW g, NEW g1, NEW g2, Still(g, g1), Still(g1, g2)
  PROVE  Still(g, g2)
  BY DEF Still

Derives(o) == IF First THEN IfSame(call.rule.head, o) ELSE 0

StartSetOK ==
  /\ StartSet \in Gr /\ IsFiniteSet(Places(StartSet)) /\ Still(grammar, StartSet)
  /\ \A o : Count(Held(StartSet), o) = Count(Held(grammar), o) + Derives(o)
  /\ StartSet.terms = grammar.terms /\ StartSet.open = grammar.open
  /\ StartSet.cap = grammar.cap /\ StartSet.symb_list = grammar.symb_list
  /\ DOMAIN StartSet.rules = DOMAIN grammar.rules /\ Len(StartSet.rules) = Len(grammar.rules)
  /\ \A i \in DOMAIN grammar.rules :
       /\ StartSet.rules[i].head = grammar.rules[i].head
       /\ StartSet.rules[i].prec = grammar.rules[i].prec
       /\ i # 1 => StartSet.rules[i] = grammar.rules[i]
  /\ StartSet.rules[1].body = IF First THEN <<call.rule.head>> ELSE grammar.rules[1].body

LEMMA StartSetIs ==
  ASSUME SInv, call.doing = "insert"
  PROVE  StartSetOK
<1>1. Inserting /\ call.rule \in Rule
  BY DEF SInv, CallOK, Typed, Call
<1>2. grammar \in Gr /\ IsFiniteSet(Places(grammar)) /\ grammar.rules \in Seq(Rule)
  BY DEF SInv, Typed, Gr
<1>3. /\ 1 \in DOMAIN grammar.rules /\ DOMAIN grammar.rules = 1 .. Len(grammar.rules)
      /\ Len(grammar.rules) \in Nat
  BY <1>1, <1>2, LenProperties DEF SInv, RulesOK, Inserting, Gr
<1>4. CASE First
  <2> DEFINE x == call.rule.head
             r1 == [grammar.rules[1] EXCEPT !.body = <<x>>]
             rs == [grammar.rules EXCEPT ![1] = r1]
  <2>1. grammar.rules[1].body = <<>> /\ grammar.rules[1] \in Rule
    BY <1>1, <1>2, <1>3, <1>4, ElementOfSeq DEF SInv, RulesOK, Inserting
  <2>2. x \in Nat /\ <<x>> \in Seq(Nat) /\ Append(<<>>, x) = <<x>>
    BY <1>1 DEF Rule
  <2>3. r1 \in Rule /\ r1.head = grammar.rules[1].head /\ r1.body = <<x>> /\ r1.prec = grammar.rules[1].prec
    BY <2>1, <2>2 DEF Rule
  <2>4. StartSet = [grammar EXCEPT !.rules = rs]
    BY <1>4, <2>1, <2>2 DEF StartSet
  <2> HIDE DEF r1
  <2>5. /\ rs \in Seq(Rule) /\ Len(rs) = Len(grammar.rules) /\ DOMAIN rs = DOMAIN grammar.rules
        /\ rs[1] = r1 /\ \A i \in DOMAIN grammar.rules \ {1} : rs[i] = grammar.rules[i]
    BY <1>2, <1>3, <2>3, ExceptSeq
  <2> HIDE DEF rs
  <2>6. /\ StartSet \in Gr /\ StartSet.rules = rs /\ StartSet.terms = grammar.terms
        /\ StartSet.open = grammar.open /\ StartSet.cap = grammar.cap
        /\ StartSet.symb_list = grammar.symb_list
    BY <1>2, <2>4, <2>5 DEF Gr
  <2>7. /\ IsFiniteSet(Places(StartSet)) /\ Still(grammar, StartSet)
        /\ \A o : Count(Held(StartSet), o) = Count(Held(grammar), o) + IfSame(x, o)
    <3> DEFINE g1 == StartSet
    <3>1. /\ g1 \in Gr /\ g1.terms = grammar.terms /\ DOMAIN g1.rules = DOMAIN grammar.rules
          /\ \A i \in DOMAIN grammar.rules \ {1} : g1.rules[i] = grammar.rules[i]
          /\ g1.rules[1].head = grammar.rules[1].head /\ g1.rules[1].body = <<x>>
      BY <2>3, <2>5, <2>6
    <3> HIDE DEF g1, x
    <3>2. /\ IsFiniteSet(Places(g1)) /\ Still(grammar, g1)
          /\ \A o : Count(Held(g1), o) = Count(Held(grammar), o) + IfSame(x, o)
      BY <1>2, <1>3, <2>1, <2>2, <3>1, HeldStart
    <3>3. QED
      BY <3>2 DEF g1, x
  <2>8. \A i \in DOMAIN grammar.rules :
          /\ StartSet.rules[i].head = grammar.rules[i].head
          /\ StartSet.rules[i].prec = grammar.rules[i].prec
          /\ i # 1 => StartSet.rules[i] = grammar.rules[i]
    BY <2>3, <2>5, <2>6
  <2>9. StartSet.rules[1].body = <<x>>
    BY <2>3, <2>5, <2>6
  <2>10. QED
    BY <1>4, <2>5, <2>6, <2>7, <2>8, <2>9 DEF StartSetOK, Derives
<1>5. CASE ~First
  <2>1. StartSet = grammar
    BY <1>5 DEF StartSet
  <2>2. \A o : Count(Held(StartSet), o) = Count(Held(grammar), o) + 0
    <3>1. DOMAIN Held(grammar) = Places(grammar)
      BY <1>2, HeldAt
    <3>2. \A o : Count(Held(grammar), o) \in Nat
      BY <1>2, <3>1, CountType
    <3>3. QED
      BY <2>1, <3>2
  <2>3. QED
    BY <1>2, <1>5, <2>1, <2>2 DEF StartSetOK, Derives, Still
<1>6. QED
  BY <1>4, <1>5

RuleInserted ==
  /\ grammar' \in Gr /\ IsFiniteSet(Places(grammar')) /\ Still(grammar, grammar')
  /\ \A o : Count(Held(grammar'), o)
              = (Count(Held(grammar), o) + Derives(o)) + Count(RuleSymbs(call.rule), o)
  /\ grammar'.terms = grammar.terms /\ grammar'.open = grammar.open
  /\ grammar'.symb_list = grammar.symb_list
  /\ grammar'.rules = Append(StartSet.rules, call.rule)
  /\ grammar'.cap = IF IsFull THEN Grown(grammar.cap) ELSE grammar.cap

LEMMA InsertRuleHeld ==
  ASSUME SInv, InsertRule
  PROVE  RuleInserted
<1>1. /\ grammar' = [StartSet EXCEPT !.rules = Append(@, call.rule),
                                     !.cap = IF IsFull THEN Grown(@) ELSE @]
      /\ call.doing = "insert"
  BY DEF InsertRule
<1>2. StartSetOK
  BY <1>1, StartSetIs
<1>3. call.rule \in Rule /\ call.rule.head # 0
  BY <1>1 DEF SInv, CallOK, Inserting, Typed, Call
<1> DEFINE g == StartSet
           r == call.rule
           g1 == grammar'
<1>4. g \in Gr /\ IsFiniteSet(Places(g)) /\ Still(grammar, g) /\ g.cap = grammar.cap
  BY <1>2 DEF StartSetOK
<1>5. /\ g1 \in Gr /\ g1.rules = Append(g.rules, r) /\ g1.terms = g.terms
      /\ g1.open = g.open /\ g1.symb_list = g.symb_list
      /\ g1.cap = IF IsFull THEN Grown(g.cap) ELSE g.cap
  <2>1. Append(g.rules, r) \in Seq(Rule)
    BY <1>3, <1>4, AppendProperties DEF Gr
  <2>2. g.cap \in Nat /\ Grown(g.cap) \in Nat
    BY <1>4, StoreAssumption DEF Gr, Grown
  <2> HIDE DEF g
  <2>3. g1 = [g EXCEPT !.rules = Append(g.rules, r), !.cap = IF IsFull THEN Grown(g.cap) ELSE g.cap]
    BY <1>1, <1>4 DEF g, Gr
  <2>4. QED
    BY <1>4, <2>1, <2>2, <2>3 DEF Gr
<1>6. \A o : Count(Held(g), o) = Count(Held(grammar), o) + Derives(o)
  BY <1>2 DEF StartSetOK
<1>7. r \in Rule /\ r.head # 0
  BY <1>3
<1>8. /\ IsFiniteSet(Places(g1)) /\ Still(g, g1)
      /\ \A o : Count(Held(g1), o) = Count(Held(g), o) + Count(RuleSymbs(r), o)
  <2> HIDE DEF g, r, g1
  <2>1. QED
    BY <1>4, <1>5, <1>7, HeldRule
<1>9. Still(grammar, g1)
  BY <1>4, <1>8, StillTwice
<1>10. g.terms = grammar.terms /\ g.open = grammar.open /\ g.symb_list = grammar.symb_list
  BY <1>2 DEF StartSetOK
<1>11. QED
  BY <1>4, <1>5, <1>6, <1>8, <1>9, <1>10 DEF RuleInserted

LEMMA InsertRuleCarries ==
  ASSUME SInv, InsertRule
  PROVE  Carried
<1> DEFINE m == StartCopied
           c == [o \in Nat |-> Tally[o] + Derives(o)]
<1>1. /\ symbs' = Destroyed(m, Locals) /\ call' = Idle /\ fresh' = fresh /\ call.doing = "insert"
  BY DEF InsertRule
<1>2. RuleInserted
  BY InsertRuleHeld
<1>3. Typed'
  BY <1>1, <1>2, IdleHolds DEF SInv, Typed, RuleInserted
<1>4. TallySum /\ TallySum'
  BY <1>3, TalliesSum
<1>5. \A o : Count(Locals', o) = 0 /\ Count(RuleSymbs(call.rule)', o) = 0
  <2>1. call'.head = 0 /\ call'.rule = NoRule
    BY <1>1, IdleHolds
  <2>2. Locals' = <<>>
    BY <2>1, IdleHolds DEF Locals
  <2>3. QED
    BY <2>1, <2>2, CountNone, IdleHolds
<1>6. \A o : Derives(o) \in Nat
  BY DEF Derives, IfSame
<1>7. c \in [Nat -> Nat] /\ \A o \in Nat : c[o] = Tally[o] + Derives(o)
  BY <1>4, <1>6 DEF TallySum
<1> HIDE DEF c
<1>8. ASSUME NEW o \in Nat PROVE c[o] = Tally'[o] + Count(Locals, o) /\ Count(Locals, o) \in Nat
  <2>1. Parts(o) /\ Parts(o)'
    BY <1>4 DEF TallySum
  <2>2. IfSame(StartSymb, o) \in Nat /\ Derives(o) \in Nat
    BY <1>6 DEF IfSame
  <2>3. Count(Held(grammar), o)'
          = (Count(Held(grammar), o) + Derives(o)) + Count(RuleSymbs(call.rule), o)
    BY <1>2 DEF RuleInserted
  <2>4. Count(Held(fresh), o)' = Count(Held(fresh), o)
    BY <1>1
  <2>5. c[o] = Tally[o] + Derives(o)
    BY <1>7
  <2>6. QED
    BY <1>5, <2>1, <2>2, <2>3, <2>4, <2>5 DEF Parts
<1>9. Exact(m, c) /\ Keeps(symbs, m)
  <2>1. Exact(symbs, Tally) /\ Tally \in [Nat -> Nat]
    BY <1>4 DEF SInv, Owned, TallySum
  <2>2. CASE First
    <3> DEFINE x == call.rule.head
    <3>1. m = Copied(symbs, x) /\ \A o \in Nat : c[o] = Tally[o] + IfSame(x, o)
      BY <1>7, <2>2 DEF StartCopied, Derives
    <3>2. x \in DOMAIN symbs
      <4>1. call.rule.head # 0 /\ call.rule.body \in Seq(Nat)
        BY <1>1 DEF SInv, CallOK, Inserting, Typed, Call, Rule
      <4>2. Len(call.rule.body) \in Nat
        BY <4>1, LenProperties
      <4>3. 0 \in DOMAIN RuleSymbs(call.rule) /\ RuleSymbs(call.rule)[0] = x
        BY <4>1, <4>2, RuleAt DEF SymbAt
      <4>4. Alive
        BY HeldAreAlive DEF SInv
      <4>5. QED
        BY <4>3, <4>4 DEF Alive, Objects
    <3> HIDE DEF x, m
    <3>3. QED
      BY <1>7, <2>1, <3>1, <3>2, CopiedExact
  <2>3. CASE ~First
    <3>1. m = symbs
      BY <2>3 DEF StartCopied
    <3>2. \A o \in Nat : c[o] = Tally[o]
      BY <1>7, <2>1, <2>3 DEF Derives
    <3>3. QED
      BY <2>1, <3>1, <3>2 DEF Exact, Keeps
  <2>4. QED
    BY <2>2, <2>3
<1> HIDE DEF m
<1>10. Exact(symbs', Tally') /\ Keeps(m, symbs') /\ DOMAIN symbs' \subseteq DOMAIN m
  <2>1. Tally' \in [Nat -> Nat]
    BY <1>4 DEF TallySum
  <2>2. QED
    BY <1>1, <1>7, <1>8, <1>9, <2>1, DestroyedExact
<1>11. QED
  BY <1>3, <1>9, <1>10, KeepsTwice DEF Carried, Owned

\* The body of the augmented rule is replaced by the head of a rule named n.
StartMoved(n, y, i) ==
  /\ i \in 2 .. Len(grammar.rules) /\ grammar.rules[1].body = <<y>>
  /\ y \in Nat /\ grammar.rules[i].head \in Nat
  /\ symbs[grammar.rules[i].head].name = n
  /\ \E j \in 2 .. Len(grammar.rules) : grammar.rules[j].head = y
  /\ grammar' \in Gr /\ grammar'.terms = grammar.terms /\ grammar'.open = grammar.open
  /\ grammar'.cap = grammar.cap /\ grammar'.symb_list = grammar.symb_list
  /\ DOMAIN grammar'.rules = DOMAIN grammar.rules /\ Len(grammar'.rules) = Len(grammar.rules)
  /\ \A j \in DOMAIN grammar.rules \ {1} : grammar'.rules[j] = grammar.rules[j]
  /\ grammar'.rules[1].head = grammar.rules[1].head
  /\ grammar'.rules[1].prec = grammar.rules[1].prec
  /\ grammar'.rules[1].body = <<grammar.rules[i].head>>
  /\ symbs' = Destroyed(Copied(symbs, grammar.rules[i].head), grammar.rules[1].body)
  /\ fresh' = fresh /\ call' = call

LEMMA SetStartRuleIs ==
  ASSUME SInv, NEW n, SetStartRule(n)
  PROVE  \E y : \E i : StartMoved(n, y, i)
<1> DEFINE i == CHOOSE i \in HeadsNamed(n) : \A j \in HeadsNamed(n) : i <= j
           x == grammar.rules[i].head
           r1 == [grammar.rules[1] EXCEPT !.body = <<x>>]
           rs == [grammar.rules EXCEPT ![1] = r1]
<1>1. /\ call = Idle /\ grammar.open /\ n # Start /\ HeadsNamed(n) # {}
      /\ symbs' = Destroyed(Copied(symbs, x), grammar.rules[1].body)
      /\ grammar' = [grammar EXCEPT !.rules[1].body = <<x>>]
      /\ fresh' = fresh /\ call' = call
  BY DEF SetStartRule
<1>2. /\ grammar \in Gr /\ grammar.rules \in Seq(Rule) /\ Len(grammar.rules) \in Nat
      /\ DOMAIN grammar.rules = 1 .. Len(grammar.rules) /\ 1 \in DOMAIN grammar.rules
      /\ grammar.rules[1].head = StartSymb /\ symbs[StartSymb].name = Start
  BY <1>1, LenProperties DEF SInv, Typed, Gr, RulesOK
<1>3. i \in HeadsNamed(n)
  <2>1. HeadsNamed(n) \in SUBSET Nat
    BY <1>2 DEF HeadsNamed
  <2>2. \E j \in HeadsNamed(n) : \A k \in HeadsNamed(n) : j <= k
    BY <1>1, <2>1, LeastOf
  <2>3. QED
    BY <2>2
<1> HIDE DEF i
<1>4. i \in 2 .. Len(grammar.rules) /\ symbs[x].name = n
  <2>1. i \in DOMAIN grammar.rules /\ symbs[x].name = n
    BY <1>3 DEF HeadsNamed
  <2>2. i # 1
    BY <1>1, <1>2, <2>1
  <2>3. QED
    BY <1>2, <2>1, <2>2
<1>5. PICK j \in 2 .. Len(grammar.rules) : grammar.rules[1].body = <<grammar.rules[j].head>>
  <2>1. ~First
    BY <1>2, <1>4 DEF First
  <2>2. QED
    BY <1>1, <2>1 DEF SInv, RulesOK
<1>6. grammar.rules[i] \in Rule /\ grammar.rules[j] \in Rule /\ grammar.rules[1] \in Rule
  BY <1>2, <1>4, ElementOfSeq
<1>7. x \in Nat /\ grammar.rules[j].head \in Nat
  BY <1>6 DEF Rule
<1> HIDE DEF x
<1>8. r1 \in Rule /\ r1.head = grammar.rules[1].head /\ r1.body = <<x>> /\ r1.prec = grammar.rules[1].prec
  <2>1. <<x>> \in Seq(Nat)
    BY <1>7
  <2>2. QED
    BY <1>6, <2>1 DEF Rule
<1>9. grammar' = [grammar EXCEPT !.rules = rs]
  BY <1>1, <1>2
<1> HIDE DEF r1
<1>10. /\ rs \in Seq(Rule) /\ Len(rs) = Len(grammar.rules) /\ DOMAIN rs = DOMAIN grammar.rules
       /\ rs[1] = r1 /\ \A k \in DOMAIN grammar.rules \ {1} : rs[k] = grammar.rules[k]
  BY <1>2, <1>8, ExceptSeq
<1> HIDE DEF rs
<1>11. /\ grammar' \in Gr /\ grammar'.rules = rs /\ grammar'.terms = grammar.terms
       /\ grammar'.open = grammar.open /\ grammar'.cap = grammar.cap
       /\ grammar'.symb_list = grammar.symb_list
  BY <1>2, <1>9, <1>10 DEF Gr
<1> DEFINE y == grammar.rules[j].head
<1>12. /\ grammar.rules[1].body = <<y>> /\ y \in Nat
       /\ \E k \in 2 .. Len(grammar.rules) : grammar.rules[k].head = y
  BY <1>5, <1>7
<1> HIDE DEF y
<1>13. StartMoved(n, y, i)
  BY <1>1, <1>4, <1>7, <1>8, <1>10, <1>11, <1>12 DEF StartMoved, x
<1>14. QED
  BY <1>13

LEMMA SetStartRuleHeld ==
  ASSUME SInv, grammar.open, NEW n, NEW y, NEW i, StartMoved(n, y, i)
  PROVE  /\ Places(grammar') = Places(grammar)
         /\ \A p \in Places(grammar) \ {<<1, 1>>} : Held(grammar')[p] = Held(grammar)[p]
         /\ \A o : Count(Held(grammar'), o) + IfSame(y, o)
                     = Count(Held(grammar), o) + IfSame(grammar.rules[i].head, o)
<1> DEFINE g == grammar
           g1 == grammar'
           x == grammar.rules[i].head
<1>1. g \in Gr /\ IsFiniteSet(Places(g)) /\ 1 \in DOMAIN g.rules
  BY LenProperties DEF SInv, Typed, Gr, RulesOK
<1>2. /\ y \in Nat /\ g.rules[1].body = <<y>> /\ x \in Nat /\ g1 \in Gr /\ g1.terms = g.terms
      /\ DOMAIN g1.rules = DOMAIN g.rules /\ \A j \in DOMAIN g.rules \ {1} : g1.rules[j] = g.rules[j]
      /\ g1.rules[1].head = g.rules[1].head /\ g1.rules[1].body = <<x>>
  BY DEF StartMoved
<1> HIDE DEF g, g1, x
<1>3. /\ Places(g1) = Places(g)
      /\ \A p \in Places(g) \ {<<1, 1>>} : Held(g1)[p] = Held(g)[p]
      /\ \A o : Count(Held(g1), o) + IfSame(y, o) = Count(Held(g), o) + IfSame(x, o)
  BY <1>1, <1>2, HeldSwap
<1>4. QED
  BY <1>3 DEF g, g1, x

LEMMA SetStartRuleCarries ==
  ASSUME SInv, grammar.open, NEW n, NEW y, NEW i, StartMoved(n, y, i)
  PROVE  Carried
<1> DEFINE x == grammar.rules[i].head
           m == Copied(symbs, x)
           c == [o \in Nat |-> Tally[o] + IfSame(x, o)]
           b == grammar.rules[1].body
<1>1. /\ grammar' \in Gr /\ symbs' = Destroyed(m, b) /\ b = <<y>>
      /\ fresh' = fresh /\ call' = call /\ x \in Nat /\ y \in Nat
      /\ i \in DOMAIN grammar.rules
  <2>1. i \in DOMAIN grammar.rules
    BY LenProperties DEF StartMoved, SInv, Typed, Gr
  <2>2. QED
    BY <2>1 DEF StartMoved
<1>2. /\ Places(grammar') = Places(grammar)
      /\ \A o : Count(Held(grammar'), o) + IfSame(y, o) = Count(Held(grammar), o) + IfSame(x, o)
  BY SetStartRuleHeld
<1>3. Typed'
  BY <1>1, <1>2 DEF SInv, Typed
<1>4. TallySum /\ TallySum'
  BY <1>3, TalliesSum
<1>5. \A o : Count(b, o) = IfSame(y, o)
  <2>1. DOMAIN <<>> = {} /\ DOMAIN <<y>> = {1} /\ <<y>>[1] = y /\ IsFiniteSet(DOMAIN <<>>)
    BY FS_EmptySet
  <2>2. \A o : Count(<<y>>, o) = Count(<<>>, o) + IfSame(<<y>>[1], o)
    BY <2>1, CountMore
  <2>3. QED
    BY <1>1, <2>1, <2>2, CountNone DEF IfSame
<1>6. x \in DOMAIN symbs
  <2>1. grammar \in Gr /\ grammar.rules[i] \in Rule
    BY <1>1, ElementOfSeq, LenProperties DEF SInv, Typed, Gr
  <2>2. 0 \in 0 .. Len(grammar.rules[i].body)
    BY <2>1, LenProperties DEF Rule
  <2>3. <<i, 0>> \in Places(grammar) /\ Held(grammar)[<<i, 0>>] = x
    BY <1>1, <2>1, <2>2, HeldAt DEF SymbAt
  <2>4. Alive
    BY HeldAreAlive DEF SInv
  <2>5. QED
    BY <2>3, <2>4 DEF Alive, Objects
<1>7. c \in [Nat -> Nat] /\ \A o \in Nat : c[o] = Tally[o] + IfSame(x, o)
  BY <1>4 DEF TallySum, IfSame
<1> HIDE DEF c, x, b
<1>8. Exact(m, c) /\ Keeps(symbs, m)
  <2>1. Exact(symbs, Tally) /\ Tally \in [Nat -> Nat]
    BY <1>4 DEF SInv, Owned, TallySum
  <2>2. QED
    BY <1>6, <1>7, <2>1, CopiedExact
<1>9. ASSUME NEW o \in Nat PROVE c[o] = Tally'[o] + Count(b, o) /\ Count(b, o) \in Nat
  <2>1. Parts(o) /\ Parts(o)'
    BY <1>4 DEF TallySum
  <2>2. IfSame(StartSymb, o) \in Nat /\ IfSame(x, o) \in Nat /\ IfSame(y, o) \in Nat
    BY DEF IfSame
  <2>3. Locals' = Locals /\ RuleSymbs(call.rule)' = RuleSymbs(call.rule) /\ Held(fresh)' = Held(fresh)
    BY <1>1 DEF Locals
  <2>4. Count(Held(grammar'), o) + IfSame(y, o) = Count(Held(grammar), o) + IfSame(x, o)
    BY <1>2
  <2>5. Count(b, o) = IfSame(y, o) /\ c[o] = Tally[o] + IfSame(x, o)
    BY <1>5, <1>7
  <2>6. QED
    BY <2>1, <2>2, <2>3, <2>4, <2>5 DEF Parts
<1> HIDE DEF m
<1>10. Exact(symbs', Tally') /\ Keeps(m, symbs') /\ DOMAIN symbs' \subseteq DOMAIN m
  <2>1. Tally' \in [Nat -> Nat]
    BY <1>4 DEF TallySum
  <2>2. QED
    BY <1>1, <1>7, <1>8, <1>9, <2>1, DestroyedExact
<1>11. QED
  BY <1>3, <1>8, <1>10, KeepsTwice DEF Carried, Owned

-------------------------------------------------------------------------------
(* The invariant is inductive.                                                *)

\* A symbol that is alive before and after a step has its name and type.
LEMMA SymbStays ==
  ASSUME Carried, NEW o, o \in Objects, o \in Objects'
  PROVE  symbs'[o].name = symbs[o].name /\ symbs'[o].type = symbs[o].type
  BY DEF Carried, Keeps, Objects

LEMMA AliveTwice ==
  ASSUME SInv, Carried
  PROVE  Alive /\ Alive'
<1>1. Alive
  BY HeldAreAlive DEF SInv
<1>2. Typed' /\ Owned'
  BY DEF Carried
<1>3. Alive'
  BY <1>2, HeldAreAlive, PTL
<1>4. QED
  BY <1>1, <1>3

LEMMA PlaceStays ==
  ASSUME SInv, Carried, NEW p \in Places(grammar), p \in Places(grammar'),
         Held(grammar')[p] = Held(grammar)[p]
  PROVE  /\ symbs'[Held(grammar)[p]].name = symbs[Held(grammar)[p]].name
         /\ symbs'[Held(grammar)[p]].type = symbs[Held(grammar)[p]].type
<1>1. Held(grammar)[p] \in Objects /\ Held(grammar)[p] \in Objects'
  BY AliveTwice DEF Alive
<1>2. QED
  BY <1>1, SymbStays

\* Places whose parts of the grammar are unchanged.
LEMMA TermStays ==
  ASSUME SInv, Carried, NEW k \in DOMAIN grammar.terms, k \in DOMAIN grammar'.terms,
         grammar'.terms[k] = grammar.terms[k]
  PROVE  symbs'[grammar'.terms[k].term].name = symbs[grammar.terms[k].term].name
<1>1. grammar \in Gr /\ grammar' \in Gr
  BY DEF SInv, Typed, Carried
<1>2. /\ <<0, k>> \in Places(grammar) /\ Held(grammar)[<<0, k>>] = grammar.terms[k].term
      /\ <<0, k>> \in Places(grammar') /\ Held(grammar')[<<0, k>>] = grammar.terms[k].term
  BY <1>1, HeldAt
<1>3. QED
  BY <1>2, PlaceStays

\* A symbol of a rule is the same if the rule is, or its head is and its place
\* is not in the body.
SameAt(i, k) ==
  /\ i \in DOMAIN grammar.rules /\ i \in DOMAIN grammar'.rules
  /\ k \in 0 .. Len(grammar.rules[i].body) /\ k \in 0 .. Len(grammar'.rules[i].body)
  /\ SymbAt(grammar'.rules[i], k) = SymbAt(grammar.rules[i], k)

LEMMA RuleSymbStays ==
  ASSUME SInv, Carried, NEW i, NEW k, SameAt(i, k)
  PROVE  /\ SymbAt(grammar.rules[i], k) \in Objects
         /\ symbs'[SymbAt(grammar.rules[i], k)].name = symbs[SymbAt(grammar.rules[i], k)].name
         /\ symbs'[SymbAt(grammar.rules[i], k)].type = symbs[SymbAt(grammar.rules[i], k)].type
<1>1. grammar \in Gr /\ grammar' \in Gr
  BY DEF SInv, Typed, Carried
<1>2. <<i, k>> \in Places(grammar) /\ Held(grammar)[<<i, k>>] = SymbAt(grammar.rules[i], k)
  BY <1>1, HeldAt DEF SameAt
<1>3. <<i, k>> \in Places(grammar') /\ Held(grammar')[<<i, k>>] = SymbAt(grammar.rules[i], k)
  <2> DEFINE g1 == grammar'
  <2>1. g1 \in Gr /\ i \in DOMAIN g1.rules /\ k \in 0 .. Len(g1.rules[i].body)
    BY <1>1 DEF SameAt
  <2>2. SymbAt(g1.rules[i], k) = SymbAt(grammar.rules[i], k)
    BY DEF SameAt
  <2> HIDE DEF g1
  <2>3. <<i, k>> \in Places(g1) /\ Held(g1)[<<i, k>>] = SymbAt(g1.rules[i], k)
    BY <2>1, HeldAt
  <2>4. QED
    BY <2>2, <2>3 DEF g1
<1>4. SymbAt(grammar.rules[i], k) \in Objects
  BY <1>2, AliveTwice DEF Alive
<1>5. QED
  BY <1>2, <1>3, <1>4, PlaceStays

TermsSame ==
  /\ DOMAIN grammar'.terms = DOMAIN grammar.terms
  /\ \A k \in DOMAIN grammar.terms :
       NameAt(symbs', grammar', k) = NameAt(symbs, grammar, k) /\ grammar'.terms[k] = grammar.terms[k]

LEMMA TermsStay ==
  ASSUME SInv, Carried, grammar'.terms = grammar.terms
  PROVE  TermsSame /\ TermNames' = TermNames /\ TermsOK(grammar)'
<1>1. \A k \in DOMAIN grammar.terms : NameAt(symbs', grammar', k) = NameAt(symbs, grammar, k)
  BY TermStays DEF NameAt
<1>2. TermsSame
  BY <1>1 DEF TermsSame
<1>3. TermNames' = TermNames
  <2>1. TermNames = {NameAt(symbs, grammar, k) : k \in DOMAIN grammar.terms}
    BY DEF TermNames, NameAt
  <2>2. TermNames' = {NameAt(symbs', grammar', k) : k \in DOMAIN grammar'.terms}
    BY DEF TermNames, NameAt
  <2>3. QED
    BY <1>2, <2>1, <2>2 DEF TermsSame
<1>4. TermsOK(grammar)'
  BY <1>2 DEF SInv, TermsOK, TermsSame
<1>5. QED
  BY <1>2, <1>3, <1>4

LEMMA StartSymbStays ==
  ASSUME SInv, Carried
  PROVE  symbs'[StartSymb].name = Start
<1>1. StartSymb \in Objects /\ StartSymb \in Objects'
  BY AliveTwice DEF Alive, StartSymb
<1>2. QED
  BY <1>1, SymbStays DEF SInv, RulesOK

LEMMA BorrowedStays ==
  ASSUME SInv, Carried, Still(grammar, grammar'), grammar'.symb_list = grammar.symb_list
  PROVE  BorrowedAlive'
<1>1. DOMAIN Held(grammar) = Places(grammar) /\ DOMAIN Held(grammar)' = Places(grammar')
  BY HeldAt DEF SInv, Carried, Typed
<1>2. ToSet(Held(grammar)) \subseteq ToSet(Held(grammar)')
  BY <1>1 DEF ToSet, Still
<1>3. QED
  BY <1>2 DEF SInv, BorrowedAlive

LEMMA NoTermsOK ==
  ASSUME fresh'.terms = <<>>
  PROVE  TermsOK(fresh)'
<1>1. DOMAIN <<>> = {}
  OBVIOUS
<1>2. QED
  BY <1>1 DEF TermsOK

LEMMA IdleOK ==
  ASSUME call' = Idle, fresh' = NoGrammar
  PROVE  CallOK' /\ TermsOK(fresh)'
<1>1. CallOK'
  BY DEF CallOK, Idle
<1>2. QED
  BY <1>1, NoTermsOK DEF NoGrammar

\* Most steps leave the client's grammar as it is.
LEMMA GrammarUntouched ==
  ASSUME SInv, Carried, grammar' = grammar, CallOK', TermsOK(fresh)'
  PROVE  SInv'
<1>1. TermsOK(grammar)'
  BY TermsStay
<1>2. RulesOK'
  <2>1. First' = First /\ IsFull' = IsFull
    BY DEF First, IsFull
  <2>2. symbs'[StartSymb].name = Start
    BY StartSymbStays
  <2>3. QED
    BY <2>1, <2>2 DEF SInv, RulesOK
<1>3. BorrowedAlive'
  <2>1. Still(grammar, grammar')
    BY DEF Still
  <2>2. QED
    BY <2>1, BorrowedStays
<1>4. QED
  BY <1>1, <1>2, <1>3 DEF SInv, Carried

LEMMA CreateGrammarStep ==
  ASSUME SInv, CreateGrammar
  PROVE  SInv'
<1>1. /\ call' = [Idle EXCEPT !.doing = "create"] /\ fresh' = [NoGrammar EXCEPT !.open = TRUE]
      /\ grammar' = grammar
  BY DEF CreateGrammar
<1>2. fresh'.open /\ fresh'.rules = <<>> /\ fresh'.terms = <<>> /\ fresh'.symb_list = {}
  BY <1>1 DEF NoGrammar
<1>3. Len(fresh'.terms) <= Len(BuiltIns)
  BY <1>2 DEF BuiltIns
<1>4. CallOK'
  BY <1>1, <1>2, <1>3 DEF CallOK, Creating, Idle
<1>5. TermsOK(fresh)'
  BY <1>2, NoTermsOK
<1>6. QED
  BY <1>1, <1>4, <1>5, CreateGrammarCarries, GrammarUntouched

LEMMA InitTermStep ==
  ASSUME SInv, InitTerm
  PROVE  SInv'
<1> DEFINE x == TermSymb
           n == Len(fresh.terms)
           b == BuiltIns[n + 1]
           t == [term |-> x, val |-> b.val]
<1>1. /\ symbs' = With(x, b.name, "term") /\ fresh' = [fresh EXCEPT !.terms = Append(@, t)]
      /\ grammar' = grammar /\ call' = call /\ call.doing = "create" /\ n < Len(BuiltIns)
  BY DEF InitTerm
<1>2. Creating /\ TermsOK(fresh) /\ fresh \in Gr
  BY <1>1 DEF SInv, CallOK, Typed
<1>3. Carried
  BY InitTermCarries
<1>4. /\ n \in 0 .. 2 /\ Len(BuiltIns) = 3 /\ DOMAIN fresh.terms = 1 .. n
      /\ fresh'.terms = Append(fresh.terms, t) /\ Len(fresh'.terms) = n + 1
      /\ DOMAIN fresh'.terms = 1 .. n + 1
      /\ \A k \in 1 .. n : fresh'.terms[k] = fresh.terms[k]
      /\ fresh'.terms[n + 1] = t
  <2>1. Len(BuiltIns) = 3
    BY DEF BuiltIns
  <2>2. fresh.terms \in Seq(Term)
    BY <1>2 DEF Gr
  <2>3. n \in Nat /\ DOMAIN fresh.terms = 1 .. n
    BY <2>2, LenProperties
  <2>4. fresh'.terms = Append(fresh.terms, t)
    BY <1>1, <1>2 DEF Gr
  <2> HIDE DEF t
  <2>5. /\ Len(Append(fresh.terms, t)) = n + 1
        /\ \A k \in 1 .. n : Append(fresh.terms, t)[k] = fresh.terms[k]
        /\ Append(fresh.terms, t)[n + 1] = t /\ DOMAIN Append(fresh.terms, t) = 1 .. n + 1
    BY <2>2
  <2>6. QED
    <3>0. n \in Nat /\ n < 3
      BY <1>1, <2>1, <2>3
    <3>1. n \in 0 .. 2
      <4> HIDE DEF n
      <4>1. QED
        BY <3>0
    <3> DEFINE ts == fresh'.terms
    <3>2. /\ Len(ts) = n + 1 /\ DOMAIN ts = 1 .. n + 1 /\ ts[n + 1] = t
          /\ \A k \in 1 .. n : ts[k] = fresh.terms[k]
      BY <2>4, <2>5
    <3> HIDE DEF n, ts
    <3>3. QED
      BY <2>1, <2>3, <2>4, <3>1, <3>2 DEF ts
<1> HIDE DEF n
<1>5. /\ call' = [Idle EXCEPT !.doing = "create"] /\ fresh'.open /\ fresh'.rules = <<>>
      /\ fresh'.symb_list = {}
  BY <1>1, <1>2 DEF Creating, Gr
<1>6. CallOK'
  BY <1>4, <1>5 DEF CallOK, Creating, Idle
<1>7. NameAt(symbs', fresh', n + 1) = b.name
  BY <1>1, <1>4 DEF NameAt, With
<1>8. ASSUME NEW k \in 1 .. n PROVE NameAt(symbs', fresh', k) = NameAt(symbs, fresh, k)
  <2>1. <<0, k>> \in Places(fresh) /\ Held(fresh)[<<0, k>>] = fresh.terms[k].term
    BY <1>2, <1>4, HeldAt
  <2>2. <<0, k>> \in Places(fresh') /\ Held(fresh')[<<0, k>>] = fresh'.terms[k].term
    <3>1. k \in DOMAIN fresh'.terms /\ fresh' \in Gr
      BY <1>3, <1>4 DEF Carried, Typed
    <3>2. QED
      BY <3>1, HeldAt
  <2>3. fresh.terms[k].term \in Objects /\ fresh.terms[k].term \in Objects'
    BY <1>3, <1>4, <2>1, <2>2, AliveTwice DEF Alive
  <2>4. symbs'[fresh.terms[k].term].name = symbs[fresh.terms[k].term].name
    BY <1>3, <2>3, SymbStays
  <2>5. QED
    BY <1>4, <2>4 DEF NameAt
<1> HIDE DEF b, t
<1>9. \A k \in 1 .. n : NameAt(symbs', fresh', k) = BuiltIns[k].name /\ fresh'.terms[k].val = BuiltIns[k].val
  <2> TAKE k \in 1 .. n
  <2>1. k \in DOMAIN fresh.terms /\ k <= Len(BuiltIns)
    BY <1>4
  <2>2. NameAt(symbs, fresh, k) = BuiltIns[k].name /\ fresh.terms[k].val = BuiltIns[k].val
    BY <1>2, <2>1 DEF TermsOK
  <2>3. QED
    BY <1>4, <1>8, <2>2
<1>10. NameAt(symbs', fresh', n + 1) = BuiltIns[n + 1].name /\ fresh'.terms[n + 1].val = BuiltIns[n + 1].val
  BY <1>4, <1>7 DEF b, t
<1>11. \A k \in 1 .. n + 1 :
         NameAt(symbs', fresh', k) = BuiltIns[k].name /\ fresh'.terms[k].val = BuiltIns[k].val
  BY <1>4, <1>9, <1>10
<1>12. /\ \A k \in 1 .. 3 : BuiltIns[k].name \in Terminals
       /\ \A j, k \in 1 .. 3 : BuiltIns[j].name = BuiltIns[k].name => j = k
  BY DEF BuiltIns, Terminals, EOI, ErrorT, DefPrec
<1>13. TermsOK(fresh)'
  BY <1>4, <1>11, <1>12 DEF TermsOK
<1>14. QED
  BY <1>1, <1>3, <1>6, <1>13, GrammarUntouched

LEMMA InitStartStep ==
  ASSUME SInv, InitStart
  PROVE  SInv'
<1> DEFINE r == [head |-> StartSymb, body |-> <<>>, prec |-> DefPrec]
<1>1. /\ fresh' = NoGrammar /\ call' = Idle /\ call.doing = "create"
      /\ grammar' = [fresh EXCEPT !.rules = <<r>>, !.cap = Grown(0)]
      /\ Len(fresh.terms) = Len(BuiltIns)
  BY DEF InitStart
<1>2. Creating /\ TermsOK(fresh) /\ fresh \in Gr
  BY <1>1 DEF SInv, CallOK, Typed
<1>3. Carried
  BY InitStartCarries
<1>4. /\ grammar'.terms = fresh.terms /\ grammar'.open /\ grammar'.symb_list = {}
      /\ grammar'.rules = <<r>> /\ grammar'.cap = Grown(0)
  BY <1>1, <1>2 DEF Creating, Gr
<1>5. CallOK' /\ TermsOK(fresh)'
  BY <1>1, IdleOK
<1>6. ASSUME NEW k \in DOMAIN fresh.terms PROVE NameAt(symbs', grammar', k) = NameAt(symbs, fresh, k)
  <2>1. <<0, k>> \in Places(fresh) /\ Held(fresh)[<<0, k>>] = fresh.terms[k].term
    BY <1>2, HeldAt
  <2>2. <<0, k>> \in Places(grammar') /\ Held(grammar')[<<0, k>>] = grammar'.terms[k].term
    <3>1. k \in DOMAIN grammar'.terms /\ grammar' \in Gr
      BY <1>3, <1>4 DEF Carried, Typed
    <3>2. QED
      BY <3>1, HeldAt
  <2>3. fresh.terms[k].term \in Objects /\ fresh.terms[k].term \in Objects'
    BY <1>3, <1>4, <2>1, <2>2, AliveTwice DEF Alive
  <2>4. symbs'[fresh.terms[k].term].name = symbs[fresh.terms[k].term].name
    BY <1>3, <2>3, SymbStays
  <2>5. QED
    BY <1>4, <2>4 DEF NameAt
<1>7. TermsOK(grammar)'
  BY <1>2, <1>4, <1>6 DEF TermsOK
<1>8. RulesOK'
  <2>1. Len(<<r>>) = 1 /\ DOMAIN <<r>> = {1} /\ <<r>>[1] = r
    OBVIOUS
  <2>2. Grown(0) \in Nat /\ Grown(0) > 1
    BY StoreAssumption DEF Grown
  <2>3. r.head = StartSymb /\ r.body = <<>> /\ r.prec \in Terminals
    BY DEF Terminals
  <2> HIDE DEF r
  <2>4. First' /\ ~IsFull'
    BY <1>4, <2>1, <2>2 DEF First, IsFull
  <2>5. symbs'[StartSymb].name = Start
    BY <1>3, StartSymbStays
  <2>6. Len(grammar'.rules) \in 1 .. grammar'.cap /\ Len(grammar'.terms) >= Len(BuiltIns)
    <3>1. Len(grammar'.terms) >= Len(BuiltIns)
      <4>1. Len(BuiltIns) \in Nat
        BY DEF BuiltIns
      <4>2. QED
        BY <1>1, <1>4, <4>1
    <3>2. Len(grammar'.rules) = 1
      BY <1>4, <2>1
    <3>3. grammar'.cap \in Nat /\ grammar'.cap > 1
      BY <1>4, <2>2
    <3>4. QED
      BY <3>1, <3>2, <3>3
  <2>7. \A i \in DOMAIN grammar'.rules : grammar'.rules[i].prec \in Terminals
    BY <1>4, <2>1, <2>3
  <2>8. grammar'.rules[1].head = StartSymb /\ grammar'.rules[1].body = <<>>
    BY <1>4, <2>1, <2>3
  <2>9. QED
    BY <1>4, <2>4, <2>5, <2>6, <2>7, <2>8 DEF RulesOK
<1>9. BorrowedAlive'
  BY <1>4 DEF BorrowedAlive
<1>10. QED
  BY <1>3, <1>5, <1>7, <1>8, <1>9 DEF SInv, Carried

LEMMA CreateFailsStep ==
  ASSUME SInv, CreateFails
  PROVE  SInv'
<1>1. grammar' = grammar /\ call' = Idle /\ fresh' = NoGrammar
  BY DEF CreateFails
<1>2. CallOK' /\ TermsOK(fresh)'
  BY <1>1, IdleOK
<1>3. QED
  BY <1>1, <1>2, CreateFailsCarries, GrammarUntouched

LEMMA DestroyGrammarStep ==
  ASSUME SInv, DestroyGrammar
  PROVE  SInv'
<1>1. grammar' = NoGrammar /\ call' = Idle /\ fresh' = NoGrammar
  BY DEF DestroyGrammar, SInv, CallOK, Idle
<1>2. CallOK' /\ TermsOK(fresh)'
  BY <1>1, IdleOK
<1>3. Carried
  BY DestroyGrammarCarries
<1>4. grammar'.terms = <<>> /\ DOMAIN <<>> = {} /\ ~grammar'.open /\ grammar'.symb_list = {}
  BY <1>1 DEF NoGrammar
<1>5. TermsOK(grammar)'
  BY <1>4 DEF TermsOK
<1>6. RulesOK'
  BY <1>1, <1>3, <1>4, StartSymbStays DEF RulesOK
<1>7. BorrowedAlive'
  BY <1>4 DEF BorrowedAlive
<1>8. QED
  BY <1>2, <1>3, <1>5, <1>6, <1>7 DEF SInv, Carried

\* The new terminal is in the first place after the others.
TermAdded(n, v) ==
  /\ DOMAIN grammar'.terms = 1 .. Len(grammar.terms) + 1 /\ Len(grammar.terms) \in Nat
  /\ DOMAIN grammar.terms = 1 .. Len(grammar.terms)
  /\ Len(grammar'.terms) = Len(grammar.terms) + 1
  /\ \A k \in DOMAIN grammar.terms :
       NameAt(symbs', grammar', k) = NameAt(symbs, grammar, k) /\ grammar'.terms[k] = grammar.terms[k]
  /\ NameAt(symbs', grammar', Len(grammar.terms) + 1) = n
  /\ grammar'.terms[Len(grammar.terms) + 1].val = v
  /\ grammar'.rules = grammar.rules /\ grammar'.open = grammar.open
  /\ grammar'.cap = grammar.cap /\ grammar'.symb_list = grammar.symb_list
  /\ Still(grammar, grammar')
  /\ TermNames' = TermNames \cup {n} /\ n \notin TermNames

LEMMA InsertTermIs ==
  ASSUME SInv, NEW n \in Names, NEW v \in Values, InsertTerm(n, v)
  PROVE  TermAdded(n, v)
<1> DEFINE x == NewSymb
           t == [term |-> x, val |-> v]
           e == Len(grammar.terms)
<1>1. /\ symbs' = With(x, n, "term") /\ grammar' = [grammar EXCEPT !.terms = Append(@, t)]
      /\ n \notin TermNames
  BY DEF InsertTerm, Created
<1>2. Carried
  BY InsertTermCarries
<1>3. grammar \in Gr /\ grammar.terms \in Seq(Term) /\ IsFiniteSet(Places(grammar))
  BY DEF SInv, Typed, Gr
<1>4. t \in Term /\ t.term = x /\ t.val = v
  BY NewSymbIs DEF SInv, Term
<1> HIDE DEF x, t
<1>5. /\ grammar'.terms = Append(grammar.terms, t) /\ grammar'.rules = grammar.rules
      /\ grammar'.open = grammar.open /\ grammar'.cap = grammar.cap
      /\ grammar'.symb_list = grammar.symb_list /\ grammar' \in Gr
  BY <1>1, <1>2, <1>3 DEF Gr, Carried, Typed
<1>6. /\ e \in Nat /\ DOMAIN grammar.terms = 1 .. e /\ DOMAIN grammar'.terms = 1 .. e + 1
      /\ Len(grammar'.terms) = e + 1
      /\ \A k \in 1 .. e : grammar'.terms[k] = grammar.terms[k]
      /\ grammar'.terms[e + 1] = t
  BY <1>3, <1>4, <1>5, AppendProperties, LenProperties
<1>7. Still(grammar, grammar')
  <2> DEFINE g1 == grammar'
  <2>1. g1 \in Gr /\ g1.terms = Append(grammar.terms, t) /\ g1.rules = grammar.rules
    BY <1>5
  <2> HIDE DEF g1
  <2>2. Still(grammar, g1)
    BY <1>3, <1>4, <2>1, HeldTerm
  <2>3. QED
    BY <2>2 DEF g1
<1>8. \A k \in DOMAIN grammar.terms : NameAt(symbs', grammar', k) = NameAt(symbs, grammar, k)
  <2> TAKE k \in DOMAIN grammar.terms
  <2>1. k \in DOMAIN grammar'.terms /\ grammar'.terms[k] = grammar.terms[k]
    BY <1>6
  <2>2. QED
    BY <1>2, <2>1, TermStays DEF NameAt
<1>9. NameAt(symbs', grammar', e + 1) = n
  BY <1>1, <1>4, <1>6 DEF NameAt, With
<1> HIDE DEF e
<1>10. TermNames' = TermNames \cup {n}
  <2>1. TermNames = {NameAt(symbs, grammar, k) : k \in 1 .. e}
    BY <1>6 DEF TermNames, NameAt
  <2>2. TermNames' = {NameAt(symbs', grammar', k) : k \in 1 .. e + 1}
    BY <1>6 DEF TermNames, NameAt
  <2>3. 1 .. e + 1 = (1 .. e) \cup {e + 1}
    BY <1>6
  <2>4. \A k \in 1 .. e : NameAt(symbs', grammar', k) = NameAt(symbs, grammar, k)
    BY <1>6, <1>8
  <2>5. QED
    BY <1>9, <2>1, <2>2, <2>3, <2>4
<1>11. QED
  BY <1>1, <1>4, <1>5, <1>6, <1>7, <1>8, <1>9, <1>10 DEF TermAdded, e

LEMMA InsertTermStep ==
  ASSUME SInv, NEW n \in Names, NEW v \in Values, InsertTerm(n, v)
  PROVE  SInv'
<1> DEFINE e == Len(grammar.terms)
<1>1. call' = Idle /\ fresh' = NoGrammar /\ grammar.open
  BY DEF InsertTerm, SInv, CallOK, Idle
<1>2. CallOK' /\ TermsOK(fresh)'
  BY <1>1, IdleOK
<1>3. Carried
  BY InsertTermCarries
<1>4. TermAdded(n, v)
  BY InsertTermIs
<1>5. e >= Len(BuiltIns) /\ Len(BuiltIns) = 3 /\ TermsOK(grammar)
  BY <1>1 DEF SInv, RulesOK, BuiltIns
<1>6. \A k \in DOMAIN grammar.terms : NameAt(symbs, grammar, k) # n
  BY <1>4 DEF TermAdded, TermNames, NameAt
<1>7. TermsOK(grammar)'
  <2>1. n \in Terminals
    BY DEF Terminals
  <2>2. /\ e \in Nat /\ DOMAIN grammar'.terms = 1 .. e + 1 /\ DOMAIN grammar.terms = 1 .. e
        /\ \A k \in 1 .. e : NameAt(symbs', grammar', k) = NameAt(symbs, grammar, k) /\ grammar'.terms[k] = grammar.terms[k]
        /\ NameAt(symbs', grammar', e + 1) = n
    BY <1>4 DEF TermAdded
  <2> HIDE DEF e
  <2>3. \A k \in 1 .. e + 1 : k \in 1 .. e \/ k = e + 1
    BY <2>2
  <2>4. \A k \in DOMAIN grammar'.terms : NameAt(symbs', grammar', k) \in Terminals
    BY <1>5, <2>1, <2>2, <2>3 DEF TermsOK
  <2>5. \A j, k \in DOMAIN grammar'.terms : NameAt(symbs', grammar', j) = NameAt(symbs', grammar', k) => j = k
    BY <1>5, <1>6, <2>2, <2>3 DEF TermsOK
  <2>6. \A k \in DOMAIN grammar'.terms : k <= Len(BuiltIns) =>
          NameAt(symbs', grammar', k) = BuiltIns[k].name /\ grammar'.terms[k].val = BuiltIns[k].val
    BY <1>5, <2>2, <2>3 DEF TermsOK
  <2>7. QED
    BY <2>4, <2>5, <2>6 DEF TermsOK
<1>8. RulesOK'
  <2>1. /\ grammar'.rules = grammar.rules /\ grammar'.open /\ grammar'.cap = grammar.cap
        /\ Len(grammar'.terms) >= Len(BuiltIns)
    BY <1>1, <1>4, <1>5 DEF TermAdded
  <2>2. First' = First /\ IsFull' = IsFull
    BY <2>1 DEF First, IsFull
  <2>3. symbs'[StartSymb].name = Start
    BY <1>3, StartSymbStays
  <2>4. QED
    BY <1>1, <2>1, <2>2, <2>3 DEF SInv, RulesOK
<1>9. BorrowedAlive'
  BY <1>3, <1>4, BorrowedStays DEF TermAdded
<1>10. QED
  BY <1>2, <1>3, <1>7, <1>8, <1>9 DEF SInv, Carried

LEMMA RulesUntouched ==
  ASSUME SInv, Carried, grammar.open, grammar'.rules = grammar.rules,
         grammar'.open = grammar.open, grammar'.cap = grammar.cap, grammar'.terms = grammar.terms
  PROVE  RulesOK'
<1>1. First' = First /\ IsFull' = IsFull
  BY DEF First, IsFull
<1>2. symbs'[StartSymb].name = Start
  BY StartSymbStays
<1>3. QED
  BY <1>1, <1>2 DEF SInv, RulesOK

LEMMA GetSymbListStep ==
  ASSUME SInv, GetSymbList
  PROVE  SInv'
<1>1. /\ call' = Idle /\ fresh' = NoGrammar /\ grammar.open
      /\ grammar' = [grammar EXCEPT !.symb_list = Lent]
  BY DEF GetSymbList, SInv, CallOK, Idle
<1>2. CallOK' /\ TermsOK(fresh)'
  BY <1>1, IdleOK
<1>3. Carried /\ Places(grammar') = Places(grammar) /\ Held(grammar') = Held(grammar)
  BY GetSymbListCarries
<1>4. grammar \in Gr
  BY DEF SInv, Typed
<1>5. /\ grammar'.terms = grammar.terms /\ grammar'.rules = grammar.rules
      /\ grammar'.open = grammar.open /\ grammar'.cap = grammar.cap /\ grammar'.symb_list = Lent
  BY <1>1, <1>4 DEF Gr
<1>6. TermsOK(grammar)' /\ RulesOK'
  BY <1>1, <1>3, <1>5, TermsStay, RulesUntouched
<1>7. BorrowedAlive'
  <2>1. DOMAIN Held(grammar) = Places(grammar)
    BY <1>4, HeldAt
  <2>2. Lent \subseteq ToSet(Held(grammar))
    BY <2>1 DEF Lent, ToSet
  <2>3. QED
    BY <1>3, <1>5, <2>2 DEF BorrowedAlive
<1>8. QED
  BY <1>2, <1>3, <1>6, <1>7 DEF SInv, Carried

BodyIn(head, body) == head \in Objects /\ \A k \in DOMAIN body : body[k] \in Objects
LocalsIn == call.head # 0 => BodyIn(call.head, call.body)
RuleIn == call.rule.head # 0 => BodyIn(call.rule.head, call.rule.body)

LEMMA BodyAlive ==
  ASSUME NEW r, r.body \in Seq(Nat), r.head # 0,
         \A k \in DOMAIN RuleSymbs(r) : RuleSymbs(r)[k] \in Objects
  PROVE  BodyIn(r.head, r.body)
<1>1. Len(r.body) \in Nat /\ DOMAIN r.body = 1 .. Len(r.body)
  BY LenProperties
<1>2. 0 \in DOMAIN RuleSymbs(r) /\ RuleSymbs(r)[0] = r.head
  BY <1>1, RuleAt DEF SymbAt
<1>3. ASSUME NEW k \in DOMAIN r.body PROVE r.body[k] \in Objects
  <2>1. k \in 0 .. Len(r.body) /\ k # 0
    BY <1>1
  <2>2. k \in DOMAIN RuleSymbs(r) /\ RuleSymbs(r)[k] = r.body[k]
    BY <2>1, RuleAt DEF SymbAt
  <2>3. QED
    BY <2>2
<1>4. QED
  BY <1>2, <1>3 DEF BodyIn

LEMMA CallAlive ==
  Typed /\ Owned => LocalsIn /\ RuleIn
<1> SUFFICES ASSUME Typed, Owned PROVE LocalsIn /\ RuleIn
  OBVIOUS
<1>1. Alive /\ call.body \in Seq(Nat) /\ call.rule.body \in Seq(Nat)
  BY HeldAreAlive DEF Typed, Call, Rule
<1>2. LocalsIn
  <2>1. LocalRule.head = call.head /\ LocalRule.body = call.body /\ Locals = RuleSymbs(LocalRule)
    BY DEF LocalRule, Locals
  <2> HIDE DEF LocalRule
  <2>2. QED
    BY <1>1, <2>1, BodyAlive DEF Alive, LocalsIn
<1>3. RuleIn
  BY <1>1, BodyAlive DEF Alive, RuleIn
<1>4. QED
  BY <1>2, <1>3

LEMMA CallAliveTwice ==
  ASSUME SInv, Carried
  PROVE  LocalsIn /\ RuleIn /\ LocalsIn' /\ RuleIn'
<1>1. LocalsIn /\ RuleIn
  BY CallAlive DEF SInv
<1>2. Typed' /\ Owned'
  BY DEF Carried
<1>3. LocalsIn' /\ RuleIn'
  BY <1>2, CallAlive, PTL
<1>4. QED
  BY <1>1, <1>3

LEMMA SoundStays ==
  ASSUME Carried, NEW T, NEW head, NEW body, Sound(symbs, T, head, body),
         head \in Objects, head \in Objects',
         \A k \in DOMAIN body : body[k] \in Objects /\ body[k] \in Objects'
  PROVE  Sound(symbs', T, head, body)
<1>1. symbs'[head].name = symbs[head].name
  BY SymbStays
<1>2. \A k \in DOMAIN body : symbs'[body[k]].name = symbs[body[k]].name
                             /\ symbs'[body[k]].type = symbs[body[k]].type
  BY SymbStays
<1>3. QED
  BY <1>1, <1>2 DEF Sound

LEMMA BeginRuleStep ==
  ASSUME SInv, NEW by \in {"str", "list"}, NEW head \in Names \cup {Start}, BeginRule(by, head)
  PROVE  SInv'
<1>1. /\ call' = [Idle EXCEPT !.doing = "scan", !.by = by, !.head = NewSymb]
      /\ grammar' = grammar /\ fresh' = NoGrammar /\ grammar.open
  BY DEF BeginRule, SInv, CallOK, Idle
<1>2. NewSymb # 0
  BY NewSymbIs DEF SInv
<1>3. CallOK'
  <2>1. call'.doing = "scan" /\ call'.head # 0 /\ call'.rule = NoRule
    BY <1>1, <1>2 DEF Idle
  <2>2. QED
    BY <1>1, <2>1 DEF CallOK, Scanning
<1>4. TermsOK(fresh)'
  BY <1>1, NoTermsOK DEF NoGrammar
<1>5. QED
  BY <1>1, <1>3, <1>4, BeginRuleCarries, GrammarUntouched

\* A longer body is still being scanned.
LEMMA ScanStep ==
  ASSUME SInv, Carried, call.doing = "scan", NEW x, call' = [call EXCEPT !.body = Append(@, x)],
         grammar' = grammar, fresh' = fresh
  PROVE  SInv'
<1>1. Scanning /\ fresh = NoGrammar /\ call \in Call
  BY DEF SInv, CallOK, Typed
<1>2. call'.doing = "scan" /\ call'.head = call.head /\ call'.rule = call.rule
  BY <1>1 DEF Call
<1>3. CallOK'
  BY <1>1, <1>2 DEF CallOK, Scanning
<1>4. TermsOK(fresh)'
  BY <1>1, NoTermsOK DEF NoGrammar
<1>5. QED
  BY <1>3, <1>4, GrammarUntouched

LEMMA ScanSymbStep ==
  ASSUME SInv, NEW n \in Names \cup {ErrorT}, ScanSymb(n)
  PROVE  SInv'
<1>1. /\ call.doing = "scan" /\ call' = [call EXCEPT !.body = Append(@, NewSymb)]
      /\ grammar' = grammar /\ fresh' = fresh
  BY DEF ScanSymb
<1>2. QED
  BY <1>1, ScanSymbCarries, ScanStep

LEMMA ShareSymbStep ==
  ASSUME SInv, ShareSymb
  PROVE  SInv'
<1>1. PICK x : /\ call.doing = "scan" /\ call' = [call EXCEPT !.body = Append(@, x)]
               /\ grammar' = grammar /\ fresh' = fresh
  BY DEF ShareSymb
<1>2. QED
  BY <1>1, ShareSymbCarries, ScanStep

LEMMA CreateRuleStep ==
  ASSUME SInv, NEW asked, CreateRule(asked)
  PROVE  SInv'
<1> DEFINE h == call.head
           b == call.body
           r == [head |-> h, body |-> <<>>, prec |-> PrecTok(b, asked)]
<1>1. /\ call.doing = "scan" /\ Acceptable(h, b, asked)
      /\ call' = [call EXCEPT !.doing = "copy", !.rule = r]
      /\ grammar' = grammar /\ fresh' = fresh
  BY DEF CreateRule
<1>2. Scanning /\ fresh = NoGrammar /\ call \in Call
  BY <1>1 DEF SInv, CallOK, Typed
<1>3. Carried
  BY CreateRuleCarries
<1>4. /\ call'.doing = "copy" /\ call'.head = h /\ call'.body = b /\ call'.rule = r
      /\ r.head = h /\ r.body = <<>> /\ r.prec = PrecTok(b, asked)
  BY <1>1, <1>2 DEF Call
<1>5. TermNames' = TermNames
  BY <1>1, <1>3, TermsStay
<1>6. PrecTok(b, asked) \in TermNames
  BY <1>1, <1>2, PrecTokIs DEF Scanning, Call
<1>7. Sound(symbs', TermNames, h, b)
  <2>1. Sound(symbs, TermNames, h, b)
    BY <1>1 DEF Acceptable, Sound, IsError
  <2>2. BodyIn(h, b) /\ BodyIn(h, b)'
    BY <1>2, <1>3, <1>4, CallAliveTwice DEF LocalsIn, Scanning
  <2>3. /\ h \in Objects /\ h \in Objects'
        /\ \A k \in DOMAIN b : b[k] \in Objects /\ b[k] \in Objects'
    BY <1>4, <2>2 DEF BodyIn
  <2> HIDE DEF h, b
  <2>4. QED
    BY <1>3, <2>1, <2>3, SoundStays
<1>8. Copying'
  <2>1. Len(<<>>) = 0 /\ DOMAIN <<>> = {} /\ Len(b) \in Nat
    BY <1>2, LenProperties DEF Call
  <2>2. grammar'.open /\ call'.head # 0
    BY <1>1, <1>2, <1>4 DEF Scanning
  <2>3. Sound(symbs', TermNames', call'.head, call'.body)
    BY <1>4, <1>5, <1>7
  <2>4. Len(call'.rule.body) <= Len(call'.body) /\ DOMAIN call'.rule.body = {}
    BY <1>4, <2>1
  <2>5. call'.rule.prec \in TermNames' /\ call'.rule.head = call'.head
    BY <1>4, <1>5, <1>6
  <2>6. QED
    BY <2>2, <2>3, <2>4, <2>5 DEF Copying
<1>9. CallOK'
  BY <1>1, <1>2, <1>4, <1>8 DEF CallOK
<1>10. TermsOK(fresh)'
  BY <1>1, <1>2, NoTermsOK DEF NoGrammar
<1>11. QED
  BY <1>1, <1>3, <1>9, <1>10, GrammarUntouched

LEMMA CopySymbStep ==
  ASSUME SInv, CopySymb
  PROVE  SInv'
<1> DEFINE n == Len(call.rule.body)
           x == call.body[n + 1]
           h == call.head
           b == call.body
           rb == call.rule.body
<1>1. /\ call.doing = "copy" /\ n < Len(b) /\ call' = [call EXCEPT !.rule.body = Append(@, x)]
      /\ grammar' = grammar /\ fresh' = fresh
  BY DEF CopySymb
<1>2. Copying /\ fresh = NoGrammar /\ call \in Call /\ call.rule \in Rule
  BY <1>1 DEF SInv, CallOK, Typed, Call
<1>3. Carried
  BY CopySymbCarries
<1>4. /\ call'.doing = "copy" /\ call'.head = h /\ call'.body = b
      /\ call'.rule.head = call.rule.head /\ call'.rule.body = Append(rb, x)
      /\ call'.rule.prec = call.rule.prec
  <2>1. call' = [call EXCEPT !.rule = [call.rule EXCEPT !.body = Append(rb, x)]]
    BY <1>1, <1>2 DEF Call
  <2>2. QED
    BY <1>1, <1>2, <2>1 DEF Call, Rule
<1>5. TermNames' = TermNames
  BY <1>1, <1>3, TermsStay
<1>6. Sound(symbs', TermNames, h, b)
  <2>1. Sound(symbs, TermNames, h, b)
    BY <1>2 DEF Copying
  <2>2. BodyIn(h, b) /\ BodyIn(h, b)'
    BY <1>2, <1>3, <1>4, CallAliveTwice DEF LocalsIn, Copying
  <2>3. /\ h \in Objects /\ h \in Objects'
        /\ \A k \in DOMAIN b : b[k] \in Objects /\ b[k] \in Objects'
    BY <1>4, <2>2 DEF BodyIn
  <2> HIDE DEF h, b
  <2>4. QED
    BY <1>3, <2>1, <2>3, SoundStays
<1>7. /\ n \in Nat /\ Len(Append(rb, x)) = n + 1 /\ DOMAIN Append(rb, x) = 1 .. n + 1
      /\ \A k \in 1 .. n : Append(rb, x)[k] = rb[k]
      /\ Append(rb, x)[n + 1] = x /\ DOMAIN rb = 1 .. n /\ Len(b) \in Nat
  <2>1. rb \in Seq(Nat) /\ b \in Seq(Nat)
    BY <1>2 DEF Rule, Call
  <2> DEFINE y == x
  <2> HIDE DEF x
  <2>2. QED
    BY <2>1, LenProperties
<1>8. \A k \in 1 .. n + 1 : Append(rb, x)[k] = b[k]
  <2>1. \A k \in 1 .. n : rb[k] = b[k]
    BY <1>2, <1>7 DEF Copying
  <2>2. \A k \in 1 .. n + 1 : k \in 1 .. n \/ k = n + 1
    BY <1>7
  <2>3. QED
    BY <1>7, <2>1, <2>2
<1>9. Copying'
  <2>1. grammar'.open /\ call'.head # 0 /\ call'.rule.head = call'.head
    BY <1>1, <1>2, <1>4 DEF Copying
  <2>2. Sound(symbs', TermNames', call'.head, call'.body)
    BY <1>4, <1>5, <1>6
  <2>3. Len(call'.rule.body) <= Len(call'.body)
    <3>1. Len(call'.rule.body) = n + 1 /\ call'.body = b
      BY <1>4, <1>7
    <3>2. n + 1 <= Len(b)
      BY <1>1, <1>7
    <3>3. QED
      BY <3>1, <3>2
  <2>4. \A k \in DOMAIN call'.rule.body : call'.rule.body[k] = call'.body[k]
    BY <1>4, <1>7, <1>8
  <2>5. call'.rule.prec \in TermNames'
    BY <1>2, <1>4, <1>5 DEF Copying
  <2>6. QED
    BY <2>1, <2>2, <2>3, <2>4, <2>5 DEF Copying
<1>10. CallOK'
  BY <1>1, <1>2, <1>4, <1>9 DEF CallOK
<1>11. TermsOK(fresh)'
  BY <1>1, <1>2, NoTermsOK DEF NoGrammar
<1>12. QED
  BY <1>1, <1>3, <1>10, <1>11, GrammarUntouched

LEMMA GiveUpStep ==
  ASSUME SInv, call.doing # "create", GiveUp
  PROVE  SInv'
<1>1. call' = Idle /\ fresh' = NoGrammar /\ grammar' = grammar
  BY DEF GiveUp, SInv, CallOK
<1>2. CallOK' /\ TermsOK(fresh)'
  BY <1>1, IdleOK
<1>3. QED
  BY <1>1, <1>2, GiveUpCarries, GrammarUntouched

LEMMA RuleCreatedStep ==
  ASSUME SInv, RuleCreated
  PROVE  SInv'
<1>1. /\ call.doing = "copy" /\ Len(call.rule.body) = Len(call.body)
      /\ grammar' = grammar /\ fresh' = fresh
  BY DEF RuleCreated
<1>2. Copying /\ fresh = NoGrammar /\ call \in Call /\ call.rule \in Rule
  BY <1>1 DEF SInv, CallOK, Typed, Call
<1>3. Carried
  BY RuleCreatedCarries
<1>4. call'.doing = "insert" /\ call'.rule = call.rule
  BY <1>2 DEF RuleCreated, Call
<1>5. TermNames' = TermNames
  BY <1>1, <1>3, TermsStay
<1> DEFINE h == call.rule.head
           b == call.rule.body
<1>6. Sound(symbs, TermNames, h, b)
  <2>1. Sound(symbs, TermNames, call.head, call.body) /\ h = call.head
    BY <1>2 DEF Copying
  <2>2. DOMAIN b = DOMAIN call.body /\ \A k \in DOMAIN b : b[k] = call.body[k]
    <3>1. b \in Seq(Nat) /\ call.body \in Seq(Nat)
      BY <1>2 DEF Call, Rule
    <3>2. QED
      BY <1>1, <1>2, <3>1, LenProperties DEF Copying
  <2>3. QED
    BY <2>1, <2>2 DEF Sound
<1>7. h # 0 /\ call.rule.prec \in TermNames /\ grammar.open
  BY <1>2 DEF Copying
<1>8. Sound(symbs', TermNames, h, b)
  <2>1. BodyIn(h, b) /\ BodyIn(h, b)'
    BY <1>3, <1>4, <1>7, CallAliveTwice DEF RuleIn
  <2>2. /\ h \in Objects /\ h \in Objects'
        /\ \A k \in DOMAIN b : b[k] \in Objects /\ b[k] \in Objects'
    BY <1>4, <2>1 DEF BodyIn
  <2> HIDE DEF h, b
  <2>3. QED
    BY <1>3, <1>6, <2>2, SoundStays
<1>9. CallOK'
  BY <1>1, <1>2, <1>4, <1>5, <1>7, <1>8 DEF CallOK, Inserting
<1>10. TermsOK(fresh)'
  BY <1>1, <1>2, NoTermsOK DEF NoGrammar
<1>11. QED
  BY <1>1, <1>3, <1>9, <1>10, GrammarUntouched

\* The rule comes after the others, and the augmented rule derives its head if
\* it is the first of them.
RuleAdded(n) ==
  /\ n = Len(grammar.rules) /\ n \in Nat /\ n >= 1
  /\ DOMAIN grammar.rules = 1 .. n /\ DOMAIN grammar'.rules = 1 .. n + 1
  /\ Len(grammar'.rules) = n + 1
  /\ \A i \in 2 .. n : grammar'.rules[i] = grammar.rules[i]
  /\ grammar'.rules[n + 1] = call.rule
  /\ grammar'.rules[1].head = grammar.rules[1].head
  /\ grammar'.rules[1].prec = grammar.rules[1].prec
  /\ grammar'.rules[1].body = IF n = 1 THEN <<call.rule.head>> ELSE grammar.rules[1].body

LEMMA InsertRuleIs ==
  ASSUME SInv, InsertRule
  PROVE  RuleAdded(Len(grammar.rules))
<1> DEFINE n == Len(grammar.rules)
           g == StartSet
<1>1. RuleInserted /\ call.doing = "insert"
  BY InsertRuleHeld DEF InsertRule
<1>2. StartSetOK
  BY <1>1, StartSetIs
<1>3. grammar \in Gr /\ grammar.rules \in Seq(Rule) /\ grammar.open
  BY <1>1 DEF SInv, Typed, Gr, CallOK, Inserting
<1>4. n \in Nat /\ DOMAIN grammar.rules = 1 .. n /\ n >= 1
  BY <1>3, LenProperties DEF SInv, RulesOK
<1>5. /\ g.rules \in Seq(Rule) /\ Len(g.rules) = n
      /\ \A i \in 1 .. n : /\ g.rules[i].head = grammar.rules[i].head
                           /\ g.rules[i].prec = grammar.rules[i].prec
                           /\ i # 1 => g.rules[i] = grammar.rules[i]
      /\ g.rules[1].body = IF n = 1 THEN <<call.rule.head>> ELSE grammar.rules[1].body
  BY <1>2, <1>4 DEF StartSetOK, Gr, First
<1>6. grammar'.rules = Append(g.rules, call.rule) /\ call.rule \in Rule
  BY <1>1 DEF RuleInserted, SInv, Typed, Call
<1> DEFINE rs == grammar'.rules
<1>7. rs = Append(g.rules, call.rule)
  BY <1>6
<1> HIDE DEF n, g, rs
<1>8. /\ Len(rs) = n + 1 /\ DOMAIN rs = 1 .. n + 1
      /\ \A i \in 1 .. n : rs[i] = g.rules[i]
      /\ rs[n + 1] = call.rule
  BY <1>4, <1>5, <1>6, <1>7, AppendProperties, LenProperties
<1>9. 1 \in 1 .. n /\ \A i \in 2 .. n : i \in 1 .. n /\ i # 1
  BY <1>4
<1>10. QED
  BY <1>4, <1>5, <1>8, <1>9 DEF RuleAdded, n, rs

LEMMA InsertRuleStep ==
  ASSUME SInv, InsertRule
  PROVE  SInv'
<1> DEFINE n == Len(grammar.rules)
<1>1. /\ call' = Idle /\ fresh' = NoGrammar /\ call.doing = "insert"
  BY DEF InsertRule, SInv, CallOK
<1>2. CallOK' /\ TermsOK(fresh)'
  BY <1>1, IdleOK
<1>3. Carried /\ RuleInserted /\ RuleAdded(n)
  BY InsertRuleCarries, InsertRuleHeld, InsertRuleIs
<1>4. Inserting /\ grammar.cap \in Nat /\ RulesOK
  BY <1>1 DEF SInv, CallOK, Typed, Gr
<1>5. TermsOK(grammar)'
  BY <1>3, TermsStay DEF RuleInserted
<1>6. grammar'.open /\ Len(grammar'.terms) >= Len(BuiltIns)
  BY <1>3, <1>4 DEF RuleInserted, Inserting, RulesOK
<1>7. /\ First <=> n = 1
      /\ IsFull <=> n = grammar.cap
      /\ n \in 1 .. grammar.cap
      /\ grammar'.cap = IF n = grammar.cap THEN Grown(grammar.cap) ELSE grammar.cap
  BY <1>3, <1>4 DEF First, IsFull, RuleInserted, Inserting, RulesOK
<1>8. /\ n \in Nat /\ n >= 1 /\ Len(grammar'.rules) = n + 1
      /\ DOMAIN grammar.rules = 1 .. n /\ DOMAIN grammar'.rules = 1 .. n + 1
      /\ \A i \in 2 .. n : grammar'.rules[i] = grammar.rules[i]
      /\ grammar'.rules[n + 1] = call.rule
      /\ grammar'.rules[1].head = grammar.rules[1].head
      /\ grammar'.rules[1].prec = grammar.rules[1].prec
      /\ grammar'.rules[1].body = IF n = 1 THEN <<call.rule.head>> ELSE grammar.rules[1].body
  BY <1>3 DEF RuleAdded
<1>9. /\ ~First' /\ grammar'.rules[1].head = StartSymb
  BY <1>4, <1>8 DEF First, RulesOK, Inserting
<1>10. /\ n # 1 => \E i \in 2 .. n : grammar.rules[1].body = <<grammar.rules[i].head>>
       /\ \A i \in DOMAIN grammar.rules : grammar.rules[i].prec \in Terminals
  BY <1>4, <1>7 DEF RulesOK, Inserting
<1>11. call.rule.prec \in Terminals
  BY <1>4, TermNamesAre DEF Inserting
<1> HIDE DEF n
<1>12. Len(grammar'.rules) \in 1 .. grammar'.cap
  <2>1. Slack \in Nat
    BY StoreAssumption
  <2>2. CASE n = grammar.cap
    <3>1. grammar'.cap = (n + Slack) * 2
      BY <1>7, <2>2 DEF Grown
    <3>2. n + 1 <= (n + Slack) * 2
      BY <1>8, <2>1
    <3>3. (n + Slack) * 2 \in Nat
      BY <1>8, <2>1
    <3>4. QED
      BY <1>8, <3>1, <3>2, <3>3
  <2>3. CASE n # grammar.cap
    BY <1>4, <1>7, <1>8, <2>3
  <2>4. QED
    BY <2>2, <2>3
<1>13. \E i \in 2 .. Len(grammar'.rules) : grammar'.rules[1].body = <<grammar'.rules[i].head>>
  <2>1. CASE n = 1
    <3>1. 2 \in 2 .. Len(grammar'.rules) /\ grammar'.rules[2] = call.rule
      BY <1>8, <2>1
    <3>2. QED
      BY <1>8, <2>1, <3>1
  <2>2. CASE n # 1
    <3>1. PICK i \in 2 .. n : grammar.rules[1].body = <<grammar.rules[i].head>>
      BY <1>10, <2>2
    <3>2. i \in 2 .. Len(grammar'.rules) /\ grammar'.rules[i] = grammar.rules[i]
      BY <1>8, <3>1
    <3>3. QED
      BY <1>8, <2>2, <3>1, <3>2
  <2>3. QED
    BY <2>1, <2>2
<1>14. \A i \in DOMAIN grammar'.rules : grammar'.rules[i].prec \in Terminals
  <2> TAKE i \in DOMAIN grammar'.rules
  <2>1. i = 1 \/ i \in 2 .. n \/ i = n + 1
    BY <1>8
  <2>2. 1 \in DOMAIN grammar.rules /\ \A j \in 2 .. n : j \in DOMAIN grammar.rules
    BY <1>8
  <2>3. QED
    BY <1>8, <1>10, <1>11, <2>1, <2>2
<1>15. symbs'[StartSymb].name = Start
  BY <1>3, StartSymbStays
<1>16. RulesOK'
  BY <1>6, <1>9, <1>12, <1>13, <1>14, <1>15 DEF RulesOK
<1>17. BorrowedAlive'
  BY <1>3, BorrowedStays DEF RuleInserted
<1>18. QED
  BY <1>2, <1>3, <1>5, <1>16, <1>17 DEF SInv, Carried

LEMMA SetStartRuleStep ==
  ASSUME SInv, NEW n, SetStartRule(n)
  PROVE  SInv'
<1>1. call' = Idle /\ fresh' = NoGrammar /\ grammar.open
  BY DEF SetStartRule, SInv, CallOK, Idle
<1>2. CallOK' /\ TermsOK(fresh)'
  BY <1>1, IdleOK
<1>3. PICK y, i : StartMoved(n, y, i)
  BY SetStartRuleIs
<1>4. /\ Carried /\ Places(grammar') = Places(grammar)
      /\ \A p \in Places(grammar) \ {<<1, 1>>} : Held(grammar')[p] = Held(grammar)[p]
  BY <1>1, <1>3, SetStartRuleCarries, SetStartRuleHeld
<1>5. TermsOK(grammar)'
  BY <1>3, <1>4, TermsStay DEF StartMoved
<1>6. grammar \in Gr /\ grammar' \in Gr /\ grammar.rules \in Seq(Rule) /\ RulesOK
  BY <1>4 DEF SInv, Typed, Carried, Gr
<1>7. /\ i \in 2 .. Len(grammar.rules) /\ Len(grammar.rules) \in Nat
      /\ DOMAIN grammar.rules = 1 .. Len(grammar.rules)
  BY <1>3, <1>6, LenProperties DEF StartMoved
<1>8. RulesOK'
  <2>1. /\ grammar'.open /\ grammar'.cap = grammar.cap /\ grammar'.terms = grammar.terms
        /\ Len(grammar'.rules) = Len(grammar.rules) /\ DOMAIN grammar'.rules = DOMAIN grammar.rules
        /\ \A j \in DOMAIN grammar.rules \ {1} : grammar'.rules[j] = grammar.rules[j]
        /\ grammar'.rules[1].head = grammar.rules[1].head
        /\ grammar'.rules[1].prec = grammar.rules[1].prec
        /\ grammar'.rules[1].body = <<grammar.rules[i].head>>
    BY <1>1, <1>3 DEF StartMoved
  <2>2. ~First'
    BY <1>7, <2>1 DEF First
  <2>3. symbs'[StartSymb].name = Start
    BY <1>4, StartSymbStays
  <2>4. grammar'.rules[i] = grammar.rules[i]
    BY <1>7, <2>1
  <2>5. \A j \in DOMAIN grammar'.rules : grammar'.rules[j].prec \in Terminals
    BY <1>1, <1>6, <2>1 DEF RulesOK
  <2>6. QED
    BY <1>1, <1>6, <1>7, <2>1, <2>2, <2>3, <2>4, <2>5 DEF RulesOK
<1>9. BorrowedAlive'
  <2>1. DOMAIN Held(grammar) = Places(grammar) /\ DOMAIN Held(grammar)' = Places(grammar')
    BY <1>6, HeldAt
  <2>2. ASSUME NEW p \in Places(grammar) PROVE Held(grammar)[p] \in ToSet(Held(grammar)')
    <3>1. CASE p # <<1, 1>>
      <4>1. Held(grammar')[p] = Held(grammar)[p] /\ p \in Places(grammar')
        BY <1>4, <3>1
      <4>2. QED
        BY <2>1, <4>1 DEF ToSet
    <3>2. CASE p = <<1, 1>>
      <4>1. PICK j \in 2 .. Len(grammar.rules) : grammar.rules[j].head = y
        BY <1>3 DEF StartMoved
      <4>2. grammar.rules[1].body = <<y>> /\ grammar'.rules[j] = grammar.rules[j]
            /\ DOMAIN grammar'.rules = DOMAIN grammar.rules
        BY <1>3, <1>7, <4>1 DEF StartMoved
      <4>3. Held(grammar)[p] = y
        <5>1. 1 \in DOMAIN grammar.rules /\ Len(<<y>>) = 1 /\ <<y>>[1] = y /\ 1 \in 0 .. 1
          BY <1>7
        <5>2. Held(grammar)[<<1, 1>>] = SymbAt(grammar.rules[1], 1)
          BY <1>6, <4>2, <5>1, HeldAt
        <5>3. QED
          BY <3>2, <4>2, <5>1, <5>2 DEF SymbAt
      <4>4. <<j, 0>> \in Places(grammar') /\ Held(grammar')[<<j, 0>>] = y
        <5> DEFINE g1 == grammar'
        <5>1. g1 \in Gr /\ j \in DOMAIN g1.rules /\ g1.rules[j].head = y /\ g1.rules[j] \in Rule
          BY <1>6, <1>7, <4>1, <4>2, ElementOfSeq
        <5> HIDE DEF g1
        <5>2. 0 \in 0 .. Len(g1.rules[j].body)
          BY <5>1, LenProperties DEF Rule
        <5>3. <<j, 0>> \in Places(g1) /\ Held(g1)[<<j, 0>>] = SymbAt(g1.rules[j], 0)
          BY <5>1, <5>2, HeldAt
        <5>4. QED
          BY <5>1, <5>3 DEF g1, SymbAt
      <4>5. QED
        BY <2>1, <4>3, <4>4 DEF ToSet
    <3>3. QED
      BY <3>1, <3>2
  <2>3. ToSet(Held(grammar)) \subseteq ToSet(Held(grammar)')
    BY <2>1, <2>2 DEF ToSet
  <2>4. QED
    BY <1>3, <2>3 DEF SInv, BorrowedAlive, StartMoved
<1>10. QED
  BY <1>2, <1>4, <1>5, <1>8, <1>9 DEF SInv, Carried

LEMMA StutterStep ==
  ASSUME SInv, UNCHANGED vars
  PROVE  SInv'
<1>1. symbs' = symbs /\ grammar' = grammar /\ fresh' = fresh /\ call' = call
  BY DEF vars
<1>2. Typed' /\ TermsOK(grammar)' /\ TermsOK(fresh)' /\ BorrowedAlive'
  BY <1>1 DEF SInv, Typed, TermsOK, BorrowedAlive, NameAt
<1>3. Owned'
  <2>1. Locals' = Locals
    BY <1>1 DEF Locals
  <2>2. Tally' = Tally
    BY <1>1, <2>1 DEF Tally, Owners
  <2>3. QED
    BY <1>1, <2>2 DEF SInv, Owned
<1>4. RulesOK'
  <2>1. First' = First /\ IsFull' = IsFull
    BY <1>1 DEF First, IsFull
  <2>2. QED
    BY <1>1, <2>1 DEF SInv, RulesOK
<1>5. CallOK'
  <2>1. TermNames' = TermNames
    BY <1>1 DEF TermNames
  <2>2. Creating' = Creating /\ Scanning' = Scanning
    BY <1>1 DEF Creating, Scanning
  <2>3. Copying' = Copying /\ Inserting' = Inserting
    BY <1>1, <2>1 DEF Copying, Inserting
  <2>4. QED
    BY <1>1, <2>2, <2>3 DEF SInv, CallOK
<1>6. QED
  BY <1>2, <1>3, <1>4, <1>5 DEF SInv

LEMMA InitHolds ==
  ASSUME Init
  PROVE  SInv
<1> DEFINE s == [name |-> Start, type |-> "nonterm", refs |-> 1]
<1>1. /\ symbs = [o \in {StartSymb} |-> s]
      /\ grammar = NoGrammar /\ fresh = NoGrammar /\ call = Idle
  BY DEF Init
<1>2. Typed
  BY <1>1, NothingHeld, IdleHolds DEF Typed
<1>3. ASSUME NEW o \in Nat PROVE Tally[o] = IfSame(StartSymb, o)
  <2>1. TallySum
    BY <1>2, TallyIs
  <2>2. Parts(o)
    BY <2>1 DEF TallySum
  <2>3. /\ Count(Held(grammar), o) = 0 /\ Count(Held(fresh), o) = 0
        /\ Count(RuleSymbs(call.rule), o) = 0
    BY <1>1, NothingHeld, IdleHolds
  <2>4. Count(Locals, o) = 0
    BY <1>1, LocalsNone, IdleHolds
  <2>5. QED
    BY <2>2, <2>3, <2>4 DEF Parts, IfSame
<1>4. Owned
  <2>1. s \in Symb /\ s.refs = 1
    BY DEF Symb, NamesOf
  <2> HIDE DEF s
  <2>2. DOMAIN symbs = {StartSymb} /\ symbs[StartSymb] = s
    BY <1>1
  <2>3. DOMAIN symbs = {o \in Nat : Tally[o] # 0}
    BY <1>3, <2>2 DEF IfSame, StartSymb
  <2>4. IsFiniteSet(DOMAIN symbs)
    BY <2>2, FS_Singleton
  <2>5. symbs \in [DOMAIN symbs -> Symb]
    BY <1>1, <2>1
  <2>6. 0 \notin DOMAIN symbs /\ symbs[StartSymb].refs = Tally[StartSymb]
    BY <1>3, <2>1, <2>2 DEF IfSame, StartSymb
  <2>7. QED
    BY <2>2, <2>3, <2>4, <2>5, <2>6 DEF Owned, Exact
<1>5. TermsOK(grammar) /\ TermsOK(fresh)
  <2>1. DOMAIN <<>> = {}
    OBVIOUS
  <2>2. QED
    BY <1>1, <2>1 DEF TermsOK, NoGrammar
<1>6. RulesOK
  BY <1>1 DEF RulesOK, NoGrammar
<1>7. CallOK
  BY <1>1 DEF CallOK, Idle
<1>8. BorrowedAlive
  BY <1>1 DEF BorrowedAlive, NoGrammar
<1>9. QED
  BY <1>2, <1>4, <1>5, <1>6, <1>7, <1>8 DEF SInv

LEMMA NextKeeps ==
  ASSUME SInv, [Next]_vars
  PROVE  SInv'
<1>1. CASE UNCHANGED vars
  BY <1>1, StutterStep
<1>2. ASSUME NEW n \in Names, NEW v \in Values, InsertTerm(n, v) PROVE SInv'
  BY <1>2, InsertTermStep
<1>3. ASSUME NEW by \in {"str", "list"}, NEW head \in Names \cup {Start}, BeginRule(by, head)
      PROVE  SInv'
  BY <1>3, BeginRuleStep
<1>4. ASSUME NEW n \in Names \cup {ErrorT}, ScanSymb(n) PROVE SInv'
  BY <1>4, ScanSymbStep
<1>5. CASE CreateRuleFails
  BY <1>5, GiveUpStep DEF CreateRuleFails
<1>6. CASE InsertRefused
  BY <1>6, GiveUpStep DEF InsertRefused
<1>7. CASE InsertFails
  <2>1. call.doing # "create"
    BY <1>7 DEF InsertFails
  <2>2. QED
    BY <1>7, <2>1, InsertFailsGivesUp, GiveUpStep
<1>8. CASE CreateGrammar \/ InitTerm \/ InitStart \/ CreateFails \/ DestroyGrammar
  BY <1>8, CreateGrammarStep, InitTermStep, InitStartStep, CreateFailsStep, DestroyGrammarStep
<1>9. CASE ShareSymb \/ CopySymb \/ RuleCreated \/ InsertRule \/ GetSymbList
  BY <1>9, ShareSymbStep, CopySymbStep, RuleCreatedStep, InsertRuleStep, GetSymbListStep
<1>10. ASSUME NEW asked \in Names \cup {NoName}, CreateRule(asked) PROVE SInv'
  BY <1>10, CreateRuleStep
<1>11. ASSUME NEW n \in Names, SetStartRule(n) PROVE SInv'
  BY <1>11, SetStartRuleStep
<1>12. QED
  BY <1>1, <1>2, <1>3, <1>4, <1>5, <1>6, <1>7, <1>8, <1>9, <1>10, <1>11 DEF Next

THEOREM InvHolds == Spec => []SInv
<1>1. Init => SInv
  BY InitHolds
<1>2. SInv /\ [Next]_vars => SInv'
  BY NextKeeps
<1>3. QED
  BY <1>1, <1>2, PTL DEF Spec

-------------------------------------------------------------------------------
(* What it implies.                                                           *)

LEMMA RuleIsRule ==
  ASSUME NEW r \in Rule, BodyIn(r.head, r.body), r.prec \in Terminals
  PROVE  IsRule(r)
<1>1. ToSet(r.body) \subseteq Objects
  BY DEF ToSet, BodyIn
<1>2. QED
  BY <1>1 DEF IsRule, BodyIn, Terminals

LEMMA RulesBodyIn ==
  ASSUME SInv, NEW i \in DOMAIN grammar.rules
  PROVE  grammar.rules[i] \in Rule /\ BodyIn(grammar.rules[i].head, grammar.rules[i].body)
<1> DEFINE r == grammar.rules[i]
<1>1. grammar \in Gr /\ r \in Rule
  BY ElementOfSeq, LenProperties DEF SInv, Typed, Gr
<1>2. Len(r.body) \in Nat /\ DOMAIN r.body = 1 .. Len(r.body)
  BY <1>1, LenProperties DEF Rule
<1>3. \A k \in 0 .. Len(r.body) : <<i, k>> \in Places(grammar) /\ Held(grammar)[<<i, k>>] = SymbAt(r, k)
  BY <1>1, HeldAt
<1>4. \A k \in 0 .. Len(r.body) : SymbAt(r, k) \in Objects
  BY <1>3, HeldAreAlive DEF SInv, Alive
<1> HIDE DEF r
<1>5. r.head \in Objects
  <2>1. SymbAt(r, 0) = r.head /\ 0 \in 0 .. Len(r.body)
    BY <1>2 DEF SymbAt
  <2>2. QED
    BY <1>4, <2>1
<1>6. ASSUME NEW k \in DOMAIN r.body PROVE r.body[k] \in Objects
  <2>1. k \in 0 .. Len(r.body) /\ k # 0
    BY <1>2
  <2>2. SymbAt(r, k) = r.body[k]
    BY <2>1 DEF SymbAt
  <2>3. QED
    BY <1>4, <2>1, <2>2
<1>7. QED
  BY <1>1, <1>5, <1>6 DEF BodyIn, r

LEMMA TermsTyped ==
  ASSUME Alive, NEW g \in Gr, \A p \in Places(g) : Held(g)[p] \in Objects
  PROVE  \A k \in DOMAIN g.terms : g.terms[k].term \in Objects /\ g.terms[k].val \in Values \cup {0, 3, 4}
<1> TAKE k \in DOMAIN g.terms
<1>1. g.terms[k] \in Term
  BY ElementOfSeq, LenProperties DEF Gr
<1>2. <<0, k>> \in Places(g) /\ Held(g)[<<0, k>>] = g.terms[k].term
  BY HeldAt
<1>3. QED
  BY <1>1, <1>2 DEF Term

LEMMA TypeCorrect ==
  SInv => TypeOK
<1> SUFFICES ASSUME SInv PROVE TypeOK
  OBVIOUS
<1>1. Alive /\ LocalsIn /\ RuleIn
  BY HeldAreAlive, CallAlive DEF SInv
<1>2. \A o \in Objects : symbs[o].refs \in Nat \ {0}
  <2> TAKE o \in Objects
  <2>1. o \in Nat /\ Tally[o] # 0 /\ symbs[o].refs = Tally[o]
    BY DEF SInv, Owned, Exact, Objects
  <2>2. Tally[o] \in Nat
    BY <2>1, TallyIs DEF SInv, TallySum
  <2>3. QED
    BY <2>1, <2>2
<1>3. IsGrammar(grammar)
  <2>1. grammar \in Gr /\ RulesOK
    BY DEF SInv, Typed
  <2>2. \A k \in DOMAIN grammar.terms :
          grammar.terms[k].term \in Objects /\ grammar.terms[k].val \in Values \cup {0, 3, 4}
    BY <1>1, <2>1, TermsTyped DEF Alive
  <2>3. CASE grammar.open
    <3>1. \A i \in DOMAIN grammar.rules : IsRule(grammar.rules[i])
      BY <2>1, <2>3, RulesBodyIn, RuleIsRule DEF RulesOK
    <3>2. Len(grammar.rules) <= grammar.cap
      BY <2>1, <2>3 DEF RulesOK, Gr
    <3>3. QED
      BY <2>1, <2>2, <3>1, <3>2 DEF IsGrammar, Gr
  <2>4. CASE ~grammar.open
    <3>1. grammar.rules = <<>> /\ grammar.cap = 0 /\ DOMAIN <<>> = {} /\ Len(<<>>) = 0
      BY <2>1, <2>4 DEF RulesOK, NoGrammar
    <3>2. QED
      BY <2>1, <2>2, <3>1 DEF IsGrammar, Gr
  <2>5. QED
    BY <2>3, <2>4
<1>4. IsGrammar(fresh)
  <2>1. fresh \in Gr
    BY DEF SInv, Typed
  <2>2. \A k \in DOMAIN fresh.terms :
          fresh.terms[k].term \in Objects /\ fresh.terms[k].val \in Values \cup {0, 3, 4}
    BY <1>1, <2>1, TermsTyped DEF Alive
  <2>3. fresh.rules = <<>>
    BY DEF SInv, CallOK, Creating, NoGrammar
  <2>4. DOMAIN <<>> = {} /\ Len(<<>>) = 0 /\ fresh.cap \in Nat
    BY <2>1 DEF Gr
  <2>5. QED
    BY <2>1, <2>2, <2>3, <2>4 DEF IsGrammar, Gr
<1>5. ASSUME call.rule # NoRule PROVE IsRule(call.rule)
  <2>1. call \in Call /\ call.rule \in Rule
    BY DEF SInv, Typed, Call
  <2>2. call.doing \in {"copy", "insert"}
    BY <1>5, <2>1, IdleHolds DEF SInv, CallOK, Creating, Scanning, Call, Idle
  <2>3. call.rule.head # 0 /\ call.rule.prec \in TermNames
    BY <2>2 DEF SInv, CallOK, Copying, Inserting
  <2>4. QED
    BY <1>1, <2>1, <2>3, RuleIsRule, TermNamesAre DEF RuleIn
<1>6. ToSet(Locals) \subseteq Objects
  BY <1>1 DEF Alive, ToSet
<1>7. QED
  BY <1>2, <1>3, <1>4, <1>5, <1>6 DEF TypeOK

LEMMA StoreHolds ==
  SInv => StoreInv
<1> SUFFICES ASSUME SInv PROVE StoreInv
  OBVIOUS
<1>1. SymbolsOwned
  BY DEF SInv, Owned, Exact, Tally, SymbolsOwned, Objects
<1>2. StartInStep
  <2> SUFFICES ASSUME grammar.open
               PROVE  Len(grammar.rules[1].body) = IF First THEN 0 ELSE 1
    BY DEF StartInStep
  <2>1. CASE First
    <3>1. grammar.rules[1].body = <<>> /\ Len(<<>>) = 0
      BY <2>1 DEF SInv, RulesOK
    <3>2. QED
      BY <2>1, <3>1
  <2>2. CASE ~First
    <3>1. PICK i \in 2 .. Len(grammar.rules) : grammar.rules[1].body = <<grammar.rules[i].head>>
      BY <2>2 DEF SInv, RulesOK
    <3>2. \A x : Len(<<x>>) = 1
      OBVIOUS
    <3>3. QED
      BY <2>2, <3>1, <3>2
  <2>3. QED
    BY <2>1, <2>2
<1>3. QED
  BY <1>1, <1>2, TypeCorrect DEF StoreInv

\* The count of a symbol is the number of places that hold it, at every step of
\* every call; what they hold is alive, and the augmented rule has a body when
\* there is a rule, however insertions failed.
THEOREM StoreIsKept == Spec => []StoreInv
  BY InvHolds, StoreHolds, PTL

\* Symbols that Parser_GetSymbList lent stay alive while the grammar changes.
THEOREM BorrowedStayAlive == Spec => []BorrowedAlive
<1>1. SInv => BorrowedAlive
  BY DEF SInv
<1>2. QED
  BY <1>1, InvHolds, PTL

-------------------------------------------------------------------------------
(* The promise: what it sees of a grammar.                                    *)

ShownIn(m, r) ==
  [head |-> m[r.head].name,
   body |-> [k \in DOMAIN r.body |-> [name |-> m[r.body[k]].name, type |-> m[r.body[k]].type]],
   prec |-> r.prec]

LEMMA ShownIs == \A r : Shown(r) = ShownIn(symbs, r)
  BY DEF Shown, ShownIn

\* A name has one value, so that a step which keeps the terminals keeps it.
TermsMapped ==
  /\ grammar.open =>
       /\ DOMAIN TermVal = TermNames /\ TermVal = [n \in TermNames |-> TermVal[n]]
       /\ \A k \in DOMAIN grammar.terms : TermVal[NameAt(symbs, grammar, k)] = grammar.terms[k].val
  /\ ~grammar.open => TermVal = Promise!BuiltInVal
  /\ grammar.open /\ Len(grammar.terms) = 3 => TermVal = Promise!BuiltInVal

LEMMA ThreeNames ==
  /\ EOI # ErrorT /\ EOI # DefPrec /\ ErrorT # DefPrec
  /\ BuiltIns[1] = [name |-> EOI, val |-> 0] /\ BuiltIns[2] = [name |-> ErrorT, val |-> 3]
  /\ BuiltIns[3] = [name |-> DefPrec, val |-> 4]
  /\ DOMAIN BuiltIns = 1 .. 3 /\ Len(BuiltIns) = 3
  BY DEF EOI, ErrorT, DefPrec, BuiltIns

LEMMA SameWords ==
  /\ Promise!EOI = EOI /\ Promise!ErrorT = ErrorT /\ Promise!DefPrec = DefPrec
  /\ Promise!Start = Start /\ Promise!NoStart = NoName
  BY DEF Promise!EOI, Promise!ErrorT, Promise!DefPrec, Promise!Start, Promise!NoStart,
         EOI, ErrorT, DefPrec, Start, NoName

LEMMA BuiltInValIs ==
  ASSUME NEW f, f = [n \in {EOI, ErrorT, DefPrec} |-> f[n]], f[EOI] = 0, f[ErrorT] = 3, f[DefPrec] = 4
  PROVE  f = Promise!BuiltInVal
<1> DEFINE B == Promise!BuiltInVal
<1>1. /\ DOMAIN B = {EOI, ErrorT, DefPrec} /\ B = [n \in {EOI, ErrorT, DefPrec} |-> B[n]]
      /\ B[EOI] = 0 /\ B[ErrorT] = 3 /\ B[DefPrec] = 4
  BY SameWords, ThreeNames DEF Promise!BuiltInVal
<1> HIDE DEF B
<1>2. QED
  BY <1>1 DEF B

LEMMA TermsAreMapped ==
  SInv => TermsMapped
<1> SUFFICES ASSUME SInv PROVE TermsMapped
  OBVIOUS
<1>1. TermsOK(grammar) /\ TermNames = {NameAt(symbs, grammar, k) : k \in DOMAIN grammar.terms}
  BY DEF SInv, TermNames, NameAt
<1>2. ASSUME NEW k \in DOMAIN grammar.terms
      PROVE  ValueOf(NameAt(symbs, grammar, k)) = grammar.terms[k].val
  <2> DEFINE n == NameAt(symbs, grammar, k)
             P(t) == symbs[t.term].name = n
             t0 == CHOOSE t \in ToSet(grammar.terms) : P(t)
  <2>1. \E t \in ToSet(grammar.terms) : P(t)
    BY DEF ToSet, NameAt
  <2>2. t0 \in ToSet(grammar.terms) /\ P(t0)
    BY <2>1
  <2>3. PICK j \in DOMAIN grammar.terms : t0 = grammar.terms[j]
    BY <2>2 DEF ToSet
  <2>4. NameAt(symbs, grammar, j) = NameAt(symbs, grammar, k)
    BY <2>2, <2>3 DEF NameAt
  <2>5. j = k
    BY <1>1, <2>4 DEF TermsOK
  <2>6. QED
    BY <2>3, <2>5 DEF ValueOf
<1>3. ASSUME grammar.open
      PROVE  /\ DOMAIN TermVal = TermNames /\ TermVal = [n \in TermNames |-> TermVal[n]]
             /\ \A k \in DOMAIN grammar.terms : TermVal[NameAt(symbs, grammar, k)] = grammar.terms[k].val
  <2>1. TermVal = [n \in TermNames |-> ValueOf(n)]
    BY <1>3 DEF TermVal
  <2>2. QED
    BY <1>1, <1>2, <2>1
<1>4. ASSUME ~grammar.open PROVE TermVal = Promise!BuiltInVal
  <2> DEFINE B == ToSet(BuiltIns)
             V(n) == (CHOOSE b \in B : b.name = n).val
  <2>1. B = {BuiltIns[1], BuiltIns[2], BuiltIns[3]}
    <3>1. 1 .. 3 = {1, 2, 3}
      OBVIOUS
    <3>2. QED
      BY <3>1, ThreeNames DEF ToSet
  <2> HIDE DEF B
  <2>2. {b.name : b \in B} = {EOI, ErrorT, DefPrec}
    BY <2>1, ThreeNames
  <2>3. V(EOI) = 0 /\ V(ErrorT) = 3 /\ V(DefPrec) = 4
    <3>1. ASSUME NEW i \in 1 .. 3 PROVE V(BuiltIns[i].name) = BuiltIns[i].val
      <4>1. i = 1 \/ i = 2 \/ i = 3
        OBVIOUS
      <4>2. BuiltIns[i] \in B
        BY <2>1, <4>1
      <4>3. \A b \in B : b.name = BuiltIns[i].name => b = BuiltIns[i]
        BY <2>1, <4>1, ThreeNames
      <4> DEFINE c == CHOOSE b \in B : b.name = BuiltIns[i].name
      <4>4. c \in B /\ c.name = BuiltIns[i].name
        BY <4>2
      <4>5. c = BuiltIns[i]
        BY <4>3, <4>4
      <4>6. QED
        BY <4>5
    <3> HIDE DEF V
    <3>2. V(BuiltIns[1].name) = BuiltIns[1].val /\ V(BuiltIns[2].name) = BuiltIns[2].val
          /\ V(BuiltIns[3].name) = BuiltIns[3].val
      BY <3>1
    <3>3. QED
      BY <3>2, ThreeNames
  <2>4. TermVal = [n \in {EOI, ErrorT, DefPrec} |-> V(n)]
    BY <1>4, <2>2 DEF TermVal, B
  <2> HIDE DEF V
  <2>5. QED
    BY <2>3, <2>4, BuiltInValIs
<1>5. ASSUME grammar.open, Len(grammar.terms) = 3 PROVE TermVal = Promise!BuiltInVal
  <2>1. DOMAIN grammar.terms = 1 .. 3 /\ 1 .. 3 = {1, 2, 3}
    BY <1>5, LenProperties DEF SInv, Typed, Gr
  <2>2. \A k \in {1, 2, 3} : NameAt(symbs, grammar, k) = BuiltIns[k].name /\ grammar.terms[k].val = BuiltIns[k].val
    BY <1>1, <2>1, ThreeNames DEF TermsOK
  <2>3. TermNames = {EOI, ErrorT, DefPrec}
    BY <1>1, <2>1, <2>2, ThreeNames
  <2>4. TermVal[EOI] = 0 /\ TermVal[ErrorT] = 3 /\ TermVal[DefPrec] = 4
    BY <1>3, <1>5, <2>1, <2>2, ThreeNames
  <2>5. TermVal = [n \in {EOI, ErrorT, DefPrec} |-> TermVal[n]]
    BY <1>3, <1>5, <2>3
  <2>6. QED
    BY <2>4, <2>5, BuiltInValIs
<1>6. QED
  BY <1>3, <1>4, <1>5 DEF TermsMapped

LEMMA TermsMappedTwice ==
  ASSUME SInv, SInv'
  PROVE  TermsMapped /\ TermsMapped'
<1>1. TermsMapped
  BY TermsAreMapped
<1>2. TermsMapped'
  BY TermsAreMapped, PTL
<1>3. QED
  BY <1>1, <1>2

LEMMA TermValStays ==
  ASSUME SInv, SInv', Carried, grammar'.terms = grammar.terms, grammar'.open = grammar.open
  PROVE  TermVal' = TermVal
<1>1. TermsMapped /\ TermsMapped'
  BY TermsMappedTwice
<1>2. CASE ~grammar.open
  <2>1. TermVal = Promise!BuiltInVal
    BY <1>1, <1>2 DEF TermsMapped
  <2>2. TermVal' = Promise!BuiltInVal
    BY <1>1, <1>2 DEF TermsMapped, Promise!BuiltInVal, Promise!EOI, Promise!ErrorT, Promise!DefPrec
  <2>3. QED
    BY <2>1, <2>2
<1>3. CASE grammar.open
  <2>1. TermsSame /\ TermNames' = TermNames
    BY TermsStay
  <2>2. /\ TermVal = [n \in TermNames |-> TermVal[n]]
        /\ \A k \in DOMAIN grammar.terms : TermVal[NameAt(symbs, grammar, k)] = grammar.terms[k].val
    BY <1>1, <1>3 DEF TermsMapped
  <2>3. /\ TermVal' = [n \in TermNames |-> TermVal'[n]]
        /\ \A k \in DOMAIN grammar.terms : TermVal'[NameAt(symbs, grammar, k)] = grammar.terms[k].val
    BY <1>1, <1>3, <2>1 DEF TermsMapped, TermsSame
  <2>4. ASSUME NEW n \in TermNames PROVE TermVal'[n] = TermVal[n]
    <3>1. PICK k \in DOMAIN grammar.terms : n = NameAt(symbs, grammar, k)
      BY DEF TermNames, NameAt
    <3>2. QED
      BY <2>2, <2>3, <3>1
  <2>5. [n \in TermNames |-> TermVal'[n]] = [n \in TermNames |-> TermVal[n]]
    BY <2>4
  <2>6. QED
    BY <2>2, <2>3, <2>5
<1>4. QED
  BY <1>2, <1>3

LEMMA ShownStays ==
  ASSUME SInv, Carried, NEW i \in DOMAIN grammar.rules, i \in DOMAIN grammar'.rules,
         grammar'.rules[i] = grammar.rules[i]
  PROVE  ShownIn(symbs', grammar'.rules[i]) = ShownIn(symbs, grammar.rules[i])
<1> DEFINE r == grammar.rules[i]
<1>1. r \in Rule /\ r.body \in Seq(Nat)
  BY RulesBodyIn DEF Rule
<1>2. Len(r.body) \in Nat /\ DOMAIN r.body = 1 .. Len(r.body)
  BY <1>1, LenProperties
<1>3. symbs'[r.head].name = symbs[r.head].name
  <2>1. SameAt(i, 0) /\ SymbAt(grammar.rules[i], 0) = r.head
    BY <1>2 DEF SameAt, SymbAt
  <2>2. QED
    BY <2>1, RuleSymbStays
<1>4. ASSUME NEW k \in DOMAIN r.body
      PROVE  symbs'[r.body[k]].name = symbs[r.body[k]].name /\ symbs'[r.body[k]].type = symbs[r.body[k]].type
  <2>1. k \in 0 .. Len(r.body) /\ k # 0
    BY <1>2
  <2>2. SameAt(i, k) /\ SymbAt(grammar.rules[i], k) = r.body[k]
    BY <2>1 DEF SameAt, SymbAt
  <2>3. QED
    BY <2>2, RuleSymbStays
<1>5. [k \in DOMAIN r.body |-> [name |-> symbs'[r.body[k]].name, type |-> symbs'[r.body[k]].type]]
        = [k \in DOMAIN r.body |-> [name |-> symbs[r.body[k]].name, type |-> symbs[r.body[k]].type]]
  BY <1>4
<1>6. ShownIn(symbs', r) = ShownIn(symbs, r)
  BY <1>3, <1>5 DEF ShownIn
<1>7. QED
  BY <1>6

\* The rules of the promise are those after the augmented one.
RulesAre(n) ==
  /\ n = Len(grammar.rules) - 1 /\ n \in Nat
  /\ DOMAIN RulesShown = 1 .. n /\ Len(RulesShown) = n
  /\ RulesShown \in Seq({RulesShown[i] : i \in 1 .. n})
  /\ \A i \in 1 .. n : RulesShown[i] = ShownIn(symbs, grammar.rules[i + 1])
RulesMapped == grammar.open => \E n : RulesAre(n)

LEMMA RulesAreMapped ==
  SInv => RulesMapped
<1> SUFFICES ASSUME SInv, grammar.open PROVE RulesAre(Len(grammar.rules) - 1)
  BY DEF RulesMapped
<1> DEFINE n == Len(grammar.rules) - 1
<1>1. Len(grammar.rules) \in Nat /\ Len(grammar.rules) >= 1
  BY LenProperties DEF SInv, Typed, Gr, RulesOK
<1>2. n \in Nat
  BY <1>1
<1>3. RulesShown = [i \in 1 .. n |-> ShownIn(symbs, grammar.rules[i + 1])]
  BY ShownIs DEF RulesShown
<1> HIDE DEF n
<1>4. RulesShown \in Seq({RulesShown[i] : i \in 1 .. n})
  <2> DEFINE S == {RulesShown[i] : i \in 1 .. n}
             f == RulesShown
  <2>1. f = [i \in 1 .. n |-> f[i]] /\ \A i \in 1 .. n : f[i] \in S
    BY <1>3
  <2> HIDE DEF S, f
  <2>2. f \in [1 .. n -> S]
    BY <2>1
  <2>3. f \in Seq(S)
    BY <1>2, <2>2, SeqDef
  <2>4. QED
    BY <2>3 DEF f, S
<1>5. DOMAIN RulesShown = 1 .. n
  BY <1>3
<1>6. Len(RulesShown) = n
  BY <1>2, <1>4, <1>5, LenProperties
<1>7. QED
  BY <1>2, <1>3, <1>4, <1>5, <1>6 DEF RulesAre, n

LEMMA RulesMappedTwice ==
  ASSUME SInv, SInv'
  PROVE  RulesMapped /\ RulesMapped'
<1>1. RulesMapped
  BY RulesAreMapped
<1>2. RulesMapped'
  BY RulesAreMapped, PTL
<1>3. QED
  BY <1>1, <1>2

\* No rule is shown of a grammar that is closed or new.
NothingToShow == ~grammar.open \/ Len(grammar.rules) = 1 => RulesShown = <<>>

LEMMA NoRules ==
  SInv => NothingToShow
<1> SUFFICES ASSUME ~grammar.open \/ Len(grammar.rules) = 1, SInv PROVE RulesShown = <<>>
  BY DEF NothingToShow
<1>1. 1 .. Len(grammar.rules) - 1 = {}
  <2>1. CASE ~grammar.open
    <3>1. grammar.rules = <<>> /\ Len(<<>>) = 0
      BY <2>1 DEF SInv, RulesOK, NoGrammar
    <3>2. Len(grammar.rules) - 1 = -1
      BY <3>1
    <3>3. QED
      BY <3>2
  <2>2. CASE Len(grammar.rules) = 1
    BY <2>2
  <2>3. QED
    BY <2>1, <2>2
<1>2. DOMAIN RulesShown = 1 .. 0 /\ RulesShown = [i \in 1 .. 0 |-> RulesShown[i]]
  <2>1. RulesShown = [i \in {} |-> Shown(grammar.rules[i + 1])]
    BY <1>1 DEF RulesShown
  <2>2. 1 .. 0 = {}
    OBVIOUS
  <2>3. QED
    BY <2>1, <2>2
<1>3. RulesShown \in Seq(Nat)
  BY <1>2, IsASeq
<1>4. Len(RulesShown) = 0
  BY <1>2, <1>3, LenProperties
<1>5. QED
  BY <1>3, <1>4, EmptySeq

RulesShownStay ==
  /\ DOMAIN grammar'.rules = DOMAIN grammar.rules /\ Len(grammar'.rules) = Len(grammar.rules)
  /\ \A i \in DOMAIN grammar.rules \ {1} : grammar'.rules[i] = grammar.rules[i]

LEMMA RulesStay ==
  ASSUME SInv, Carried, RulesShownStay
  PROVE  RulesShown' = RulesShown
<1>1. Len(grammar.rules) \in Nat /\ DOMAIN grammar.rules = 1 .. Len(grammar.rules)
  BY LenProperties DEF SInv, Typed, Gr
<1>2. RulesShown = [i \in 1 .. Len(grammar.rules) - 1 |-> ShownIn(symbs, grammar.rules[i + 1])]
  BY ShownIs DEF RulesShown
<1>3. RulesShown' = [i \in 1 .. Len(grammar.rules) - 1 |-> ShownIn(symbs', grammar'.rules[i + 1])]
  BY ShownIs DEF RulesShown, RulesShownStay, Shown, ShownIn
<1>4. ASSUME NEW i \in 1 .. Len(grammar.rules) - 1
      PROVE  ShownIn(symbs', grammar'.rules[i + 1]) = ShownIn(symbs, grammar.rules[i + 1])
  <2>1. i + 1 \in DOMAIN grammar.rules /\ i + 1 # 1
    BY <1>1
  <2>2. i + 1 \in DOMAIN grammar'.rules /\ grammar'.rules[i + 1] = grammar.rules[i + 1]
    BY <2>1 DEF RulesShownStay
  <2> DEFINE j == i + 1
  <2> HIDE DEF j
  <2>3. j \in DOMAIN grammar.rules /\ j \in DOMAIN grammar'.rules /\ grammar'.rules[j] = grammar.rules[j]
    BY <2>1, <2>2 DEF j
  <2>4. ShownIn(symbs', grammar'.rules[j]) = ShownIn(symbs, grammar.rules[j])
    BY <2>3, ShownStays
  <2>5. QED
    BY <2>4 DEF j
<1>5. QED
  BY <1>2, <1>3, <1>4

\* What the augmented rule derives.
StartMapped ==
  /\ ~grammar.open \/ First => StartName = NoName
  /\ grammar.open /\ ~First =>
       \E i \in 2 .. Len(grammar.rules) :
         /\ grammar.rules[1].body = <<grammar.rules[i].head>>
         /\ StartName = symbs[grammar.rules[i].head].name

LEMMA StartIsMapped ==
  SInv => StartMapped
<1> SUFFICES ASSUME SInv PROVE StartMapped
  OBVIOUS
<1>1. ASSUME ~grammar.open \/ First PROVE StartName = NoName
  BY <1>1 DEF SInv, RulesOK, StartName
<1>2. ASSUME grammar.open, ~First
      PROVE  \E i \in 2 .. Len(grammar.rules) :
               /\ grammar.rules[1].body = <<grammar.rules[i].head>>
               /\ StartName = symbs[grammar.rules[i].head].name
  <2>1. PICK i \in 2 .. Len(grammar.rules) : grammar.rules[1].body = <<grammar.rules[i].head>>
    BY <1>2 DEF SInv, RulesOK
  <2>2. \A x : <<x>> # <<>> /\ <<x>>[1] = x
    OBVIOUS
  <2>3. QED
    BY <1>2, <2>1, <2>2 DEF StartName
<1>3. QED
  BY <1>1, <1>2 DEF StartMapped

LEMMA StartMappedTwice ==
  ASSUME SInv, SInv'
  PROVE  StartMapped /\ StartMapped'
<1>1. StartMapped
  BY StartIsMapped
<1>2. StartMapped'
  BY StartIsMapped, PTL
<1>3. QED
  BY <1>1, <1>2

LEMMA HeadsStay ==
  ASSUME SInv, Carried, NEW i \in DOMAIN grammar.rules, i \in DOMAIN grammar'.rules,
         grammar'.rules[i].head = grammar.rules[i].head
  PROVE  symbs'[grammar.rules[i].head].name = symbs[grammar.rules[i].head].name
<1>1. grammar.rules[i] \in Rule /\ grammar'.rules[i] \in Rule
  BY ElementOfSeq, LenProperties DEF SInv, Carried, Typed, Gr
<1>2. 0 \in 0 .. Len(grammar.rules[i].body) /\ 0 \in 0 .. Len(grammar'.rules[i].body)
  BY <1>1, LenProperties DEF Rule
<1>3. SameAt(i, 0) /\ SymbAt(grammar.rules[i], 0) = grammar.rules[i].head
  BY <1>2 DEF SameAt, SymbAt
<1>4. QED
  BY <1>3, RuleSymbStays

\* The symbol in the body of the augmented rule names the start.
LEMMA StartOf ==
  ASSUME NEW h
  PROVE  /\ grammar.open /\ grammar.rules[1].body = <<h>> => StartName = symbs[h].name
         /\ grammar'.open /\ grammar'.rules[1].body = <<h>> => StartName' = symbs'[h].name
<1>1. <<h>> # <<>> /\ <<h>>[1] = h
  OBVIOUS
<1>2. QED
  BY <1>1 DEF StartName

LEMMA StartStays ==
  ASSUME SInv, SInv', Carried, grammar'.rules = grammar.rules, grammar'.open = grammar.open
  PROVE  StartName' = StartName
<1>1. StartMapped /\ StartMapped' /\ First' = First
  BY StartMappedTwice DEF First
<1>2. CASE ~grammar.open \/ First
  BY <1>1, <1>2 DEF StartMapped, NoName
<1>3. CASE grammar.open /\ ~First
  <2>1. PICK i \in 2 .. Len(grammar.rules) : grammar.rules[1].body = <<grammar.rules[i].head>>
    BY <1>1, <1>3 DEF StartMapped
  <2>2. i \in DOMAIN grammar.rules
    BY <2>1, LenProperties DEF SInv, Typed, Gr
  <2>3. symbs'[grammar.rules[i].head].name = symbs[grammar.rules[i].head].name
    BY <2>2, HeadsStay
  <2>4. StartName = symbs[grammar.rules[i].head].name /\ StartName' = symbs'[grammar.rules[i].head].name
    BY <1>3, <2>1, StartOf
  <2>5. QED
    BY <2>3, <2>4
<1>4. QED
  BY <1>2, <1>3

\* A step that leaves the terminals and rules of the grammar leaves what the
\* promise sees.
LEMMA NothingShown ==
  ASSUME SInv, SInv', Carried, grammar'.terms = grammar.terms, grammar'.rules = grammar.rules,
         grammar'.open = grammar.open
  PROVE  UNCHANGED Promise!gvars
<1>1. TermVal' = TermVal
  BY TermValStays
<1>2. RulesShown' = RulesShown
  BY RulesStay DEF RulesShownStay
<1>3. StartName' = StartName
  BY StartStays
<1>4. QED
  BY <1>1, <1>2, <1>3 DEF Promise!gvars

-------------------------------------------------------------------------------
(* The promise: each step keeps it.                                           *)

EmptyMap == TermVal = Promise!BuiltInVal /\ RulesShown = <<>> /\ StartName = NoName
EmptyMapped == ~grammar.open \/ (First /\ Len(grammar.terms) = 3) => EmptyMap

LEMMA EmptyIsMapped ==
  SInv => EmptyMapped
<1> SUFFICES ASSUME SInv, ~grammar.open \/ (First /\ Len(grammar.terms) = 3) PROVE EmptyMap
  BY DEF EmptyMapped
<1>1. TermVal = Promise!BuiltInVal
  BY TermsAreMapped DEF TermsMapped
<1>2. RulesShown = <<>>
  BY NoRules DEF NothingToShow, First
<1>3. StartName = NoName
  BY StartIsMapped DEF StartMapped
<1>4. QED
  BY <1>1, <1>2, <1>3 DEF EmptyMap

LEMMA Empties ==
  ASSUME SInv', ~grammar'.open \/ (Len(grammar'.rules) = 1 /\ Len(grammar'.terms) = 3)
  PROVE  Promise!Emptied
<1>1. EmptyMapped'
  BY EmptyIsMapped, PTL
<1>2. EmptyMap'
  BY <1>1 DEF EmptyMapped, First
<1>3. Promise!BuiltInVal' = Promise!BuiltInVal
  BY DEF Promise!BuiltInVal, Promise!EOI, Promise!ErrorT, Promise!DefPrec
<1>4. TermVal' = Promise!BuiltInVal /\ RulesShown' = <<>> /\ StartName' = NoName
  BY <1>2, <1>3 DEF EmptyMap, NoName
<1>5. QED
  BY <1>4, SameWords DEF Promise!Emptied

LEMMA InitStartPromised ==
  ASSUME SInv, SInv', InitStart
  PROVE  Promise!OpenGrammar \/ Promise!ClearGrammar
<1> DEFINE r == [head |-> StartSymb, body |-> <<>>, prec |-> DefPrec]
<1>1. /\ grammar' = [fresh EXCEPT !.rules = <<r>>, !.cap = Grown(0)]
      /\ call.doing = "create" /\ Len(fresh.terms) = Len(BuiltIns)
  BY DEF InitStart
<1>2. Creating /\ fresh \in Gr
  BY <1>1 DEF SInv, CallOK, Typed
<1>3. grammar'.terms = fresh.terms /\ grammar'.open /\ grammar'.rules = <<r>>
  BY <1>1, <1>2 DEF Creating, Gr
<1>4. Len(<<r>>) = 1
  OBVIOUS
<1>5. Promise!Emptied
  BY <1>1, <1>3, <1>4, ThreeNames, Empties
<1>6. grammar.open \in BOOLEAN /\ grammar'.open \in BOOLEAN
  BY DEF SInv, Typed, Gr
<1>7. QED
  BY <1>3, <1>5, <1>6 DEF Promise!OpenGrammar, Promise!ClearGrammar

LEMMA DestroyGrammarPromised ==
  ASSUME SInv, SInv', DestroyGrammar
  PROVE  Promise!CloseGrammar
<1>1. grammar'.open = FALSE /\ grammar.open
  BY DEF DestroyGrammar, NoGrammar
<1>2. Promise!Emptied
  BY <1>1, Empties
<1>3. QED
  BY <1>1, <1>2 DEF Promise!CloseGrammar

\* A name that no place of the grammar has is not one the promise sees.
LEMMA NotShown ==
  ASSUME SInv, grammar.open, NEW n, PlacesOf(n) = {}
  PROVE  n # Start /\ \A i \in DOMAIN RulesShown : n \notin Promise!NamesIn(RulesShown[i])
<1>1. /\ grammar \in Gr /\ grammar.rules \in Seq(Rule) /\ Len(grammar.rules) \in Nat
      /\ DOMAIN grammar.rules = 1 .. Len(grammar.rules) /\ 1 \in DOMAIN grammar.rules
  BY LenProperties DEF SInv, Typed, Gr, RulesOK
<1>2. ASSUME NEW i \in DOMAIN grammar.rules, NEW k \in 0 .. Len(grammar.rules[i].body)
      PROVE  symbs[SymbAt(grammar.rules[i], k)].name # n
  <2>1. <<i, k>> \in Places(grammar) /\ Held(grammar)[<<i, k>>] = SymbAt(grammar.rules[i], k)
    BY <1>1, HeldAt
  <2>2. QED
    BY <2>1 DEF PlacesOf
<1>3. ASSUME NEW i \in DOMAIN grammar.rules
      PROVE  /\ symbs[grammar.rules[i].head].name # n
             /\ \A k \in DOMAIN grammar.rules[i].body : symbs[grammar.rules[i].body[k]].name # n
  <2>1. grammar.rules[i].body \in Seq(Nat)
    BY RulesBodyIn DEF Rule
  <2>2. /\ Len(grammar.rules[i].body) \in Nat
        /\ DOMAIN grammar.rules[i].body = 1 .. Len(grammar.rules[i].body)
    BY <2>1, LenProperties
  <2>3. symbs[grammar.rules[i].head].name # n
    <3>1. 0 \in 0 .. Len(grammar.rules[i].body) /\ SymbAt(grammar.rules[i], 0) = grammar.rules[i].head
      BY <2>2 DEF SymbAt
    <3>2. QED
      BY <1>2, <3>1
  <2>4. ASSUME NEW k \in DOMAIN grammar.rules[i].body PROVE symbs[grammar.rules[i].body[k]].name # n
    <3>1. k \in 0 .. Len(grammar.rules[i].body) /\ SymbAt(grammar.rules[i], k) = grammar.rules[i].body[k]
      BY <2>2 DEF SymbAt
    <3>2. QED
      BY <1>2, <3>1
  <2>5. QED
    BY <2>3, <2>4
<1>4. n # Start
  BY <1>1, <1>3 DEF SInv, RulesOK
<1>5. ASSUME NEW i \in DOMAIN RulesShown PROVE n \notin Promise!NamesIn(RulesShown[i])
  <2>1. PICK m : RulesAre(m)
    BY RulesAreMapped DEF RulesMapped
  <2>2. i + 1 \in DOMAIN grammar.rules /\ RulesShown[i] = ShownIn(symbs, grammar.rules[i + 1])
    <3>1. /\ m = Len(grammar.rules) - 1 /\ DOMAIN RulesShown = 1 .. m
          /\ \A k \in 1 .. m : RulesShown[k] = ShownIn(symbs, grammar.rules[k + 1])
      BY <2>1 DEF RulesAre
    <3>2. i \in 1 .. m
      BY <3>1
    <3>3. i + 1 \in DOMAIN grammar.rules
      BY <1>1, <3>1, <3>2
    <3>4. QED
      BY <3>1, <3>2, <3>3
  <2> DEFINE r == grammar.rules[i + 1]
  <2>3. symbs[r.head].name # n /\ \A k \in DOMAIN r.body : symbs[r.body[k]].name # n
    BY <1>3, <2>2
  <2> HIDE DEF r
  <2>4. /\ RulesShown[i].head = symbs[r.head].name
        /\ DOMAIN RulesShown[i].body = DOMAIN r.body
        /\ \A k \in DOMAIN r.body : RulesShown[i].body[k].name = symbs[r.body[k]].name
    <3> DEFINE s == ShownIn(symbs, r)
    <3>1. RulesShown[i] = s
      BY <2>2 DEF r
    <3>2. /\ s.head = symbs[r.head].name /\ DOMAIN s.body = DOMAIN r.body
          /\ \A k \in DOMAIN r.body : s.body[k].name = symbs[r.body[k]].name
      BY DEF ShownIn
    <3> HIDE DEF s
    <3>3. QED
      BY <3>1, <3>2
  <2>5. QED
    BY <2>3, <2>4 DEF Promise!NamesIn
<1>6. QED
  BY <1>4, <1>5

LEMMA InsertTermPromised ==
  ASSUME SInv, SInv', NEW n \in Names, NEW v \in Values, InsertTerm(n, v)
  PROVE  Promise!AddTerm
<1>1. grammar.open /\ v >= MinTokenVal /\ v \notin TermValues /\ PlacesOf(n) = {} /\ v \in Nat
  BY StoreAssumption DEF InsertTerm
<1>2. Carried /\ TermAdded(n, v) /\ TermsMapped /\ TermsMapped'
  BY InsertTermCarries, InsertTermIs, TermsMappedTwice
<1>3. grammar'.open = grammar.open /\ grammar'.rules = grammar.rules
  BY <1>2 DEF TermAdded
<1>4. /\ DOMAIN TermVal = TermNames /\ DOMAIN TermVal' = TermNames \cup {n} /\ n \notin TermNames
  BY <1>1, <1>2, <1>3 DEF TermsMapped, TermAdded
<1>5. TermVal'[n] = v
  <2>1. Len(grammar.terms) + 1 \in DOMAIN grammar'.terms
    BY <1>2 DEF TermAdded
  <2>2. TermVal'[NameAt(symbs', grammar', Len(grammar.terms) + 1)]
          = grammar'.terms[Len(grammar.terms) + 1].val
    BY <1>1, <1>2, <1>3, <2>1 DEF TermsMapped
  <2>3. QED
    BY <1>2, <2>2 DEF TermAdded
<1>6. ASSUME NEW t \in TermNames PROVE TermVal'[t] = TermVal[t] /\ TermVal[t] # v
  <2>1. PICK k \in DOMAIN grammar.terms : t = NameAt(symbs, grammar, k)
    BY DEF TermNames, NameAt
  <2>2. /\ k \in DOMAIN grammar'.terms /\ NameAt(symbs', grammar', k) = t
        /\ grammar'.terms[k] = grammar.terms[k]
    BY <1>2, <2>1 DEF TermAdded
  <2>3. TermVal[t] = grammar.terms[k].val
    BY <1>1, <1>2, <2>1 DEF TermsMapped
  <2>4. TermVal'[t] = grammar.terms[k].val
    BY <1>1, <1>2, <1>3, <2>2 DEF TermsMapped
  <2>5. QED
    BY <1>1, <2>3, <2>4 DEF TermValues
<1>7. n \notin Promise!AllNames
  BY <1>1, <1>4, NotShown, SameWords DEF Promise!AllNames, Promise!TermNames
<1>8. RulesShown' = RulesShown
  BY <1>2, <1>3, RulesStay DEF RulesShownStay
<1>9. StartName' = StartName
  BY <1>2, <1>3, StartStays
<1>10. QED
  BY <1>1, <1>3, <1>4, <1>5, <1>6, <1>7, <1>8, <1>9 DEF Promise!AddTerm, Promise!TermNames

LEMMA Appended ==
  ASSUME NEW m \in Nat, NEW s, NEW t, NEW S,
         s \in Seq(S), t \in Seq(S), Len(s) = m, Len(t) = m + 1,
         \A i \in 1 .. m : t[i] = s[i]
  PROVE  t = Append(s, t[Len(t)])
<1> DEFINE e == t[Len(t)]
<1>1. e \in S
  BY ElementOfSeq
<1>2. e = t[m + 1]
  OBVIOUS
<1> HIDE DEF e
<1>3. /\ Append(s, e) \in Seq(S) /\ Len(Append(s, e)) = m + 1
      /\ \A i \in 1 .. m : Append(s, e)[i] = s[i]
      /\ Append(s, e)[m + 1] = e
  BY <1>1, AppendProperties
<1>4. \A i \in 1 .. m + 1 : i \in 1 .. m \/ i = m + 1
  OBVIOUS
<1>5. \A i \in 1 .. Len(t) : t[i] = Append(s, e)[i]
  BY <1>2, <1>3, <1>4
<1>6. t = Append(s, e)
  BY <1>3, <1>5, SeqEqual
<1>7. QED
  BY <1>6 DEF e

\* What the promise sees of the new rule is what it sees of the call's.
LEMMA RulesShownGrow ==
  ASSUME SInv, SInv', Carried, NEW n, RuleAdded(n), grammar.open, grammar'.open
  PROVE  /\ Len(RulesShown) = n - 1 /\ Len(RulesShown') = n
         /\ RulesShown' = Append(RulesShown, RulesShown'[Len(RulesShown')])
         /\ RulesShown'[Len(RulesShown')] = ShownIn(symbs', call.rule)
<1>1. PICK m : RulesAre(m)
  BY RulesAreMapped DEF RulesMapped
<1>2. PICK m1 : RulesAre(m1)'
  BY RulesMappedTwice DEF RulesMapped
<1>3. m = n - 1 /\ m1 = m + 1 /\ m \in Nat /\ n \in Nat
  BY <1>1, <1>2 DEF RulesAre, RuleAdded
<1> DEFINE s == RulesShown
           t == RulesShown'
           S == {t[i] : i \in 1 .. m + 1}
<1>4. /\ Len(s) = m /\ DOMAIN s = 1 .. m /\ s \in Seq({s[i] : i \in 1 .. m})
      /\ \A i \in 1 .. m : s[i] = ShownIn(symbs, grammar.rules[i + 1])
  BY <1>1 DEF RulesAre
<1>5. /\ Len(t) = m + 1 /\ t \in Seq(S)
      /\ \A i \in 1 .. m + 1 : t[i] = ShownIn(symbs', grammar'.rules[i + 1])
  BY <1>2, <1>3 DEF RulesAre
<1> HIDE DEF s, t
<1>6. ASSUME NEW i \in 1 .. m PROVE t[i] = s[i]
  <2> DEFINE j == i + 1
  <2>1. j \in 2 .. n
    BY <1>3
  <2>2. j \in DOMAIN grammar.rules /\ j \in DOMAIN grammar'.rules /\ grammar'.rules[j] = grammar.rules[j]
    BY <1>3, <2>1 DEF RuleAdded
  <2>3. t[i] = ShownIn(symbs', grammar'.rules[j]) /\ s[i] = ShownIn(symbs, grammar.rules[j])
    <3>1. i \in 1 .. m + 1
      BY <1>3
    <3>2. \A k \in 1 .. m + 1 : t[k] = ShownIn(symbs', grammar'.rules[k + 1])
      BY <1>5
    <3>3. t[i] = ShownIn(symbs', grammar'.rules[i + 1])
      BY <3>1, <3>2
    <3>4. s[i] = ShownIn(symbs, grammar.rules[i + 1])
      BY <1>4
    <3>5. QED
      BY <3>3, <3>4
  <2> HIDE DEF j
  <2>4. ShownIn(symbs', grammar'.rules[j]) = ShownIn(symbs, grammar.rules[j])
    BY <2>2, ShownStays
  <2>5. QED
    BY <2>3, <2>4
<1>7. s \in Seq(S)
  <2>1. \A i \in 1 .. m : s[i] \in S
    BY <1>3, <1>6
  <2> HIDE DEF S
  <2>2. s \in [1 .. m -> S]
    BY <1>4, <2>1, LenProperties
  <2>3. QED
    BY <1>3, <2>2, SeqDef
<1> HIDE DEF S
<1>8. t = Append(s, t[Len(t)])
  BY <1>3, <1>4, <1>5, <1>6, <1>7, Appended
<1>9. t[Len(t)] = ShownIn(symbs', call.rule)
  <2>1. grammar'.rules[n + 1] = call.rule
    BY DEF RuleAdded
  <2>2. t[m + 1] = ShownIn(symbs', grammar'.rules[(m + 1) + 1]) /\ (m + 1) + 1 = n + 1
    BY <1>3, <1>5
  <2>3. QED
    BY <1>5, <2>1, <2>2
<1>10. QED
  BY <1>3, <1>4, <1>5, <1>8, <1>9 DEF s, t

BodiesIn == \A i \in DOMAIN grammar.rules : BodyIn(grammar.rules[i].head, grammar.rules[i].body)

LEMMA BodiesAreIn ==
  SInv => BodiesIn
  BY RulesBodyIn DEF BodiesIn

\* A rule that passed the tests of Parser_CreateRule and of Parser_InsertRule
\* is one the promise accepts.
LEMMA RuleIsAcceptable ==
  ASSUME SInv, SInv', InsertRule
  PROVE  Promise!Acceptable(ShownIn(symbs', call.rule))
<1> DEFINE r == call.rule
           n == Len(grammar.rules)
           s == ShownIn(symbs', r)
<1>1. Carried /\ RuleAdded(n) /\ RuleInserted
  BY InsertRuleCarries, InsertRuleIs, InsertRuleHeld
<1>2. call.doing = "insert" /\ ~Conflicts(r)
  BY DEF InsertRule
<1>3. /\ grammar.open /\ r.head # 0 /\ Sound(symbs, TermNames, r.head, r.body)
      /\ r.prec \in TermNames
  BY <1>2 DEF SInv, CallOK, Inserting
<1>4. BodyIn(r.head, r.body)
  BY <1>1, <1>3, CallAliveTwice DEF RuleIn
<1>5. r.head \in Objects' /\ \A k \in DOMAIN r.body : r.body[k] \in Objects'
  <2>1. n + 1 \in DOMAIN grammar'.rules /\ grammar'.rules[n + 1] = r
    BY <1>1 DEF RuleAdded
  <2>2. BodiesIn'
    BY BodiesAreIn, PTL
  <2>3. r.head \in Objects' /\ \A k \in DOMAIN r.body : r.body[k] \in Objects'
    BY <2>1, <2>2 DEF BodiesIn, BodyIn
  <2>4. QED
    BY <2>3
<1>6. Sound(symbs', TermNames, r.head, r.body)
  BY <1>1, <1>3, <1>4, <1>5, SoundStays DEF BodyIn
<1>7. symbs'[r.head].name # Start
  <2>1. symbs[r.head].name # Start
    BY <1>2 DEF Conflicts
  <2>2. symbs'[r.head].name = symbs[r.head].name
    BY <1>1, <1>4, <1>5, SymbStays DEF BodyIn
  <2>3. QED
    BY <2>1, <2>2
<1>8. DOMAIN TermVal = TermNames
  BY <1>3, TermsAreMapped DEF TermsMapped
<1> HIDE DEF r
<1>9. /\ s.head = symbs'[r.head].name /\ s.prec = r.prec /\ DOMAIN s.body = DOMAIN r.body
      /\ \A k \in DOMAIN r.body : /\ s.body[k].name = symbs'[r.body[k]].name
                                  /\ s.body[k].type = symbs'[r.body[k]].type
  BY DEF ShownIn
<1> HIDE DEF s
<1>10. Promise!KindsAgree(s)
  BY <1>6, <1>8, <1>9 DEF Sound, Promise!KindsAgree, Promise!TermNames
<1>11. \A j, k \in Promise!Errors(s) : j = k
  BY <1>6, <1>9, SameWords DEF Sound, Promise!Errors
<1>12. Promise!Acceptable(s)
  BY <1>3, <1>7, <1>8, <1>9, <1>10, <1>11, SameWords DEF Promise!Acceptable, Promise!TermNames
<1>13. QED
  BY <1>12 DEF s, r

LEMMA InsertRulePromised ==
  ASSUME SInv, SInv', InsertRule
  PROVE  Promise!AddRule
<1> DEFINE n == Len(grammar.rules)
<1>1. Carried /\ RuleAdded(n) /\ RuleInserted
  BY InsertRuleCarries, InsertRuleIs, InsertRuleHeld
<1>2. grammar.open /\ grammar'.open = grammar.open /\ grammar'.terms = grammar.terms
  BY <1>1 DEF InsertRule, SInv, CallOK, Inserting, RuleInserted
<1>3. TermVal' = TermVal
  BY <1>1, <1>2, TermValStays
<1>4. /\ Len(RulesShown) = n - 1 /\ Len(RulesShown') = n
      /\ RulesShown' = Append(RulesShown, RulesShown'[Len(RulesShown')])
      /\ RulesShown'[Len(RulesShown')] = ShownIn(symbs', call.rule)
  BY <1>1, <1>2, RulesShownGrow
<1>5. n \in Nat /\ n >= 1
  BY <1>1 DEF RuleAdded
<1>6. StartName' = IF RulesShown = <<>> THEN ShownIn(symbs', call.rule).head ELSE StartName
  <2>1. CASE n = 1
    <3>1. RulesShown = <<>>
      BY <2>1, NoRules DEF NothingToShow
    <3>2. grammar'.rules[1].body = <<call.rule.head>>
      BY <1>1, <2>1 DEF RuleAdded
    <3>3. StartName' = symbs'[call.rule.head].name
      BY <1>2, <3>2, StartOf
    <3>4. QED
      BY <3>1, <3>3 DEF ShownIn
  <2>2. CASE n # 1
    <3>1. RulesShown # <<>>
      <4>1. Len(RulesShown) # 0
        BY <1>4, <1>5, <2>2
      <4>2. Len(<<>>) = 0
        OBVIOUS
      <4> DEFINE s == RulesShown
      <4>3. Len(s) # 0
        BY <4>1
      <4> HIDE DEF s
      <4>4. s # <<>>
        BY <4>2, <4>3
      <4>5. QED
        BY <4>4 DEF s
    <3>2. ~First
      BY <2>2 DEF First
    <3>3. PICK i \in 2 .. n : grammar.rules[1].body = <<grammar.rules[i].head>>
      BY <1>2, <3>2, StartIsMapped DEF StartMapped
    <3>4. /\ grammar'.rules[1].body = <<grammar.rules[i].head>> /\ i \in DOMAIN grammar.rules
          /\ i \in DOMAIN grammar'.rules /\ grammar'.rules[i] = grammar.rules[i]
      BY <1>1, <1>5, <2>2, <3>3 DEF RuleAdded
    <3>5. symbs'[grammar.rules[i].head].name = symbs[grammar.rules[i].head].name
      BY <1>1, <3>4, HeadsStay
    <3>6. StartName = symbs[grammar.rules[i].head].name /\ StartName' = symbs'[grammar.rules[i].head].name
      BY <1>2, <3>3, <3>4, StartOf
    <3>7. QED
      BY <3>1, <3>5, <3>6
  <2>3. QED
    BY <2>1, <2>2
<1>7. Promise!Acceptable(ShownIn(symbs', call.rule))
  BY RuleIsAcceptable
<1>8. Len(RulesShown') = Len(RulesShown) + 1
  BY <1>4, <1>5
<1>9. QED
  BY <1>2, <1>3, <1>4, <1>6, <1>7, <1>8 DEF Promise!AddRule

LEMMA SetStartRulePromised ==
  ASSUME SInv, SInv', NEW n, SetStartRule(n)
  PROVE  Promise!SetStart
<1>1. grammar.open
  BY DEF SetStartRule
<1>2. PICK y, i : StartMoved(n, y, i)
  BY SetStartRuleIs
<1>3. Carried
  BY <1>1, <1>2, SetStartRuleCarries
<1>4. /\ grammar'.open = grammar.open /\ grammar'.terms = grammar.terms
      /\ grammar'.rules[1].body = <<grammar.rules[i].head>>
  BY <1>2 DEF StartMoved
<1>5. TermVal' = TermVal
  BY <1>3, <1>4, TermValStays
<1>6. RulesShown' = RulesShown
  BY <1>2, <1>3, RulesStay DEF RulesShownStay, StartMoved
<1>7. PICK m : RulesAre(m)
  BY <1>1, RulesAreMapped DEF RulesMapped
<1>8. /\ i \in DOMAIN grammar.rules /\ i \in DOMAIN grammar'.rules
      /\ grammar'.rules[i] = grammar.rules[i] /\ i - 1 \in DOMAIN RulesShown
      /\ RulesShown[i - 1] = ShownIn(symbs, grammar.rules[i])
  <2>1. Len(grammar.rules) \in Nat /\ DOMAIN grammar.rules = 1 .. Len(grammar.rules)
    BY LenProperties DEF SInv, Typed, Gr
  <2>2. i \in DOMAIN grammar.rules /\ i # 1 /\ i - 1 \in 1 .. m /\ (i - 1) + 1 = i
    BY <1>2, <1>7, <2>1 DEF StartMoved, RulesAre
  <2>3. RulesShown[i - 1] = ShownIn(symbs, grammar.rules[(i - 1) + 1])
    BY <1>7, <2>2 DEF RulesAre
  <2>4. RulesShown[i - 1] = ShownIn(symbs, grammar.rules[i])
    BY <2>2, <2>3
  <2>5. i - 1 \in DOMAIN RulesShown
    BY <1>7, <2>2 DEF RulesAre
  <2>6. i \in DOMAIN grammar'.rules /\ grammar'.rules[i] = grammar.rules[i]
    BY <1>2, <2>2 DEF StartMoved
  <2>7. QED
    BY <2>2, <2>4, <2>5, <2>6
<1>9. StartName' = symbs[grammar.rules[i].head].name
  <2>1. StartName' = symbs'[grammar.rules[i].head].name
    BY <1>1, <1>4, StartOf
  <2>2. symbs'[grammar.rules[i].head].name = symbs[grammar.rules[i].head].name
    BY <1>3, <1>8, HeadsStay
  <2>3. QED
    BY <2>1, <2>2
<1>10. StartName' \in Promise!HeadNames
  <2>1. RulesShown[i - 1].head = symbs[grammar.rules[i].head].name
    <3> DEFINE r == grammar.rules[i]
    <3>1. ShownIn(symbs, r).head = symbs[r.head].name
      BY DEF ShownIn
    <3>2. RulesShown[i - 1] = ShownIn(symbs, r)
      BY <1>8
    <3>3. QED
      BY <3>1, <3>2
  <2>2. QED
    BY <1>8, <1>9, <2>1 DEF Promise!HeadNames
<1>11. QED
  BY <1>1, <1>4, <1>5, <1>6, <1>10 DEF Promise!SetStart

LEMMA InitPromised ==
  ASSUME Init, SInv
  PROVE  Promise!GInit
<1>1. grammar.open = FALSE
  BY DEF Init, NoGrammar
<1>2. EmptyMap
  BY <1>1, EmptyIsMapped DEF EmptyMapped
<1>3. QED
  BY <1>1, <1>2, SameWords DEF EmptyMap, Promise!GInit

LEMMA CallShown ==
  ASSUME SInv, SInv', Carried, grammar' = grammar
  PROVE  UNCHANGED Promise!gvars
  BY NothingShown

\* The other steps only move symbols between the locals of a call.
LEMMA RuleShown ==
  ASSUME SInv, SInv',
         \/ ShareSymb \/ CopySymb \/ CreateRuleFails \/ RuleCreated
         \/ InsertRefused \/ InsertFails
         \/ \E by \in {"str", "list"}, head \in Names \cup {Start} : BeginRule(by, head)
         \/ \E n \in Names \cup {ErrorT} : ScanSymb(n)
         \/ \E asked \in Names \cup {NoName} : CreateRule(asked)
  PROVE  UNCHANGED Promise!gvars
<1>1. CASE ShareSymb \/ CopySymb \/ RuleCreated
  <2>1. grammar' = grammar
    BY <1>1 DEF ShareSymb, CopySymb, RuleCreated
  <2>2. QED
    BY <1>1, <2>1, ShareSymbCarries, CopySymbCarries, RuleCreatedCarries, CallShown
<1>2. CASE CreateRuleFails \/ InsertRefused \/ InsertFails
  <2>1. GiveUp /\ call.doing # "create"
    BY <1>2, InsertFailsGivesUp DEF CreateRuleFails, InsertRefused, InsertFails
  <2>2. QED
    BY <2>1, GiveUpCarries, CallShown DEF GiveUp
<1>3. ASSUME NEW by \in {"str", "list"}, NEW head \in Names \cup {Start}, BeginRule(by, head)
      PROVE  UNCHANGED Promise!gvars
  BY <1>3, BeginRuleCarries, CallShown DEF BeginRule
<1>4. ASSUME NEW n \in Names \cup {ErrorT}, ScanSymb(n) PROVE UNCHANGED Promise!gvars
  BY <1>4, ScanSymbCarries, CallShown DEF ScanSymb
<1>5. ASSUME NEW asked \in Names \cup {NoName}, CreateRule(asked) PROVE UNCHANGED Promise!gvars
  BY <1>5, CreateRuleCarries, CallShown DEF CreateRule
<1>6. QED
  BY <1>1, <1>2, <1>3, <1>4, <1>5

LEMMA StoreShown ==
  ASSUME SInv, SInv', CreateGrammar \/ InitTerm \/ CreateFails \/ GetSymbList \/ UNCHANGED vars
  PROVE  UNCHANGED Promise!gvars
<1>1. CASE CreateGrammar \/ InitTerm \/ CreateFails
  <2>1. grammar' = grammar
    BY <1>1 DEF CreateGrammar, InitTerm, CreateFails
  <2>2. QED
    BY <1>1, <2>1, CreateGrammarCarries, InitTermCarries, CreateFailsCarries, CallShown
<1>2. CASE GetSymbList
  <2>1. grammar \in Gr /\ grammar' = [grammar EXCEPT !.symb_list = Lent]
    BY <1>2 DEF GetSymbList, SInv, Typed
  <2>2. /\ grammar'.terms = grammar.terms /\ grammar'.rules = grammar.rules
        /\ grammar'.open = grammar.open
    BY <2>1 DEF Gr
  <2>3. QED
    BY <1>2, <2>2, GetSymbListCarries, NothingShown
<1>3. CASE UNCHANGED vars
  <2>1. grammar' = grammar /\ Keeps(symbs, symbs')
    BY <1>3 DEF vars, Keeps
  <2>2. QED
    BY <2>1, CallShown DEF SInv, Carried
<1>4. QED
  BY <1>1, <1>2, <1>3

LEMMA StepPromised ==
  ASSUME SInv, SInv', [Next]_vars
  PROVE  [Promise!GNext]_(Promise!gvars)
<1>1. CASE UNCHANGED Promise!gvars
  BY <1>1
<1>2. CASE InitStart
  BY <1>2, InitStartPromised DEF Promise!GNext
<1>3. CASE DestroyGrammar
  BY <1>3, DestroyGrammarPromised DEF Promise!GNext
<1>4. ASSUME NEW n \in Names, NEW v \in Values, InsertTerm(n, v) PROVE Promise!GNext
  BY <1>4, InsertTermPromised DEF Promise!GNext
<1>5. CASE InsertRule
  BY <1>5, InsertRulePromised DEF Promise!GNext
<1>6. ASSUME NEW n \in Names, SetStartRule(n) PROVE Promise!GNext
  BY <1>6, SetStartRulePromised DEF Promise!GNext
<1>7. QED
  BY <1>1, <1>2, <1>3, <1>4, <1>5, <1>6, RuleShown, StoreShown DEF Next

\* Each call that builds a grammar has its whole effect or none, and no order of
\* calls, failures included, makes one name a terminal and a nonterminal.
THEOREM StoreKeepsPromise == Spec => ImplementsGrammarPromise
<1>1. Init => Promise!GInit
  BY InitHolds, InitPromised
<1>2. SInv /\ SInv' /\ [Next]_vars => [Promise!GNext]_(Promise!gvars)
  BY StepPromised
<1>3. QED
  BY <1>1, <1>2, InvHolds, PTL DEF Spec, ImplementsGrammarPromise, Promise!GSpec

-------------------------------------------------------------------------------
(* What GrammarPromise keeps. *)

\* The rules are a sequence, whatever they are made of.
RulesAreSeq == \E S : RulesShown \in Seq(S)
KeptInv == RulesAreSeq /\ Promise!GrammarKept

\* A rule that agrees with the terminals agrees with more of them, when the new
\* one has a name that no rule uses.
LEMMA KindsStillAgree ==
  ASSUME NEW T, NEW n, NEW r,
         r.head \notin T,
         \A k \in DOMAIN r.body : (r.body[k].type = "term") = (r.body[k].name \in T),
         n \notin Promise!NamesIn(r)
  PROVE  /\ r.head \notin T \cup {n}
         /\ \A k \in DOMAIN r.body :
              (r.body[k].type = "term") = (r.body[k].name \in T \cup {n})
  BY DEF Promise!NamesIn

\* Appending to a sequence of any kind adds one element at its end.
LEMMA Lengthened ==
  ASSUME NEW S, NEW s \in Seq(S), NEW e
  PROVE  /\ Append(s, e) \in Seq(S \cup {e})
         /\ DOMAIN Append(s, e) = DOMAIN s \cup {Len(s) + 1}
         /\ \A i \in DOMAIN s : Append(s, e)[i] = s[i]
         /\ Append(s, e)[Len(s) + 1] = e
         /\ Append(s, e) # <<>>
<1>1. s \in Seq(S \cup {e})
  OBVIOUS
<1>2. Append(s, e) \in Seq(S \cup {e}) /\ Len(Append(s, e)) = Len(s) + 1
  BY <1>1
<1>3. DOMAIN s = 1 .. Len(s) /\ Len(s) \in Nat
  OBVIOUS
<1>4. DOMAIN Append(s, e) = 1 .. Len(s) + 1
  BY <1>2
<1>5. \A i \in 1 .. Len(s) : Append(s, e)[i] = s[i]
  BY <1>1
<1>6. Append(s, e)[Len(s) + 1] = e
  BY <1>1
<1>7. 1 .. Len(s) + 1 = (1 .. Len(s)) \cup {Len(s) + 1}
  BY <1>3
<1>8. Append(s, e) # <<>>
  BY <1>2
<1>9. DOMAIN Append(s, e) = DOMAIN s \cup {Len(s) + 1}
  BY <1>3, <1>4, <1>7
<1>10. \A i \in DOMAIN s : Append(s, e)[i] = s[i]
  BY <1>3, <1>5
<1> QED  BY <1>2, <1>6, <1>8, <1>9, <1>10

\* The built-in terminals alone, without rules.
LEMMA EmptiedKept ==
  ASSUME TermVal = Promise!BuiltInVal, RulesShown = <<>>, StartName = Promise!NoStart
  PROVE  KeptInv
<1>1. RulesAreSeq
  <2>1. RulesShown \in Seq({})
    OBVIOUS
  <2> QED  BY <2>1 DEF RulesAreSeq
<1>2. DOMAIN RulesShown = {}
  OBVIOUS
<1>3. Promise!ValuesDistinct
  BY DEF Promise!ValuesDistinct, Promise!TermNames, Promise!BuiltInVal, Promise!EOI,
         Promise!ErrorT, Promise!DefPrec
<1> QED
  BY <1>1, <1>2, <1>3 DEF KeptInv, Promise!GrammarKept, Promise!OneKindPerName,
         Promise!PrecsExist, Promise!StartIsHead

LEMMA EmptiedKeeps ==
  ASSUME Promise!Emptied
  PROVE  KeptInv'
<1>1. TermVal' = Promise!BuiltInVal /\ RulesShown' = <<>> /\ StartName' = Promise!NoStart
  BY DEF Promise!Emptied
<1>2. RulesAreSeq'
  <2>1. RulesShown' \in Seq({})
    BY <1>1
  <2> QED  BY <2>1 DEF RulesAreSeq
<1>3. DOMAIN RulesShown' = {}
  BY <1>1
<1>4. Promise!ValuesDistinct'
  BY <1>1 DEF Promise!ValuesDistinct, Promise!TermNames, Promise!BuiltInVal, Promise!EOI,
         Promise!ErrorT, Promise!DefPrec
<1> QED
  BY <1>1, <1>2, <1>3, <1>4
  DEF KeptInv, Promise!GrammarKept, Promise!OneKindPerName, Promise!PrecsExist, Promise!StartIsHead

LEMMA AddTermKeeps ==
  ASSUME KeptInv, Promise!AddTerm
  PROVE  KeptInv'
<1> PICK n \in DOMAIN TermVal' \ Promise!TermNames :
      /\ n \notin Promise!AllNames
      /\ DOMAIN TermVal' = Promise!TermNames \cup {n}
      /\ \A t \in Promise!TermNames : TermVal'[t] = TermVal[t] /\ TermVal[t] # TermVal'[n]
  BY DEF Promise!AddTerm
<1>1. RulesShown' = RulesShown /\ StartName' = StartName
  BY DEF Promise!AddTerm
<1>2. Promise!TermNames' = Promise!TermNames \cup {n}
  BY DEF Promise!TermNames
<1>3. Promise!OneKindPerName'
  <2> SUFFICES ASSUME NEW i \in DOMAIN RulesShown
               PROVE  Promise!KindsAgree(RulesShown[i])'
    BY <1>1 DEF Promise!OneKindPerName
  <2>1. n \notin Promise!NamesIn(RulesShown[i])
    BY DEF Promise!AllNames
  <2>2. Promise!KindsAgree(RulesShown[i])
    BY DEF KeptInv, Promise!GrammarKept, Promise!OneKindPerName
  <2>3. /\ RulesShown[i].head \notin Promise!TermNames \cup {n}
        /\ \A k \in DOMAIN RulesShown[i].body :
             (RulesShown[i].body[k].type = "term") =
               (RulesShown[i].body[k].name \in Promise!TermNames \cup {n})
    BY <2>1, <2>2, KindsStillAgree DEF Promise!KindsAgree
  <2> QED  BY <2>3, <1>1, <1>2 DEF Promise!KindsAgree
<1>4. Promise!ValuesDistinct'
  BY <1>2 DEF KeptInv, Promise!GrammarKept, Promise!ValuesDistinct, Promise!TermNames
<1>5. Promise!PrecsExist'
  BY <1>1, <1>2 DEF KeptInv, Promise!GrammarKept, Promise!PrecsExist
<1>6. Promise!StartIsHead' /\ RulesAreSeq'
  BY <1>1 DEF KeptInv, Promise!GrammarKept, Promise!StartIsHead, Promise!HeadNames, RulesAreSeq
<1> QED  BY <1>3, <1>4, <1>5, <1>6 DEF KeptInv, Promise!GrammarKept

LEMMA AddRuleKeeps ==
  ASSUME KeptInv, Promise!AddRule
  PROVE  KeptInv'
<1> DEFINE r == RulesShown'[Len(RulesShown')]
<1>1. /\ RulesShown' = Append(RulesShown, r)
      /\ Promise!Acceptable(r)
      /\ StartName' = IF RulesShown = <<>> THEN r.head ELSE StartName
      /\ TermVal' = TermVal
  BY DEF Promise!AddRule
<1> PICK S : RulesShown \in Seq(S)
  BY DEF KeptInv, RulesAreSeq
<1> HIDE DEF r
<1>2. /\ RulesShown' \in Seq(S \cup {r})
      /\ DOMAIN RulesShown' = DOMAIN RulesShown \cup {Len(RulesShown) + 1}
      /\ \A i \in DOMAIN RulesShown : RulesShown'[i] = RulesShown[i]
      /\ RulesShown'[Len(RulesShown) + 1] = r
      /\ RulesShown' # <<>>
  <2> DEFINE more == Append(RulesShown, r)
  <2>1. /\ more \in Seq(S \cup {r}) /\ DOMAIN more = DOMAIN RulesShown \cup {Len(RulesShown) + 1}
        /\ \A i \in DOMAIN RulesShown : more[i] = RulesShown[i]
        /\ more[Len(RulesShown) + 1] = r /\ more # <<>>
    BY Lengthened
  <2>2. RulesShown' = more
    BY <1>1
  <2> HIDE DEF more
  <2>3. QED
    BY Zenon, <2>1, <2>2
<1>3. Promise!TermNames' = Promise!TermNames
  BY <1>1 DEF Promise!TermNames
<1>4. \A i \in DOMAIN RulesShown' : RulesShown'[i] = r \/ i \in DOMAIN RulesShown
  BY <1>2
<1>5. Promise!OneKindPerName'
  <2> SUFFICES ASSUME NEW i \in DOMAIN RulesShown'
               PROVE  Promise!KindsAgree(RulesShown[i])'
    BY DEF Promise!OneKindPerName
  <2>1. CASE RulesShown'[i] = r
    BY <2>1, <1>1, <1>3 DEF Promise!Acceptable, Promise!KindsAgree
  <2>2. CASE i \in DOMAIN RulesShown
    BY <2>2, <1>2, <1>3 DEF Promise!KindsAgree, KeptInv, Promise!GrammarKept, Promise!OneKindPerName
  <2> QED  BY <2>1, <2>2, <1>4
<1>6. Promise!ValuesDistinct'
  BY <1>1, <1>3 DEF KeptInv, Promise!GrammarKept, Promise!ValuesDistinct
<1>7. Promise!PrecsExist'
  BY <1>1, <1>2, <1>3, <1>4 DEF KeptInv, Promise!GrammarKept, Promise!PrecsExist, Promise!Acceptable
<1>8. Promise!StartIsHead'
  <2>1. Promise!HeadNames \subseteq Promise!HeadNames'
    BY <1>2 DEF Promise!HeadNames
  <2>2. r.head \in Promise!HeadNames'
    BY <1>2 DEF Promise!HeadNames
  <2>3. StartName' \in Promise!HeadNames'
    BY <2>1, <2>2, <1>1 DEF KeptInv, Promise!GrammarKept, Promise!StartIsHead
  <2> QED  BY <2>3, <1>2 DEF Promise!StartIsHead
<1>9. RulesAreSeq'
  BY <1>2 DEF RulesAreSeq
<1> QED  BY <1>5, <1>6, <1>7, <1>8, <1>9 DEF KeptInv, Promise!GrammarKept

LEMMA SetStartKeeps ==
  ASSUME KeptInv, Promise!SetStart
  PROVE  KeptInv'
<1>1. StartName' \in Promise!HeadNames /\ RulesShown' = RulesShown /\ TermVal' = TermVal
  BY DEF Promise!SetStart
<1>2. RulesShown # <<>>
  BY <1>1 DEF Promise!HeadNames
<1>3. Promise!StartIsHead'
  BY <1>1, <1>2 DEF Promise!StartIsHead, Promise!HeadNames
<1>4. Promise!OneKindPerName' /\ Promise!PrecsExist' /\ Promise!ValuesDistinct' /\ RulesAreSeq'
  BY <1>1 DEF KeptInv, Promise!GrammarKept, Promise!OneKindPerName, Promise!KindsAgree,
              Promise!PrecsExist, Promise!ValuesDistinct,
              Promise!TermNames, RulesAreSeq
<1> QED  BY <1>3, <1>4 DEF KeptInv, Promise!GrammarKept

LEMMA StutterKeeps ==
  ASSUME KeptInv, UNCHANGED Promise!gvars
  PROVE  KeptInv'
<1>1. StartName' = StartName /\ RulesShown' = RulesShown /\ TermVal' = TermVal
  BY DEF Promise!gvars
<1> QED
  BY <1>1 DEF KeptInv, Promise!GrammarKept, Promise!OneKindPerName, Promise!KindsAgree,
              Promise!PrecsExist, Promise!ValuesDistinct,
              Promise!StartIsHead, Promise!TermNames, Promise!HeadNames, RulesAreSeq

\* However the calls that build a grammar are ordered, a name stays a terminal
\* or a nonterminal (Parser_CreateRule, Parser_InsertTerm), no two terminals
\* share a value, every precedence is that of a terminal and the augmented rule
\* derives the head of a rule (Parser_InsertRule, Parser_SetStartRule).
THEOREM GrammarIsKept == Promise!GSpec => []Promise!GrammarKept
<1>1. Promise!GInit => KeptInv
  BY EmptiedKept DEF Promise!GInit
<1>2. KeptInv /\ [Promise!GNext]_(Promise!gvars) => KeptInv'
  <2> SUFFICES ASSUME KeptInv, [Promise!GNext]_(Promise!gvars)  PROVE KeptInv'
    OBVIOUS
  <2>1. CASE Promise!OpenGrammar \/ Promise!ClearGrammar \/ Promise!CloseGrammar
    BY <2>1, EmptiedKeeps DEF Promise!OpenGrammar, Promise!ClearGrammar, Promise!CloseGrammar
  <2>2. CASE Promise!AddTerm
    BY <2>2, AddTermKeeps
  <2>3. CASE Promise!AddRule
    BY <2>3, AddRuleKeeps
  <2>4. CASE Promise!SetStart
    BY <2>4, SetStartKeeps
  <2>5. CASE UNCHANGED Promise!gvars
    BY <2>5, StutterKeeps
  <2> QED  BY <2>1, <2>2, <2>3, <2>4, <2>5 DEF Promise!GNext
<1>3. KeptInv => Promise!GrammarKept
  BY DEF KeptInv
<1> QED  BY <1>1, <1>2, <1>3, PTL DEF Promise!GSpec

\* So the kinds, values, precedences and start of the grammar itself agree,
\* after any calls and any failures.
THEOREM StoreKeepsKinds == Spec => []Promise!GrammarKept
BY StoreKeepsPromise, GrammarIsKept, PTL DEF ImplementsGrammarPromise
===============================================================================
