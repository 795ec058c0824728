----------------------------- MODULE ParserProofs -----------------------------
(* Tables and the parser that runs on them, from any grammar.  First how a    *)
(* table is built: the states are closed under moves, the follow sets are the *)
(* least the links allow, an entry's conflicts are resolved by precedence and *)
(* associativity, and the finished table is one the parser can rely on.  Then *)
(* the parser, on any such table and with any number of nodes: its stacks     *)
(* stay in step, a reduction always finds its body on top of them, nothing    *)
(* but one start symbol is accepted, and every node has one owner.            *)
EXTENDS LalrBuild, ParserContext, SeqLemmas

-------------------------------------------------------------------------------
(* Items. *)

ItemsOf(g) ==
  UNION {{[rule |-> r, dot |-> d] : d \in 0 .. Len(g.rules[r].body)} : r \in DOMAIN g.rules}

LEMMA ItemFacts ==
  ASSUME NEW g, IsGrammar(g), NEW it \in ItemsOf(g)
  PROVE  /\ it = [rule |-> it.rule, dot |-> it.dot]
         /\ it.rule \in 1 .. Len(g.rules) /\ it.dot \in Nat
         /\ Len(Body(g, it)) \in Nat /\ it.dot <= Len(Body(g, it))
         /\ Completed(g, it) \/ it.dot + 1 \in DOMAIN Body(g, it)
         /\ Completed(g, it) \/ OnSymb(g, it) # Start
<1>0. PICK r \in DOMAIN g.rules : \E d \in 0 .. Len(g.rules[r].body) : it = [rule |-> r, dot |-> d]
  BY DEF ItemsOf
<1>1. PICK d \in 0 .. Len(g.rules[r].body) : it = [rule |-> r, dot |-> d]
  BY <1>0
<1>2. it.rule = r /\ it.dot = d
  BY <1>1
<1>3. /\ DOMAIN g.rules = 1 .. Len(g.rules)
      /\ DOMAIN g.rules[r].body = 1 .. Len(g.rules[r].body) /\ Len(g.rules[r].body) \in Nat
      /\ \A k \in DOMAIN g.rules[r].body : g.rules[r].body[k] # Start
  BY LenProperties DEF IsGrammar
<1>4. QED
  BY <1>1, <1>2, <1>3 DEF Body, Completed, OnSymb

LEMMA IsItem ==
  ASSUME NEW g, IsGrammar(g), NEW r \in DOMAIN g.rules, NEW d \in 0 .. Len(g.rules[r].body)
  PROVE  [rule |-> r, dot |-> d] \in ItemsOf(g)
BY DEF ItemsOf

LEMMA AdvanceFacts ==
  ASSUME NEW g, IsGrammar(g), NEW it \in ItemsOf(g), ~Completed(g, it)
  PROVE  /\ Advance(it) = [rule |-> it.rule, dot |-> it.dot + 1]
         /\ Advance(it) \in ItemsOf(g)
<1>1. /\ it = [rule |-> it.rule, dot |-> it.dot]
      /\ it.rule \in DOMAIN g.rules /\ it.dot + 1 \in 0 .. Len(g.rules[it.rule].body)
  <2>1. /\ it = [rule |-> it.rule, dot |-> it.dot] /\ it.rule \in 1 .. Len(g.rules)
        /\ it.dot \in Nat /\ Len(g.rules[it.rule].body) \in Nat
        /\ it.dot <= Len(g.rules[it.rule].body) /\ it.dot # Len(g.rules[it.rule].body)
    BY ItemFacts DEF Body, Completed
  <2>2. it.dot + 1 \in 0 .. Len(g.rules[it.rule].body)
    BY <2>1
  <2>3. QED
    BY <2>1, <2>2 DEF IsGrammar
<1> DEFINE r == it.rule
           d == it.dot
<1>2. [[rule |-> r, dot |-> d] EXCEPT !.dot = @ + 1] = [rule |-> r, dot |-> d + 1]
  OBVIOUS
<1>3. Advance(it) = [rule |-> it.rule, dot |-> it.dot + 1]
  BY <1>1, <1>2 DEF Advance
<1>4. QED
  BY <1>1, <1>3, IsItem

-------------------------------------------------------------------------------
(* The closure of a set of items. *)

\* What one turn adds.
LEMMA TurnFacts ==
  ASSUME NEW g, NEW items
  PROVE  /\ items \subseteq WithPredicted(g, items)
         /\ \A x : x \in WithPredicted(g, items) <=>
              \/ x \in items
              \/ \E it \in items : ~Completed(g, it)
                   /\ \E r \in RulesOf(g, OnSymb(g, it)) : x = [rule |-> r, dot |-> 0]
BY DEF WithPredicted, PredictedBy

LEMMA TurnItems ==
  ASSUME NEW g, IsGrammar(g), NEW items \in SUBSET ItemsOf(g)
  PROVE  WithPredicted(g, items) \in SUBSET ItemsOf(g)
<1> SUFFICES ASSUME NEW x \in WithPredicted(g, items) PROVE x \in ItemsOf(g)
  OBVIOUS
<1>1. CASE x \in items
  BY <1>1
<1>2. ASSUME NEW r \in DOMAIN g.rules, x = [rule |-> r, dot |-> 0] PROVE x \in ItemsOf(g)
  <2>1. Len(g.rules[r].body) \in Nat
    BY LenProperties DEF IsGrammar
  <2>2. 0 \in 0 .. Len(g.rules[r].body)
    BY <2>1
  <2>3. QED
    BY <1>2, <2>2, IsItem
<1>3. QED
  BY <1>1, <1>2, TurnFacts DEF RulesOf

\* The turns, and the least set closed under prediction they end with.
LEMMA ClosureTurns ==
  ASSUME NEW g, IsGrammar(g), NEW items \in SUBSET ItemsOf(g)
  PROVE  \E t :
           /\ t[0] = items /\ Closure(g, items) = t[Len(g.rules)]
           /\ \A n \in 1 .. Len(g.rules) : t[n] = WithPredicted(g, t[n - 1])
           /\ \A n \in 0 .. Len(g.rules) : t[n] \in SUBSET ItemsOf(g)
<1>0. PICK N, S : N = Len(g.rules) /\ S = SUBSET ItemsOf(g)
  OBVIOUS
<1> DEFINE step == [p \in (1 .. N) \X S |-> WithPredicted(g, p[2])]
           IsTurns(t) == t = [n \in 0 .. N |-> IF n = 0 THEN items ELSE WithPredicted(g, t[n - 1])]
           turns == CHOOSE t : IsTurns(t)
<1>1. N \in Nat
  BY <1>0 DEF IsGrammar
<1>2. \A x \in S : WithPredicted(g, x) \in S
  BY <1>0, TurnItems
<1>3. step \in [(1 .. N) \X S -> S]
  BY <1>2
<1>4. PICK t \in [0 .. N -> S] : StepsBy(t, N, items, step)
  <2> HIDE DEF step
  <2>1. items \in S
    BY <1>0
  <2>2. QED
    BY <1>1, <1>3, <2>1, Recursion
<1>5. \A n \in 1 .. N : t[n] = WithPredicted(g, t[n - 1])
  <2> SUFFICES ASSUME NEW n \in 1 .. N PROVE t[n] = WithPredicted(g, t[n - 1])
    OBVIOUS
  <2>1. n - 1 \in 0 .. N
    BY <1>1
  <2>2. t[n - 1] \in S
    BY <1>4, <2>1
  <2>3. step[<<n, t[n - 1]>>] = WithPredicted(g, t[n - 1])
    BY <2>2
  <2>4. QED
    BY <1>4, <2>3 DEF StepsBy
<1>6. IsTurns(t)
  <2>1. \A n \in 0 .. N : t[n] = IF n = 0 THEN items ELSE WithPredicted(g, t[n - 1])
    <3> TAKE n \in 0 .. N
    <3>1. n = 0 \/ n \in 1 .. N
      BY <1>1
    <3>2. QED
      BY <1>4, <1>5, <3>1 DEF StepsBy
  <2>2. t = [n \in 0 .. N |-> t[n]]
    BY <1>4
  <2> HIDE DEF step
  <2>3. QED
    BY <2>1, <2>2
<1>7. IsTurns(turns)
  BY <1>6
<1>8. Closure(g, items) = turns[N]
  BY <1>0 DEF Closure
<1> HIDE DEF turns
<1>9. turns[0] = items /\ \A n \in 1 .. N : turns[n] = WithPredicted(g, turns[n - 1])
  <2>1. turns = [n \in 0 .. N |-> IF n = 0 THEN items ELSE WithPredicted(g, turns[n - 1])]
    BY <1>7
  <2>2. 0 \in 0 .. N /\ \A n \in 1 .. N : n \in 0 .. N /\ n # 0
    BY <1>1
  <2>3. QED
    BY <2>1, <2>2
<1>10. \A n \in 0 .. N : turns[n] \in S
  <2> DEFINE Bad == {n \in 0 .. N : turns[n] \notin S}
  <2>1. SUFFICES ASSUME Bad # {} PROVE FALSE
    OBVIOUS
  <2>2. PICK m \in Bad : \A k \in Bad : m <= k
    <3>1. Bad \in SUBSET Nat
      BY <1>1
    <3> HIDE DEF Bad
    <3>2. QED
      BY <2>1, <3>1, LeastOf
  <2>3. m \in 1 .. N /\ m - 1 \in 0 .. N
    <3>1. items \in S /\ m \in 0 .. N /\ turns[m] \notin S
      BY <1>0
    <3>2. m # 0
      BY <1>9, <3>1
    <3>3. QED
      BY <1>1, <3>1, <3>2
  <2>4. turns[m - 1] \in S
    BY <2>2, <2>3
  <2>5. QED
    BY <1>2, <1>9, <2>3, <2>4
<1>11. QED
  BY <1>0, <1>8, <1>9, <1>10

LEMMA ClosureFacts ==
  ASSUME NEW g, IsGrammar(g), NEW items \in SUBSET ItemsOf(g)
  PROVE  /\ Closure(g, items) \in SUBSET ItemsOf(g) /\ items \subseteq Closure(g, items)
         /\ \A x \in Closure(g, items) \ items :
              \E it \in Closure(g, items) : ~Completed(g, it)
                /\ \E r \in RulesOf(g, OnSymb(g, it)) : x = [rule |-> r, dot |-> 0]
         /\ \A it \in Closure(g, items) : Completed(g, it) \/
              \A r \in RulesOf(g, OnSymb(g, it)) : [rule |-> r, dot |-> 0] \in Closure(g, items)
<1>0. PICK N, D : N = Len(g.rules) /\ D = DOMAIN g.rules
  OBVIOUS
<1>1. N \in Nat /\ D = 1 .. N
  BY <1>0 DEF IsGrammar
<1>2. PICK t : /\ t[0] = items /\ Closure(g, items) = t[N]
               /\ \A n \in 1 .. N : t[n] = WithPredicted(g, t[n - 1])
               /\ \A n \in 0 .. N : t[n] \in SUBSET ItemsOf(g)
  BY <1>0, ClosureTurns
<1> DEFINE Added(n) == {r \in D : [rule |-> r, dot |-> 0] \in t[n]}
           Explained(x, s) == \E it \in s : ~Completed(g, it)
                /\ \E r \in RulesOf(g, OnSymb(g, it)) : x = [rule |-> r, dot |-> 0]
           Good(n) == /\ items \subseteq t[n]
                      /\ \A x \in t[n] \ items : Explained(x, t[n])
                      /\ n <= Cardinality(Added(n)) \/ WithPredicted(g, t[n]) = t[n]
<1>3. \A n : IsFiniteSet(Added(n)) /\ Cardinality(Added(n)) \in Nat /\ Cardinality(Added(n)) <= N
  <2> TAKE n
  <2>1. IsFiniteSet(D) /\ Cardinality(D) = N
    <3>1. IsFiniteSet(1 .. N) /\ Cardinality(1 .. N) = N
      BY <1>1, FS_Interval
    <3>2. QED
      BY <1>1, <3>1
  <2>2. Added(n) \in SUBSET D
    OBVIOUS
  <2>3. QED
    BY <2>1, <2>2, FS_Subset, FS_CardinalityType
<1>4. \A n \in 0 .. N : Good(n)
  <2> DEFINE Bad == {n \in 0 .. N : ~Good(n)}
  <2>1. SUFFICES ASSUME Bad # {} PROVE FALSE
    OBVIOUS
  <2>2. PICK m \in Bad : \A k \in Bad : m <= k
    <3> HIDE DEF Good
    <3>1. Bad \in SUBSET Nat
      BY <1>1
    <3> HIDE DEF Bad
    <3>2. QED
      BY <2>1, <3>1, LeastOf
  <2>3. Good(0)
    <3> HIDE DEF Added, Explained
    <3>1. 0 <= Cardinality(Added(0))
      BY <1>3
    <3>2. QED
      BY <1>2, <3>1
  <2>4. m \in 1 .. N /\ m - 1 \in 0 .. N
    <3> HIDE DEF Good
    <3>1. m \in 0 .. N /\ m # 0
      BY <2>3
    <3>2. QED
      BY <1>1, <3>1
  <2>5. Good(m - 1)
    <3> HIDE DEF Good
    <3> QED BY <2>2, <2>4
  <2> DEFINE old == t[m - 1]
             new == t[m]
  <2>6. new = WithPredicted(g, old)
    BY <1>2, <2>4
  <2>7. /\ old \subseteq new
        /\ \A x : x \in new <=> x \in old \/ Explained(x, old)
    BY <2>6, TurnFacts
  <2>8. \A x : Explained(x, old) => Explained(x, new)
    BY <2>7
  <2> HIDE DEF Explained
  <2>9. items \subseteq new /\ \A x \in new \ items : Explained(x, new)
    BY <2>5, <2>7, <2>8
  <2>10. CASE new = old
    BY <2>5, <2>6, <2>9, <2>10
  <2>11. CASE new # old
    <3>1. PICK x : x \in new /\ x \notin old
      BY <2>7, <2>11
    <3>2. PICK r \in D : x = [rule |-> r, dot |-> 0]
      BY <1>0, <2>7, <3>1 DEF Explained, RulesOf
    <3>3. r \in Added(m) /\ r \notin Added(m - 1) /\ Added(m - 1) \in SUBSET Added(m)
      BY <3>1, <3>2, <2>7
    <3>4. WithPredicted(g, t[m - 1]) # t[m - 1]
      BY <2>6, <2>11
    <3>5. m - 1 <= Cardinality(Added(m - 1))
      BY <2>5, <3>4
    <3> HIDE DEF Added
    <3>6. /\ Cardinality(Added(m - 1)) <= Cardinality(Added(m))
          /\ Cardinality(Added(m)) = Cardinality(Added(m - 1)) => Added(m) = Added(m - 1)
      BY <1>3, <3>3, FS_Subset
    <3>7. m <= Cardinality(Added(m))
      BY <1>1, <1>3, <2>4, <3>3, <3>5, <3>6
    <3>8. QED
      BY <2>9, <3>7
  <2>12. QED
    BY <2>10, <2>11
<1>5. N \in 0 .. N /\ Good(N)
  <2>1. N \in 0 .. N
    BY <1>1
  <2> HIDE DEF Good
  <2>2. QED
    BY <1>4, <2>1
<1>6. WithPredicted(g, t[N]) = t[N]
  <2>1. CASE N <= Cardinality(Added(N))
    <3>1. IsFiniteSet(D) /\ Cardinality(D) = N
      <4>1. IsFiniteSet(1 .. N) /\ Cardinality(1 .. N) = N
        BY <1>1, FS_Interval
      <4>2. QED
        BY <1>1, <4>1
    <3>2. Added(N) \in SUBSET D /\ Cardinality(Added(N)) = Cardinality(D)
      <4>1. Cardinality(Added(N)) <= N /\ Cardinality(Added(N)) \in Nat
        BY <1>3
      <4>2. Added(N) \in SUBSET D
        OBVIOUS
      <4> HIDE DEF Added
      <4>3. QED
        BY <1>1, <2>1, <3>1, <4>1, <4>2
    <3>3. Added(N) = D
      BY <3>1, <3>2, FS_Subset
    <3>4. \A r \in D : [rule |-> r, dot |-> 0] \in t[N]
      BY <3>3
    <3>5. \A x : x \in WithPredicted(g, t[N]) => x \in t[N]
      BY <1>0, <3>4, TurnFacts DEF RulesOf
    <3>6. QED
      BY <3>5, TurnFacts
  <2>2. QED
    BY <1>5, <2>1
<1>7. QED
  BY <1>2, <1>5, <1>6, TurnFacts

-------------------------------------------------------------------------------
(* The moves of a state. *)

LEMMA MovedFacts ==
  ASSUME NEW g, IsGrammar(g), NEW items \in SUBSET ItemsOf(g), NEW X
  PROVE  /\ Moved(g, items, X) \in SUBSET ItemsOf(g)
         /\ \A x \in Moved(g, items, X) : x.dot \in Nat /\ x.dot > 0
         /\ \A x \in Moved(g, items, X) :
              /\ Body(g, x)[x.dot] = X
              /\ [rule |-> x.rule, dot |-> x.dot - 1] \in items
         /\ \A it \in items : Completed(g, it) \/ OnSymb(g, it) # X \/ Moved(g, items, X) # {}
<1>1. ASSUME NEW x \in Moved(g, items, X)
      PROVE  /\ x \in ItemsOf(g) /\ x.dot \in Nat /\ x.dot > 0
             /\ Body(g, x)[x.dot] = X /\ [rule |-> x.rule, dot |-> x.dot - 1] \in items
  <2>1. PICK it \in items : ~Completed(g, it) /\ OnSymb(g, it) = X /\ x = Advance(it)
    BY DEF Moved
  <2>2. it \in ItemsOf(g)
    OBVIOUS
  <2>3. x = [rule |-> it.rule, dot |-> it.dot + 1] /\ x \in ItemsOf(g)
    BY <2>1, <2>2, AdvanceFacts
  <2>4. x.rule = it.rule /\ x.dot = it.dot + 1
    BY <2>3
  <2>5. it.dot \in Nat /\ it = [rule |-> it.rule, dot |-> it.dot]
    BY <2>2, ItemFacts
  <2>6. x.dot - 1 = it.dot
    BY <2>4, <2>5
  <2>7. [rule |-> x.rule, dot |-> x.dot - 1] = it
    BY <2>4, <2>5, <2>6
  <2>8. Body(g, x)[x.dot] = X
    BY <2>1, <2>4 DEF Body, OnSymb
  <2>9. QED
    BY <2>3, <2>4, <2>5, <2>7, <2>8
<1>2. \A it \in items : Completed(g, it) \/ OnSymb(g, it) # X \/ Advance(it) \in Moved(g, items, X)
  BY DEF Moved
<1>3. QED
  BY <1>1, <1>2

LEMMA StartFacts ==
  ASSUME NEW g, IsGrammar(g)
  PROVE  /\ StartKernel \in SUBSET ItemsOf(g)
         /\ 1 \in DOMAIN g.rules /\ Len(g.rules[1].body) = 1 /\ g.rules[1].head = Start
<1>1. /\ Len(g.rules) \in Nat /\ Len(g.rules) >= 2 /\ DOMAIN g.rules = 1 .. Len(g.rules)
      /\ Len(g.rules[1].body) = 1
  BY DEF IsGrammar, IsValidGrammar
<1>2. 1 \in DOMAIN g.rules /\ 0 \in 0 .. Len(g.rules[1].body)
  BY <1>1
<1>3. [rule |-> 1, dot |-> 0] \in ItemsOf(g)
  BY <1>2, IsItem
<1>4. QED
  BY <1>1, <1>2, <1>3 DEF StartKernel, IsGrammar

-------------------------------------------------------------------------------
(* The automaton while it is built. *)

\* Every move of a state leads to a state, or some call still has it to build.
MoveBuilt(n, it) ==
  \/ Completed(grammar, it)
  \/ Moved(grammar, allConfig[n], OnSymb(grammar, it)) \in ToSet(set)
  \/ \E i \in DOMAIN stack : stack[i].state = n /\ it \in stack[i].left

Frames == [state : Nat, left : SUBSET ItemsOf(grammar)]

StatesOK ==
  /\ set \in Seq(SUBSET ItemsOf(grammar)) /\ set # <<>> /\ set[1] = StartKernel
  /\ allConfig \in Seq(SUBSET ItemsOf(grammar)) /\ Len(allConfig) = Len(set)
  /\ \A n \in DOMAIN set :
       /\ allConfig[n] = Closure(grammar, set[n])
       /\ n # 1 => \A it \in set[n] : it.dot > 0
       /\ \A m \in DOMAIN set : set[m] = set[n] => m = n

CallsOK ==
  /\ stack \in Seq(Frames)
  /\ \A i \in DOMAIN stack :
       /\ stack[i].state \in DOMAIN set
       /\ \A it \in stack[i].left : it \in allConfig[stack[i].state] /\ ~Completed(grammar, it)
  /\ \A n \in DOMAIN set : \A it \in allConfig[n] : MoveBuilt(n, it)

AutomatonOK ==
  /\ grammar \in Grammars /\ IsGrammar(grammar)
  /\ stage \in {"states", "sweeps", "done"}
  /\ StatesOK /\ CallsOK
  /\ stage # "states" => stack = <<>>

LEMMA AutomatonInit == ASSUME BuildInit PROVE AutomatonOK
<1>1. grammar \in Grammars /\ IsGrammar(grammar) /\ stage = "states"
  BY GrammarsAssumption DEF BuildInit
<1> DEFINE C == Closure(grammar, StartKernel)
           left == {it \in C : ~Completed(grammar, it)}
<1>2. StartKernel \in SUBSET ItemsOf(grammar) /\ C \in SUBSET ItemsOf(grammar)
  BY <1>1, StartFacts, ClosureFacts
<1>3. set = <<StartKernel>> /\ allConfig = <<C>> /\ stack = <<[state |-> 1, left |-> left]>>
  BY DEF BuildInit, EnterGoto
<1>4. /\ DOMAIN set = {1} /\ set[1] = StartKernel /\ Len(set) = 1
      /\ Len(allConfig) = 1 /\ allConfig[1] = C
      /\ DOMAIN stack = {1} /\ stack[1].state = 1 /\ stack[1].left = left
      /\ set # <<>>
  BY <1>3
<1>5. [state |-> 1, left |-> left] \in Frames
  BY <1>2 DEF Frames
<1>6. /\ set \in Seq(SUBSET ItemsOf(grammar)) /\ allConfig \in Seq(SUBSET ItemsOf(grammar))
      /\ stack \in Seq(Frames)
  BY <1>2, <1>3, <1>5
<1>7. StatesOK
  BY <1>4, <1>6 DEF StatesOK
<1>8. CallsOK
  BY <1>4, <1>6 DEF CallsOK, MoveBuilt
<1>9. QED
  BY <1>1, <1>7, <1>8 DEF AutomatonOK

\* The call that runs, after its configurations that move on as it does.
LEMMA MarkedFacts ==
  ASSUME AutomatonOK, Building, NEW it \in Call.left
  PROVE  /\ Marked(it) \in Seq(Frames) /\ Len(Marked(it)) = Len(stack) /\ Len(stack) \in Nat
         /\ Len(stack) \in DOMAIN stack /\ Call = stack[Len(stack)]
         /\ DOMAIN Marked(it) = DOMAIN stack
         /\ \A i \in DOMAIN stack : Marked(it)[i].state = stack[i].state
         /\ \A i \in DOMAIN stack : i # Len(stack) => Marked(it)[i].left = stack[i].left
         /\ Marked(it)[Len(stack)].left =
              {j \in Call.left : OnSymb(grammar, j) # OnSymb(grammar, it)}
<1>1. stack \in Seq(Frames) /\ stack # <<>>
  BY DEF AutomatonOK, CallsOK, Building
<1>2. /\ Len(stack) \in Nat /\ Len(stack) \in DOMAIN stack /\ DOMAIN stack = 1 .. Len(stack)
      /\ Call = stack[Len(stack)]
  BY <1>1 DEF Call, Last
<1>3. PICK n : n = Len(stack)
  OBVIOUS
<1>4. stack[n] \in Frames
  BY <1>1, <1>2, <1>3
<1> DEFINE left == {j \in stack[n].left : OnSymb(grammar, j) # OnSymb(grammar, it)}
           frame == [stack[n] EXCEPT !.left = left]
<1>5. frame \in Frames /\ frame.state = stack[n].state /\ frame.left = left
  BY <1>4 DEF Frames
<1>6. Marked(it) = [stack EXCEPT ![n] = frame]
  BY <1>2, <1>3 DEF Marked
<1> HIDE DEF frame
<1>7. /\ Marked(it) \in Seq(Frames) /\ Len(Marked(it)) = n /\ DOMAIN Marked(it) = DOMAIN stack
      /\ Marked(it)[n] = frame
      /\ \A i \in DOMAIN stack : i # n => Marked(it)[i] = stack[i]
  BY <1>1, <1>2, <1>3, <1>5, <1>6
<1>8. QED
  BY <1>2, <1>3, <1>5, <1>7

LEMMA GotoFoundOK ==
  ASSUME AutomatonOK, Building, NEW it \in Call.left, GotoFound(it)
  PROVE  AutomatonOK'
<1>1. /\ UNCHANGED <<grammar, stage, set, allConfig>> /\ stack' = Marked(it)
      /\ Goto(it) \in ToSet(set)
  BY DEF GotoFound
<1>2. StatesOK'
  BY <1>1 DEF AutomatonOK, StatesOK
<1>3. CallsOK
  BY DEF AutomatonOK
<1>4. stack' \in Seq(Frames)'
  BY <1>1, MarkedFacts DEF Frames
<1>5. ASSUME NEW i \in DOMAIN stack'
      PROVE  /\ stack'[i].state \in DOMAIN set
             /\ \A j \in stack'[i].left : j \in allConfig[stack'[i].state] /\ ~Completed(grammar, j)
  <2>1. i \in DOMAIN stack /\ stack'[i].state = stack[i].state
    BY <1>1, MarkedFacts
  <2>2. \A j \in stack'[i].left : j \in stack[i].left
    <3>1. CASE i = Len(stack)
      BY <1>1, <3>1, MarkedFacts
    <3>2. CASE i # Len(stack)
      BY <1>1, <2>1, <3>2, MarkedFacts
    <3>3. QED
      BY <3>1, <3>2
  <2>3. QED
    BY <2>1, <2>2, <1>3 DEF CallsOK
<1>6. ASSUME NEW n \in DOMAIN set, NEW j \in allConfig[n] PROVE MoveBuilt(n, j)'
  <2>1. MoveBuilt(n, j)
    BY <1>3 DEF CallsOK
  <2>2. ASSUME NEW i \in DOMAIN stack, stack[i].state = n, j \in stack[i].left
        PROVE  MoveBuilt(n, j)'
    <3>1. CASE j \in stack'[i].left
      BY <3>1, <2>2, <1>1, MarkedFacts DEF MoveBuilt
    <3>2. CASE j \notin stack'[i].left
      <4>1. i = Len(stack) /\ Call = stack[i]
        BY <3>2, <2>2, <1>1, MarkedFacts
      <4>2. OnSymb(grammar, j) = OnSymb(grammar, it)
        BY <3>2, <2>2, <4>1, <1>1, MarkedFacts
      <4>3. Goto(it) = Moved(grammar, allConfig[n], OnSymb(grammar, j))
        BY <4>1, <4>2, <2>2 DEF Goto
      <4>4. QED
        BY <4>3, <1>1 DEF MoveBuilt
    <3>3. QED
      BY <3>1, <3>2
  <2>3. QED
    BY <2>1, <2>2, <1>1 DEF MoveBuilt
<1>7. CallsOK'
  BY <1>1, <1>4, <1>5, <1>6 DEF CallsOK
<1>8. QED
  BY <1>1, <1>2, <1>7 DEF AutomatonOK, Building

LEMMA GotoReturnsOK ==
  ASSUME AutomatonOK, GotoReturns
  PROVE  AutomatonOK'
<1>1. /\ UNCHANGED <<grammar, stage, set, allConfig>> /\ stack' = Front(stack)
      /\ Call.left = {} /\ stack # <<>> /\ stage = "states"
  BY DEF GotoReturns, Building
<1>2. StatesOK'
  BY <1>1 DEF AutomatonOK, StatesOK
<1>3. CallsOK /\ stack \in Seq(Frames)
  BY DEF AutomatonOK, CallsOK
<1>4. /\ stack' \in Seq(Frames) /\ Len(stack') = Len(stack) - 1 /\ Len(stack) \in Nat
      /\ DOMAIN stack = 1 .. Len(stack) /\ DOMAIN stack' = 1 .. Len(stack) - 1
      /\ \A i \in DOMAIN stack' : i \in DOMAIN stack /\ stack'[i] = stack[i]
      /\ stack[Len(stack)].left = {}
  <2>1. Len(stack) \in Nat /\ Len(stack) >= 1 /\ Front(stack) = SubSeq(stack, 1, Len(stack) - 1)
    BY <1>1, <1>3 DEF Front
  <2>2. stack[Len(stack)].left = {}
    BY <1>1 DEF Call, Last
  <2>3. PICK n : n = Len(stack) - 1
    OBVIOUS
  <2>4. /\ n \in 0 .. Len(stack) /\ n + 1 = Len(stack) /\ stack' = SubSeq(stack, 1, n)
        /\ DOMAIN stack = 1 .. Len(stack)
    BY <1>1, <1>3, <2>1, <2>3
  <2>5. /\ stack' \in Seq(Frames) /\ Len(stack') = n /\ DOMAIN stack' = 1 .. n
        /\ \A i \in 1 .. n : stack'[i] = stack[i]
    BY <1>3, <2>1, <2>4, SubSeqProperties
  <2>6. \A i \in 1 .. n : i \in DOMAIN stack
    BY <2>1, <2>4
  <2>7. QED
    BY <2>1, <2>2, <2>3, <2>4, <2>5, <2>6
<1>5. \A i \in DOMAIN stack : stack[i].left = {} \/ i \in DOMAIN stack'
  <2>1. \A i \in 1 .. Len(stack) : i = Len(stack) \/ i \in 1 .. Len(stack) - 1
    BY <1>4
  <2>2. QED
    BY <1>4, <2>1
<1>6. Frames' = Frames
  BY <1>1 DEF Frames
<1>7. ASSUME NEW n \in DOMAIN set, NEW j \in allConfig[n] PROVE MoveBuilt(n, j)'
  <2>1. MoveBuilt(n, j)
    BY <1>3 DEF CallsOK
  <2>2. ASSUME NEW i \in DOMAIN stack, stack[i].state = n, j \in stack[i].left
        PROVE  MoveBuilt(n, j)'
    BY <2>2, <1>4, <1>5 DEF MoveBuilt
  <2>3. QED
    BY <2>1, <2>2, <1>1 DEF MoveBuilt
<1>8. CallsOK'
  BY <1>1, <1>3, <1>4, <1>6, <1>7 DEF CallsOK
<1>9. QED
  BY <1>1, <1>2, <1>8 DEF AutomatonOK

LEMMA GotoNewOK ==
  ASSUME AutomatonOK, Building, NEW it \in Call.left, GotoNew(it)
  PROVE  AutomatonOK'
<1> DEFINE K == Goto(it)
           C == Closure(grammar, K)
           N == Len(set) + 1
<1>1. /\ UNCHANGED <<grammar, stage>> /\ set' = Append(set, K) /\ allConfig' = Append(allConfig, C)
      /\ stack' = Append(Marked(it), EnterGoto(N, C)) /\ K \notin ToSet(set)
  BY DEF GotoNew
<1>2. IsGrammar(grammar) /\ StatesOK /\ CallsOK
  BY DEF AutomatonOK
<1>3. Call = stack[Len(stack)] /\ Len(stack) \in DOMAIN stack /\ Call.state \in DOMAIN set
  BY <1>2, MarkedFacts DEF CallsOK
<1>4. allConfig[Call.state] \in SUBSET ItemsOf(grammar)
  BY <1>2, <1>3 DEF StatesOK
<1>5. K \in SUBSET ItemsOf(grammar) /\ (\A x \in K : x.dot > 0) /\ C \in SUBSET ItemsOf(grammar)
  BY <1>2, <1>4, MovedFacts, ClosureFacts DEF Goto
<1> HIDE DEF K, C
<1>6. /\ N \in Nat /\ DOMAIN set = 1 .. Len(set) /\ Len(set) \in Nat
      /\ set' \in Seq(SUBSET ItemsOf(grammar)) /\ set' # <<>> /\ DOMAIN set' = 1 .. N
      /\ Len(set') = N /\ set'[N] = K /\ \A n \in DOMAIN set : set'[n] = set[n]
      /\ N # 1 /\ \A n \in DOMAIN set' : n \in DOMAIN set \/ n = N
      /\ \A n \in DOMAIN set : n \in DOMAIN set'
      /\ 1 \in DOMAIN set
  <2>1. set \in Seq(SUBSET ItemsOf(grammar)) /\ set # <<>>
    BY <1>2 DEF StatesOK
  <2>2. PICK n : n = Len(set)
    OBVIOUS
  <2>3. /\ n \in Nat /\ n >= 1 /\ DOMAIN set = 1 .. n /\ N = n + 1
        /\ set' \in Seq(SUBSET ItemsOf(grammar)) /\ Len(set') = n + 1 /\ DOMAIN set' = 1 .. n + 1
        /\ set'[n + 1] = K /\ \A i \in 1 .. n : set'[i] = set[i]
    BY <1>1, <1>5, <2>1, <2>2
  <2>4. \A i \in 1 .. n + 1 : i \in 1 .. n \/ i = n + 1
    BY <2>3
  <2>5. \A i \in 1 .. n : i \in 1 .. n + 1
    BY <2>3
  <2> HIDE DEF N
  <2>6. QED
    BY <2>2, <2>3, <2>4, <2>5
<1>7. /\ allConfig' \in Seq(SUBSET ItemsOf(grammar)) /\ Len(allConfig') = N
      /\ allConfig'[N] = C /\ \A n \in DOMAIN set : allConfig'[n] = allConfig[n]
  BY <1>1, <1>2, <1>5 DEF StatesOK
<1>8. \A n \in DOMAIN set : set[n] # K
  BY <1>1 DEF ToSet
<1> HIDE DEF N
<1>9. StatesOK'
  <2>1. \A n \in DOMAIN set' : /\ allConfig'[n] = Closure(grammar, set'[n])
                               /\ n # 1 => \A x \in set'[n] : x.dot > 0
    BY <1>2, <1>5, <1>6, <1>7 DEF StatesOK, C
  <2>2. \A n, m \in DOMAIN set' : set'[m] = set'[n] => m = n
    BY <1>2, <1>6, <1>8 DEF StatesOK
  <2>3. QED
    BY <1>1, <1>2, <1>6, <1>7, <2>1, <2>2 DEF StatesOK
<1> DEFINE left == {j \in C : ~Completed(grammar, j)}
           frame == [state |-> N, left |-> left]
<1>10. frame \in Frames /\ EnterGoto(N, C) = frame /\ frame.state = N /\ frame.left = left
  BY <1>5, <1>6 DEF Frames, EnterGoto
<1> HIDE DEF frame
<1>11. /\ stack' \in Seq(Frames) /\ DOMAIN stack' = 1 .. Len(stack) + 1 /\ Len(stack) \in Nat
       /\ stack'[Len(stack) + 1] = frame /\ DOMAIN stack = 1 .. Len(stack)
       /\ \A i \in DOMAIN stack : stack'[i] = Marked(it)[i]
  BY <1>1, <1>2, <1>10, MarkedFacts DEF CallsOK
<1>12. /\ \A i \in DOMAIN stack : i \in DOMAIN stack'
       /\ \A i \in DOMAIN stack' : i \in DOMAIN stack \/ i = Len(stack) + 1
       /\ Len(stack) + 1 \in DOMAIN stack'
  BY <1>11
<1>13. ASSUME NEW i \in DOMAIN stack'
       PROVE  /\ stack'[i].state \in DOMAIN set'
              /\ \A j \in stack'[i].left : j \in allConfig'[stack'[i].state] /\ ~Completed(grammar, j)
  <2>1. CASE i = Len(stack) + 1
    BY <2>1, <1>6, <1>7, <1>10, <1>11
  <2>2. CASE i \in DOMAIN stack
    <3>1. stack'[i].state = stack[i].state
      BY <2>2, <1>11, MarkedFacts
    <3>2. \A j \in stack'[i].left : j \in stack[i].left
      <4>1. CASE i = Len(stack)
        BY <2>2, <1>11, <4>1, MarkedFacts
      <4>2. CASE i # Len(stack)
        BY <2>2, <1>11, <4>2, MarkedFacts
      <4>3. QED
        BY <4>1, <4>2
    <3>3. /\ stack[i].state \in DOMAIN set
          /\ \A j \in stack[i].left : j \in allConfig[stack[i].state] /\ ~Completed(grammar, j)
      BY <2>2, <1>2 DEF CallsOK
    <3>4. stack[i].state \in DOMAIN set'
      BY <3>3, <1>6
    <3>5. QED
      BY <3>1, <3>2, <3>3, <3>4, <1>7
  <2>3. QED
    BY <2>1, <2>2, <1>12
<1>14. \A m \in DOMAIN set : set[m] \in ToSet(set')
  <2> TAKE m \in DOMAIN set
  <2>1. m \in DOMAIN set' /\ set'[m] = set[m]
    BY <1>6
  <2>2. QED
    BY <2>1 DEF ToSet
<1>15. K \in ToSet(set')
  BY <1>6 DEF ToSet
<1>16. ASSUME NEW n \in DOMAIN set', NEW j \in allConfig'[n] PROVE MoveBuilt(n, j)'
  <2>1. CASE n = N
    <3>1. Completed(grammar, j) \/ j \in left
      BY <2>1, <1>7
    <3>2. QED
      BY <2>1, <3>1, <1>1, <1>10, <1>11, <1>12 DEF MoveBuilt
  <2>2. CASE n \in DOMAIN set
    <3>1. j \in allConfig[n] /\ MoveBuilt(n, j)
      BY <2>2, <1>2, <1>7 DEF CallsOK
    <3>2. ASSUME NEW i \in DOMAIN stack, stack[i].state = n, j \in stack[i].left
          PROVE  MoveBuilt(n, j)'
      <4>1. CASE j \in stack'[i].left
        BY <4>1, <3>2, <1>11, <1>12, MarkedFacts DEF MoveBuilt
      <4>2. CASE j \notin stack'[i].left
        <5>1. i = Len(stack) /\ Call = stack[i]
          BY <4>2, <3>2, <1>11, MarkedFacts
        <5>2. OnSymb(grammar, j) = OnSymb(grammar, it)
          BY <4>2, <3>2, <5>1, <1>11, MarkedFacts
        <5>3. K = Moved(grammar, allConfig'[n], OnSymb(grammar, j))
          BY <5>1, <5>2, <3>2, <2>2, <1>7 DEF Goto, K
        <5>4. QED
          BY <5>3, <1>1, <1>15 DEF MoveBuilt
      <4>3. QED
        BY <4>1, <4>2
    <3>3. Moved(grammar, allConfig[n], OnSymb(grammar, j)) \in ToSet(set) => MoveBuilt(n, j)'
      <4>1. SUFFICES ASSUME Moved(grammar, allConfig[n], OnSymb(grammar, j)) \in ToSet(set)
                     PROVE  MoveBuilt(n, j)'
        OBVIOUS
      <4>2. PICK m \in DOMAIN set : set[m] = Moved(grammar, allConfig[n], OnSymb(grammar, j))
        BY <4>1 DEF ToSet
      <4>3. Moved(grammar, allConfig'[n], OnSymb(grammar, j)) \in ToSet(set')
        BY <4>2, <2>2, <1>7, <1>14
      <4>4. QED
        BY <4>3, <1>1 DEF MoveBuilt
    <3>4. Completed(grammar, j) => MoveBuilt(n, j)'
      BY <1>1 DEF MoveBuilt
    <3>5. QED
      BY <3>1, <3>2, <3>3, <3>4 DEF MoveBuilt
  <2>3. QED
    BY <2>1, <2>2, <1>6
<1>17. Frames' = Frames
  BY <1>1 DEF Frames
<1>18. CallsOK'
  BY <1>1, <1>11, <1>13, <1>16, <1>17 DEF CallsOK
<1>19. QED
  BY <1>1, <1>9, <1>18 DEF AutomatonOK, Building

LEMMA SweepsKeepAutomaton ==
  ASSUME AutomatonOK, UNCHANGED <<grammar, automaton>>,
         stage' \in {"states", "sweeps", "done"}, stage' # "states" => stack = <<>>
  PROVE  AutomatonOK'
BY DEF AutomatonOK, automaton, StatesOK, CallsOK, MoveBuilt, Frames

LEMMA AutomatonStep ==
  ASSUME AutomatonOK, [BuildNext]_buildVars
  PROVE  AutomatonOK'
<1>1. ASSUME Building, NEW it \in Call.left, GotoFound(it) \/ GotoNew(it) PROVE AutomatonOK'
  BY <1>1, GotoFoundOK, GotoNewOK
<1>2. CASE GotoReturns
  BY <1>2, GotoReturnsOK
<1>3. CASE Link
  BY <1>3, SweepsKeepAutomaton DEF Link
<1>4. ASSUME NEW p \in Places, Visit(p) PROVE AutomatonOK'
  BY <1>4, SweepsKeepAutomaton DEF Visit, AutomatonOK
<1>5. CASE EndSweep
  BY <1>5, SweepsKeepAutomaton DEF EndSweep, AutomatonOK
<1>6. CASE UNCHANGED buildVars
  BY <1>6, SweepsKeepAutomaton DEF buildVars, AutomatonOK
<1>7. QED
  BY <1>1, <1>2, <1>3, <1>4, <1>5, <1>6 DEF BuildNext


-------------------------------------------------------------------------------
(* The sweeps over the follow sets. *)

Configurations == {At(p) : p \in Places}

\* A family of sets that has what the closures generate and passes it on
\* along the links.
Solves(z) ==
  \A c \in Configurations :
    /\ Generated(grammar, firstSet.empty, firstSet.first, c) \subseteq z[c]
    /\ \A d \in Forward(grammar, firstSet.empty, c) : z[c] \subseteq z[d]

LinksOK ==
  /\ DOMAIN forward = Configurations /\ DOMAIN follow = Configurations
  /\ \A c \in Configurations : /\ forward[c] = Forward(grammar, firstSet.empty, c)
                               /\ forward[c] \subseteq Configurations

FollowOK ==
  /\ \A c \in Configurations :
       /\ Generated(grammar, firstSet.empty, firstSet.first, c) \subseteq follow[c]
       /\ c[2].rule = 1 => follow[c] \subseteq {EOI}
  /\ \A c \in Configurations \cap completed : \A d \in forward[c] : follow[c] \subseteq follow[d]
  /\ \A z : Solves(z) => \A c \in Configurations : follow[c] \subseteq z[c]

SweepOK ==
  /\ stage = "states" => completed = {} /\ cursor = FirstPlace /\ ~changed
  /\ stage # "states" => LinksOK /\ FollowOK
  /\ changed \in BOOLEAN
  /\ ~changed => \A p \in Places : Behind(p, cursor) \/ At(p) \in completed
  /\ stage = "done" => Configurations \subseteq completed

LEMMA PlaceFacts ==
  ASSUME AutomatonOK, NEW p \in Places
  PROVE  /\ p = <<p[1], p[2]>> /\ p[1] \in DOMAIN set /\ p[1] \in Nat /\ p[1] > 0
         /\ p[2] \in allConfig[p[1]] /\ p[2] \in ItemsOf(grammar)
         /\ p[2].rule \in Nat /\ p[2].dot \in Nat
         /\ p[2] = [rule |-> p[2].rule, dot |-> p[2].dot]
         /\ Behind(p, FirstPlace)
         /\ At(p) = <<set[p[1]], p[2]>>
<1>1. PICK n \in DOMAIN set : p \in {n} \X allConfig[n]
  BY DEF Places
<1>2. p = <<p[1], p[2]>> /\ p[1] \in DOMAIN set /\ p[2] \in allConfig[p[1]]
  BY <1>1
<1>3. set \in Seq(SUBSET ItemsOf(grammar)) /\ allConfig[p[1]] \in SUBSET ItemsOf(grammar)
  BY <1>2 DEF AutomatonOK, StatesOK
<1>4. p[1] \in Nat /\ p[1] > 0
  BY <1>2, <1>3
<1>5. p[2] \in ItemsOf(grammar)
  BY <1>2, <1>3
<1>6. /\ p[2].rule \in Nat /\ p[2].dot \in Nat
      /\ p[2] = [rule |-> p[2].rule, dot |-> p[2].dot]
  BY <1>5, ItemFacts DEF AutomatonOK
<1>7. Behind(p, FirstPlace)
  BY <1>4 DEF Behind, FirstPlace
<1>8. QED
  BY <1>2, <1>4, <1>5, <1>6, <1>7 DEF At

\* A configuration is an item of the closure of its state.
LEMMA ConfigurationFacts ==
  ASSUME AutomatonOK
  PROVE  /\ \A c \in Configurations :
              /\ c = <<c[1], c[2]>> /\ c[1] \in ToSet(set) /\ c[1] \in SUBSET ItemsOf(grammar)
              /\ c[2] \in Closure(grammar, c[1]) /\ c[2] \in ItemsOf(grammar)
         /\ \A K \in ToSet(set) : \A it \in Closure(grammar, K) : <<K, it>> \in Configurations
<1>1. ASSUME NEW c \in Configurations
      PROVE  /\ c = <<c[1], c[2]>> /\ c[1] \in ToSet(set) /\ c[1] \in SUBSET ItemsOf(grammar)
             /\ c[2] \in Closure(grammar, c[1]) /\ c[2] \in ItemsOf(grammar)
  <2>1. PICK p \in Places : c = At(p)
    BY DEF Configurations
  <2>2. c = <<set[p[1]], p[2]>> /\ p[1] \in DOMAIN set /\ p[2] \in allConfig[p[1]] /\ p[2] \in ItemsOf(grammar)
    BY <2>1, PlaceFacts
  <2>3. set[p[1]] \in SUBSET ItemsOf(grammar) /\ allConfig[p[1]] = Closure(grammar, set[p[1]])
    BY <2>2 DEF AutomatonOK, StatesOK
  <2>4. set[p[1]] \in ToSet(set)
    BY <2>2 DEF ToSet
  <2>5. QED
    BY <2>2, <2>3, <2>4
<1>2. ASSUME NEW K \in ToSet(set), NEW it \in Closure(grammar, K)
      PROVE  <<K, it>> \in Configurations
  <2>1. PICK n \in DOMAIN set : set[n] = K
    BY DEF ToSet
  <2>2. it \in allConfig[n]
    BY <2>1 DEF AutomatonOK, StatesOK
  <2>3. <<n, it>> \in Places /\ At(<<n, it>>) = <<K, it>>
    BY <2>1, <2>2 DEF Places, At
  <2>4. QED
    BY <2>3 DEF Configurations
<1>3. QED
  BY <1>1, <1>2

\* When no call runs, every state moves to states.
LEMMA AutomatonClosed ==
  ASSUME AutomatonOK, stack = <<>>, NEW K \in ToSet(set), NEW it \in Closure(grammar, K),
         ~Completed(grammar, it)
  PROVE  Moved(grammar, Closure(grammar, K), OnSymb(grammar, it)) \in ToSet(set)
<1>1. PICK n \in DOMAIN set : set[n] = K
  BY DEF ToSet
<1>2. allConfig[n] = Closure(grammar, K) /\ MoveBuilt(n, it)
  BY <1>1 DEF AutomatonOK, StatesOK, CallsOK
<1>3. DOMAIN stack = {}
  OBVIOUS
<1>4. QED
  BY <1>2, <1>3 DEF MoveBuilt

\* Links stay among the configurations, and none leads into rule 1 but the
\* move of its own item.
LEMMA ForwardFacts ==
  ASSUME AutomatonOK, stack = <<>>, NEW c \in Configurations,
         NEW d \in Forward(grammar, firstSet.empty, c)
  PROVE  d \in Configurations /\ (d[2].rule = 1 => c[2].rule = 1)
<1>0. IsGrammar(grammar)
  BY DEF AutomatonOK
<1>1. PICK K, it : K = c[1] /\ it = c[2]
  OBVIOUS
<1>2. /\ K \in ToSet(set) /\ K \in SUBSET ItemsOf(grammar) /\ it \in Closure(grammar, K)
      /\ it \in ItemsOf(grammar)
  BY <1>1, ConfigurationFacts
<1>3. ~Completed(grammar, it)
  BY <1>1 DEF Forward
<1>4. PICK M, C : C = Closure(grammar, K) /\ M = Moved(grammar, C, OnSymb(grammar, it))
  OBVIOUS
<1>5. \/ d = <<M, Advance(it)>>
      \/ \E r \in RulesOf(grammar, OnSymb(grammar, it)) : d = <<K, [rule |-> r, dot |-> 0]>>
  BY <1>1, <1>3, <1>4 DEF Forward
<1>6. CASE d = <<M, Advance(it)>>
  <2>1. M \in ToSet(set)
    BY <1>2, <1>3, <1>4, AutomatonClosed
  <2>2. Advance(it) \in M
    BY <1>2, <1>3, <1>4 DEF Moved
  <2>3. M \in SUBSET ItemsOf(grammar)
    BY <1>0, <1>2, <1>4, ClosureFacts, MovedFacts
  <2>4. Advance(it) \in Closure(grammar, M)
    BY <1>0, <2>2, <2>3, ClosureFacts
  <2>5. Advance(it) = [rule |-> it.rule, dot |-> it.dot + 1]
    BY <1>0, <1>2, <1>3, AdvanceFacts
  <2>6. QED
    BY <1>1, <1>6, <2>1, <2>4, <2>5, ConfigurationFacts
<1>7. ASSUME NEW r \in RulesOf(grammar, OnSymb(grammar, it)), d = <<K, [rule |-> r, dot |-> 0]>>
      PROVE  d \in Configurations /\ (d[2].rule = 1 => c[2].rule = 1)
  <2>1. [rule |-> r, dot |-> 0] \in Closure(grammar, K)
    BY <1>0, <1>2, <1>3, <1>7, ClosureFacts
  <2>2. d \in Configurations
    BY <1>2, <1>7, <2>1, ConfigurationFacts
  <2>3. OnSymb(grammar, it) # Start
    BY <1>0, <1>2, <1>3, ItemFacts
  <2>4. r # 1
    BY <1>0, <2>3, StartFacts DEF RulesOf
  <2>5. QED
    BY <1>7, <2>2, <2>4
<1>8. QED
  BY <1>5, <1>6, <1>7

LEMMA GeneratedStart ==
  ASSUME AutomatonOK, NEW c \in Configurations, c[2].rule = 1
  PROVE  Generated(grammar, firstSet.empty, firstSet.first, c) \subseteq {EOI}
<1>0. IsGrammar(grammar) /\ grammar.rules[1].head = Start
  BY StartFacts DEF AutomatonOK
<1>1. c[1] \in SUBSET ItemsOf(grammar)
  BY ConfigurationFacts
<1>2. \A it \in Closure(grammar, c[1]) : Completed(grammar, it) \/ OnSymb(grammar, it) # grammar.rules[c[2].rule].head
  BY <1>0, <1>1, ClosureFacts, ItemFacts
<1>3. {it \in Closure(grammar, c[1]) : /\ ~Completed(grammar, it)
                           /\ OnSymb(grammar, it) = grammar.rules[c[2].rule].head} = {}
  BY <1>2
<1>4. QED
  BY <1>3 DEF Generated


LEMMA SweepInit == ASSUME BuildInit PROVE SweepOK
<1>1. AutomatonOK
  BY AutomatonInit
<1>2. \A p \in Places : Behind(p, FirstPlace)
  BY <1>1, PlaceFacts
<1>3. QED
  BY <1>2 DEF BuildInit, SweepOK

\* While the states are built there is nothing to sweep over.
LEMMA BuildingKeepsSweep ==
  ASSUME AutomatonOK', SweepOK, stage = "states", UNCHANGED <<stage, lookaheads>>
  PROVE  SweepOK'
<1>1. UNCHANGED <<stage, forward, follow, completed, cursor, changed>>
  BY DEF lookaheads
<1>2. ASSUME NEW p \in Places' PROVE Behind(p, FirstPlace)
  <2>1. PICK n \in DOMAIN set' : p \in {n} \X allConfig'[n]
    BY DEF Places
  <2>2. set' \in Seq(SUBSET ItemsOf(grammar'))
    BY DEF AutomatonOK, StatesOK
  <2>3. n \in Nat /\ n > 0 /\ p[1] = n
    BY <2>1, <2>2
  <2>4. QED
    BY <2>3 DEF Behind, FirstPlace
<1>4. cursor' = FirstPlace
  BY <1>1 DEF SweepOK
<1>5. \A p \in Places' : Behind(p, cursor')
  BY <1>2, <1>4
<1>6. QED
  BY <1>1, <1>5 DEF SweepOK, Behind, Before, FirstPlace

LEMMA LinkKeepsSweep ==
  ASSUME AutomatonOK, SweepOK, Link
  PROVE  SweepOK'
<1> DEFINE g == grammar
           e == firstSet.empty
           Gen(c) == Generated(g, e, firstSet.first, c)
<1>1. /\ stage = "states" /\ stage' = "sweeps" /\ stack = <<>>
      /\ forward' = [c \in Configurations |-> Forward(g, e, c)]
      /\ follow' = [c \in Configurations |-> Gen(c)]
      /\ UNCHANGED <<grammar, firstSet, set, allConfig, stack, completed, cursor, changed>>
  BY DEF Link, Configurations, automaton
<1>2. Places' = Places /\ Configurations' = Configurations
  BY <1>1 DEF Places, Configurations, At
<1>3. completed = {} /\ cursor = FirstPlace /\ changed \in BOOLEAN
  BY <1>1 DEF SweepOK
<1>4. LinksOK'
  <2>1. \A c \in Configurations : Forward(g, e, c) \subseteq Configurations
    BY <1>1, ForwardFacts
  <2>2. QED
    BY <1>1, <1>2, <2>1 DEF LinksOK
<1>5. FollowOK'
  <2>1. \A c \in Configurations : c[2].rule = 1 => Gen(c) \subseteq {EOI}
    BY GeneratedStart
  <2>2. \A z : Solves(z)' => \A c \in Configurations : Gen(c) \subseteq z[c]
    BY <1>1, <1>2 DEF Solves
  <2>3. \A c \in Configurations : follow'[c] = Gen(c)
    BY <1>1
  <2> HIDE DEF Gen
  <2>4. /\ \A c \in Configurations : /\ Gen(c) \subseteq follow'[c]
                                     /\ c[2].rule = 1 => follow'[c] \subseteq {EOI}
        /\ \A z : Solves(z)' => \A c \in Configurations : follow'[c] \subseteq z[c]
        /\ completed' = {}
    BY <1>1, <1>3, <2>1, <2>2, <2>3
  <2>5. QED
    BY <1>1, <1>2, <2>4 DEF FollowOK, Gen
<1>6. \A p \in Places : Behind(p, FirstPlace)
  BY PlaceFacts
<1>7. QED
  BY <1>1, <1>2, <1>3, <1>4, <1>5, <1>6 DEF SweepOK, Behind, Before, FirstPlace

\* Of two places one is behind the other.
LEMMA BehindTotal ==
  ASSUME AutomatonOK, NEW p \in Places, NEW q \in Places, ~Behind(p, q), ~Behind(q, p)
  PROVE  p = q
<1>1. PICK n, m : n = p[1] /\ m = q[1]
  OBVIOUS
<1>2. PICK i, j : i = p[2] /\ j = q[2]
  OBVIOUS
<1>3. /\ n \in Nat /\ m \in Nat /\ i.rule \in Nat /\ i.dot \in Nat /\ j.rule \in Nat /\ j.dot \in Nat
      /\ i = [rule |-> i.rule, dot |-> i.dot] /\ j = [rule |-> j.rule, dot |-> j.dot]
      /\ p = <<n, i>> /\ q = <<m, j>>
  BY <1>1, <1>2, PlaceFacts
<1>4. ~(n > m) /\ ~(m > n) /\ ~(n = m /\ Before(j, i)) /\ ~(m = n /\ Before(i, j))
  BY <1>1, <1>2 DEF Behind
<1>5. n = m
  BY <1>3, <1>4
<1>6. i.rule = j.rule /\ i.dot = j.dot
  BY <1>3, <1>4, <1>5 DEF Before
<1>7. QED
  BY <1>3, <1>5, <1>6

LEMMA VisitKeepsSweep ==
  ASSUME AutomatonOK, SweepOK, NEW p \in Places, Visit(p)
  PROVE  SweepOK'
<1> DEFINE a == At(p)
           again == {d \in forward[a] : SeemsChanged(follow[a], follow[d])}
<1>1. /\ stage = "sweeps" /\ stage' = "sweeps"
      /\ follow' = [d \in DOMAIN follow |->
                      IF d \in forward[a] THEN follow[d] \cup follow[a] ELSE follow[d]]
      /\ completed' = (completed \ again) \cup {a}
      /\ changed' = (changed \/ again # {})
      /\ cursor' = p /\ IsPending(p)
      /\ \A q \in Places : IsPending(q) => ~Behind(p, q)
      /\ UNCHANGED <<grammar, firstSet, set, allConfig, stack, forward>>
  BY DEF Visit, automaton
<1>2. Places' = Places /\ Configurations' = Configurations
  BY <1>1 DEF Places, Configurations, At
<1>3. LinksOK /\ FollowOK /\ a \in Configurations
  BY <1>1 DEF SweepOK, Configurations
<1> HIDE DEF a, again
<1>4. \A d \in Configurations :
        /\ follow'[d] = IF d \in forward[a] THEN follow[d] \cup follow[a] ELSE follow[d]
        /\ follow[d] \subseteq follow'[d]
  BY <1>1, <1>3 DEF LinksOK
<1>5. follow'[a] = follow[a]
  BY <1>3, <1>4
<1>6. LinksOK'
  BY <1>1, <1>2, <1>3 DEF LinksOK
<1>7. FollowOK'
  <2>1. ASSUME NEW c \in Configurations, c[2].rule = 1
        PROVE  follow'[c] \subseteq {EOI}
    <3>1. CASE c \in forward[a]
      <4>1. stack = <<>>
        BY <1>1 DEF AutomatonOK
      <4>2. a[2].rule = 1
        BY <1>3, <2>1, <3>1, <4>1, ForwardFacts DEF LinksOK
      <4>3. follow[c] \subseteq {EOI} /\ follow[a] \subseteq {EOI}
        BY <1>3, <2>1, <4>2 DEF FollowOK
      <4>4. follow'[c] = follow[c] \cup follow[a]
        BY <1>4, <3>1
      <4>5. QED
        BY <4>3, <4>4
    <3>2. CASE c \notin forward[a]
      BY <1>3, <1>4, <2>1, <3>2 DEF FollowOK
    <3>3. QED
      BY <3>1, <3>2
  <2>2. ASSUME NEW c \in Configurations \cap completed', NEW d \in forward[c]
        PROVE  follow'[c] \subseteq follow'[d]
    <3>0. d \in Configurations
      BY <1>3 DEF LinksOK
    <3>1. CASE c = a
      BY <3>0, <3>1, <1>4, <1>5
    <3>2. CASE c # a
      <4>1. c \in completed /\ c \notin again
        BY <1>1, <3>2
      <4>2. follow[c] \subseteq follow[d]
        BY <1>3, <4>1 DEF FollowOK
      <4>3. follow'[c] = follow[c]
        BY <1>4, <4>1 DEF SeemsChanged, again
      <4>4. QED
        BY <3>0, <4>2, <4>3, <1>4
    <3>3. QED
      BY <3>1, <3>2
  <2>3. ASSUME NEW z, Solves(z), NEW c \in Configurations PROVE follow'[c] \subseteq z[c]
    <3>1. follow[c] \subseteq z[c] /\ follow[a] \subseteq z[a]
      BY <1>3, <2>3 DEF FollowOK
    <3>2. c \in forward[a] => z[a] \subseteq z[c]
      BY <1>3, <2>3 DEF Solves, LinksOK
    <3>3. QED
      BY <3>1, <3>2, <1>4
  <2>4. \A z : Solves(z)' => Solves(z)
    BY <1>1, <1>2 DEF Solves
  <2>5. \A c \in Configurations : Generated(grammar, firstSet.empty, firstSet.first, c) \subseteq follow'[c]
    BY <1>3, <1>4 DEF FollowOK
  <2>6. QED
    BY <1>1, <1>2, <2>1, <2>2, <2>3, <2>4, <2>5 DEF FollowOK
<1>8. ASSUME ~changed', NEW q \in Places
      PROVE  Behind(q, p) \/ At(q) \in completed'
  <2>1. ~changed /\ again = {} /\ completed \subseteq completed' /\ a \in completed'
    BY <1>1, <1>8
  <2>2. Behind(q, cursor) \/ At(q) \in completed
    BY <2>1 DEF SweepOK
  <2>3. CASE IsPending(q) /\ ~Behind(q, p)
    <3>1. q = p
      BY <1>1, <2>3, BehindTotal
    <3>2. QED
      BY <2>1, <3>1 DEF a
  <2>4. QED
    BY <2>1, <2>2, <2>3 DEF IsPending
<1>9. changed' \in BOOLEAN
  BY <1>1
<1>10. QED
  BY <1>1, <1>2, <1>6, <1>7, <1>8, <1>9 DEF SweepOK, Behind, Before, At

LEMMA EndKeepsSweep ==
  ASSUME AutomatonOK, SweepOK, EndSweep
  PROVE  SweepOK'
<1>1. /\ stage = "sweeps" /\ \A p \in Places : ~IsPending(p)
      /\ cursor' = FirstPlace /\ changed' = FALSE
      /\ stage' = IF changed THEN "sweeps" ELSE "done"
      /\ UNCHANGED <<grammar, firstSet, set, allConfig, stack, forward, follow, completed>>
  BY DEF EndSweep, automaton
<1>2. Places' = Places /\ Configurations' = Configurations
  BY <1>1 DEF Places, Configurations, At
<1>3. LinksOK /\ FollowOK
  BY <1>1 DEF SweepOK
<1>4. LinksOK' /\ FollowOK'
  BY <1>1, <1>2, <1>3 DEF LinksOK, FollowOK, Solves
<1>5. \A p \in Places : Behind(p, FirstPlace)
  BY PlaceFacts
<1>6. ~changed => Configurations \subseteq completed
  BY <1>1 DEF SweepOK, IsPending, Configurations
<1>7. QED
  BY <1>1, <1>2, <1>4, <1>5, <1>6 DEF SweepOK, Behind, Before, FirstPlace

LEMMA SweepStep ==
  ASSUME AutomatonOK, SweepOK, [BuildNext]_buildVars
  PROVE  SweepOK'
<1>0. AutomatonOK'
  BY AutomatonStep
<1>1. ASSUME Building, NEW it \in Call.left, GotoFound(it) \/ GotoNew(it) PROVE SweepOK'
  BY <1>0, <1>1, BuildingKeepsSweep DEF GotoFound, GotoNew, Building
<1>2. CASE GotoReturns
  BY <1>0, <1>2, BuildingKeepsSweep DEF GotoReturns, Building
<1>3. CASE Link
  BY <1>3, LinkKeepsSweep
<1>4. ASSUME NEW p \in Places, Visit(p) PROVE SweepOK'
  BY <1>4, VisitKeepsSweep
<1>5. CASE EndSweep
  BY <1>5, EndKeepsSweep
<1>6. CASE UNCHANGED buildVars
  BY <1>6 DEF buildVars, automaton, lookaheads, SweepOK, LinksOK, FollowOK, Solves, Configurations,
              Places, At, Behind, Before, FirstPlace
<1>7. QED
  BY <1>1, <1>2, <1>3, <1>4, <1>5, <1>6 DEF BuildNext

\* The inductive invariant of the construction: the automaton while its calls
\* run, the links and the follow sets while they are swept over.
BuildOK == AutomatonOK /\ SweepOK

\* Every step of Parser_Create_LALR_State keeps it.
THEOREM BuildInvariant == BuildSpec => []BuildOK
<1>1. BuildInit => BuildOK
  BY AutomatonInit, SweepInit DEF BuildOK
<1>2. BuildOK /\ [BuildNext]_buildVars => BuildOK'
  BY AutomatonStep, SweepStep DEF BuildOK
<1>3. QED
  BY <1>1, <1>2, PTL DEF BuildSpec

\* The follow sets solve the equations of the links, and are the least that do.
FollowIsLeast ==
  stage = "done" => Solves(follow) /\ \A z : Solves(z) => \A c \in Configurations : follow[c] \subseteq z[c]

\* __build_propagation_links ends with the least solution: no lookahead is
\* missing, and none is there that no link brought, although a configuration
\* can be taken up again for nothing and the order of the sweeps is arbitrary
\* to the equations.
THEOREM LeastFollow == BuildSpec => []FollowIsLeast
<1>1. BuildOK => FollowIsLeast
  <2> SUFFICES ASSUME BuildOK, stage = "done" PROVE FollowIsLeast
    BY DEF FollowIsLeast
  <2>1. LinksOK /\ FollowOK /\ Configurations \subseteq completed
    BY DEF BuildOK, SweepOK
  <2>2. \A c \in Configurations : c \in Configurations \cap completed /\ forward[c] = Forward(grammar, firstSet.empty, c)
    BY <2>1 DEF LinksOK
  <2>3. Solves(follow)
    BY <2>1, <2>2 DEF FollowOK, Solves
  <2>4. QED
    BY <2>1, <2>3 DEF FollowOK, FollowIsLeast
<1>2. QED
  BY <1>1, BuildInvariant, PTL


-------------------------------------------------------------------------------
(* Configurations in table order. *)

LEMMA ItemsFinite ==
  ASSUME NEW g, IsGrammar(g), NEW items \in SUBSET ItemsOf(g)
  PROVE  IsFiniteSet(items)
<1> DEFINE D == DOMAIN g.rules
           Row(r) == {[rule |-> r, dot |-> d] : d \in 0 .. Len(g.rules[r].body)}
           Rows == {Row(r) : r \in D}
<1>1. IsFiniteSet(D)
  <2>1. D = 1 .. Len(g.rules) /\ Len(g.rules) \in Nat
    BY DEF IsGrammar
  <2>2. QED
    BY <2>1, FS_Interval
<1>2. ASSUME NEW r \in D PROVE IsFiniteSet(Row(r))
  <2>1. PICK n : n = Len(g.rules[r].body)
    OBVIOUS
  <2>2. n \in Nat
    BY <2>1, LenProperties DEF IsGrammar
  <2> DEFINE B == 0 .. n
             f == [d \in B |-> [rule |-> r, dot |-> d]]
             T == {[rule |-> r, dot |-> d] : d \in B}
  <2>3. IsFiniteSet(B)
    BY <2>2, FS_Interval
  <2>4. f \in Surjection(B, T)
    BY DEF Surjection
  <2> HIDE DEF f, B, T
  <2>5. IsFiniteSet(T)
    BY <2>3, <2>4, FS_Surjection
  <2>6. QED
    BY <2>1, <2>5 DEF T, B
<1> HIDE DEF Row
<1>3. IsFiniteSet(Rows)
  <2> DEFINE h == [r \in D |-> Row(r)]
  <2>1. h \in Surjection(D, Rows)
    BY DEF Surjection
  <2> HIDE DEF h, D, Rows
  <2>2. QED
    BY <1>1, <2>1, FS_Surjection
<1>4. IsFiniteSet(UNION Rows)
  <2>1. \A T \in Rows : IsFiniteSet(T)
    BY <1>2
  <2> HIDE DEF Rows
  <2>2. QED
    BY <1>3, <2>1, FS_UNION
<1>5. ItemsOf(g) = UNION Rows
  BY DEF ItemsOf, Row
<1>6. QED
  BY <1>4, <1>5, FS_Subset

LEMMA RankOfItem ==
  ASSUME NEW g, IsGrammar(g), NEW items \in SUBSET ItemsOf(g), NEW m \in 1 .. Cardinality(items)
  PROVE  \E it \in items : Cardinality({j \in items : Before(j, it)}) = m - 1
<1> DEFINE R == {p \in items \X items : Before(p[1], p[2])}
<1>1. IsFiniteSet(items)
  BY ItemsFinite
<1>2. \A i, j \in items : <<i, j>> \in R <=> Before(i, j)
  OBVIOUS
<1>3. \A i \in items : i.rule \in Nat /\ i.dot \in Nat /\ i = [rule |-> i.rule, dot |-> i.dot]
  BY ItemFacts
<1>4. /\ \A i \in items : ~Before(i, i)
      /\ \A i, j, k \in items : Before(i, j) /\ Before(j, k) => Before(i, k)
  BY <1>3 DEF Before
<1>5. ASSUME NEW i \in items, NEW j \in items, i # j PROVE Before(i, j) \/ Before(j, i)
  <2>1. i.rule # j.rule \/ i.dot # j.dot
    BY <1>3, <1>5
  <2>2. QED
    BY <1>3, <2>1 DEF Before
<1>6. StrictlyOrders(R, items)
  BY <1>2, <1>4, <1>5 DEF StrictlyOrders
<1>7. \A it \in items : Lower(R, items, it) = {j \in items : Before(j, it)}
  BY <1>2 DEF Lower
<1> HIDE DEF R
<1>8. \E it \in items : Cardinality(Lower(R, items, it)) = m - 1
  BY <1>1, <1>6, OrderRank
<1>9. QED
  BY <1>7, <1>8

\* The sorted list is made of the configurations.
LEMMA SortedFacts ==
  ASSUME NEW g, IsGrammar(g), NEW items \in SUBSET ItemsOf(g)
  PROVE  /\ Sorted(items) \in Seq(items) /\ Cardinality(items) \in Nat
         /\ DOMAIN Sorted(items) = 1 .. Cardinality(items)
         /\ items # {} => Cardinality(items) > 0
<1>1. IsFiniteSet(items) /\ Cardinality(items) \in Nat
  BY ItemsFinite, FS_CardinalityType
<1> DEFINE n == Cardinality(items)
           Pick(m) == CHOOSE it \in items : Cardinality({j \in items : Before(j, it)}) = m - 1
<1>2. \A m \in 1 .. n : Pick(m) \in items
  <2> TAKE m \in 1 .. n
  <2>1. \E it \in items : Cardinality({j \in items : Before(j, it)}) = m - 1
    BY RankOfItem
  <2>2. QED
    BY <2>1
<1>3. Sorted(items) = [m \in 1 .. n |-> Pick(m)]
  BY DEF Sorted
<1>4. items # {} => n > 0
  BY <1>1, FS_EmptySet
<1> HIDE DEF Pick
<1>5. QED
  BY <1>1, <1>2, <1>3, <1>4

\* The configuration the shift keeps is one of those that move.
LEMMA ShiftFacts ==
  ASSUME NEW g, IsGrammar(g), NEW items \in SUBSET ItemsOf(g), NEW X \in MovesOn(g, items)
  PROVE  LET it == ShiftConfig(g, items, X)
         IN  it \in items /\ ~Completed(g, it) /\ OnSymb(g, it) = X
<1> DEFINE M == {it \in items : ~Completed(g, it) /\ OnSymb(g, it) = X}
<1>1. M \in SUBSET ItemsOf(g) /\ M # {}
  BY DEF MovesOn
<1>2. 1 \in 1 .. Cardinality(M)
  <2>1. Cardinality(M) \in Nat /\ Cardinality(M) > 0
    <3> HIDE DEF M
    <3> QED BY <1>1, SortedFacts
  <2>2. QED
    BY <2>1
<1>3. PICK it \in M : Cardinality({j \in M : Before(j, it)}) = 0
  <2>1. PICK m \in 1 .. Cardinality(M) : m = 1
    BY <1>2
  <2> HIDE DEF M
  <2>2. \E it \in M : Cardinality({j \in M : Before(j, it)}) = m - 1
    BY <1>1, RankOfItem
  <2>3. m - 1 = 0
    BY <2>1
  <2>4. QED
    BY <2>2, <2>3
<1>4. {j \in M : Before(j, it)} = {}
  <2> DEFINE L == {j \in M : Before(j, it)}
  <2>1. IsFiniteSet(L)
    <3>1. L \in SUBSET ItemsOf(g)
      BY <1>1
    <3>2. QED
      BY <3>1, ItemsFinite
  <2>2. QED
    BY <1>3, <2>1, FS_EmptySet
<1>5. /\ it \in items /\ ~Completed(g, it) /\ OnSymb(g, it) = X
      /\ \A j \in items : ~Completed(g, j) /\ OnSymb(g, j) = X => ~Before(j, it)
  BY <1>4
<1>6. QED
  BY <1>5 DEF ShiftConfig


-------------------------------------------------------------------------------
(* The list of actions of one entry. *)

IsAction(a) == a.type \in {"shift", "reduce", "accept"} /\ a.prec \in Nat
Assocs == {"nonassoc", "left", "right"}

LEMMA PlaceAction ==
  ASSUME NEW S, NEW list \in Seq(S), list # <<>>, NEW act \in S
  PROVE  /\ Head(list) \in S /\ Len(list) \in Nat /\ Len(list) > 0
         /\ Overwritten(list, act) \in Seq(S) /\ Len(Overwritten(list, act)) = Len(list)
         /\ Head(Overwritten(list, act)) = act
         /\ AfterHead(list, act) \in Seq(S) /\ Len(AfterHead(list, act)) = Len(list) + 1
         /\ Head(AfterHead(list, act)) = Head(list)
         /\ <<act>> \o list \in Seq(S) /\ Len(<<act>> \o list) = Len(list) + 1
         /\ Head(<<act>> \o list) = act
<1>1. /\ Head(list) \in S /\ Tail(list) \in Seq(S) /\ Len(list) \in Nat /\ Len(list) > 0
      /\ Len(Tail(list)) = Len(list) - 1
  OBVIOUS
<1>2. PICK h, tail, n : h = Head(list) /\ tail = Tail(list) /\ n = Len(list)
  OBVIOUS
<1>3. /\ <<act>> \o tail \in Seq(S) /\ Len(<<act>> \o tail) = n /\ Head(<<act>> \o tail) = act
  BY <1>1, <1>2
<1>4. <<h, act>> \in Seq(S) /\ Len(<<h, act>>) = 2
  BY <1>1, <1>2
<1>5. /\ <<h, act>> \o tail \in Seq(S) /\ Len(<<h, act>> \o tail) = n + 1
      /\ Head(<<h, act>> \o tail) = h
  BY <1>1, <1>2, <1>4
<1>6. /\ <<act>> \o list \in Seq(S) /\ Len(<<act>> \o list) = n + 1 /\ Head(<<act>> \o list) = act
  BY <1>1, <1>2
<1>7. QED
  BY <1>1, <1>2, <1>3, <1>5, <1>6 DEF Overwritten, AfterHead

LEMMA InsertFirst ==
  ASSUME NEW S, NEW act \in S, NEW assoc
  PROVE  /\ InsertAction(<<>>, act, assoc) \in Seq(S)
         /\ Head(InsertAction(<<>>, act, assoc)) = act
         /\ Len(InsertAction(<<>>, act, assoc)) = 1
BY DEF InsertAction

\* A reduction or an acceptance meets the head of the list.
Meets(list, new, act, assoc) ==
  LET h    == Head(list)
      same == Len(new) = Len(list)
      more == Len(new) = Len(list) + 1
  IN  /\ h.type = "accept" => Head(new) = h
      /\ h.type # "accept" /\ act.prec > h.prec => Head(new) = act /\ same
      /\ h.type # "accept" /\ act.prec < h.prec => Head(new) = h /\ same
      /\ h.type # "accept" /\ act.prec = h.prec =>
           /\ assoc = "nonassoc" => (IF h.type = "shift" THEN Head(new) = h ELSE Head(new) = act) /\ more
           /\ assoc = "left" =>
                /\ h.type = "shift" /\ act.type = "reduce" => Head(new) = act /\ same
                /\ h.type = "shift" /\ act.type # "reduce" => Head(new) = h
                /\ h.type = "reduce" => Head(new) = h
                /\ h.type = "reduce" /\ act.type = "reduce" => more
           /\ assoc = "right" =>
                /\ Head(new) = h
                /\ h.type = "shift" => same
                /\ h.type = "reduce" => more
      /\ same \/ more

LEMMA InsertFacts ==
  ASSUME NEW S, \A a \in S : IsAction(a), NEW list \in Seq(S), list # <<>>,
         NEW act \in S, act.type # "shift", NEW assoc \in Assocs
  PROVE  /\ InsertAction(list, act, assoc) \in Seq(S)
         /\ Meets(list, InsertAction(list, act, assoc), act, assoc)
<1>1. PICK h, n, new : h = Head(list) /\ n = Len(list) /\ new = InsertAction(list, act, assoc)
  OBVIOUS
<1>2. PICK over, behind, front :
        over = Overwritten(list, act) /\ behind = AfterHead(list, act) /\ front = <<act>> \o list
  OBVIOUS
<1>3. /\ h \in S /\ n \in Nat /\ n > 0
      /\ over \in Seq(S) /\ Len(over) = n /\ Head(over) = act
      /\ behind \in Seq(S) /\ Len(behind) = n + 1 /\ Head(behind) = h
      /\ front \in Seq(S) /\ Len(front) = n + 1 /\ Head(front) = act
  <2>1. Head(list) \in S /\ Len(list) \in Nat /\ Len(list) > 0
    BY PlaceAction
  <2>2. over \in Seq(S) /\ Len(over) = Len(list) /\ Head(over) = act
    <3>1. /\ Overwritten(list, act) \in Seq(S) /\ Len(Overwritten(list, act)) = Len(list)
          /\ Head(Overwritten(list, act)) = act
      BY PlaceAction
    <3>2. QED
      BY <1>2, <3>1
  <2>3. behind \in Seq(S) /\ Len(behind) = Len(list) + 1 /\ Head(behind) = Head(list)
    <3>1. /\ AfterHead(list, act) \in Seq(S) /\ Len(AfterHead(list, act)) = Len(list) + 1
          /\ Head(AfterHead(list, act)) = Head(list)
      BY PlaceAction
    <3>2. QED
      BY <1>2, <3>1
  <2>4. front \in Seq(S) /\ Len(front) = Len(list) + 1 /\ Head(front) = act
    BY <1>2, PlaceAction
  <2>5. QED
    BY <1>1, <2>1, <2>2, <2>3, <2>4
<1>4. IsAction(h) /\ IsAction(act)
  BY <1>3
<1>5. CASE h.type = "accept"
  <2>1. new = behind
    BY <1>1, <1>2, <1>5 DEF InsertAction
  <2>2. QED
    BY <1>1, <1>3, <1>5, <2>1 DEF Meets
<1>6. CASE h.type # "accept" /\ act.prec > h.prec
  <2>1. new = over
    BY <1>1, <1>2, <1>4, <1>6 DEF InsertAction, IsAction
  <2>2. QED
    BY <1>1, <1>3, <1>4, <1>6, <2>1 DEF Meets, IsAction
<1>7. CASE h.type # "accept" /\ act.prec < h.prec
  <2>1. new = list
    BY <1>1, <1>2, <1>4, <1>7 DEF InsertAction, IsAction
  <2>2. QED
    BY <1>1, <1>3, <1>4, <1>7, <2>1 DEF Meets, IsAction
<1>8. CASE h.type # "accept" /\ act.prec = h.prec
  <2>1. CASE assoc = "nonassoc"
    <3>1. new = IF h.type # "shift" THEN front ELSE behind
      BY <1>1, <1>2, <1>4, <1>8, <2>1 DEF InsertAction, IsAction
    <3>2. QED
      BY <1>1, <1>3, <1>4, <1>8, <2>1, <3>1 DEF Meets, IsAction
  <2>2. CASE assoc = "left"
    <3>1. /\ h.type = "shift" /\ act.type = "reduce" => new = over
          /\ h.type = "reduce" /\ act.type # "reduce" => new = list
          /\ h.type = "shift" /\ act.type # "reduce" => new = behind
          /\ h.type = "reduce" /\ act.type = "reduce" => new = behind
      BY <1>1, <1>2, <1>4, <1>8, <2>2 DEF InsertAction, IsAction
    <3>2. QED
      BY <1>1, <1>3, <1>4, <1>8, <2>2, <3>1 DEF Meets, IsAction
  <2>3. CASE assoc = "right"
    <3>1. /\ h.type = "shift" => new = list
          /\ h.type = "reduce" => new = behind
      BY <1>1, <1>2, <1>4, <1>8, <2>3 DEF InsertAction, IsAction
    <3>2. QED
      BY <1>1, <1>3, <1>4, <1>8, <2>3, <3>1 DEF Meets, IsAction
  <2>4. QED
    BY <2>1, <2>2, <2>3 DEF Assocs
<1>9. QED
  BY <1>4, <1>5, <1>6, <1>7, <1>8 DEF IsAction

\* The candidates of an entry: actions, of which the first may be a shift.
Contend(acts, S) ==
  /\ acts \in Seq(S) /\ \A a \in S : IsAction(a)
  /\ \A n \in DOMAIN acts : n > 1 => acts[n].type # "shift"

\* The lists the insertions leave, from none to the last.
Turns(kept, acts, assoc, S) ==
  /\ kept[0] = <<>>
  /\ \A n \in 1 .. Len(acts) :
       /\ kept[n] = InsertAction(kept[n - 1], acts[n], assoc)
       /\ kept[n] \in Seq(S) /\ kept[n] # <<>>
       /\ n = 1 => Head(kept[n]) = acts[1] /\ Len(kept[n]) = 1
       /\ n > 1 => Meets(kept[n - 1], kept[n], acts[n], assoc)


LEMMA ListTurns ==
  ASSUME NEW g, NEW t, g.terms[t].assoc \in Assocs, NEW S, NEW acts, Contend(acts, S)
  PROVE  \E kept : /\ Turns(kept, acts, g.terms[t].assoc, S)
                   /\ ActionList(g, acts, t) = kept[Len(acts)]
<1>0. PICK N, assoc, L : N = Len(acts) /\ assoc = g.terms[t].assoc /\ L = Seq(S)
  OBVIOUS
<1>1. /\ acts \in Seq(S) /\ N \in Nat /\ DOMAIN acts = 1 .. N /\ assoc \in Assocs /\ <<>> \in L
      /\ \A n \in 1 .. N : acts[n] \in S /\ (n > 1 => acts[n].type # "shift")
      /\ \A a \in S : IsAction(a)
  BY <1>0 DEF Contend
<1> DEFINE Next1(n, list) ==
             IF InsertAction(list, acts[n], assoc) \in L THEN InsertAction(list, acts[n], assoc) ELSE <<>>
           step == [p \in (1 .. N) \X L |-> Next1(p[1], p[2])]
           IsKept(f) == f = [n \in 0 .. N |->
              IF n = 0 THEN <<>> ELSE InsertAction(f[n - 1], acts[n], g.terms[t].assoc)]
           kept == CHOOSE f : IsKept(f)
<1>2. step \in [(1 .. N) \X L -> L]
  BY <1>1
<1>3. PICK f \in [0 .. N -> L] : StepsBy(f, N, <<>>, step)
  <2> HIDE DEF step
  <2>1. QED
    BY <1>1, <1>2, Recursion
<1>4. f[0] = <<>> /\ \A n \in 1 .. N : f[n] = Next1(n, f[n - 1])
  <2> SUFFICES ASSUME NEW n \in 1 .. N PROVE f[n] = Next1(n, f[n - 1])
    BY <1>3 DEF StepsBy
  <2> HIDE DEF Next1
  <2>1. n - 1 \in 0 .. N
    BY <1>1
  <2>2. f[n - 1] \in L
    BY <1>3, <2>1
  <2>3. step[<<n, f[n - 1]>>] = Next1(n, f[n - 1])
    BY <2>2
  <2>4. QED
    BY <1>3, <2>3 DEF StepsBy
<1>5. \A n \in 1 .. N :
        /\ f[n] = InsertAction(f[n - 1], acts[n], assoc)
        /\ f[n] \in L /\ f[n] # <<>>
        /\ n = 1 => Head(f[n]) = acts[1] /\ Len(f[n]) = 1
        /\ n > 1 => Meets(f[n - 1], f[n], acts[n], assoc)
  <2> DEFINE Good(n) == /\ f[n] = InsertAction(f[n - 1], acts[n], assoc)
                        /\ f[n] \in L /\ f[n] # <<>>
                        /\ n = 1 => Head(f[n]) = acts[1] /\ Len(f[n]) = 1
                        /\ n > 1 => Meets(f[n - 1], f[n], acts[n], assoc)
             Bad == {n \in 1 .. N : ~Good(n)}
  <2>1. SUFFICES ASSUME Bad # {} PROVE FALSE
    OBVIOUS
  <2>2. PICK m \in Bad : \A k \in Bad : m <= k
    <3>1. Bad \in SUBSET Nat
      BY <1>1
    <3> HIDE DEF Bad
    <3>2. QED
      BY <2>1, <3>1, LeastOf
  <2>3. m \in 1 .. N /\ ~Good(m)
    OBVIOUS
  <2>4. CASE m = 1
    <3>1. /\ InsertAction(<<>>, acts[1], assoc) \in L
          /\ Head(InsertAction(<<>>, acts[1], assoc)) = acts[1]
          /\ Len(InsertAction(<<>>, acts[1], assoc)) = 1
      BY <1>0, <1>1, <2>3, <2>4, InsertFirst
    <3>2. f[1] = InsertAction(f[1 - 1], acts[1], assoc)
      <4>1. f[1 - 1] = <<>>
        BY <1>4
      <4>2. QED
        BY <1>4, <2>3, <2>4, <3>1, <4>1
    <3>3. f[1] = InsertAction(<<>>, acts[1], assoc)
      BY <1>4, <3>2
    <3>4. f[1] # <<>>
      BY <3>1, <3>3
    <3>5. Good(1)
      BY <3>1, <3>2, <3>3, <3>4
    <3>6. QED
      BY <2>3, <2>4, <3>5
  <2>5. CASE m # 1
    <3>1. m > 1 /\ m - 1 \in 1 .. N /\ m \in 1 .. N
      BY <1>1, <2>3, <2>5
    <3>2. Good(m - 1)
      <4>1. m - 1 \notin Bad
        <5> HIDE DEF Bad, Good
        <5> QED BY <2>2, <3>1, <1>1
      <4> HIDE DEF Good
      <4>2. QED
        BY <3>1, <4>1
    <3>3. PICK list : list = f[m - 1]
      OBVIOUS
    <3>4. list \in Seq(S) /\ list # <<>> /\ acts[m] \in S /\ acts[m].type # "shift"
      BY <1>0, <1>1, <3>1, <3>2, <3>3
    <3>5. /\ InsertAction(list, acts[m], assoc) \in L
          /\ Meets(list, InsertAction(list, acts[m], assoc), acts[m], assoc)
      BY <1>0, <1>1, <3>4, InsertFacts
    <3>6. f[m] = InsertAction(list, acts[m], assoc)
      BY <1>4, <3>1, <3>3, <3>5
    <3>7. f[m] # <<>>
      <4>1. Len(f[m]) = Len(list) \/ Len(f[m]) = Len(list) + 1
        BY <3>5, <3>6 DEF Meets
      <4>2. Len(list) \in Nat /\ Len(list) > 0
        BY <3>4
      <4>3. Len(f[m]) # 0
        BY <4>1, <4>2
      <4>4. QED
        BY <4>3
    <3>8. Good(m)
      BY <3>1, <3>3, <3>5, <3>6, <3>7
    <3>9. QED
      BY <2>3, <3>8
  <2>6. QED
    BY <2>4, <2>5
<1>6. IsKept(f)
  <2>1. \A n \in 1 .. N : f[n] = InsertAction(f[n - 1], acts[n], assoc)
    BY <1>5
  <2>2. \A n \in 0 .. N : f[n] = IF n = 0 THEN <<>> ELSE InsertAction(f[n - 1], acts[n], assoc)
    <3> TAKE n \in 0 .. N
    <3>1. n = 0 \/ n \in 1 .. N
      BY <1>1
    <3>2. QED
      BY <1>1, <1>4, <2>1, <3>1
  <2>3. QED
    BY <1>0, <1>3, <2>2
<1>7. IsKept(kept)
  BY <1>6
<1>8. ActionList(g, acts, t) = kept[N]
  BY <1>0 DEF ActionList
<1> HIDE DEF kept
<1>9. kept = f
  <2>1. kept[0] = <<>> /\ \A n \in 1 .. N : kept[n] = InsertAction(kept[n - 1], acts[n], assoc)
    <3>1. kept = [n \in 0 .. N |->
              IF n = 0 THEN <<>> ELSE InsertAction(kept[n - 1], acts[n], g.terms[t].assoc)]
      BY <1>7
    <3>2. 0 \in 0 .. N /\ \A n \in 1 .. N : n \in 0 .. N /\ n # 0
      BY <1>1
    <3>3. QED
      BY <1>0, <3>1, <3>2
  <2>2. \A n \in 0 .. N : kept[n] = f[n]
    <3> DEFINE Bad == {n \in 0 .. N : kept[n] # f[n]}
    <3>1. SUFFICES ASSUME Bad # {} PROVE FALSE
      OBVIOUS
    <3>2. PICK m \in Bad : \A k \in Bad : m <= k
      <4>1. Bad \in SUBSET Nat
        BY <1>1
      <4> HIDE DEF Bad
      <4>2. QED
        BY <3>1, <4>1, LeastOf
    <3>3. m \in 0 .. N /\ kept[m] # f[m] /\ m # 0
      BY <1>4, <2>1
    <3>4. m \in 1 .. N /\ m - 1 \in 0 .. N
      BY <1>1, <3>3
    <3>5. kept[m - 1] = f[m - 1]
      <4>1. m - 1 \notin Bad
        <5> HIDE DEF Bad
        <5> QED BY <3>2, <3>4, <1>1
      <4>2. QED
        BY <3>4, <4>1
    <3>6. QED
      BY <2>1, <1>5, <3>3, <3>4, <3>5
  <2>3. kept = [n \in 0 .. N |-> kept[n]]
    BY <1>7
  <2>4. QED
    BY <1>3, <2>2, <2>3
<1>10. QED
  BY <1>0, <1>4, <1>5, <1>8, <1>9 DEF Turns


\* What is first in the list after the first n insertions.
HeadDecided(acts, kept, assoc, n) ==
  LET h   == Head(kept[n])
      top == {i \in 1 .. n : acts[i].prec = h.prec}
  IN  /\ \E i \in 1 .. n : acts[i] = h
      /\ h.type # "accept" =>
           /\ \A i \in 1 .. n : acts[i].prec <= h.prec
           /\ (assoc = "left" /\ \E i \in top : acts[i].type = "reduce") => h.type = "reduce"
           /\ (assoc = "right" /\ \E i \in top : acts[i].type = "shift") => h.type = "shift"

LEMMA HeadsDecided ==
  ASSUME NEW S, NEW acts, Contend(acts, S), NEW assoc \in Assocs,
         NEW kept, Turns(kept, acts, assoc, S)
  PROVE  \A n \in 1 .. Len(acts) : HeadDecided(acts, kept, assoc, n)
<1> DEFINE N == Len(acts)
           Bad == {n \in 1 .. N : ~HeadDecided(acts, kept, assoc, n)}
<1>1. N \in Nat /\ \A n \in 1 .. N : acts[n] \in S /\ IsAction(acts[n])
  BY DEF Contend
<1>2. SUFFICES ASSUME Bad # {} PROVE FALSE
  OBVIOUS
<1>3. PICK m \in Bad : \A k \in Bad : m <= k
  <2>1. Bad \in SUBSET Nat
    BY <1>1
  <2> HIDE DEF Bad
  <2>2. QED
    BY <1>2, <2>1, LeastOf
<1>4. m \in 1 .. N /\ ~HeadDecided(acts, kept, assoc, m) /\ m \in Nat
  BY <1>1
<1>5. m # 1
  <2>1. SUFFICES ASSUME m = 1 PROVE FALSE
    OBVIOUS
  <2>2. Head(kept[m]) = acts[m]
    BY <1>4, <2>1 DEF Turns
  <2>3. \A i \in 1 .. m : i = m
    BY <2>1
  <2>4. acts[m].prec \in Nat /\ acts[m].type \in {"shift", "reduce", "accept"} /\ m \in 1 .. m
    BY <1>1, <1>4 DEF IsAction
  <2>5. QED
    BY <1>4, <2>2, <2>3, <2>4 DEF HeadDecided
<1>6. m - 1 \in 1 .. N /\ m > 1 /\ m - 1 \in Nat
  BY <1>1, <1>4, <1>5
<1>7. HeadDecided(acts, kept, assoc, m - 1)
  <2>1. m - 1 \notin Bad
    <3> HIDE DEF Bad
    <3> QED BY <1>3, <1>4
  <2>2. QED
    BY <1>6, <2>1
<1>8. PICK p, a, h, new : p = m - 1 /\ a = acts[m] /\ h = Head(kept[m - 1]) /\ new = Head(kept[m])
  OBVIOUS
<1>9. /\ p \in Nat /\ \A i \in 1 .. p : i \in 1 .. m /\ i \in 1 .. N
      /\ \A i \in 1 .. m : i \in 1 .. p \/ i = m
      /\ m \in 1 .. m
  BY <1>1, <1>4, <1>6, <1>8
<1>10. Meets(kept[m - 1], kept[m], acts[m], assoc) /\ a.type # "shift"
  BY <1>4, <1>6, <1>8 DEF Turns, Contend
<1>11. IsAction(a) /\ (\E i \in 1 .. p : acts[i] = h) /\ IsAction(h)
  BY <1>1, <1>4, <1>7, <1>8, <1>9 DEF HeadDecided
<1>12. new = h \/ new = a
  BY <1>8, <1>10, <1>11 DEF Meets, Assocs, IsAction
<1>13. \E i \in 1 .. m : acts[i] = new
  BY <1>8, <1>9, <1>11, <1>12
<1>14. ASSUME new.type # "accept" PROVE h.type # "accept"
  BY <1>8, <1>10, <1>14 DEF Meets
<1>15. ASSUME new.type # "accept", NEW i \in 1 .. m PROVE acts[i].prec <= new.prec
  <2>1. h.type # "accept"
    BY <1>14, <1>15
  <2>2. \A j \in 1 .. p : acts[j].prec <= h.prec /\ acts[j].prec \in Nat
    BY <1>1, <1>7, <1>8, <1>9, <2>1 DEF HeadDecided, IsAction
  <2>3. h.prec \in Nat /\ a.prec \in Nat /\ new.prec \in Nat
    BY <1>11, <1>12 DEF IsAction
  <2>4. (a.prec > h.prec => new = a) /\ (a.prec < h.prec => new = h)
    BY <1>8, <1>10, <2>1 DEF Meets
  <2>5. h.prec <= new.prec /\ a.prec <= new.prec
    BY <1>12, <2>3, <2>4
  <2>6. QED
    BY <1>8, <1>9, <2>2, <2>3, <2>5
<1>16. ASSUME new.type # "accept", assoc = "left",
              NEW i \in 1 .. m, acts[i].prec = new.prec, acts[i].type = "reduce"
       PROVE  new.type = "reduce"
  <2>1. h.type # "accept"
    BY <1>14, <1>16
  <2>2. h.type \in {"shift", "reduce"} /\ new.type \in {"shift", "reduce"}
    BY <1>11, <1>12, <1>16, <2>1 DEF IsAction
  <2>3. CASE i = m
    BY <1>8, <1>10, <1>11, <1>16, <2>1, <2>2, <2>3 DEF Meets, IsAction
  <2>4. CASE i \in 1 .. p
    <3>1. acts[i].prec <= h.prec /\ acts[i].prec \in Nat
      BY <1>1, <1>7, <1>8, <1>9, <2>1, <2>4 DEF HeadDecided, IsAction
    <3>2. CASE new = h
      BY <1>7, <1>8, <1>16, <2>1, <2>4, <3>2 DEF HeadDecided
    <3>3. CASE new # h
      BY <1>8, <1>10, <1>11, <1>12, <1>16, <2>2, <3>3 DEF IsAction
    <3>4. QED
      BY <3>2, <3>3
  <2>5. QED
    BY <1>9, <2>3, <2>4
<1>17. ASSUME new.type # "accept", assoc = "right",
              NEW i \in 1 .. m, acts[i].prec = new.prec, acts[i].type = "shift"
       PROVE  new.type = "shift"
  <2>1. h.type # "accept"
    BY <1>14, <1>17
  <2>2. i \in 1 .. p
    BY <1>8, <1>9, <1>10, <1>17
  <2>3. acts[i].prec <= h.prec /\ acts[i].prec \in Nat /\ h.prec \in Nat /\ a.prec \in Nat
    BY <1>1, <1>7, <1>8, <1>9, <1>11, <2>1, <2>2 DEF HeadDecided, IsAction
  <2>4. CASE new = h
    BY <1>7, <1>8, <1>17, <2>1, <2>2, <2>4 DEF HeadDecided
  <2>5. CASE new # h
    <3>1. new = a
      BY <1>12, <2>5
    <3>2. a.prec > h.prec
      BY <1>8, <1>10, <1>17, <2>1, <2>3, <2>5 DEF Meets
    <3>3. QED
      BY <1>17, <2>3, <3>1, <3>2
  <2>6. QED
    BY <2>4, <2>5
<1>18. HeadDecided(acts, kept, assoc, m)
  BY <1>8, <1>13, <1>15, <1>16, <1>17 DEF HeadDecided
<1>19. QED
  BY <1>4, <1>18


BestOf(acts, k) == {i \in 1 .. k : \A j \in 1 .. k : acts[j].prec <= acts[i].prec}
TopOf(acts, k, h) == {i \in 1 .. k : acts[i].prec = h.prec}
RedsOf(acts, best) == {i \in best : acts[i].type = "reduce"}
UndecidedOf(acts, best, assoc) ==
  LET reds == RedsOf(acts, best)
  IN  CASE assoc = "left"     -> \E i, j \in reds : i # j
        [] assoc = "right"    -> reds = best /\ \E i, j \in reds : i # j
        [] assoc = "nonassoc" -> \E i, j \in best : i # j

LEMMA UndecidedPrefix ==
  ASSUME NEW S, NEW acts \in Seq(S), NEW k \in 1 .. Len(acts), NEW assoc \in Assocs
  PROVE  Undecided(SubSeq(acts, 1, k), assoc) <=> UndecidedOf(acts, BestOf(acts, k), assoc)
<1>1. k \in Nat /\ k <= Len(acts) /\ Len(acts) \in Nat
  OBVIOUS
<1>2. PICK s : s = SubSeq(acts, 1, k)
  OBVIOUS
<1>3. DOMAIN s = 1 .. k /\ \A i \in 1 .. k : s[i] = acts[i]
  BY <1>1, <1>2, SubSeqProperties
<1>4. PICK B : B = BestOf(acts, k)
  OBVIOUS
<1>5. {n \in DOMAIN s : \A m \in DOMAIN s : s[m].prec <= s[n].prec} = B
  BY <1>3, <1>4 DEF BestOf
<1>6. {n \in B : s[n].type = "reduce"} = RedsOf(acts, B)
  BY <1>3, <1>4 DEF BestOf, RedsOf
<1> DEFINE best == {n \in DOMAIN s : \A m \in DOMAIN s : s[m].prec <= s[n].prec}
           reds == {n \in best : s[n].type = "reduce"}
<1>7. best = B /\ reds = RedsOf(acts, B)
  BY <1>5, <1>6
<1>8. /\ assoc = "left" => (Undecided(s, assoc) <=> \E i, j \in reds : i # j)
      /\ assoc = "right" => (Undecided(s, assoc) <=> reds = best /\ \E i, j \in reds : i # j)
      /\ assoc = "nonassoc" => (Undecided(s, assoc) <=> \E i, j \in best : i # j)
  BY DEF Undecided
<1> HIDE DEF best, reds
<1>9. /\ assoc = "left" =>
           (UndecidedOf(acts, B, assoc) <=> \E i, j \in RedsOf(acts, B) : i # j)
      /\ assoc = "right" =>
           (UndecidedOf(acts, B, assoc) <=>
              RedsOf(acts, B) = B /\ \E i, j \in RedsOf(acts, B) : i # j)
      /\ assoc = "nonassoc" => (UndecidedOf(acts, B, assoc) <=> \E i, j \in B : i # j)
  BY DEF UndecidedOf
<1>10. Undecided(s, assoc) <=> UndecidedOf(acts, B, assoc)
  BY <1>7, <1>8, <1>9 DEF Assocs
<1>11. QED
  BY <1>2, <1>4, <1>10

\* Without acceptances the best are those of the head's precedence.
LEMMA BestIsTop ==
  ASSUME NEW S, NEW acts, Contend(acts, S), NEW assoc \in Assocs,
         NEW kept, Turns(kept, acts, assoc, S), NEW n \in 1 .. Len(acts),
         \A k \in DOMAIN acts : acts[k].type # "accept"
  PROVE  LET h == Head(kept[n])
         IN  /\ BestOf(acts, n) = TopOf(acts, n, h) /\ IsAction(h) /\ h.type # "accept"
             /\ \E i \in TopOf(acts, n, h) : acts[i] = h
             /\ assoc = "left" /\ h.type = "shift" => RedsOf(acts, TopOf(acts, n, h)) = {}
             /\ assoc = "right" /\ h.type = "reduce" =>
                  RedsOf(acts, TopOf(acts, n, h)) = TopOf(acts, n, h)
<1>0. PICK h : h = Head(kept[n])
  OBVIOUS
<1>1. /\ Len(acts) \in Nat /\ DOMAIN acts = 1 .. Len(acts)
      /\ \A i \in 1 .. n : i \in DOMAIN acts /\ IsAction(acts[i]) /\ acts[i].type # "accept"
  BY DEF Contend
<1>2. HeadDecided(acts, kept, assoc, n)
  BY HeadsDecided
<1>3. PICK i0 \in 1 .. n : acts[i0] = h
  BY <1>0, <1>2 DEF HeadDecided
<1>4. IsAction(h) /\ h.type # "accept"
  BY <1>1, <1>3
<1>5. \A i \in 1 .. n : acts[i].prec <= h.prec /\ acts[i].prec \in Nat /\ h.prec \in Nat
  BY <1>0, <1>1, <1>2, <1>4 DEF HeadDecided, IsAction
<1>6. \A i \in 1 .. n : i \in BestOf(acts, n) <=> acts[i].prec = h.prec
  <2> TAKE i \in 1 .. n
  <2>1. i \in BestOf(acts, n) => h.prec <= acts[i].prec
    BY <1>3 DEF BestOf
  <2>2. QED
    BY <1>5, <2>1 DEF BestOf
<1>7. BestOf(acts, n) = TopOf(acts, n, h)
  BY <1>6 DEF BestOf, TopOf
<1>8. i0 \in TopOf(acts, n, h)
  BY <1>3 DEF TopOf
<1>9. \A i \in TopOf(acts, n, h) : acts[i].type \in {"shift", "reduce"}
  BY <1>1 DEF TopOf, IsAction
<1>10. /\ assoc = "left" /\ h.type = "shift" => \A i \in TopOf(acts, n, h) : acts[i].type # "reduce"
       /\ assoc = "right" /\ h.type = "reduce" => \A i \in TopOf(acts, n, h) : acts[i].type # "shift"
  BY <1>0, <1>2, <1>4 DEF HeadDecided, TopOf
<1>11. /\ assoc = "left" /\ h.type = "shift" => RedsOf(acts, TopOf(acts, n, h)) = {}
       /\ assoc = "right" /\ h.type = "reduce" =>
                  RedsOf(acts, TopOf(acts, n, h)) = TopOf(acts, n, h)
  BY <1>9, <1>10 DEF RedsOf
<1>12. QED
  BY <1>0, <1>3, <1>4, <1>7, <1>8, <1>11

\* One more insertion lengthens the list just when nothing decides, unless
\* nothing decided before it did.
LEMMA InsertConflict ==
  ASSUME NEW S, NEW acts, Contend(acts, S), NEW assoc \in Assocs,
         NEW kept, Turns(kept, acts, assoc, S), NEW n \in 2 .. Len(acts),
         \A k \in DOMAIN acts : acts[k].type # "accept"
  PROVE  /\ Len(kept[n - 1]) \in Nat /\ Len(kept[n - 1]) > 0
         /\ Len(kept[n]) = Len(kept[n - 1]) \/ Len(kept[n]) = Len(kept[n - 1]) + 1
         /\ Len(kept[n]) = Len(kept[n - 1]) + 1 =>
              UndecidedOf(acts, BestOf(acts, n), assoc)
         /\ Len(kept[n]) = Len(kept[n - 1]) /\ UndecidedOf(acts, BestOf(acts, n), assoc) =>
              UndecidedOf(acts, BestOf(acts, n - 1), assoc)
<1>0. PICK p, a, h, l, m : /\ p = n - 1 /\ a = acts[n] /\ h = Head(kept[n - 1])
                           /\ l = Len(kept[n - 1]) /\ m = Len(kept[n])
  OBVIOUS
<1>1. /\ Len(acts) \in Nat /\ DOMAIN acts = 1 .. Len(acts) /\ p \in 1 .. Len(acts) /\ p \in Nat
      /\ n \in 1 .. Len(acts) /\ n > 1 /\ n \in Nat /\ n = p + 1
      /\ \A i \in 1 .. n : i \in 1 .. p \/ i = n
      /\ \A i \in 1 .. p : i \in 1 .. n /\ i # n
      /\ IsAction(a) /\ a.type = "reduce"
  BY <1>0 DEF Contend, IsAction
<1>2. kept[n - 1] \in Seq(S) /\ kept[n - 1] # <<>> /\ Meets(kept[n - 1], kept[n], a, assoc)
  BY <1>0, <1>1 DEF Turns
<1>3. l \in Nat /\ l > 0 /\ (m = l \/ m = l + 1)
  BY <1>0, <1>2 DEF Meets
<1>4. PICK top, now : top = TopOf(acts, p, h) /\ now = BestOf(acts, n)
  OBVIOUS
<1>5. /\ BestOf(acts, p) = top /\ IsAction(h) /\ h.type # "accept"
      /\ \E i \in top : acts[i] = h
      /\ assoc = "left" /\ h.type = "shift" => RedsOf(acts, top) = {}
      /\ assoc = "right" /\ h.type = "reduce" => RedsOf(acts, top) = top
  <2>0. p \in 1 .. Len(acts)
    BY <1>1
  <2>1. /\ BestOf(acts, p) = TopOf(acts, p, Head(kept[p])) /\ IsAction(Head(kept[p]))
        /\ Head(kept[p]).type # "accept"
        /\ \E i \in TopOf(acts, p, Head(kept[p])) : acts[i] = Head(kept[p])
    BY <2>0, BestIsTop
  <2>2. assoc = "left" /\ Head(kept[p]).type = "shift" =>
             RedsOf(acts, TopOf(acts, p, Head(kept[p]))) = {}
    BY <2>0, BestIsTop
  <2>3. assoc = "right" /\ Head(kept[p]).type = "reduce" =>
             RedsOf(acts, TopOf(acts, p, Head(kept[p]))) = TopOf(acts, p, Head(kept[p]))
    BY <2>0, BestIsTop
  <2>4. Head(kept[p]) = h
    BY <1>0
  <2>5. QED
    BY <1>4, <2>1, <2>2, <2>3, <2>4
<1>6. now = TopOf(acts, n, Head(kept[n]))
  BY <1>1, <1>4, BestIsTop
<1>7. \A i \in 1 .. p : acts[i].prec <= h.prec /\ acts[i].prec \in Nat
  <2>1. HeadDecided(acts, kept, assoc, p)
    BY <1>1, HeadsDecided
  <2>2. \A i \in 1 .. p : IsAction(acts[i])
    BY <1>1 DEF Contend
  <2>3. QED
    BY <1>0, <1>5, <2>1, <2>2 DEF HeadDecided, IsAction
<1>8. h.prec \in Nat /\ a.prec \in Nat /\ h.type \in {"shift", "reduce"} /\ n \notin top
  BY <1>1, <1>4, <1>5 DEF IsAction, TopOf
<1>9. CASE a.prec > h.prec
  <2>1. Head(kept[n]) = a /\ m = l
    BY <1>0, <1>2, <1>5, <1>9 DEF Meets
  <2>2. now = {n}
    BY <1>0, <1>1, <1>6, <1>7, <1>8, <1>9, <2>1 DEF TopOf
  <2>3. ~UndecidedOf(acts, now, assoc)
    BY <2>2 DEF UndecidedOf, RedsOf, Assocs
  <2>4. QED
    BY <1>0, <1>3, <1>4, <2>1, <2>3
<1>10. CASE a.prec < h.prec
  <2>1. Head(kept[n]) = h /\ m = l
    BY <1>0, <1>2, <1>5, <1>10 DEF Meets
  <2>2. now = top
    <3>1. now = {i \in 1 .. n : acts[i].prec = h.prec}
      BY <1>6, <2>1 DEF TopOf
    <3>2. acts[n].prec # h.prec
      BY <1>0, <1>8, <1>10
    <3>3. \A i : i \in now <=> i \in 1 .. p /\ acts[i].prec = h.prec
      BY <1>1, <3>1, <3>2
    <3>4. QED
      BY <1>4, <3>3 DEF TopOf
  <2>3. QED
    BY <1>0, <1>3, <1>4, <1>5, <2>1, <2>2
<1>11. CASE a.prec = h.prec
  <2>1. now = top \cup {n}
    <3>1. Head(kept[n]) = a \/ Head(kept[n]) = h
      BY <1>0, <1>1, <1>2, <1>8, <1>11 DEF Meets, Assocs
    <3>2. now = {i \in 1 .. n : acts[i].prec = h.prec}
      BY <1>6, <1>11, <3>1 DEF TopOf
    <3>3. acts[n].prec = h.prec
      BY <1>0, <1>11
    <3>4. \A i : i \in now <=> (i \in 1 .. p /\ acts[i].prec = h.prec) \/ i = n
      BY <1>1, <3>2, <3>3
    <3>5. QED
      BY <1>4, <3>4 DEF TopOf
  <2>2. RedsOf(acts, now) = RedsOf(acts, top) \cup {n}
    BY <1>0, <1>1, <2>1 DEF RedsOf
  <2>3. PICK i0 \in top : acts[i0] = h
    BY <1>5
  <2>4. i0 # n /\ (h.type = "reduce" => i0 \in RedsOf(acts, top))
    BY <1>8, <2>3 DEF RedsOf
  <2>5. CASE assoc = "nonassoc"
    <3>1. m = l + 1
      BY <1>0, <1>2, <1>5, <1>11, <2>5 DEF Meets
    <3>2. UndecidedOf(acts, now, assoc)
      BY <2>1, <2>3, <2>4, <2>5 DEF UndecidedOf
    <3>3. QED
      BY <1>0, <1>3, <1>4, <3>1, <3>2
  <2>6. CASE assoc = "left"
    <3>1. CASE h.type = "shift"
      <4>1. m = l
        BY <1>0, <1>1, <1>2, <1>11, <2>6, <3>1 DEF Meets
      <4>2. ~UndecidedOf(acts, now, assoc)
        BY <1>5, <2>2, <2>6, <3>1 DEF UndecidedOf
      <4>3. QED
        BY <1>0, <1>3, <1>4, <4>1, <4>2
    <3>2. CASE h.type = "reduce"
      <4>1. m = l + 1
        BY <1>0, <1>1, <1>2, <1>11, <2>6, <3>2 DEF Meets
      <4>2. UndecidedOf(acts, now, assoc)
        BY <2>2, <2>4, <2>6, <3>2 DEF UndecidedOf
      <4>3. QED
        BY <1>0, <1>3, <1>4, <4>1, <4>2
    <3>3. QED
      BY <1>8, <3>1, <3>2
  <2>7. CASE assoc = "right"
    <3>1. CASE h.type = "shift"
      <4>1. m = l
        BY <1>0, <1>1, <1>2, <1>11, <2>7, <3>1 DEF Meets
      <4>2. i0 \in now /\ i0 \notin RedsOf(acts, now)
        BY <2>1, <2>3, <3>1 DEF RedsOf
      <4>3. ~UndecidedOf(acts, now, assoc)
        BY <2>7, <4>2 DEF UndecidedOf
      <4>4. QED
        BY <1>0, <1>3, <1>4, <4>1, <4>3
    <3>2. CASE h.type = "reduce"
      <4>1. m = l + 1
        BY <1>0, <1>1, <1>2, <1>11, <2>7, <3>2 DEF Meets
      <4>2. RedsOf(acts, now) = now
        BY <1>5, <2>1, <2>2, <2>7, <3>2
      <4>3. UndecidedOf(acts, now, assoc)
        BY <2>2, <2>4, <2>7, <3>2, <4>2 DEF UndecidedOf
      <4>4. QED
        BY <1>0, <1>3, <1>4, <4>1, <4>3
    <3>3. QED
      BY <1>8, <3>1, <3>2
  <2>8. QED
    BY <2>5, <2>6, <2>7 DEF Assocs
<1>12. QED
  BY <1>8, <1>9, <1>10, <1>11

LEMMA ListsConflict ==
  ASSUME NEW S, NEW acts, Contend(acts, S), NEW assoc \in Assocs,
         NEW kept, Turns(kept, acts, assoc, S),
         \A k \in DOMAIN acts : acts[k].type # "accept"
  PROVE  \A n \in 1 .. Len(acts) :
           Len(kept[n]) > 1 <=> \E k \in 1 .. n : UndecidedOf(acts, BestOf(acts, k), assoc)
<1> DEFINE N == Len(acts)
           U(k) == UndecidedOf(acts, BestOf(acts, k), assoc)
           Good(n) == Len(kept[n]) > 1 <=> \E k \in 1 .. n : U(k)
           Bad == {n \in 1 .. N : ~Good(n)}
<1>1. N \in Nat
  BY DEF Contend
<1>2. SUFFICES ASSUME Bad # {} PROVE FALSE
  OBVIOUS
<1>3. PICK m \in Bad : \A k \in Bad : m <= k
  <2>1. Bad \in SUBSET Nat
    BY <1>1
  <2> HIDE DEF Bad
  <2>2. QED
    BY <1>2, <2>1, LeastOf
<1>4. m \in 1 .. N /\ m \in Nat /\ ~Good(m)
  BY <1>1
<1>5. ASSUME m = 1 PROVE FALSE
  <2>1. Len(kept[m]) = 1
    BY <1>4, <1>5 DEF Turns
  <2>2. \A i, j \in BestOf(acts, 1) : i = j
    BY DEF BestOf
  <2>3. ~U(1)
    BY <2>2 DEF UndecidedOf, RedsOf, Assocs
  <2>4. \A k \in 1 .. m : k = 1
    BY <1>5
  <2> HIDE DEF U
  <2>5. QED
    BY <1>4, <2>1, <2>3, <2>4
<1>6. ASSUME m # 1 PROVE FALSE
  <2>1. /\ m \in 2 .. N /\ m - 1 \in 1 .. N /\ m \in 1 .. m
        /\ \A k \in 1 .. m : k \in 1 .. m - 1 \/ k = m
        /\ \A k \in 1 .. m - 1 : k \in 1 .. m
    BY <1>1, <1>4, <1>6
  <2>2. Good(m - 1)
    <3>1. m - 1 \notin Bad
      <4> HIDE DEF Bad, Good
      <4> QED BY <1>3, <1>4
    <3> HIDE DEF Good
    <3>2. QED
      BY <2>1, <3>1
  <2>3. PICK l, n : l = Len(kept[m - 1]) /\ n = Len(kept[m])
    OBVIOUS
  <2>4. /\ l \in Nat /\ l > 0 /\ (n = l \/ n = l + 1)
        /\ n = l + 1 => U(m)
        /\ n = l /\ U(m) => U(m - 1)
    BY <2>1, <2>3, InsertConflict
  <2> HIDE DEF U
  <2>5. m - 1 \in 1 .. m - 1
    BY <2>1, <1>1
  <2>6. l > 1 <=> \E k \in 1 .. m - 1 : U(k)
    BY <2>2, <2>3
  <2>7. (n > 1) <=> \E k \in 1 .. m : U(k)
    <3>1. CASE n = l + 1
      BY <3>1, <2>1, <2>4
    <3>2. CASE n = l
      BY <3>2, <2>1, <2>4, <2>5, <2>6
    <3>3. QED
      BY <2>4, <3>1, <3>2
  <2>8. QED
    BY <1>4, <2>3, <2>7
<1>7. QED
  BY <1>5, <1>6


-------------------------------------------------------------------------------
(* The candidates of an entry. *)

LEMMA PrecIsNat ==
  ASSUME NEW g, IsGrammar(g), NEW r \in DOMAIN g.rules
  PROVE  RulePrec(g, r) \in Nat
<1> DEFINE body == g.rules[r].body
           terms == {k \in DOMAIN body : IsTerm(g, body[k])}
<1>1. /\ \A t \in DOMAIN g.terms : g.terms[t].prec \in Nat
      /\ DefPrec \in DOMAIN g.terms
      /\ g.rules[r].prec \in DOMAIN g.terms \cup {NoPrec}
      /\ DOMAIN body = 1 .. Len(body) /\ Len(body) \in Nat
  <2>1. body \in Seq(Heads(g) \cup DOMAIN g.terms)
    BY DEF IsGrammar
  <2>2. DefPrec \in DOMAIN g.terms
    BY DEF IsGrammar, BuiltInTerms
  <2>3. DOMAIN body = 1 .. Len(body) /\ Len(body) \in Nat
    BY <2>1
  <2>4. QED
    BY <2>2, <2>3 DEF IsGrammar
<1>2. ASSUME terms # {}
      PROVE  body[CHOOSE k \in terms : \A j \in terms : j <= k] \in DOMAIN g.terms
  <2>1. PICK N : N = Len(body)
    OBVIOUS
  <2>2. N \in Nat /\ terms \in SUBSET (1 .. N)
    BY <1>1, <2>1
  <2>3. \E k \in terms : \A j \in terms : j <= k
    <3> HIDE DEF terms
    <3> QED BY <1>2, <2>2, MaxIn
  <2>4. (CHOOSE k \in terms : \A j \in terms : j <= k) \in terms
    <3> HIDE DEF terms
    <3> QED BY <2>3
  <2>5. QED
    BY <2>4 DEF IsTerm
<1> HIDE DEF terms
<1>3. RulePrecTok(g, r) \in DOMAIN g.terms
  <2>1. RulePrecTok(g, r) = CASE g.rules[r].prec # NoPrec -> g.rules[r].prec
        [] g.rules[r].prec = NoPrec /\ terms # {} ->
             body[CHOOSE k \in terms : \A j \in terms : j <= k]
        [] OTHER -> DefPrec
    BY DEF RulePrecTok, terms
  <2>2. QED
    BY <1>1, <1>2, <2>1
<1>4. QED
  BY <1>1, <1>3 DEF RulePrec

IsShift(g, states, n, t, a) ==
  /\ a.type = "shift" /\ t \in MovesOn(g, Closure(g, states[n]))
  /\ a.to = CHOOSE m \in DOMAIN states : states[m] = Moved(g, Closure(g, states[n]), t)

IsReduction(g, states, follow0, n, t, a) ==
  \E it \in Closure(g, states[n]) :
    /\ Completed(g, it) /\ t \in follow0[<<states[n], it>>]
    /\ a.rule = it.rule /\ a.count = Len(Body(g, it))
    /\ a.type = IF g.rules[it.rule].head = Start THEN "accept" ELSE "reduce"

LEMMA CandidateFacts ==
  ASSUME NEW g, IsGrammar(g), NEW states, NEW n \in DOMAIN states,
         states[n] \in SUBSET ItemsOf(g), NEW follow0, NEW t,
         NEW acts, acts = Candidates(g, states, follow0, n, t)
  PROVE  /\ Contend(acts, ToSet(acts))
         /\ \A i \in DOMAIN acts : \/ IsShift(g, states, n, t, acts[i])
                                   \/ IsReduction(g, states, follow0, n, t, acts[i])
<1>0. PICK items, K : items = Closure(g, states[n]) /\ K = Moved(g, items, t)
  OBVIOUS
<1>1. items \in SUBSET ItemsOf(g)
  BY <1>0, ClosureFacts
<1> DEFINE ends == {it \in items : Completed(g, it) /\ t \in follow0[<<states[n], it>>]}
           done == Sorted(ends)
           reds == [k \in DOMAIN done |-> ReduceAction(g, done[k])]
           R == {ReduceAction(g, it) : it \in ends}
           sa == ShiftAction(g, items, CHOOSE m \in DOMAIN states : states[m] = K, t)
           Sh == IF t \in MovesOn(g, items) THEN {sa} ELSE {}
           shift == IF t \in MovesOn(g, items) THEN <<sa>> ELSE <<>>
<1>2. acts = shift \o reds
  BY <1>0 DEF Candidates
<1>3. \A a \in R : /\ IsAction(a) /\ a.type # "shift"
                   /\ IsReduction(g, states, follow0, n, t, a)
  <2> SUFFICES ASSUME NEW it \in ends
               PROVE  /\ IsAction(ReduceAction(g, it)) /\ ReduceAction(g, it).type # "shift"
                      /\ IsReduction(g, states, follow0, n, t, ReduceAction(g, it))
    OBVIOUS
  <2>1. it.rule \in DOMAIN g.rules
    <3>1. it \in ItemsOf(g)
      BY <1>1
    <3>2. it.rule \in 1 .. Len(g.rules)
      BY <3>1, ItemFacts
    <3>3. QED
      BY <3>2 DEF IsGrammar
  <2>2. RulePrec(g, it.rule) \in Nat
    BY <2>1, PrecIsNat
  <2>3. PICK a : a = ReduceAction(g, it)
    OBVIOUS
  <2>4. /\ a.prec = RulePrec(g, it.rule) /\ a.rule = it.rule /\ a.count = Len(Body(g, it))
        /\ a.type = IF g.rules[it.rule].head = Start THEN "accept" ELSE "reduce"
    BY <2>3 DEF ReduceAction
  <2>5. IsReduction(g, states, follow0, n, t, a)
    BY <1>0, <2>4 DEF IsReduction
  <2>6. QED
    BY <2>2, <2>3, <2>4, <2>5 DEF IsAction
<1>4. \A a \in Sh : IsAction(a) /\ IsShift(g, states, n, t, a)
  <2> SUFFICES ASSUME t \in MovesOn(g, items) PROVE IsAction(sa) /\ IsShift(g, states, n, t, sa)
    OBVIOUS
  <2>1. PICK r : r = ShiftConfig(g, items, t).rule
    OBVIOUS
  <2>2. ShiftConfig(g, items, t) \in ItemsOf(g)
    BY <1>1, ShiftFacts
  <2>3. r \in DOMAIN g.rules
    <3>1. r \in 1 .. Len(g.rules)
      BY <2>1, <2>2, ItemFacts
    <3>2. QED
      BY <3>1 DEF IsGrammar
  <2>4. RulePrec(g, r) \in Nat
    BY <2>3, PrecIsNat
  <2>5. /\ sa.type = "shift" /\ sa.prec = RulePrec(g, r)
        /\ sa.to = CHOOSE m \in DOMAIN states : states[m] = K
    BY <2>1 DEF ShiftAction
  <2>6. QED
    BY <1>0, <2>4, <2>5 DEF IsAction, IsShift
<1>5. ends \in SUBSET ItemsOf(g)
  BY <1>1
<1> HIDE DEF ends, sa
<1>6. reds \in Seq(R)
  <2>1. done \in Seq(ends)
    BY <1>5, SortedFacts
  <2>2. PICK N : N = Len(done)
    OBVIOUS
  <2>3. N \in Nat /\ DOMAIN done = 1 .. N /\ \A k \in 1 .. N : done[k] \in ends
    BY <2>1, <2>2
  <2> HIDE DEF done
  <2>4. reds = [k \in 1 .. N |-> ReduceAction(g, done[k])]
    BY <2>3
  <2>5. QED
    BY <2>3, <2>4
<1> HIDE DEF reds, R
<1>7. shift \in Seq(Sh) /\ Len(shift) \in {0, 1}
  <2>1. CASE t \in MovesOn(g, items)
    <3>1. PICK x : x = sa
      OBVIOUS
    <3>2. Sh = {x} /\ shift = <<x>>
      BY <2>1, <3>1
    <3> HIDE DEF Sh, shift
    <3>3. <<x>> \in Seq({x}) /\ Len(<<x>>) = 1
      OBVIOUS
    <3>4. QED
      BY <3>2, <3>3
  <2>2. CASE t \notin MovesOn(g, items)
    <3>1. shift = <<>>
      BY <2>2
    <3> HIDE DEF Sh, shift
    <3>2. <<>> \in Seq(Sh) /\ Len(<<>>) = 0
      OBVIOUS
    <3>3. QED
      BY <3>1, <3>2
  <2>3. QED
    BY <2>1, <2>2
<1> HIDE DEF shift, Sh
<1>8. /\ acts \in Seq(Sh \cup R) /\ Len(acts) \in Nat /\ DOMAIN acts = 1 .. Len(acts)
      /\ \A i \in DOMAIN acts : (acts[i] \in Sh /\ i = 1) \/ acts[i] \in R
  <2>1. PICK s, u : s = Len(shift) /\ u = Len(reds)
    OBVIOUS
  <2>2. shift \in Seq(Sh \cup R) /\ reds \in Seq(Sh \cup R) /\ s \in {0, 1} /\ u \in Nat
    BY <1>6, <1>7, <2>1
  <2>3. acts \in Seq(Sh \cup R) /\ Len(acts) = s + u
    BY <1>2, <2>1, <2>2
  <2>4. \A i \in 1 .. s + u : acts[i] = IF i <= s THEN shift[i] ELSE reds[i - s]
    BY <1>2, <2>1, <2>2, ConcatProperties
  <2>5. \A i \in 1 .. s : shift[i] \in Sh /\ i = 1
    BY <1>7, <2>1, <2>2
  <2>6. \A i \in 1 .. u : reds[i] \in R
    BY <1>6, <2>1, <2>2
  <2>7. \A i \in 1 .. s + u : (acts[i] \in Sh /\ i = 1) \/ acts[i] \in R
    <3> TAKE i \in 1 .. s + u
    <3>1. CASE i <= s
      <4>1. i \in 1 .. s
        BY <2>2, <3>1
      <4>2. QED
        BY <2>4, <2>5, <3>1, <4>1
    <3>2. CASE ~(i <= s)
      <4>1. i - s \in 1 .. u
        BY <2>2, <3>2
      <4>2. QED
        BY <2>4, <2>6, <3>2, <4>1
    <3>3. QED
      BY <3>1, <3>2
  <2>8. QED
    BY <2>3, <2>7
<1>9. acts \in Seq(ToSet(acts)) /\ \A a \in ToSet(acts) : IsAction(a)
  <2>1. \A i \in DOMAIN acts : acts[i] \in ToSet(acts)
    BY DEF ToSet
  <2>2. \A a \in ToSet(acts) : a \in Sh \/ a \in R
    BY <1>8 DEF ToSet
  <2>3. QED
    BY <1>3, <1>4, <1>8, <2>1, <2>2
<1>10. \A i \in DOMAIN acts : i > 1 => acts[i].type # "shift"
  <2> TAKE i \in DOMAIN acts
  <2>1. i > 1 => i # 1
    BY <1>8
  <2>2. QED
    BY <1>3, <1>8, <2>1
<1>11. QED
  BY <1>3, <1>4, <1>8, <1>9, <1>10 DEF Contend

\* What the parser takes is one of the candidates.
LEMMA ListHead ==
  ASSUME NEW g, NEW t, g.terms[t].assoc \in Assocs, NEW S, NEW acts, Contend(acts, S),
         NEW list, list = ActionList(g, acts, t)
  PROVE  /\ acts = <<>> => list = <<>>
         /\ acts # <<>> => list # <<>> /\ \E i \in DOMAIN acts : Head(list) = acts[i]
<1>0. PICK N, assoc : N = Len(acts) /\ assoc = g.terms[t].assoc
  OBVIOUS
<1>1. N \in Nat /\ DOMAIN acts = 1 .. N /\ (acts # <<>> => N \in 1 .. N)
  BY <1>0 DEF Contend
<1>2. PICK kept : Turns(kept, acts, assoc, S) /\ list = kept[N]
  BY <1>0, ListTurns
<1>3. ASSUME acts = <<>> PROVE list = <<>>
  <2>1. N = 0
    BY <1>0, <1>3
  <2>2. QED
    BY <1>2, <2>1 DEF Turns
<1>4. ASSUME acts # <<>>
      PROVE  list # <<>> /\ \E i \in DOMAIN acts : Head(list) = acts[i]
  <2>1. N \in 1 .. N /\ HeadDecided(acts, kept, assoc, N)
    BY <1>0, <1>1, <1>2, <1>4, HeadsDecided
  <2>2. QED
    BY <1>0, <1>1, <1>2, <2>1 DEF Turns, HeadDecided
<1>5. QED
  BY <1>3, <1>4

LEMMA ListFacts ==
  ASSUME NEW g, NEW t, g.terms[t].assoc \in Assocs, NEW acts, Contend(acts, ToSet(acts)),
         NEW list, list = ActionList(g, acts, t), NEW assoc, assoc = g.terms[t].assoc
  PROVE  /\ acts # <<>> => Decided(acts, assoc, Head(list))
         /\ (\A k \in DOMAIN acts : acts[k].type # "accept") =>
              (Len(list) > 1 <=> \E k \in DOMAIN acts : Undecided(SubSeq(acts, 1, k), assoc))
<1>0. PICK N, S : N = Len(acts) /\ S = ToSet(acts)
  OBVIOUS
<1>1. /\ N \in Nat /\ DOMAIN acts = 1 .. N /\ (acts # <<>> => N \in 1 .. N) /\ acts \in Seq(S)
      /\ acts = <<>> => N = 0
  BY <1>0 DEF Contend
<1>2. PICK kept : Turns(kept, acts, assoc, S) /\ list = kept[N]
  BY <1>0, ListTurns
<1>3. ASSUME acts # <<>> PROVE Decided(acts, assoc, Head(list))
  <2>1. HeadDecided(acts, kept, assoc, N)
    BY <1>0, <1>1, <1>2, <1>3, HeadsDecided
  <2>2. PICK h : h = Head(list)
    OBVIOUS
  <2>3. \A a \in ToSet(acts) : \E i \in 1 .. N : a = acts[i]
    BY <1>1 DEF ToSet
  <2>4. h.type # "accept" =>
           /\ \A i \in 1 .. N : acts[i].prec <= h.prec
           /\ (assoc = "left" /\ \E i \in 1 .. N : acts[i].prec = h.prec /\ acts[i].type = "reduce")
                => h.type = "reduce"
           /\ (assoc = "right" /\ \E i \in 1 .. N : acts[i].prec = h.prec /\ acts[i].type = "shift")
                => h.type = "shift"
    BY <1>2, <2>1, <2>2 DEF HeadDecided
  <2>5. QED
    BY <2>2, <2>3, <2>4 DEF Decided
<1>4. ASSUME \A k \in DOMAIN acts : acts[k].type # "accept"
      PROVE  Len(list) > 1 <=> \E k \in DOMAIN acts : Undecided(SubSeq(acts, 1, k), assoc)
  <2>1. CASE acts = <<>>
    <3>1. list = <<>> /\ DOMAIN acts = {}
      BY <1>0, <2>1, ListHead
    <3>2. QED
      BY <3>1
  <2>2. CASE acts # <<>>
    <3>1. Len(kept[N]) > 1 <=> \E k \in 1 .. N : UndecidedOf(acts, BestOf(acts, k), assoc)
      BY <1>0, <1>1, <1>2, <1>4, <2>2, ListsConflict
    <3>2. \A k \in 1 .. N : Undecided(SubSeq(acts, 1, k), assoc)
                              <=> UndecidedOf(acts, BestOf(acts, k), assoc)
      BY <1>0, <1>1, UndecidedPrefix
    <3>3. QED
      BY <1>1, <1>2, <3>1, <3>2
  <2>3. QED
    BY <2>1, <2>2
<1>5. QED
  BY <1>3, <1>4

\* For every grammar, state and terminal: precedence, then associativity
\* decides what __insert_action_to_action_list puts first, and a conflict is
\* reported just when neither decided at some moment.
THEOREM ActionsAreResolved == BuildSpec => []ConflictsResolved
<1>1. BuildOK => ConflictsResolved
  <2> SUFFICES ASSUME BuildOK, NEW n \in DOMAIN set, NEW t \in DOMAIN grammar.terms,
                      NEW acts, acts = Competing(n, t),
                      NEW list, list = ActionList(grammar, acts, t),
                      NEW assoc, assoc = grammar.terms[t].assoc
               PROVE  /\ acts # <<>> => Decided(acts, assoc, Head(list))
                      /\ (\A k \in DOMAIN acts : acts[k].type # "accept") =>
                           (Len(list) > 1 <=>
                              \E k \in DOMAIN acts : Undecided(SubSeq(acts, 1, k), assoc))
    BY DEF ConflictsResolved
  <2>1. IsGrammar(grammar) /\ set[n] \in SUBSET ItemsOf(grammar)
    BY DEF BuildOK, AutomatonOK, StatesOK
  <2>2. Contend(acts, ToSet(acts))
    BY <2>1, CandidateFacts DEF Competing
  <2>3. grammar.terms[t].assoc \in Assocs
    BY <2>1 DEF IsGrammar, Assocs
  <2>4. QED
    BY <2>2, <2>3, ListFacts
<1>2. QED
  BY <1>1, BuildInvariant, PTL


-------------------------------------------------------------------------------
(* The table made of the states and the follow sets. *)

\* Any numbering of the states, the start state first: the parser's
\* Parser_CollectState numbers them breadth first.
Numbers(states) ==
  /\ StartState \in DOMAIN states /\ 0 \notin DOMAIN states
  /\ states[StartState] = StartKernel
  /\ {states[n] : n \in DOMAIN states} = ToSet(set)
  /\ \A m, n \in DOMAIN states : states[m] = states[n] => m = n

MadeFrom(l, states) ==
  /\ l.rules = grammar.rules
  /\ EOI \in l.terms /\ ErrorT \notin l.terms
  /\ l.terms \cup {ErrorT} \subseteq DOMAIN grammar.terms
  /\ \A r \in DOMAIN grammar.rules : \A k \in DOMAIN grammar.rules[r].body :
       grammar.rules[r].body[k] \in l.terms \cup {ErrorT} \cup Heads(grammar)
  /\ l.configs = [n \in DOMAIN states |-> Closure(grammar, states[n])]
  /\ l.action = Table(grammar, states, follow).action
  /\ l.goto = Table(grammar, states, follow).goto

LEMMA NumberedFacts ==
  ASSUME AutomatonOK, stack = <<>>, NEW states, Numbers(states), NEW n \in DOMAIN states,
         NEW items, items = Closure(grammar, states[n])
  PROVE  /\ states[n] \in SUBSET ItemsOf(grammar) /\ states[n] \in ToSet(set)
         /\ items \in SUBSET ItemsOf(grammar) /\ states[n] \subseteq items
         /\ \A it \in items : it.dot > 0 => it \in states[n]
         /\ n # StartState => \A it \in states[n] : it.dot > 0
         /\ \A it \in items \ states[n] :
              /\ it.rule # 1
              /\ \E jt \in items : ~Completed(grammar, jt)
                                   /\ OnSymb(grammar, jt) = grammar.rules[it.rule].head
<1>0. IsGrammar(grammar) /\ StatesOK
  BY DEF AutomatonOK
<1>1. states[n] \in ToSet(set)
  BY DEF Numbers
<1>2. PICK m \in DOMAIN set : set[m] = states[n]
  BY <1>1 DEF ToSet
<1>3. states[n] \in SUBSET ItemsOf(grammar)
  BY <1>0, <1>2 DEF StatesOK
<1>4. items \in SUBSET ItemsOf(grammar) /\ states[n] \subseteq items
  BY <1>0, <1>3, ClosureFacts
<1>5. ASSUME NEW it \in items \ states[n]
      PROVE  /\ it.dot = 0 /\ it.rule # 1
             /\ \E jt \in items : ~Completed(grammar, jt)
                                  /\ OnSymb(grammar, jt) = grammar.rules[it.rule].head
  <2>1. PICK jt \in items : ~Completed(grammar, jt)
                /\ \E r \in RulesOf(grammar, OnSymb(grammar, jt)) : it = [rule |-> r, dot |-> 0]
    BY <1>0, <1>3, ClosureFacts
  <2>2. PICK r \in RulesOf(grammar, OnSymb(grammar, jt)) : it = [rule |-> r, dot |-> 0]
    BY <2>1
  <2>3. OnSymb(grammar, jt) # Start /\ OnSymb(grammar, jt) = grammar.rules[r].head
    BY <1>0, <1>4, <2>1, ItemFacts DEF RulesOf
  <2>4. it.rule = r /\ it.dot = 0
    BY <2>2
  <2>5. r # 1
    BY <1>0, <2>3, StartFacts
  <2>6. QED
    BY <2>1, <2>3, <2>4, <2>5
<1>6. ASSUME n # StartState PROVE \A it \in states[n] : it.dot > 0
  <2>1. m # 1
    BY <1>0, <1>2, <1>6 DEF Numbers, StatesOK
  <2>2. QED
    BY <1>0, <1>2, <2>1 DEF StatesOK
<1>7. \A it \in items : it.dot > 0 => it \in states[n]
  BY <1>5
<1>8. QED
  BY <1>1, <1>3, <1>4, <1>5, <1>6, <1>7

\* A move over a symbol some configuration has next.
LEMMA MoveFits ==
  ASSUME AutomatonOK, stack = <<>>, NEW states, Numbers(states), NEW l, MadeFrom(l, states),
         NEW n \in DOMAIN states, NEW jt \in Closure(grammar, states[n]),
         ~Completed(grammar, jt), NEW X, X = OnSymb(grammar, jt),
         NEW K, K = Moved(grammar, Closure(grammar, states[n]), X)
  PROVE  K # {} /\ MovesTo(l, n, X, CHOOSE m \in DOMAIN states : states[m] = K)
<1>0. IsGrammar(grammar)
  BY DEF AutomatonOK
<1>1. PICK items : items = Closure(grammar, states[n])
  OBVIOUS
<1>2. states[n] \in ToSet(set) /\ items \in SUBSET ItemsOf(grammar)
  BY <1>1, NumberedFacts
<1>3. K \in ToSet(set)
  BY <1>2, AutomatonClosed
<1>4. /\ K # {} /\ \A x \in K : x.dot \in Nat /\ x.dot > 0
      /\ \A x \in K : Body(grammar, x)[x.dot] = X /\ [rule |-> x.rule, dot |-> x.dot - 1] \in items
  <2>1. K = Moved(grammar, items, X)
    BY <1>1
  <2>2. K # {}
    BY <1>0, <1>1, <1>2, <2>1, MovedFacts
  <2>3. \A x \in K : x.dot \in Nat /\ x.dot > 0
    BY <1>0, <1>2, <2>1, MovedFacts
  <2>4. \A x \in K : Body(grammar, x)[x.dot] = X /\ [rule |-> x.rule, dot |-> x.dot - 1] \in items
    <3>1. PICK Y : Y = X
      OBVIOUS
    <3>2. ASSUME NEW x \in Moved(grammar, items, Y)
          PROVE  Body(grammar, x)[x.dot] = Y /\ [rule |-> x.rule, dot |-> x.dot - 1] \in items
      <4>1. IsGrammar(grammar) /\ items \in SUBSET ItemsOf(grammar)
        BY <1>0, <1>2
      <4>2. QED
        BY <4>1, MovedFacts, Zenon
    <3>3. QED
      BY <2>1, <3>1, <3>2
  <2>5. QED
    BY <2>2, <2>3, <2>4
<1>5. \E m \in DOMAIN states : states[m] = K
  BY <1>3 DEF Numbers
<1>6. PICK to : to = CHOOSE m \in DOMAIN states : states[m] = K
  OBVIOUS
<1>7. to \in DOMAIN states /\ states[to] = K
  BY <1>5, <1>6
<1>8. to # StartState
  <2>1. \A x \in StartKernel : x.dot = 0
    BY DEF StartKernel
  <2>2. QED
    BY <1>4, <1>7, <2>1 DEF Numbers
<1>9. /\ l.configs[to] = Closure(grammar, states[to]) /\ l.configs[n] = items
      /\ StatesOf(l) = DOMAIN states /\ l.rules = grammar.rules
  BY <1>1, <1>7 DEF MadeFrom, StatesOf
<1>10. \A it \in l.configs[to] : it.dot > 0 => it \in K
  BY <1>7, <1>9, NumberedFacts
<1>11. MovesTo(l, n, X, to)
  BY <1>4, <1>7, <1>8, <1>9, <1>10 DEF MovesTo, BodyOf, Body, Item
<1>12. QED
  BY <1>4, <1>6, <1>11

LEMMA ActionsFit ==
  ASSUME BuildOK, stage = "done", NEW states, Numbers(states), NEW l, MadeFrom(l, states),
         NEW n \in DOMAIN states, NEW t \in l.terms \cup {ErrorT}
  PROVE  ActionFits(l, n, t, l.action[<<n, t>>])
<1> DEFINE g == grammar
<1>0. /\ AutomatonOK /\ IsGrammar(g) /\ stack = <<>> /\ FollowOK /\ LinksOK
      /\ t \in DOMAIN g.terms /\ g.terms[t].assoc \in Assocs
      /\ l.rules = g.rules
  BY DEF BuildOK, AutomatonOK, SweepOK, MadeFrom, IsGrammar, Assocs
<1>1. PICK items : items = Closure(g, states[n])
  OBVIOUS
<1>2. /\ states[n] \in ToSet(set) /\ states[n] \in SUBSET ItemsOf(g) /\ items \in SUBSET ItemsOf(g)
      /\ l.configs[n] = items
  BY <1>0, <1>1, NumberedFacts DEF MadeFrom
<1>3. PICK acts, list, act : /\ acts = Candidates(g, states, follow, n, t)
                             /\ list = ActionList(g, acts, t)
                             /\ act = IF list = <<>> THEN ErrorAction ELSE Head(list)
  OBVIOUS
<1>4. l.action[<<n, t>>] = act
  <2> DEFINE E == (DOMAIN states) \X (DOMAIN g.terms)
             lists == [e \in E |-> ActionList(g, Candidates(g, states, follow, e[1], e[2]), e[2])]
  <2>1. l.action = [e \in DOMAIN lists |-> IF lists[e] = <<>> THEN ErrorAction ELSE Head(lists[e])]
    BY DEF MadeFrom, Table
  <2>2. <<n, t>> \in E /\ lists[<<n, t>>] = list
    BY <1>0, <1>3
  <2>3. DOMAIN lists = E
    OBVIOUS
  <2> HIDE DEF lists, E
  <2>4. QED
    BY <1>3, <2>1, <2>2, <2>3
<1>5. /\ Contend(acts, ToSet(acts))
      /\ \A i \in DOMAIN acts : \/ IsShift(g, states, n, t, acts[i])
                                \/ IsReduction(g, states, follow, n, t, acts[i])
  BY <1>0, <1>2, <1>3, CandidateFacts
<1>6. /\ acts = <<>> => list = <<>>
      /\ acts # <<>> => list # <<>> /\ \E i \in DOMAIN acts : Head(list) = acts[i]
  BY <1>0, <1>3, <1>5, ListHead
<1>7. \/ act = ErrorAction
      \/ IsShift(g, states, n, t, act) \/ IsReduction(g, states, follow, n, t, act)
  BY <1>3, <1>5, <1>6
<1>8. CASE act = ErrorAction
  BY <1>4, <1>8 DEF ErrorAction, ActionFits
<1>9. CASE IsShift(g, states, n, t, act)
  <2>1. PICK jt \in items : ~Completed(g, jt) /\ OnSymb(g, jt) = t
    BY <1>1, <1>9 DEF IsShift, MovesOn
  <2>2. act.type = "shift" /\ MovesTo(l, n, t, act.to)
    BY <1>0, <1>1, <1>9, <2>1, MoveFits DEF IsShift
  <2>3. QED
    BY <1>4, <2>2 DEF ActionFits
<1>10. CASE IsReduction(g, states, follow, n, t, act)
  <2>1. PICK it \in items : /\ Completed(g, it) /\ t \in follow[<<states[n], it>>]
                            /\ act.rule = it.rule /\ act.count = Len(Body(g, it))
                            /\ act.type = IF g.rules[it.rule].head = Start THEN "accept" ELSE "reduce"
    BY <1>1, <1>10 DEF IsReduction
  <2>2. it \in ItemsOf(g)
    BY <1>2
  <2>3. /\ it.rule \in DOMAIN g.rules /\ it = Item(it.rule, Len(Body(g, it)))
    <3>1. it.rule \in 1 .. Len(g.rules) /\ it = [rule |-> it.rule, dot |-> it.dot]
      BY <1>0, <2>2, ItemFacts
    <3>2. it.dot = Len(Body(g, it))
      BY <2>1 DEF Completed
    <3>3. DOMAIN g.rules = 1 .. Len(g.rules)
      BY <1>0 DEF IsGrammar
    <3>4. QED
      BY <3>1, <3>2, <3>3 DEF Item
  <2>4. g.rules[it.rule].head = Start <=> it.rule = 1
    BY <1>0, <2>3 DEF IsGrammar
  <2>5. CASE it.rule # 1
    <3>1. act.type = "reduce"
      BY <2>1, <2>4, <2>5
    <3>2. act.count = Len(BodyOf(l, act.rule))
      BY <1>0, <2>1 DEF BodyOf, Body
    <3>3. QED
      BY <1>0, <1>2, <1>4, <2>1, <2>3, <2>5, <3>1, <3>2 DEF ActionFits
  <2>6. CASE it.rule = 1
    <3>1. act.type = "accept"
      BY <2>1, <2>4, <2>6
    <3>2. <<states[n], it>> \in Configurations
      BY <1>0, <1>1, <1>2, ConfigurationFacts
    <3>3. t = EOI
      <4>1. PICK c : c = <<states[n], it>>
        OBVIOUS
      <4>2. c \in Configurations /\ c[2].rule = 1 /\ t \in follow[c]
        BY <2>1, <2>6, <3>2, <4>1
      <4>3. QED
        BY <1>0, <4>2 DEF FollowOK
    <3>4. Item(1, 1) \in items
      <4>1. Len(Body(g, it)) = 1
        BY <1>0, <2>6, StartFacts DEF Body
      <4>2. QED
        BY <2>3, <2>6, <4>1
    <3>5. QED
      BY <1>2, <1>4, <3>1, <3>3, <3>4 DEF ActionFits
  <2>7. QED
    BY <2>5, <2>6
<1>11. QED
  BY <1>7, <1>8, <1>9, <1>10

LEMMA ConfigsFit ==
  ASSUME AutomatonOK, stack = <<>>, NEW states, Numbers(states), NEW l, MadeFrom(l, states),
         NEW n \in DOMAIN states, NEW it \in l.configs[n]
  PROVE  ConfigFits(l, n, it)
<1> DEFINE g == grammar
<1>0. IsGrammar(g) /\ l.rules = g.rules
  BY DEF AutomatonOK, MadeFrom
<1>1. PICK items : items = Closure(g, states[n])
  OBVIOUS
<1>2. /\ items \in SUBSET ItemsOf(g) /\ it \in items
      /\ \A x \in items : x.dot > 0 => x \in states[n]
      /\ n # StartState => \A x \in states[n] : x.dot > 0
      /\ \A x \in items \ states[n] : /\ x.rule # 1
              /\ \E jt \in items : ~Completed(g, jt) /\ OnSymb(g, jt) = g.rules[x.rule].head
  BY <1>1, NumberedFacts DEF MadeFrom
<1>3. /\ it.rule \in DOMAIN g.rules /\ it.dot \in Nat
      /\ it.dot \in 0 .. Len(BodyOf(l, it.rule)) /\ it = Item(it.rule, it.dot)
  <2>1. /\ it.rule \in 1 .. Len(g.rules) /\ it = [rule |-> it.rule, dot |-> it.dot]
        /\ it.dot \in Nat /\ Len(Body(g, it)) \in Nat /\ it.dot <= Len(Body(g, it))
    BY <1>0, <1>2, ItemFacts
  <2>2. Len(BodyOf(l, it.rule)) = Len(Body(g, it))
    BY <1>0 DEF BodyOf, Body
  <2>3. DOMAIN g.rules = 1 .. Len(g.rules)
    BY <1>0 DEF IsGrammar
  <2>4. QED
    BY <2>1, <2>2, <2>3 DEF Item
<1>4. states[StartState] = StartKernel /\ \A x \in StartKernel : x = Item(1, 0) /\ x.dot = 0 /\ x.rule = 1
  BY DEF Numbers, StartKernel, Item
<1>5. n = StartState => it.dot = 0
  BY <1>2, <1>3, <1>4
<1>6. it \in states[n] /\ it.dot = 0 => n = StartState
  BY <1>2
<1>7. it = Item(1, 0) => n = StartState
  <2>1. Item(1, 0).rule = 1 /\ Item(1, 0).dot = 0
    BY DEF Item
  <2>2. QED
    BY <1>2, <1>6, <2>1
<1>8. ASSUME it.dot = 0, it.rule # 1
      PROVE  LET X == g.rules[it.rule].head IN MovesTo(l, n, X, l.goto[<<n, X>>])
  <2>1. it \notin states[n]
    BY <1>4, <1>6, <1>8
  <2>2. PICK X : X = g.rules[it.rule].head
    OBVIOUS
  <2>3. PICK jt \in items : ~Completed(g, jt) /\ OnSymb(g, jt) = X
    BY <1>2, <2>1, <2>2
  <2>4. PICK K : K = Moved(g, items, X)
    OBVIOUS
  <2>5. K # {} /\ MovesTo(l, n, X, CHOOSE m \in DOMAIN states : states[m] = K)
    BY <1>1, <2>3, <2>4, MoveFits
  <2>6. X \in Heads(g)
    BY <1>3, <2>2 DEF Heads
  <2>7. l.goto[<<n, X>>] = CHOOSE m \in DOMAIN states : states[m] = K
    <3>1. l.goto = [e \in (DOMAIN states) \X Heads(g) |->
                     LET M == Moved(g, Closure(g, states[e[1]]), e[2])
                     IN  IF M = {} THEN 0 ELSE CHOOSE m \in DOMAIN states : states[m] = M]
      BY DEF MadeFrom, Table
    <3>2. <<n, X>> \in (DOMAIN states) \X Heads(g)
      BY <2>6
    <3>3. QED
      BY <1>1, <2>4, <2>5, <3>1, <3>2
  <2>8. QED
    BY <2>2, <2>5, <2>7
<1>9. QED
  BY <1>0, <1>3, <1>5, <1>7, <1>8 DEF ConfigFits

\* Whatever numbering of the states and whatever added terminals are used, the
\* finished table is one the parser can rely on.
TablesFit ==
  stage = "done" => \A states, l : Numbers(states) /\ MadeFrom(l, states) => TableFits(l)

\* What LanguagesAssumption says of a table, __create_action_table delivers for
\* every grammar: shifts and gotos lead to states that hold what moved on,
\* reductions have their body in the state, acceptance is on EOI only.
THEOREM BuiltTablesFit == BuildSpec => []TablesFit
<1>1. BuildOK => TablesFit
  <2> SUFFICES ASSUME BuildOK, stage = "done", NEW states, Numbers(states), NEW l, MadeFrom(l, states)
               PROVE  TableFits(l)
    BY DEF TablesFit
  <2>1. AutomatonOK /\ stack = <<>> /\ IsGrammar(grammar)
    BY DEF BuildOK, AutomatonOK
  <2>2. StatesOf(l) = DOMAIN states /\ l.rules = grammar.rules /\ EOI \in l.terms /\ ErrorT \notin l.terms
    BY DEF MadeFrom, StatesOf
  <2>3. ASSUME NEW r \in DOMAIN l.rules PROVE BodyOf(l, r) \in Seq(Symbols(l))
    <3>1. PICK body : body = grammar.rules[r].body
      OBVIOUS
    <3>2. body \in Seq(Heads(grammar) \cup DOMAIN grammar.terms)
      BY <2>1, <2>2, <3>1 DEF IsGrammar
    <3>3. \A k \in DOMAIN body : body[k] \in Symbols(l)
      BY <2>2, <3>1 DEF MadeFrom, Symbols, Heads
    <3>4. PICK N : N = Len(body)
      OBVIOUS
    <3>5. N \in Nat /\ DOMAIN body = 1 .. N /\ body = [k \in 1 .. N |-> body[k]]
      BY <3>2, <3>4
    <3>6. body \in Seq(Symbols(l))
      BY <3>3, <3>5
    <3>7. QED
      BY <2>2, <3>1, <3>6 DEF BodyOf
  <2>4. \A n \in StatesOf(l) : \A t \in l.terms \cup {ErrorT} : ActionFits(l, n, t, l.action[<<n, t>>])
    BY <2>2, ActionsFit
  <2>5. \A n \in StatesOf(l) : \A it \in l.configs[n] : ConfigFits(l, n, it)
    BY <2>1, <2>2, ConfigsFit
  <2>6. StartState \in StatesOf(l) /\ 0 \notin StatesOf(l)
    BY <2>2 DEF Numbers
  <2>7. QED
    BY <2>2, <2>3, <2>4, <2>5, <2>6 DEF TableFits
<1>2. QED
  BY <1>1, BuildInvariant, PTL

-------------------------------------------------------------------------------
(* The parser. *)

\* LanguagesAssumption, written out.
LEMMA GivenTables ==
  /\ NULL \notin Node
  /\ \A l \in Languages :
       /\ EOI \in l.terms /\ ErrorT \notin l.terms
       /\ l.maxTokens \in Nat /\ l.answers \subseteq {"yes", "no", "fail"}
       /\ \A r \in DOMAIN l.rules :
            BodyOf(l, r) \in Seq(Symbols(l)) /\ l.autoRet[r] \in Nat
       /\ StartState \in StatesOf(l) /\ 0 \notin StatesOf(l)
       /\ \A s \in StatesOf(l) :
            /\ \A t \in l.terms \cup {ErrorT} : ActionFits(l, s, t, l.action[<<s, t>>])
            /\ \A it \in l.configs[s] : ConfigFits(l, s, it)
BY LanguagesAssumption DEF TableFits

-------------------------------------------------------------------------------
(* Stacks. *)

LEMMA Push ==
  ASSUME NEW S, NEW s \in Seq(S), NEW T, S \subseteq T, NEW x \in T
  PROVE  /\ Append(s, x) \in Seq(T)
         /\ Len(Append(s, x)) = Len(s) + 1
         /\ \A i \in 1 .. Len(s) : Append(s, x)[i] = s[i]
         /\ Append(s, x)[Len(s) + 1] = x
<1>1. s \in Seq(T)
  BY SeqDef
<1>2. QED
  BY <1>1, AppendProperties

LEMMA Drop ==
  ASSUME NEW S, NEW s \in Seq(S), NEW n \in 0 .. Len(s)
  PROVE  /\ DropLast(s, n) \in Seq(S)
         /\ Len(DropLast(s, n)) = Len(s) - n
         /\ \A i \in 1 .. Len(s) - n : DropLast(s, n)[i] = s[i]
<1>1. Len(s) \in Nat /\ \A i \in 1 .. Len(s) : s[i] \in S
  BY ElementOfSeq, LenProperties
<1>2. DropLast(s, n) = [i \in 1 .. Len(s) - n |-> s[i]]
  BY <1>1 DEF DropLast
<1>3. QED
  BY <1>1, <1>2

LEMMA Take ==
  ASSUME NEW S, NEW s \in Seq(S), NEW n \in 0 .. Len(s)
  PROVE  /\ TakeLast(s, n) \in Seq(S)
         /\ Len(TakeLast(s, n)) = n
         /\ \A i \in 1 .. n : TakeLast(s, n)[i] = s[Len(s) - n + i]
<1>1. Len(s) \in Nat /\ \A i \in 1 .. Len(s) : s[i] \in S
  BY ElementOfSeq, LenProperties
<1>2. TakeLast(s, n) = [i \in 1 .. n |-> s[Len(s) - n + i]]
  BY <1>1 DEF TakeLast
<1>3. QED
  BY <1>1, <1>2

LEMMA OwnElements ==
  ASSUME NEW S, NEW s \in Seq(S)
  PROVE  s \in Seq(ToSet(s))
<1>1. Len(s) \in Nat /\ DOMAIN s = 1 .. Len(s) /\ s = [i \in 1 .. Len(s) |-> s[i]]
  BY LenProperties, SeqDef
<1>2. \A i \in 1 .. Len(s) : s[i] \in ToSet(s)
  BY <1>1 DEF ToSet
<1>3. QED
  BY <1>1, <1>2, SeqDef

-------------------------------------------------------------------------------
(* What explains a state of the stack: the configurations it holds have their *)
(* bodies, up to the dot, in the entries below it, and were predicted by the  *)
(* state under those.                                                         *)
Explains(l, ss, ts, i) ==
  /\ ss[i] = StartState <=> i = 1
  /\ \A it \in l.configs[ss[i]] :
       /\ it.dot < i
       /\ \A k \in 1 .. it.dot : ts[i - it.dot + k].sym = BodyOf(l, it.rule)[k]
       /\ Item(it.rule, 0) \in l.configs[ss[i - it.dot]]

Stack(l, ss, ts) ==
  /\ ss \in Seq(StatesOf(l)) /\ ts \in Seq(ToSet(ts))
  /\ Len(ts) = Len(ss)
  /\ \A i \in 1 .. Len(ss) : Explains(l, ss, ts, i)

LEMMA Dots ==
  ASSUME NEW l \in Languages, NEW s \in StatesOf(l), NEW it \in l.configs[s]
  PROVE  it.dot \in Nat /\ it.dot <= Len(BodyOf(l, it.rule)) /\ it.rule \in DOMAIN l.rules
<1>1. ConfigFits(l, s, it)
  BY GivenTables
<1>2. BodyOf(l, it.rule) \in Seq(Symbols(l))
  BY <1>1, GivenTables DEF ConfigFits
<1>3. Len(BodyOf(l, it.rule)) \in Nat
  BY <1>2, LenProperties
<1>4. QED
  BY <1>1, <1>3 DEF ConfigFits

LEMMA ExplainsSame ==
  ASSUME NEW l \in Languages, NEW ss, NEW ts, NEW ss1, NEW ts1, NEW n \in Nat, NEW i \in 1 .. n,
         \A j \in 1 .. n : ss1[j] = ss[j] /\ ts1[j] = ts[j] /\ ss[j] \in StatesOf(l),
         Explains(l, ss, ts, i)
  PROVE  Explains(l, ss1, ts1, i)
<1>1. ss1[i] = ss[i]
  OBVIOUS
<1>2. ASSUME NEW it \in l.configs[ss1[i]]
      PROVE  /\ it.dot < i
             /\ \A k \in 1 .. it.dot : ts1[i - it.dot + k].sym = BodyOf(l, it.rule)[k]
             /\ Item(it.rule, 0) \in l.configs[ss1[i - it.dot]]
  <2>1. it \in l.configs[ss[i]] /\ ss[i] \in StatesOf(l)
    BY <1>1
  <2>2. it.dot \in Nat
    BY <2>1, Dots
  <2>3. /\ it.dot < i
        /\ \A k \in 1 .. it.dot : ts[i - it.dot + k].sym = BodyOf(l, it.rule)[k]
        /\ Item(it.rule, 0) \in l.configs[ss[i - it.dot]]
    BY <2>1 DEF Explains
  <2>4. i - it.dot \in 1 .. n /\ \A k \in 1 .. it.dot : i - it.dot + k \in 1 .. n
    BY <2>2, <2>3
  <2>5. QED
    BY <2>3, <2>4
<1>3. QED
  BY <1>1, <1>2 DEF Explains

LEMMA StackPop ==
  ASSUME NEW l \in Languages, NEW ss, NEW ts, Stack(l, ss, ts), NEW n \in 0 .. Len(ss)
  PROVE  Stack(l, DropLast(ss, n), DropLast(ts, n))
<1> DEFINE ss1 == DropLast(ss, n)
           ts1 == DropLast(ts, n)
<1>1. ss \in Seq(StatesOf(l)) /\ ts \in Seq(ToSet(ts)) /\ Len(ts) = Len(ss) /\ Len(ss) \in Nat
  BY LenProperties DEF Stack
<1>2. /\ ss1 \in Seq(StatesOf(l)) /\ Len(ss1) = Len(ss) - n
      /\ \A i \in 1 .. Len(ss) - n : ss1[i] = ss[i]
  BY <1>1, Drop
<1>3. /\ ts1 \in Seq(ToSet(ts)) /\ Len(ts1) = Len(ss) - n
      /\ \A i \in 1 .. Len(ss) - n : ts1[i] = ts[i]
  BY <1>1, Drop
<1>4. ts1 \in Seq(ToSet(ts1))
  BY <1>3, OwnElements
<1>5. \A i \in 1 .. Len(ss) - n : ss[i] \in StatesOf(l)
  BY <1>1, ElementOfSeq
<1> HIDE DEF ss1, ts1
<1>6. \A i \in 1 .. Len(ss) - n : Explains(l, ss1, ts1, i)
  <2> TAKE i \in 1 .. Len(ss) - n
  <2>1. Explains(l, ss, ts, i) /\ Len(ss) - n \in Nat
    BY <1>1 DEF Stack
  <2>2. QED
    BY <2>1, <1>2, <1>3, <1>5, ExplainsSame
<1>7. Stack(l, ss1, ts1)
  BY <1>2, <1>3, <1>4, <1>6 DEF Stack
<1>8. QED
  BY <1>7 DEF ss1, ts1

LEMMA StackPush ==
  ASSUME NEW l \in Languages, NEW ss, NEW ts, Stack(l, ss, ts), ss # <<>>,
         NEW to, NEW t, MovesTo(l, Last(ss), t.sym, to)
  PROVE  Stack(l, Append(ss, to), Append(ts, t))
<1> DEFINE n   == Len(ss)
           ss1 == Append(ss, to)
           ts1 == Append(ts, t)
<1>1. ss \in Seq(StatesOf(l)) /\ ts \in Seq(ToSet(ts)) /\ Len(ts) = n /\ n \in Nat \ {0}
  BY EmptySeq, LenProperties DEF Stack
<1>2. to \in StatesOf(l) \ {StartState} /\ Last(ss) = ss[n]
  BY <1>1 DEF MovesTo, Last
<1>3. /\ ss1 \in Seq(StatesOf(l)) /\ Len(ss1) = n + 1 /\ ss1[n + 1] = to
      /\ \A i \in 1 .. n : ss1[i] = ss[i]
  BY <1>1, <1>2, Push
<1>4. /\ ts1 \in Seq(ToSet(ts) \cup {t}) /\ Len(ts1) = n + 1 /\ ts1[n + 1] = t
      /\ \A i \in 1 .. n : ts1[i] = ts[i]
  BY <1>1, Push
<1>5. ts1 \in Seq(ToSet(ts1))
  BY <1>4, OwnElements
<1>6. \A i \in 1 .. n : ss[i] \in StatesOf(l)
  BY <1>1, ElementOfSeq
<1> HIDE DEF ss1, ts1
<1>7. \A i \in 1 .. n : Explains(l, ss1, ts1, i)
  BY <1>1, <1>3, <1>4, <1>6, ExplainsSame DEF Stack
<1>8. Explains(l, ss1, ts1, n + 1)
  <2>1. ss1[n + 1] = StartState <=> n + 1 = 1
    BY <1>1, <1>2, <1>3
  <2>2. ASSUME NEW it \in l.configs[ss1[n + 1]]
        PROVE  /\ it.dot < n + 1
               /\ \A k \in 1 .. it.dot : ts1[(n + 1) - it.dot + k].sym = BodyOf(l, it.rule)[k]
               /\ Item(it.rule, 0) \in l.configs[ss1[(n + 1) - it.dot]]
    <3>0. it \in l.configs[to]
      BY <1>3
    <3>1. it.dot \in Nat /\ it = Item(it.rule, it.dot)
      BY <3>0, <1>2, Dots, GivenTables DEF ConfigFits
    <3>2. CASE it.dot = 0
      <4>1. it.dot < n + 1 /\ (n + 1) - it.dot = n + 1
        BY <3>2, <1>1
      <4>2. QED
        BY <4>1, <3>1, <3>2, <1>3
    <3>3. CASE it.dot > 0
      <4> DEFINE d == it.dot - 1
                 jt == Item(it.rule, d)
      <4>1. BodyOf(l, it.rule)[it.dot] = t.sym /\ jt \in l.configs[ss[n]]
        BY <3>0, <3>3, <1>2 DEF MovesTo
      <4>2. jt.dot = d /\ jt.rule = it.rule /\ d \in Nat
        <5>1. d \in Nat
          BY <3>1, <3>3
        <5>2. jt.dot = d /\ jt.rule = it.rule
          BY DEF Item
        <5>3. QED
          BY <5>1, <5>2
      <4> HIDE DEF jt
      <4>3. Explains(l, ss, ts, n)
        BY <1>1 DEF Stack
      <4>4. /\ d < n
            /\ \A k \in 1 .. d : ts[n - d + k].sym = BodyOf(l, it.rule)[k]
            /\ Item(it.rule, 0) \in l.configs[ss[n - d]]
        BY <4>1, <4>2, <4>3 DEF Explains
      <4>5. it.dot < n + 1 /\ (n + 1) - it.dot = n - d /\ n - d \in 1 .. n
        BY <4>2, <4>4, <3>1, <1>1
      <4>6. Item(it.rule, 0) \in l.configs[ss1[(n + 1) - it.dot]]
        BY <4>4, <4>5, <1>3
      <4>7. ASSUME NEW k \in 1 .. it.dot
            PROVE  ts1[(n + 1) - it.dot + k].sym = BodyOf(l, it.rule)[k]
        <5>1. CASE k = it.dot
          <6>1. (n + 1) - it.dot + k = n + 1
            BY <5>1, <3>1, <1>1
          <6>2. QED
            BY <6>1, <5>1, <4>1, <1>4
        <5>2. CASE k # it.dot
          <6>1. n \in Nat /\ it.dot \in Nat /\ d = it.dot - 1 /\ d \in Nat /\ d < n
            BY <4>2, <4>4, <3>1, <1>1
          <6>2. k \in 1 .. d
            BY <5>2, <6>1
          <6>3. (n + 1) - it.dot + k = n - d + k /\ n - d + k \in 1 .. n
            BY <6>1, <6>2
          <6>4. QED
            BY <6>2, <6>3, <4>4, <1>4
        <5>3. QED
          BY <5>1, <5>2
      <4>8. QED
        BY <4>5, <4>6, <4>7
    <3>4. QED
      BY <3>1, <3>2, <3>3
  <2> HIDE DEF n
  <2>3. QED
    BY <2>1, <2>2 DEF Explains
<1>9. \A i \in 1 .. n + 1 : Explains(l, ss1, ts1, i)
  BY <1>1, <1>7, <1>8
<1>10. Stack(l, ss1, ts1)
  BY <1>3, <1>4, <1>5, <1>9 DEF Stack
<1>11. QED
  BY <1>10 DEF ss1, ts1

\* A stack that is not empty has the start state at its bottom, and only there.
LEMMA StackStart ==
  ASSUME NEW l \in Languages, NEW t
  PROVE  Stack(l, <<>>, <<>>) /\ Stack(l, <<StartState>>, <<t>>)
<1>1. Stack(l, <<>>, <<>>)
  BY DEF Stack
<1>2. StartState \in StatesOf(l)
  BY GivenTables
<1>3. <<StartState>> \in Seq(StatesOf(l)) /\ Len(<<StartState>>) = 1
  BY <1>2
<1>4. <<t>> \in Seq({t}) /\ Len(<<t>>) = 1
  OBVIOUS
<1>5. <<t>> \in Seq(ToSet(<<t>>))
  BY <1>4, OwnElements
<1>6. Explains(l, <<StartState>>, <<t>>, 1)
  <2>1. ASSUME NEW it \in l.configs[StartState]
        PROVE  it.dot = 0 /\ it = Item(it.rule, 0)
    BY <1>2, GivenTables DEF ConfigFits
  <2>2. QED
    BY <2>1 DEF Explains
<1>7. QED
  BY <1>1, <1>3, <1>4, <1>5, <1>6 DEF Stack

\* What the action of a state needs of the stack it tops.
LEMMA ReduceReady ==
  ASSUME NEW l \in Languages, NEW ss, NEW ts, Stack(l, ss, ts), ss # <<>>,
         NEW t, NEW act, ActionFits(l, Last(ss), t, act), act.type = "reduce"
  PROVE  LET rest == DropLast(ss, act.count)
             kids == TakeLast(ts, act.count)
             head == l.rules[act.rule].head
         IN  /\ act.count \in 0 .. Len(ss) /\ Len(ss) > act.count
             /\ [k \in DOMAIN kids |-> kids[k].sym] = BodyOf(l, act.rule)
             /\ rest # <<>>
             /\ MovesTo(l, Last(rest), head, l.goto[<<Last(rest), head>>])
<1> DEFINE n    == Len(ss)
           c    == act.count
           it   == Item(act.rule, c)
           rest == DropLast(ss, c)
           kids == TakeLast(ts, c)
           body == BodyOf(l, act.rule)
           head == l.rules[act.rule].head
<1>1. /\ ss \in Seq(StatesOf(l)) /\ ts \in Seq(ToSet(ts)) /\ Len(ts) = n
      /\ n \in Nat \ {0} /\ Last(ss) = ss[n]
  BY EmptySeq, LenProperties DEF Stack, Last
<1>2. act.rule \in DOMAIN l.rules \ {1} /\ c = Len(body) /\ it \in l.configs[ss[n]]
  BY <1>1 DEF ActionFits
<1>3. body \in Seq(Symbols(l)) /\ c \in Nat
  <2>1. body \in Seq(Symbols(l))
    BY <1>2, GivenTables
  <2>2. QED
    BY <2>1, <1>2, LenProperties
<1>4. it.dot = c /\ it.rule = act.rule
  BY DEF Item
<1>5. Explains(l, ss, ts, n)
  BY <1>1 DEF Stack
<1> HIDE DEF it
<1>6. /\ c < n
      /\ \A k \in 1 .. c : ts[n - c + k].sym = body[k]
      /\ Item(act.rule, 0) \in l.configs[ss[n - c]]
  BY <1>2, <1>4, <1>5 DEF Explains
<1>7. c \in 0 .. n /\ n - c \in 1 .. n
  BY <1>1, <1>3, <1>6
<1>8. [k \in DOMAIN kids |-> kids[k].sym] = body
  <2>1. /\ DOMAIN kids = 1 .. c
        /\ \A k \in 1 .. c : kids[k] = ts[n - c + k]
    <3>0. c \in 0 .. Len(ts)
      BY <1>1, <1>7
    <3>1. /\ kids \in Seq(ToSet(ts)) /\ Len(kids) = c
          /\ \A k \in 1 .. c : kids[k] = ts[Len(ts) - c + k]
      <4>1. ts \in Seq(ToSet(ts))
        BY <1>1
      <4>2. QED
        BY <4>1, <3>0, Take
    <3> HIDE DEF kids
    <3>2. QED
      BY <3>1, <1>1, LenProperties
  <2>2. DOMAIN body = 1 .. c /\ body = [k \in 1 .. c |-> body[k]]
    BY <1>2, <1>3, LenProperties, SeqDef
  <2> HIDE DEF kids, body
  <2>3. QED
    BY <2>1, <2>2, <1>6
<1>9. rest # <<>> /\ Last(rest) = ss[n - c]
  <2>1. /\ rest \in Seq(StatesOf(l)) /\ Len(rest) = n - c
        /\ \A i \in 1 .. n - c : rest[i] = ss[i]
    BY <1>1, <1>7, Drop
  <2> HIDE DEF rest
  <2>2. QED
    BY <2>1, <1>7 DEF Last
<1>10. MovesTo(l, ss[n - c], head, l.goto[<<ss[n - c], head>>])
  <2>1. ss[n - c] \in StatesOf(l)
    BY <1>1, <1>7, ElementOfSeq
  <2>2. ConfigFits(l, ss[n - c], Item(act.rule, 0))
    BY <2>1, <1>6, GivenTables
  <2>3. Item(act.rule, 0).dot = 0 /\ Item(act.rule, 0).rule = act.rule
    BY DEF Item
  <2>4. QED
    BY <2>2, <2>3, <1>2 DEF ConfigFits
<1>11. QED
  BY <1>6, <1>7, <1>8, <1>9, <1>10

LEMMA StackReduce ==
  ASSUME NEW l \in Languages, NEW ss, NEW ts, Stack(l, ss, ts), ss # <<>>,
         NEW t, NEW act, ActionFits(l, Last(ss), t, act), act.type = "reduce",
         NEW tree, tree.sym = l.rules[act.rule].head
  PROVE  LET rest == DropLast(ss, act.count)
         IN  Stack(l, Append(rest, l.goto[<<Last(rest), l.rules[act.rule].head>>]),
                   Append(DropLast(ts, act.count), tree))
BY ReduceReady, StackPop, StackPush

-------------------------------------------------------------------------------
(* The invariant. *)
Lengths ==
  \/ Len(nodeStack) = Len(stateStack)
  \/ pc = "failed" /\ Len(nodeStack) + 1 = Len(stateStack)

\* The variables other than the stacks.
ControlOK ==
  /\ isAccepted \in BOOLEAN /\ isRepair \in BOOLEAN /\ goodInput \in BOOLEAN
  /\ validShift \in 0 .. MaxValidShift - 1
  /\ ~isRepair => validShift = 0
  /\ ~(isAccepted /\ isRepair)
  /\ pc \in {"idle", "parse", "recover", "no", "failed"}
  /\ tok \in Terms /\ fed \in 0 .. MaxTokens
  /\ live \subseteq Node /\ reports \in Nat
  /\ isAccepted => pc = "idle"

StacksOK ==
  /\ Stack(lang, stateStack, trees)
  /\ nodeStack \in Seq(Node \cup {NULL})
  /\ Lengths
  /\ pc = "parse" => stateStack # <<>>

Inv == lang \in Languages /\ ControlOK /\ StacksOK /\ AcceptsOne

\* What follows for the call that is running.
LEMMA InCall ==
  ASSUME Inv, pc \in {"parse", "recover"}, stateStack # <<>>
  PROVE  /\ Top \in StatesOf(lang)
         /\ Len(nodeStack) = Len(stateStack) /\ Len(stateStack) \in Nat \ {0}
         /\ isAccepted = FALSE
         /\ ActionFits(lang, Top, tok, Action)
         /\ ActionFits(lang, Top, ErrorT, OnErrorT)
<1>1. /\ stateStack \in Seq(StatesOf(lang)) /\ lang \in Languages /\ tok \in Terms
      /\ Len(nodeStack) = Len(stateStack)
      /\ isAccepted \in BOOLEAN /\ (isAccepted => pc = "idle")
  BY DEF Inv, ControlOK, StacksOK, Stack, Lengths
<1>2. Len(stateStack) \in Nat \ {0} /\ Top = stateStack[Len(stateStack)]
  BY <1>1, EmptySeq, LenProperties DEF Top, Last
<1>3. Top \in StatesOf(lang)
  BY <1>1, <1>2, ElementOfSeq
<1>4. \A t \in lang.terms \cup {ErrorT} : ActionFits(lang, Top, t, lang.action[<<Top, t>>])
  BY <1>1, <1>3, GivenTables
<1>5. QED
  BY <1>1, <1>2, <1>3, <1>4 DEF Action, OnErrorT, ActionOf, Terms

LEMMA BodyReady ==
  ASSUME Inv, pc \in {"parse", "recover"}, stateStack # <<>>,
         NEW t, NEW act, ActionFits(lang, Top, t, act), act.type = "reduce"
  PROVE  BodyOnTop(act)
<1>1. lang \in Languages /\ Stack(lang, stateStack, trees)
  BY DEF Inv, StacksOK
<1> DEFINE rest == DropLast(stateStack, act.count)
           head == lang.rules[act.rule].head
<1>2. /\ Len(stateStack) > act.count
      /\ LET kids == TakeLast(trees, act.count)
         IN  [k \in DOMAIN kids |-> kids[k].sym] = BodyOf(lang, act.rule)
      /\ MovesTo(lang, Last(rest), head, lang.goto[<<Last(rest), head>>])
  BY <1>1, ReduceReady DEF Top
<1>3. lang.goto[<<Last(rest), head>>] # 0
  BY <1>1, <1>2, GivenTables DEF MovesTo
<1>4. QED
  BY <1>2, <1>3 DEF BodyOnTop, GotoOf, Rules, BodyOf

-------------------------------------------------------------------------------
(* Each step keeps the invariant. *)

LEMMA InitOK == ASSUME Init PROVE Inv
<1>1. lang \in Languages
  BY DEF Init
<1>2. ControlOK
  <2>1. EOI \in Terms /\ 0 \in 0 .. MaxTokens
    BY <1>1, GivenTables DEF Terms, MaxTokens
  <2>2. 0 \in 0 .. MaxValidShift - 1
    BY DEF MaxValidShift
  <2>3. QED
    BY <2>1, <2>2 DEF Init, ControlOK
<1>3. StacksOK
  BY <1>1, StackStart DEF Init, StacksOK, Lengths
<1>4. AcceptsOne
  BY DEF Init, AcceptsOne
<1>5. QED
  BY <1>1, <1>2, <1>3, <1>4 DEF Inv

LEMMA CountShiftOK ==
  ASSUME ControlOK, CountShift
  PROVE  /\ isRepair' \in BOOLEAN /\ (isRepair' => isRepair)
         /\ validShift' \in 0 .. MaxValidShift - 1
         /\ ~isRepair' => validShift' = 0
<1>1. isRepair \in BOOLEAN /\ validShift \in 0 .. 2 /\ (~isRepair => validShift = 0)
  BY DEF ControlOK, MaxValidShift
<1>2. CASE isRepair /\ validShift + 1 >= 3
  <2>1. isRepair' = FALSE /\ validShift' = 0
    BY <1>2 DEF CountShift, MaxValidShift
  <2>2. 0 \in 0 .. MaxValidShift - 1
    BY DEF MaxValidShift
  <2>3. QED
    BY <1>2, <2>1, <2>2
<1>3. CASE ~(isRepair /\ validShift + 1 >= 3)
  <2>1. ~(isRepair /\ validShift + 1 >= MaxValidShift)
    BY <1>3 DEF MaxValidShift
  <2>2. isRepair' = isRepair /\ validShift' = IF isRepair THEN validShift + 1 ELSE validShift
    BY <2>1, Zenon DEF CountShift
  <2>3. CASE isRepair
    <3>1. validShift' = validShift + 1 /\ validShift + 1 \in 0 .. 2
      BY <1>1, <1>3, <2>2, <2>3
    <3>2. QED
      BY <1>1, <2>2, <2>3, <3>1 DEF MaxValidShift
  <2>4. CASE ~isRepair
    <3>1. validShift' = 0
      BY <1>1, <2>2, <2>4
    <3>2. QED
      BY <1>1, <2>2, <2>4, <3>1 DEF MaxValidShift
  <2>5. QED
    BY <2>3, <2>4
<1>4. QED
  BY <1>2, <1>3

LEMMA NewNodesOK == ASSUME NEW n \in NewNodes PROVE n \in Node /\ n \notin live
<1>1. ~(Node \subseteq live) /\ n = CHOOSE m \in Node : m \notin live
  BY DEF NewNodes
<1>2. QED
  BY <1>1

\* A failure of a callback or an answer of error_f: the stacks stay as they are.
LEMMA SameStacks ==
  ASSUME StacksOK, UNCHANGED <<stateStack, nodeStack, trees, lang>>,
         pc # "failed", pc' = "parse" => pc = "parse"
  PROVE  StacksOK'
BY DEF StacksOK, Lengths

LEMMA AddTokenOK ==
  ASSUME Inv, NEW t \in Terms, AddToken(t), UNCHANGED lang
  PROVE  Inv'
<1>1. lang \in Languages /\ ControlOK /\ StacksOK /\ AcceptsOne
  BY DEF Inv
<1>2. ControlOK'
  <2>1. fed' \in 0 .. MaxTokens
    <3>1. MaxTokens \in Nat /\ fed \in 0 .. MaxTokens /\ fed < MaxTokens /\ fed' = fed + 1
      BY <1>1, GivenTables DEF ControlOK, AddToken, MaxTokens
    <3>2. QED
      BY <3>1
  <2>2. QED
    BY <2>1, <1>1 DEF ControlOK, AddToken, repair, Terms, MaxTokens
<1>3. StacksOK'
  <2>1. CASE stateStack = <<>>
    <3>1. /\ stateStack' = <<StartState>> /\ nodeStack' = <<NULL>> /\ trees' = <<NoTree>>
          /\ pc' = "parse"
      BY <2>1 DEF AddToken
    <3>2. Stack(lang, stateStack', trees')
      BY <1>1, <3>1, StackStart
    <3>3. nodeStack' \in Seq(Node \cup {NULL}) /\ Len(nodeStack') = Len(stateStack')
      BY <3>1
    <3>4. QED
      BY <3>1, <3>2, <3>3 DEF StacksOK, Lengths
  <2>2. CASE stateStack # <<>>
    BY <1>1, <2>2 DEF AddToken, StacksOK, Lengths, stacks
  <2>3. QED
    BY <2>1, <2>2
<1>4. AcceptsOne'
  BY <1>1 DEF AcceptsOne, AddToken, ControlOK
<1>5. QED
  BY <1>1, <1>2, <1>3, <1>4 DEF Inv

LEMMA ShiftTokenOK ==
  ASSUME Inv, ShiftToken \/ LeafFails, UNCHANGED lang
  PROVE  Inv'
<1>1. lang \in Languages /\ ControlOK /\ StacksOK /\ AcceptsOne
  BY DEF Inv
<1>2. /\ pc = "parse" /\ stateStack # <<>> /\ Action.type = "shift"
      /\ stateStack' = Append(stateStack, Action.to)
      /\ trees' = Append(trees, Leaf(tok))
  BY <1>1 DEF ShiftToken, LeafFails, StacksOK
<1>3. Stack(lang, stateStack', trees')
  <2>1. ActionFits(lang, Top, tok, Action) /\ Leaf(tok).sym = tok
    BY <1>2, InCall DEF Leaf
  <2>2. MovesTo(lang, Last(stateStack), Leaf(tok).sym, Action.to)
    BY <2>1, <1>2 DEF ActionFits, Top
  <2>3. QED
    BY <2>2, <1>1, <1>2, StackPush DEF StacksOK
<1>4. /\ nodeStack \in Seq(Node \cup {NULL}) /\ stateStack \in Seq(StatesOf(lang))
      /\ Len(nodeStack) = Len(stateStack) /\ Len(stateStack) \in Nat /\ isAccepted = FALSE
      /\ Len(stateStack') = Len(stateStack) + 1
  BY <1>1, <1>2, InCall, LenProperties DEF StacksOK, Stack
<1>5. CASE ShiftToken
  <2>1. PICK n \in LeafNodes(tok) :
          /\ nodeStack' = Append(nodeStack, n)
          /\ live' = live \cup ({n} \ {NULL})
    BY <1>5 DEF ShiftToken
  <2>2. n \in Node \cup {NULL}
    BY NewNodesOK DEF LeafNodes
  <2>3. nodeStack' \in Seq(Node \cup {NULL}) /\ Len(nodeStack') = Len(nodeStack) + 1
    BY <2>1, <2>2, <1>4, Push
  <2>4. live' \subseteq Node
    BY <2>1, <2>2, <1>1 DEF ControlOK
  <2>5. ControlOK'
    BY <2>4, <1>1, <1>4, <1>5, CountShiftOK DEF ShiftToken, ControlOK, Terms, MaxTokens
  <2>6. StacksOK'
    BY <2>3, <1>3, <1>4, <1>5 DEF StacksOK, Lengths, ShiftToken
  <2>7. AcceptsOne'
    BY <1>4, <1>5 DEF AcceptsOne, ShiftToken
  <2>8. QED
    BY <1>1, <2>5, <2>6, <2>7 DEF Inv
<1>6. CASE LeafFails
  <2>1. ControlOK'
    BY <1>1, <1>4, <1>6 DEF LeafFails, ControlOK, repair, Terms, MaxTokens
  <2>2. StacksOK'
    BY <1>1, <1>3, <1>4, <1>6 DEF StacksOK, Lengths, LeafFails
  <2>3. AcceptsOne'
    BY <1>4, <1>6 DEF AcceptsOne, LeafFails
  <2>4. QED
    BY <1>1, <2>1, <2>2, <2>3 DEF Inv
<1>7. QED
  BY <1>5, <1>6

LEMMA ReduceOK ==
  ASSUME Inv, pc \in {"parse", "recover"}, stateStack # <<>>,
         NEW t, NEW act, ActionFits(lang, Top, t, act), act.type = "reduce",
         Reduce(act), UNCHANGED <<pc, lang>>
  PROVE  Inv'
<1> DEFINE c    == act.count
           kids == TakeLast(nodeStack, c)
           rest == DropLast(stateStack, c)
           down == DropLast(nodeStack, c)
<1>1. lang \in Languages /\ ControlOK /\ StacksOK /\ AcceptsOne
  BY DEF Inv
<1>2. Stack(lang, stateStack, trees) /\ nodeStack \in Seq(Node \cup {NULL})
  BY <1>1 DEF StacksOK
<1>3. c \in 0 .. Len(stateStack) /\ Len(nodeStack) = Len(stateStack) /\ isAccepted = FALSE
      /\ Len(stateStack) \in Nat
  BY <1>1, <1>2, ReduceReady, InCall DEF Top
<1>4. Stack(lang, stateStack', trees')
  <2>1. Tree(act.rule, TakeLast(trees, c)).sym = lang.rules[act.rule].head
    BY DEF Tree, Rules
  <2>2. /\ stateStack' = Append(rest, lang.goto[<<Last(rest), lang.rules[act.rule].head>>])
        /\ trees' = Append(DropLast(trees, c), Tree(act.rule, TakeLast(trees, c)))
    BY DEF Reduce, GotoOf, Rules
  <2>3. QED
    BY <2>1, <2>2, <1>1, <1>2, StackReduce DEF Top
<1>5. PICK n \in RuleNodes(act.rule, kids) :
        nodeStack' = Append(down, n) /\ live' = AfterReduce(kids, n)
  BY DEF Reduce
<1>6. kids \in Seq(Node \cup {NULL}) /\ Len(kids) = c
  BY <1>2, <1>3, Take
<1>7. down \in Seq(Node \cup {NULL}) /\ Len(down) = Len(nodeStack) - c
  BY <1>2, <1>3, Drop
<1>8. n \in Node \cup {NULL}
  <2>1. ToSet(kids) \subseteq Node \cup {NULL}
    BY <1>6, ElementOfSeq, LenProperties DEF ToSet
  <2>2. AutoRet[act.rule] < Len(kids) => kids[AutoRet[act.rule] + 1] \in Node \cup {NULL}
    <3>1. AutoRet[act.rule] \in Nat
      BY <1>1, GivenTables DEF AutoRet, ActionFits
    <3>2. Len(kids) \in Nat
      BY <1>6, LenProperties
    <3> HIDE DEF kids
    <3>3. QED
      BY <3>1, <3>2, <1>6, ElementOfSeq
  <2> HIDE DEF kids
  <2>3. QED
    BY <2>1, <2>2, NewNodesOK DEF RuleNodes
<1> HIDE DEF kids, down
<1>9. nodeStack' \in Seq(Node \cup {NULL}) /\ Len(nodeStack') = Len(nodeStack) - c + 1
  BY <1>5, <1>7, <1>8, Push
<1>10. /\ Len(stateStack') = Len(stateStack) - c + 1
       /\ stateStack' # <<>>
  <2>1. rest \in Seq(StatesOf(lang)) /\ Len(rest) = Len(stateStack) - c
    BY <1>2, <1>3, Drop DEF Stack
  <2>2. stateStack' \in Seq(StatesOf(lang))
    BY <1>4 DEF Stack
  <2>3. stateStack' = Append(rest, GotoOf[<<Last(rest), Rules[act.rule].head>>])
    BY DEF Reduce
  <2> HIDE DEF rest
  <2>4. Len(stateStack') = Len(rest) + 1
    BY <2>1, <2>3, Push
  <2>5. QED
    BY <2>1, <2>4, <1>3
<1>11. ControlOK'
  <2>1. live' \subseteq Node
    BY <1>1, <1>5, <1>8 DEF AfterReduce, ControlOK
  <2>2. UNCHANGED <<isAccepted, tok, fed, reports, goodInput>> /\ CountShift
    BY DEF Reduce
  <2>3. QED
    BY <2>1, <2>2, <1>1, <1>3, CountShiftOK DEF ControlOK, Terms, MaxTokens
<1>12. StacksOK'
  BY <1>3, <1>4, <1>9, <1>10 DEF StacksOK, Lengths
<1>13. AcceptsOne'
  BY <1>3 DEF AcceptsOne, Reduce
<1>14. QED
  BY <1>1, <1>11, <1>12, <1>13 DEF Inv

LEMMA RuleFailsOK ==
  ASSUME Inv, pc \in {"parse", "recover"}, stateStack # <<>>,
         NEW act, RuleFails(act), UNCHANGED lang
  PROVE  Inv'
<1>1. lang \in Languages /\ ControlOK /\ StacksOK /\ AcceptsOne /\ isAccepted = FALSE
  BY InCall DEF Inv
<1>2. ControlOK'
  BY <1>1 DEF RuleFails, ControlOK, repair, Terms, MaxTokens
<1>3. StacksOK'
  BY <1>1, SameStacks DEF RuleFails, stacks
<1>4. AcceptsOne'
  BY <1>1 DEF AcceptsOne, RuleFails
<1>5. QED
  BY <1>1, <1>2, <1>3, <1>4 DEF Inv

LEMMA ReductionOK ==
  ASSUME Inv, ReduceOnToken \/ ReduceOnError, UNCHANGED lang
  PROVE  Inv'
<1>1. CASE ReduceOnToken
  <2>1. pc = "parse" /\ stateStack # <<>> /\ Action.type = "reduce"
    BY <1>1 DEF ReduceOnToken, Inv, StacksOK
  <2>2. ActionFits(lang, Top, tok, Action)
    BY <2>1, InCall
  <2>3. (Reduce(Action) /\ UNCHANGED pc) \/ RuleFails(Action)
    BY <1>1 DEF ReduceOnToken
  <2>4. QED
    BY <2>1, <2>2, <2>3, ReduceOK, RuleFailsOK
<1>2. CASE ReduceOnError
  <2>1. pc = "recover" /\ stateStack # <<>> /\ OnErrorT.type = "reduce"
    BY <1>2 DEF ReduceOnError, Searching
  <2>2. ActionFits(lang, Top, ErrorT, OnErrorT)
    BY <2>1, InCall
  <2>3. (Reduce(OnErrorT) /\ UNCHANGED pc) \/ RuleFails(OnErrorT)
    BY <1>2 DEF ReduceOnError
  <2>4. QED
    BY <2>1, <2>2, <2>3, ReduceOK, RuleFailsOK
<1>3. QED
  BY <1>1, <1>2

LEMMA AcceptOK ==
  ASSUME Inv, Accept, UNCHANGED lang
  PROVE  Inv'
<1>1. lang \in Languages /\ ControlOK /\ StacksOK
  BY DEF Inv
<1>2. /\ pc = "parse" /\ stateStack # <<>> /\ Action.type = "accept"
      /\ UNCHANGED <<stateStack, nodeStack, trees>>
  BY <1>1 DEF Accept, StacksOK, stacks
<1>3. tok = EOI /\ Item(1, 1) \in AllConfig[Top]
  <2>1. ActionFits(lang, Top, tok, Action)
    BY <1>2, InCall
  <2>2. QED
    BY <2>1, <1>2 DEF ActionFits, AllConfig
<1>4. Len(stateStack) = 2 /\ trees[2].sym = Rules[1].body[1]
  <2> DEFINE n  == Len(stateStack)
             it == Item(1, 1)
  <2>1. n \in Nat \ {0} /\ Top = stateStack[n]
    BY <1>2, InCall DEF Top, Last
  <2>2. Explains(lang, stateStack, trees, n)
    BY <1>1, <2>1 DEF StacksOK, Stack
  <2>3. it \in lang.configs[stateStack[n]] /\ it.dot = 1 /\ it.rule = 1
    BY <1>3, <2>1 DEF AllConfig, Item
  <2> HIDE DEF it
  <2>4. /\ 1 < n
        /\ \A k \in 1 .. 1 : trees[n - 1 + k].sym = BodyOf(lang, 1)[k]
        /\ Item(1, 0) \in lang.configs[stateStack[n - 1]]
    BY <2>2, <2>3 DEF Explains
  <2>5. n - 1 \in 1 .. n /\ n - 1 + 1 = n
    BY <2>1, <2>4
  <2>6. stateStack[n - 1] \in StatesOf(lang)
    BY <1>1, <2>5, ElementOfSeq DEF StacksOK, Stack
  <2>7. stateStack[n - 1] = StartState
    <3>1. ConfigFits(lang, stateStack[n - 1], Item(1, 0))
      BY <1>1, <2>4, <2>6, GivenTables
    <3>2. QED
      BY <3>1 DEF ConfigFits
  <2>8. n - 1 = 1
    BY <1>1, <2>5, <2>7 DEF StacksOK, Stack, Explains
  <2>9. trees[n].sym = Rules[1].body[1]
    <3>1. 1 \in 1 .. 1
      OBVIOUS
    <3>2. trees[n - 1 + 1].sym = BodyOf(lang, 1)[1]
      BY <2>4, <3>1
    <3>3. QED
      BY <3>2, <2>5 DEF BodyOf, Rules
  <2>10. n = 2
    BY <2>1, <2>8
  <2>11. QED
    BY <2>9, <2>10, Zenon
<1>5. ControlOK'
  <2>1. 0 \in 0 .. MaxValidShift - 1
    BY DEF MaxValidShift
  <2>2. QED
    BY <1>1, <2>1 DEF Accept, ControlOK, Terms, MaxTokens
<1>6. StacksOK'
  BY <1>1, <1>2, SameStacks DEF Accept
<1>7. AcceptsOne'
  BY <1>2, <1>3, <1>4 DEF Accept, AcceptsOne, Rules
<1>8. QED
  BY <1>1, <1>5, <1>6, <1>7 DEF Inv

LEMMA Answered ==
  ASSUME lang \in Languages, ReportError
  PROVE  /\ pc' \in {"idle", "recover", "no", "failed"}
         /\ validShift' = validShift
         /\ \/ isRepair' = isRepair /\ goodInput' = goodInput
            \/ isRepair' = TRUE /\ goodInput' = FALSE
<1>1. Answers \subseteq {"yes", "no", "fail"}
  BY GivenTables DEF Answers
<1> DEFINE Effect(answer) ==
      CASE answer = "yes"  -> pc' = "recover" /\ UNCHANGED repair
        [] answer = "fail" -> pc' = "failed" /\ UNCHANGED repair
        [] answer = "no"   -> /\ isRepair' = TRUE /\ goodInput' = FALSE
                              /\ pc' = IF tok = EOI THEN "no" ELSE "idle"
                              /\ UNCHANGED validShift
<1>2. PICK answer \in Answers : Effect(answer)
  BY DEF ReportError
<1>3. CASE answer = "yes"
  <2>1. pc' = "recover" /\ UNCHANGED repair
    BY <1>2, <1>3
  <2>2. QED
    BY <2>1 DEF repair
<1>4. CASE answer = "fail"
  <2>1. pc' = "failed" /\ UNCHANGED repair
    BY <1>2, <1>4
  <2>2. QED
    BY <2>1 DEF repair
<1>5. CASE answer = "no"
  <2>1. /\ isRepair' = TRUE /\ goodInput' = FALSE /\ UNCHANGED validShift
        /\ pc' = IF tok = EOI THEN "no" ELSE "idle"
    BY <1>2, <1>5
  <2>2. QED
    BY <2>1
<1>6. QED
  BY <1>1, <1>3, <1>4, <1>5

LEMMA ErrorOK ==
  ASSUME Inv, ReportError \/ Discard \/ FailAtEOI \/ NoHandler, UNCHANGED lang
  PROVE  Inv'
<1>1. lang \in Languages /\ ControlOK /\ StacksOK /\ AcceptsOne
  BY DEF Inv
<1>2. /\ isAccepted = FALSE /\ isAccepted' = FALSE /\ pc \in {"parse", "recover"}
      /\ UNCHANGED <<stateStack, nodeStack, trees, validShift, tok, fed, live>>
  <2>1. pc \in {"parse", "recover"}
    BY DEF ReportError, Discard, FailAtEOI, NoHandler, InError
  <2>2. isAccepted = FALSE
    BY <1>1, <2>1 DEF ControlOK
  <2>3. UNCHANGED <<isAccepted, stateStack, nodeStack, trees, tok, fed, live>>
    BY DEF ReportError, Discard, FailAtEOI, NoHandler, stacks
  <2>4. UNCHANGED validShift
    BY <1>1, Answered DEF Discard, FailAtEOI, NoHandler, repair
  <2>5. QED
    BY <2>1, <2>2, <2>3, <2>4
<1>3. /\ pc' \in {"idle", "recover", "no", "failed"} /\ reports' \in Nat
      /\ isRepair' \in BOOLEAN /\ goodInput' \in BOOLEAN /\ (~isRepair' => ~isRepair)
  <2>1. CASE ReportError
    <3>1. reports' = reports + 1
      BY <2>1 DEF ReportError
    <3>2. reports' \in Nat
      BY <1>1, <3>1 DEF ControlOK
    <3>3. isRepair \in BOOLEAN /\ goodInput \in BOOLEAN
      BY <1>1 DEF ControlOK
    <3>4. QED
      BY <1>1, <2>1, <3>2, <3>3, Answered, Zenon
  <2>2. CASE Discard \/ FailAtEOI \/ NoHandler
    BY <1>1, <2>2 DEF Discard, FailAtEOI, NoHandler, repair, ControlOK
  <2>3. QED
    BY <2>1, <2>2
<1>4. ControlOK'
  BY <1>1, <1>2, <1>3 DEF ControlOK, Terms, MaxTokens
<1>5. StacksOK'
  BY <1>1, <1>2, <1>3, SameStacks
<1>6. AcceptsOne'
  BY <1>2 DEF AcceptsOne
<1>7. QED
  BY <1>1, <1>4, <1>5, <1>6 DEF Inv

\* One entry is popped, in a recovery or for the client.
LEMMA PopOK ==
  ASSUME StacksOK, stateStack # <<>>, pc # "failed", pc' # "parse", UNCHANGED lang,
         lang \in Languages,
         stateStack' = DropLast(stateStack, 1), nodeStack' = DropLast(nodeStack, 1),
         trees' = DropLast(trees, 1)
  PROVE  StacksOK'
<1>1. /\ Stack(lang, stateStack, trees) /\ nodeStack \in Seq(Node \cup {NULL})
      /\ Len(nodeStack) = Len(stateStack)
  BY DEF StacksOK, Lengths
<1>2. stateStack \in Seq(StatesOf(lang)) /\ Len(stateStack) \in Nat \ {0}
  BY <1>1, EmptySeq, LenProperties DEF Stack
<1>3. 1 \in 0 .. Len(stateStack)
  BY <1>2
<1>4. Stack(lang, stateStack', trees')
  BY <1>1, <1>3, StackPop
<1>5. QED
  BY <1>1, <1>2, <1>3, <1>4, Drop DEF StacksOK, Lengths

LEMMA PopStateOK ==
  ASSUME Inv, PopState, UNCHANGED lang
  PROVE  Inv'
<1>1. lang \in Languages /\ ControlOK /\ StacksOK /\ AcceptsOne
  BY DEF Inv
<1>2. pc = "recover" /\ pc' = "recover" /\ stateStack # <<>> /\ isAccepted = FALSE
  BY <1>1 DEF PopState, Searching, ControlOK
<1>3. ControlOK'
  BY <1>1 DEF PopState, ControlOK, repair, Terms, MaxTokens
<1>4. StacksOK'
  BY <1>1, <1>2, PopOK DEF PopState
<1>5. AcceptsOne'
  BY <1>2 DEF PopState, AcceptsOne
<1>6. QED
  BY <1>1, <1>3, <1>4, <1>5 DEF Inv

LEMMA ShiftErrorOK ==
  ASSUME Inv, ShiftError, UNCHANGED lang
  PROVE  Inv'
<1>1. lang \in Languages /\ ControlOK /\ StacksOK /\ AcceptsOne
  BY DEF Inv
<1>2. /\ pc = "recover" /\ stateStack # <<>> /\ OnErrorT.type = "shift"
      /\ stateStack' = Append(stateStack, OnErrorT.to)
      /\ nodeStack' = Append(nodeStack, NULL)
      /\ trees' = Append(trees, Leaf(ErrorT))
  BY DEF ShiftError, Searching
<1>3. /\ nodeStack \in Seq(Node \cup {NULL}) /\ Stack(lang, stateStack, trees)
      /\ Len(nodeStack) = Len(stateStack) /\ Len(stateStack) \in Nat /\ isAccepted = FALSE
  BY <1>1, <1>2, InCall DEF StacksOK
<1>4. Stack(lang, stateStack', trees')
  <2>1. ActionFits(lang, Top, ErrorT, OnErrorT) /\ Leaf(ErrorT).sym = ErrorT
    BY <1>2, InCall DEF Leaf
  <2>2. MovesTo(lang, Last(stateStack), Leaf(ErrorT).sym, OnErrorT.to)
    BY <2>1, <1>2 DEF ActionFits, Top
  <2>3. QED
    BY <2>2, <1>1, <1>2, <1>3, StackPush
<1>5. nodeStack' \in Seq(Node \cup {NULL}) /\ Len(nodeStack') = Len(nodeStack) + 1
  BY <1>2, <1>3, Push
<1>6. Len(stateStack') = Len(stateStack) + 1 /\ stateStack' # <<>>
  <2>1. stateStack \in Seq(StatesOf(lang)) /\ stateStack' \in Seq(StatesOf(lang))
    BY <1>3, <1>4 DEF Stack
  <2>2. OnErrorT.to \in StatesOf(lang)
    BY <1>2, InCall DEF ActionFits, MovesTo
  <2>3. Len(stateStack') = Len(stateStack) + 1
    BY <2>1, <2>2, <1>2, Push
  <2>4. QED
    BY <2>1, <2>3, <1>3
<1>7. ControlOK'
  <2>1. 0 \in 0 .. MaxValidShift - 1
    BY DEF MaxValidShift
  <2>2. QED
    BY <1>1, <1>3, <2>1 DEF ShiftError, ControlOK, Terms, MaxTokens
<1>8. StacksOK'
  BY <1>3, <1>4, <1>5, <1>6 DEF StacksOK, Lengths
<1>9. AcceptsOne'
  BY <1>3 DEF ShiftError, AcceptsOne
<1>10. QED
  BY <1>1, <1>7, <1>8, <1>9 DEF Inv

LEMMA ClientOK ==
  ASSUME Inv, GetResult \/ Clear \/ RecoverDone, UNCHANGED lang
  PROVE  Inv'
<1>1. lang \in Languages /\ ControlOK /\ StacksOK /\ AcceptsOne
  BY DEF Inv
<1>2. EOI \in Terms /\ 0 \in 0 .. MaxTokens /\ 0 \in 0 .. MaxValidShift - 1
  BY <1>1, GivenTables DEF Terms, MaxTokens, MaxValidShift
<1>3. CASE GetResult
  <2>1. stateStack # <<>> /\ pc = "idle" /\ pc' = "idle" /\ isAccepted' = FALSE
    <3>1. Len(stateStack) = 2
      BY <1>1, <1>3 DEF GetResult, AcceptsOne
    <3>2. QED
      BY <3>1, <1>3 DEF GetResult
  <2>2. ControlOK'
    BY <1>1, <1>2, <1>3 DEF GetResult, ControlOK, repair, Terms, MaxTokens
  <2>3. StacksOK'
    BY <1>1, <1>3, <2>1, PopOK DEF GetResult
  <2>4. AcceptsOne'
    BY <2>1 DEF AcceptsOne
  <2>5. QED
    BY <1>1, <2>2, <2>3, <2>4 DEF Inv
<1>4. CASE Clear
  <2>1. ControlOK'
    BY <1>1, <1>2, <1>4 DEF Clear, ControlOK, Terms, MaxTokens
  <2>2. StacksOK'
    BY <1>1, <1>4, StackStart DEF Clear, StacksOK, Lengths
  <2>3. AcceptsOne'
    BY <1>4 DEF Clear, AcceptsOne
  <2>4. QED
    BY <1>1, <2>1, <2>2, <2>3 DEF Inv
<1>5. CASE RecoverDone
  <2>1. ControlOK'
    BY <1>1, <1>2, <1>5 DEF RecoverDone, ControlOK, Terms, MaxTokens
  <2>2. StacksOK'
    BY <1>1, <1>5, SameStacks DEF RecoverDone, stacks
  <2>3. AcceptsOne'
    BY <1>1, <1>5 DEF RecoverDone, AcceptsOne, stacks, Rules
  <2>4. QED
    BY <1>1, <2>1, <2>2, <2>3 DEF Inv
<1>6. QED
  BY <1>3, <1>4, <1>5

LEMMA StepOK ==
  ASSUME Inv, [Next]_vars
  PROVE  Inv'
<1>1. CASE Next
  <2>1. UNCHANGED lang
    BY <1>1 DEF Next
  <2>2. CASE Turn
    <3>1. \/ ShiftToken \/ LeafFails \/ ReduceOnToken \/ Accept
          \/ ReportError \/ Discard \/ FailAtEOI
          \/ ReduceOnError \/ PopState \/ ShiftError \/ NoHandler
      BY <2>2 DEF Turn
    <3>2. QED
      BY <2>1, <3>1, ShiftTokenOK, ReductionOK, AcceptOK, ErrorOK, PopStateOK, ShiftErrorOK
  <2>3. CASE Client
    <3>1. (\E t \in Terms : AddToken(t)) \/ GetResult \/ Clear \/ RecoverDone
      BY <2>3 DEF Client
    <3>2. QED
      BY <2>1, <3>1, AddTokenOK, ClientOK
  <2>4. QED
    BY <1>1, <2>2, <2>3 DEF Next
<1>2. CASE UNCHANGED vars
  BY <1>2 DEF vars, Inv, ControlOK, StacksOK, Lengths, AcceptsOne, Terms, MaxTokens, Rules,
              stacks, repair
<1>3. QED
  BY <1>1, <1>2

LEMMA InvHolds == Spec => []Inv
<1>1. Init => Inv
  BY InitOK
<1>2. Inv /\ [Next]_vars => Inv'
  BY StepOK
<1>3. QED
  BY <1>1, <1>2, PTL DEF Spec

\* The stacks, the counter of repair mode and the flags of a context keep their
\* types, and a context is never both accepted and in repair mode.
THEOREM TypesHold == Spec => []TypeOK
<1>1. Inv => TypeOK
  BY DEF Inv, ControlOK, StacksOK, Stack, TypeOK
<1>2. QED
  BY <1>1, InvHolds, PTL

\* Whatever the table, the input, the answers of error_f and the failures of
\* callbacks: the two stacks are in step, and every reduction finds the body of
\* its rule on top of them and a goto below it.
THEOREM StacksStayInStep == Spec => []StacksInStep
<1>1. ASSUME Inv PROVE StacksInStep
  <2>1. Lengths
    BY <1>1 DEF Inv, StacksOK
  <2>2. ASSUME pc = "parse", Action.type = "reduce" PROVE BodyOnTop(Action)
    <3>1. stateStack # <<>>
      BY <1>1, <2>2 DEF Inv, StacksOK
    <3>2. QED
      BY <1>1, <2>2, <3>1, InCall, BodyReady
  <2>3. ASSUME Searching("reduce") PROVE BodyOnTop(OnErrorT)
    BY <1>1, <2>3, InCall, BodyReady DEF Searching
  <2>4. QED
    BY <2>1, <2>2, <2>3 DEF StacksInStep, Lengths
<1>2. QED
  BY <1>1, InvHolds, PTL

\* What is accepted ends with EOI and is one start symbol above the start state:
\* the assertions at PARSER_ACCEPT and in Parser_GetResult.
THEOREM OneIsAccepted == Spec => []AcceptsOne
<1>1. Inv => AcceptsOne
  BY DEF Inv
<1>2. QED
  BY <1>1, InvHolds, PTL

-------------------------------------------------------------------------------
(* Who owns a node. *)
Owned(ns, held) ==
  /\ NodesIn(ns) = held
  /\ \A i, j \in DOMAIN ns : ns[i] = ns[j] /\ ns[i] # NULL => i = j

LEMMA OwnedPush ==
  ASSUME NEW ns \in Seq(Node \cup {NULL}), NEW held, Owned(ns, held),
         NEW n \in Node \cup {NULL}, n \notin held
  PROVE  Owned(Append(ns, n), held \cup ({n} \ {NULL}))
<1> DEFINE ns1 == Append(ns, n)
           k   == Len(ns)
<1>1. /\ k \in Nat /\ DOMAIN ns = 1 .. k /\ DOMAIN ns1 = 1 .. k + 1
      /\ ns1[k + 1] = n /\ \A i \in 1 .. k : ns1[i] = ns[i]
  BY Push, LenProperties
<1> HIDE DEF ns1, k
<1>2. ToSet(ns1) = ToSet(ns) \cup {n}
  BY <1>1 DEF ToSet
<1>3. NodesIn(ns1) = held \cup ({n} \ {NULL})
  BY <1>2 DEF NodesIn, Owned
<1>4. \A i \in 1 .. k : ns[i] = NULL \/ ns[i] \in held
  BY <1>1 DEF Owned, NodesIn, ToSet
<1>5. ASSUME NEW i \in 1 .. k + 1, NEW j \in 1 .. k + 1, ns1[i] = ns1[j], ns1[i] # NULL
      PROVE  i = j
  <2>1. CASE i \in 1 .. k /\ j \in 1 .. k
    BY <1>1, <1>5, <2>1 DEF Owned
  <2>2. CASE i = k + 1 /\ j = k + 1
    BY <2>2
  <2>3. CASE i = k + 1 /\ j \in 1 .. k
    BY <1>1, <1>4, <1>5, <2>3
  <2>4. CASE i \in 1 .. k /\ j = k + 1
    BY <1>1, <1>4, <1>5, <2>4
  <2>5. QED
    BY <1>1, <2>1, <2>2, <2>3, <2>4
<1>6. QED
  BY <1>1, <1>3, <1>5 DEF Owned, ns1

LEMMA OwnedDrop ==
  ASSUME NEW ns \in Seq(Node \cup {NULL}), NEW held, Owned(ns, held), NEW n \in 0 .. Len(ns)
  PROVE  Owned(DropLast(ns, n), held \ NodesIn(TakeLast(ns, n)))
<1> DEFINE down == DropLast(ns, n)
           kids == TakeLast(ns, n)
           k    == Len(ns)
<1>1. k \in Nat /\ DOMAIN ns = 1 .. k
  BY LenProperties
<1>2. DOMAIN down = 1 .. k - n /\ \A i \in 1 .. k - n : down[i] = ns[i]
  <2>1. /\ down \in Seq(Node \cup {NULL}) /\ Len(down) = k - n
        /\ \A i \in 1 .. k - n : down[i] = ns[i]
    BY Drop
  <2>2. DOMAIN down = 1 .. Len(down)
    BY <2>1, LenProperties
  <2>3. QED
    BY <2>1, <2>2
<1>3. DOMAIN kids = 1 .. n /\ \A i \in 1 .. n : kids[i] = ns[k - n + i]
  BY Take, LenProperties
<1> HIDE DEF down, kids, k
<1>4. \A i \in 1 .. k - n : i \in 1 .. k
  BY <1>1
<1>5. NodesIn(down) = held \ NodesIn(kids)
  <2>1. ASSUME NEW x \in NodesIn(down) PROVE x \in held /\ x \notin NodesIn(kids)
    <3>1. PICK i \in 1 .. k - n : x = ns[i] /\ x # NULL
      BY <1>2 DEF NodesIn, ToSet
    <3>2. x \in held
      BY <1>1, <1>4, <3>1 DEF Owned, NodesIn, ToSet
    <3>3. ASSUME NEW j \in 1 .. n, x = kids[j] PROVE FALSE
      <4>1. k - n + j \in 1 .. k /\ ns[k - n + j] = ns[i] /\ i \in 1 .. k
        BY <1>1, <1>3, <1>4, <3>1, <3>3
      <4>2. k - n + j = i
        BY <1>1, <3>1, <4>1 DEF Owned
      <4>3. QED
        BY <4>2, <1>1
    <3>4. QED
      BY <3>2, <3>3, <1>3 DEF NodesIn, ToSet
  <2>2. ASSUME NEW x \in held, x \notin NodesIn(kids) PROVE x \in NodesIn(down)
    <3>1. PICK i \in 1 .. k : x = ns[i] /\ x # NULL
      BY <1>1 DEF Owned, NodesIn, ToSet
    <3>2. CASE i \in 1 .. k - n
      BY <1>2, <3>1, <3>2 DEF NodesIn, ToSet
    <3>3. CASE i \notin 1 .. k - n
      <4>1. i - (k - n) \in 1 .. n /\ k - n + (i - (k - n)) = i
        BY <1>1, <3>3
      <4>2. kids[i - (k - n)] = x
        BY <1>3, <3>1, <4>1
      <4>3. QED
        BY <1>3, <2>2, <3>1, <4>1, <4>2 DEF NodesIn, ToSet
    <3>4. QED
      BY <3>2, <3>3
  <2>3. QED
    BY <2>1, <2>2
<1>6. \A i, j \in 1 .. k - n : down[i] = down[j] /\ down[i] # NULL => i = j
  BY <1>1, <1>2, <1>4 DEF Owned
<1>7. QED
  BY <1>2, <1>5, <1>6 DEF Owned, down, kids

LEMMA OwnedPop ==
  ASSUME NEW ns \in Seq(Node \cup {NULL}), ns # <<>>, NEW held \in SUBSET Node, Owned(ns, held)
  PROVE  Owned(DropLast(ns, 1), held \ {Last(ns)})
<1>1. Len(ns) \in Nat \ {0} /\ 1 \in 0 .. Len(ns)
  BY EmptySeq, LenProperties
<1> DEFINE kids == TakeLast(ns, 1)
           S == Node \cup {NULL}
<1>2. kids \in Seq(Node \cup {NULL}) /\ Len(kids) = 1 /\ kids[1] = ns[Len(ns) - 1 + 1]
  <2>0. ns \in Seq(S)
    OBVIOUS
  <2> HIDE DEF S
  <2>1. /\ TakeLast(ns, 1) \in Seq(S) /\ Len(TakeLast(ns, 1)) = 1
        /\ \A i \in 1 .. 1 : TakeLast(ns, 1)[i] = ns[Len(ns) - 1 + i]
    <3>1. \A n \in 0 .. Len(ns) :
             /\ TakeLast(ns, n) \in Seq(S) /\ Len(TakeLast(ns, n)) = n
             /\ \A i \in 1 .. n : TakeLast(ns, n)[i] = ns[Len(ns) - n + i]
      BY <2>0, Take
    <3>2. QED
      BY <1>1, <3>1
  <2>2. 1 \in 1 .. 1
    OBVIOUS
  <2>3. QED
    BY <2>1, <2>2 DEF S
<1>3. kids[1] = Last(ns) /\ DOMAIN kids = {1}
  BY <1>1, <1>2, LenProperties DEF Last
<1> HIDE DEF kids
<1>4. NodesIn(kids) = {Last(ns)} \ {NULL}
  BY <1>3 DEF NodesIn, ToSet
<1>5. NULL \notin held
  BY GivenTables
<1>6. held \ NodesIn(kids) = held \ {Last(ns)}
  BY <1>4, <1>5
<1>7. QED
  BY <1>1, <1>6, OwnedDrop DEF kids

LEMMA OwnedNone == Owned(<<>>, {}) /\ Owned(<<NULL>>, {})
<1>1. DOMAIN <<NULL>> = {1} /\ <<NULL>>[1] = NULL /\ DOMAIN <<>> = {}
  OBVIOUS
<1>2. ToSet(<<NULL>>) = {NULL} /\ ToSet(<<>>) = {}
  BY <1>1 DEF ToSet
<1>3. QED
  BY <1>1, <1>2 DEF Owned, NodesIn

LEMMA OwnedByTurn ==
  ASSUME Inv, Owned(nodeStack, live), UNCHANGED lang, Turn
  PROVE  Owned(nodeStack', live')
<1>1. /\ nodeStack \in Seq(Node \cup {NULL}) /\ live \in SUBSET Node /\ NULL \notin live
      /\ lang \in Languages
  BY GivenTables DEF Inv, StacksOK, ControlOK
<1>2. CASE ShiftToken
  <2>1. PICK n \in LeafNodes(tok) :
          /\ nodeStack' = Append(nodeStack, n)
          /\ live' = live \cup ({n} \ {NULL})
    BY <1>2 DEF ShiftToken
  <2>2. n \in Node \cup {NULL} /\ n \notin live
    BY <1>1, NewNodesOK DEF LeafNodes
  <2>3. QED
    BY <1>1, <2>1, <2>2, OwnedPush
<1>3. ASSUME pc \in {"parse", "recover"}, stateStack # <<>>,
             NEW t, NEW act, ActionFits(lang, Top, t, act), act.type = "reduce", Reduce(act)
      PROVE  Owned(nodeStack', live')
  <2> DEFINE c    == act.count
             kids == TakeLast(nodeStack, c)
             down == DropLast(nodeStack, c)
  <2>1. PICK n \in RuleNodes(act.rule, kids) :
          nodeStack' = Append(down, n) /\ live' = AfterReduce(kids, n)
    BY <1>3 DEF Reduce
  <2>2. c \in 0 .. Len(stateStack) /\ Len(nodeStack) = Len(stateStack)
    <3>1. Stack(lang, stateStack, trees)
      BY DEF Inv, StacksOK
    <3>2. QED
      BY <1>1, <1>3, <3>1, ReduceReady, InCall DEF Top
  <2>3. /\ down \in Seq(Node \cup {NULL}) /\ kids \in Seq(Node \cup {NULL})
        /\ Owned(down, live \ NodesIn(kids))
    BY <1>1, <2>2, Drop, Take, OwnedDrop
  <2>4. \A i \in DOMAIN kids : kids[i] \in Node \cup {NULL} /\ kids[i] \in ToSet(kids)
    BY <2>3, ElementOfSeq, LenProperties DEF ToSet
  <2>5. AutoRet[act.rule] \in Nat
    BY <1>1, <1>3, GivenTables DEF AutoRet, ActionFits
  <2>6. DOMAIN kids = 1 .. Len(kids) /\ Len(kids) \in Nat
    BY <2>3, LenProperties
  <2> HIDE DEF kids, down, c
  <2>7. n = NULL \/ (n \in Node /\ n \notin live) \/ n \in ToSet(kids)
    BY <2>4, <2>5, <2>6, NewNodesOK DEF RuleNodes
  <2>8. n \in Node \cup {NULL} /\ n \notin live \ NodesIn(kids)
    BY <1>1, <2>4, <2>7 DEF NodesIn, ToSet
  <2>9. live' = (live \ NodesIn(kids)) \cup ({n} \ {NULL})
    BY <2>1 DEF AfterReduce
  <2>10. Owned(Append(down, n), (live \ NodesIn(kids)) \cup ({n} \ {NULL}))
    BY <2>3, <2>8, OwnedPush
  <2>11. QED
    BY <2>1, <2>9, <2>10
<1>4. CASE ReduceOnToken
  <2>1. pc = "parse" /\ stateStack # <<>> /\ Action.type = "reduce"
    BY <1>4 DEF ReduceOnToken, Inv, StacksOK
  <2>2. Reduce(Action) \/ UNCHANGED <<nodeStack, live>>
    BY <1>4 DEF ReduceOnToken, RuleFails, stacks
  <2>3. QED
    BY <1>3, <2>1, <2>2, InCall
<1>5. CASE ReduceOnError
  <2>1. pc = "recover" /\ stateStack # <<>> /\ OnErrorT.type = "reduce"
    BY <1>5 DEF ReduceOnError, Searching
  <2>2. Reduce(OnErrorT) \/ UNCHANGED <<nodeStack, live>>
    BY <1>5 DEF ReduceOnError, RuleFails, stacks
  <2>3. QED
    BY <1>3, <2>1, <2>2, InCall
<1>6. CASE PopState
  <2>1. pc = "recover" /\ stateStack # <<>>
    BY <1>6 DEF PopState, Searching
  <2>2. nodeStack # <<>>
    BY <2>1, InCall
  <2>3. QED
    BY <1>1, <1>6, <2>2, OwnedPop DEF PopState
<1>7. CASE ShiftError
  <2>1. nodeStack' = Append(nodeStack, NULL) /\ live' = live \cup ({NULL} \ {NULL})
    BY <1>7 DEF ShiftError
  <2>2. QED
    BY <1>1, <2>1, OwnedPush
<1>8. CASE LeafFails \/ Accept \/ ReportError \/ Discard \/ FailAtEOI \/ NoHandler
  BY <1>8 DEF LeafFails, Accept, ReportError, Discard, FailAtEOI, NoHandler, stacks
<1>9. QED
  BY <1>2, <1>4, <1>5, <1>6, <1>7, <1>8 DEF Turn

LEMMA OwnedByClient ==
  ASSUME Inv, Owned(nodeStack, live), UNCHANGED lang, Client
  PROVE  Owned(nodeStack', live')
<1>1. /\ nodeStack \in Seq(Node \cup {NULL}) /\ live \in SUBSET Node
      /\ ControlOK /\ StacksOK /\ AcceptsOne
  BY DEF Inv, StacksOK, ControlOK
<1>2. ASSUME NEW t \in Terms, AddToken(t) PROVE Owned(nodeStack', live')
  <2>1. CASE stateStack = <<>>
    <3>1. nodeStack' = <<NULL>> /\ live' = live /\ Len(nodeStack) = Len(stateStack)
      BY <1>1, <1>2, <2>1 DEF AddToken, StacksOK, Lengths
    <3>2. nodeStack = <<>>
      BY <1>1, <2>1, <3>1, EmptySeq
    <3>3. live = {}
      BY <3>2 DEF Owned, NodesIn, ToSet
    <3>4. QED
      BY <3>1, <3>3, OwnedNone
  <2>2. CASE stateStack # <<>>
    BY <1>2, <2>2 DEF AddToken, stacks
  <2>3. QED
    BY <2>1, <2>2
<1>3. CASE GetResult
  <2>1. Len(nodeStack) = 2
    BY <1>1, <1>3 DEF GetResult, StacksOK, Lengths, AcceptsOne
  <2>2. nodeStack # <<>>
    BY <2>1
  <2>3. QED
    BY <1>1, <1>3, <2>2, OwnedPop DEF GetResult
<1>4. CASE Clear
  <2>1. nodeStack' = <<>> /\ live' = {}
    BY <1>4 DEF Clear, Owned
  <2>2. QED
    BY <2>1, OwnedNone
<1>5. CASE RecoverDone
  BY <1>5 DEF RecoverDone, stacks
<1>6. QED
  BY <1>2, <1>3, <1>4, <1>5 DEF Client

\* Whatever the table, and however often callbacks fail, errors are recovered
\* from and contexts are cleared: every node the callbacks made and nobody took
\* or freed is on the node stack, once, and nothing else is.
THEOREM NodesKeepOneOwner == Spec => []NodesOwnedOnce
<1>1. NodesOwnedOnce <=> Owned(nodeStack, live)
  BY DEF NodesOwnedOnce, Owned
<1>2. ASSUME Init PROVE Owned(nodeStack, live)
  BY <1>2, OwnedNone DEF Init
<1>3. ASSUME Inv, Owned(nodeStack, live), [Next]_vars
      PROVE  Owned(nodeStack, live)'
  <2>1. CASE Next
    BY <1>3, <2>1, OwnedByTurn, OwnedByClient DEF Next, Owned
  <2>2. CASE UNCHANGED vars
    BY <1>3, <2>2 DEF vars, Owned
  <2>3. QED
    BY <1>3, <2>1, <2>2
<1>4. QED
  BY <1>1, <1>2, <1>3, InvHolds, PTL DEF Spec

===============================================================================
