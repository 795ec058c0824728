-------------------------------- MODULE MCLexer --------------------------------
(* Instances of Lexer for TLC: sets of rules and their inputs. *)
EXTENDS LexerPromise

a == Char("a")
b == Char("b")
Letter == CharRange({"a", "b"})
Space == CharRange({" "})
CarriageReturn == Char("CR")
LineFeed == Char("LF")

Rule(expr, value, priority, skip) ==
  [expr |-> expr, value |-> value, priority |-> priority, skip |-> skip]

\* Words, a keyword among them, and white space to skip.
Words ==
  [rules |-> <<Rule(Plus(Letter, FALSE), 1, 0, FALSE),
               Rule(Plus(Branch(<<Space, CarriageReturn, LineFeed>>), FALSE), 2, 0, TRUE),
               Rule(Cat(<<a, b>>), 3, 1, FALSE)>>,
   inputs |-> {<<"a", " ", "CR", "LF", "a", "b">>, <<"b", "a", "CR", " ", "b">>},
   calls |-> 4]

\* Ambiguous alternatives, greedy and lazy, with an end to look for.
Alternatives ==
  [rules |-> <<Rule(Cat(<<Star(Branch(<<a, Letter>>), TRUE), b>>), 1, 1, FALSE),
               Rule(Cat(<<Star(Branch(<<Letter, a, Cat(<<a, b>>)>>), FALSE), Space>>), 2, 2, FALSE),
               Rule(Quest(CarriageReturn, FALSE), 3, 0, TRUE)>>,
   inputs |-> {<<"a", "a", "b", "a", " ">>, <<"a", "a", "a", "CR", "b">>},
   calls |-> 4]

\* Tests of the place, and any character.
Lines ==
  [rules |-> <<Rule(Cat(<<Begin, Plus(AnyChar, TRUE), LineEnd>>), 1, 1, FALSE),
               Rule(Cat(<<LineBegin, Star(AnyChar, FALSE)>>), 2, 0, FALSE),
               Rule(Cat(<<CarriageReturn, Quest(LineFeed, TRUE)>>), 3, 0, TRUE),
               Rule(Cat(<<LineFeed, Ahead(Letter, FALSE)>>), 4, 0, FALSE),
               Rule(End, 5, 0, FALSE)>>,
   inputs |-> {<<"a", "CR", "LF", "b">>, <<"CR", "CR", "LF">>},
   calls |-> 4]

\* Counted repetitions and look-aheads, one within the other.
Counts ==
  [rules |-> <<Rule(Cat(<<LoopCount(a, 1, 2, FALSE), b>>), 1, 2, FALSE),
               Rule(Cat(<<FixCount(Cat(<<a, Ahead(Letter, FALSE)>>), 2), Star(Letter, FALSE)>>), 2, 1, FALSE),
               Rule(Star(Branch(<<FixCount(Letter, 2), Space>>), FALSE), 3, 1, TRUE),
               Rule(Cat(<<Ahead(Cat(<<a, End>>), TRUE), AnyChar>>), 4, 0, FALSE),
               Rule(LoopCount(a, 1, Infinite, TRUE), 5, 0, FALSE)>>,
   inputs |-> {<<"a", "a", "b", "a">>, <<"a", "a", "CR", "a", "a">>},
   calls |-> 4]

\* Every expression of a kind, alone: pairs of small ones, and repetitions of
\* pairs with something to come behind.  The body of a repetition takes at least
\* one character.
Atoms == {a, Letter}
Repeated(S) ==
  UNION {{Star(e, lazy), Plus(e, lazy), Quest(e, lazy)} : e \in S, lazy \in BOOLEAN}
Pairs(S, R) == UNION {{Cat(<<e, f>>), Branch(<<e, f>>)} : e \in S, f \in R}
Tests == {Begin, LineEnd, Ahead(b, FALSE), Ahead(a, TRUE)}
Counted == {FixCount(Letter, 2), LoopCount(a, 1, 2, TRUE), LoopCount(a, 0, 2, FALSE)}
Small == Atoms \cup Repeated(Atoms) \cup Tests \cup Counted
Expressions == Pairs(Small, Small)
               \cup Pairs(Repeated(Pairs(Atoms, Atoms \cup {FixCount(b, 2)})), Atoms \cup {End})

Alone ==
  {[rules |-> <<Rule(e, 1, 0, FALSE)>>,
    inputs |-> {<<"a", "a", "b">>, <<"b", "a", "a", "a">>}, calls |-> 1] : e \in Expressions}

AllLexers == {Words, Alternatives, Lines, Counts} \cup Alone
FlagChoices == {{}, {"SINGLE_LINE"}}
===============================================================================
