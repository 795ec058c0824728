------------------------------ MODULE MCParser ------------------------------
(***************************************************************************)
(* Grammars of statements, of expressions and of a chain of unit rules for *)
(* ParserContext, with the tables LRTable builds for them.                 *)
(***************************************************************************)
EXTENDS ParserContext, Samples

(* Statements; one that is wrong is skipped up to its ";". *)
Statements ==
  [rules |-> <<R(Start, <<"list">>), R("list", <<>>), R("list", <<"list", "stmt">>),
               R("stmt", <<"x", ";">>), R("stmt", <<"error", ";">>)>>,
   terms |-> BuiltInTerms @@ Plain({"x", ";"})]

(* Expressions: "-" binds closest, by %prec, then "*", to the right (to tell  *)
(* it from the next), then "+", to the left.                                  *)
Expressions ==
  [rules |-> <<R(Start, <<"E">>), R("E", <<"E", "+", "E">>), R("E", <<"E", "*", "E">>),
               [R("E", <<"-", "E">>) EXCEPT !.prec = "NEG"], R("E", <<"n">>)>>,
   terms |-> BuiltInTerms @@ Plain({"-", "n"}) @@ ("+" :> Prec(1, "left"))
               @@ ("*" :> Prec(2, "right")) @@ ("NEG" :> Prec(3, "right"))]

(* A chain of unit rules from "error": the reductions alone end repair mode. *)
Chain ==
  [rules |-> <<R(Start, <<"S">>), R("S", <<"C", "x">>), R("S", <<"y", "C", "z">>),
               R("C", <<"B">>), R("B", <<"A">>), R("A", <<"error">>)>>,
   terms |-> BuiltInTerms @@ Plain({"x", "y", "z"})]

\* A table, written out once.
Tabulated(f) == f @@ <<>>

\* The configurations of the states of a table.
AllConfigs(g, table) == [n \in DOMAIN table.states |-> Closure(g, table.states[n])]

\* Their tables, and the reference sentences up to a length.
StatementsTable      == LALRTable(Statements)
StatementsSentences  == AllEOI(Statements, 12)
ExpressionsTable     == LALRTable(Expressions)
ExpressionsSentences == AllEOI(Expressions, 8)
ChainTable           == LALRTable(Chain)
ChainSentences       == AllEOI(Chain, 6)

StatementsPrefixes   == UNION {Prefixes(s) : s \in StatementsSentences}
ExpressionsPrefixes  == UNION {Prefixes(s) : s \in ExpressionsSentences}
ChainPrefixes        == UNION {Prefixes(s) : s \in ChainSentences}

\* Every answer of error_f and every failure on statements; on expressions and
\* chains the parse alone.
SampleLanguages ==
  {[name |-> "statements",
      terms |-> AddedTerms(Statements), rules |-> Statements.rules,
      action |-> Tabulated(StatementsTable.action), goto |-> Tabulated(StatementsTable.goto),
      configs |-> Tabulated(AllConfigs(Statements, StatementsTable)),
      leafF |-> {"x", ";"}, ruleF |-> {3, 4, 5}, autoRet |-> FirstKid(Statements),
      answers |-> {"yes", "no", "fail"}, mayFail |-> TRUE, maxTokens |-> 6,
      sentences |-> {p : p \in StatementsSentences}, prefixes |-> {p : p \in StatementsPrefixes}],
   [name |-> "expressions",
      terms |-> AddedTerms(Expressions), rules |-> Expressions.rules,
      action |-> Tabulated(ExpressionsTable.action), goto |-> Tabulated(ExpressionsTable.goto),
      configs |-> Tabulated(AllConfigs(Expressions, ExpressionsTable)),
      leafF |-> {"n"}, ruleF |-> {}, autoRet |-> [FirstKid(Expressions) EXCEPT ![4] = 1],
      answers |-> {"yes"}, mayFail |-> FALSE, maxTokens |-> 7,
      sentences |-> {p : p \in ExpressionsSentences}, prefixes |-> {p : p \in ExpressionsPrefixes}]}

ChainLanguage ==
  {[name |-> "chain",
      terms |-> AddedTerms(Chain), rules |-> Chain.rules,
      action |-> Tabulated(ChainTable.action), goto |-> Tabulated(ChainTable.goto),
      configs |-> Tabulated(AllConfigs(Chain, ChainTable)),
      leafF |-> {}, ruleF |-> {}, autoRet |-> FirstKid(Chain),
      answers |-> {"yes"}, mayFail |-> FALSE, maxTokens |-> 3,
      sentences |-> {p : p \in ChainSentences}, prefixes |-> {p : p \in ChainPrefixes}]}

(***************************************************************************)
(* The tree of every expression on the stack respects the precedence and   *)
(* the associativity of its operators, as the conflict resolution of the   *)
(* table decides them: no operand of "-" is a "+" or a "*", none of "*" is *)
(* a "+", "+" has no "+" to its right and "*" no "*" to its left.          *)
(***************************************************************************)
Op(t) == CASE t.rule = 2 -> "+" [] t.rule = 3 -> "*" [] t.rule = 4 -> "-" [] OTHER -> "none"

Respects(t) ==
  CASE Op(t) = "+" -> Op(t.kids[3]) # "+"
    [] Op(t) = "*" -> Op(t.kids[1]) \notin {"+", "*"} /\ Op(t.kids[3]) # "+"
    [] Op(t) = "-" -> Op(t.kids[2]) \notin {"+", "*"}
    [] OTHER       -> TRUE

TreesRespectPrecedence ==
  lang.name = "expressions" =>
    \A i \in DOMAIN trees :
      /\ Respects(trees[i])
      /\ \A k \in DOMAIN trees[i].kids : Respects(trees[i].kids[k])

=============================================================================
