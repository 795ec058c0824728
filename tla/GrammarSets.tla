---------------------------- MODULE GrammarSets ----------------------------
(***************************************************************************)
(* The sets grammar.c computes from a grammar, by iteration: which         *)
(* nonterminals derive the empty string, First and Follow.                 *)
(***************************************************************************)
EXTENDS Grammar

(* The nonterminals that derive the empty string, by iteration. *)
RECURSIVE EmptyFrom(_, _)
EmptyFrom(g, known) ==
  LET more == {A \in Heads(g) : \E r \in RulesOf(g, A) :
                 \A k \in DOMAIN g.rules[r].body : g.rules[r].body[k] \in known}
  IN  IF more = known THEN known ELSE EmptyFrom(g, more)

CanEmpty(g) == EmptyFrom(g, {})

RECURSIVE FirstFrom(_, _, _)
FirstFrom(g, empty, first) ==
  LET more == [A \in Heads(g) |->
                 first[A] \cup UNION {SeqFirst(g, empty, first, g.rules[r].body)
                                        : r \in RulesOf(g, A)}]
  IN  IF more = first THEN first ELSE FirstFrom(g, empty, more)

FirstSet(g) == FirstFrom(g, CanEmpty(g), [A \in Heads(g) |-> {}])

RECURSIVE FollowFrom(_, _, _, _)
FollowFrom(g, empty, first, follow) ==
  LET UseSet  == UNION {{<<r, k>> : k \in DOMAIN g.rules[r].body}
                          : r \in DOMAIN g.rules}
      From(u) == LET rest == After(g.rules[u[1]].body, u[2])
                 IN  SeqFirst(g, empty, first, rest)
                       \cup (IF AllEmpty(empty, rest)
                             THEN follow[g.rules[u[1]].head] ELSE {})
      more    == [A \in Heads(g) |-> follow[A] \cup
                    UNION {From(u) : u \in {u \in UseSet :
                                              g.rules[u[1]].body[u[2]] = A}}]
  IN  IF more = follow THEN follow ELSE FollowFrom(g, empty, first, more)

(* Only EOI follows the augmented rule. *)
FollowSet(g) ==
  FollowFrom(g, CanEmpty(g), FirstSet(g),
             [A \in Heads(g) |-> IF A = Start THEN {EOI} ELSE {}])

=============================================================================
