---------------------------- MODULE MCGrammarStore ----------------------------
(* GrammarStore with two names, so that the kinds of two rules clash, one    *)
(* token value and one that is reserved.                                     *)
EXTENDS GrammarStore, TLC

TokenValues == {255, 256}

\* Names are compared but equal or not.
SameNames == Permutations(Names)
===============================================================================
