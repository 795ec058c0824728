--------------------------- MODULE ParserContext ---------------------------
(***************************************************************************)
(* The table-driven LR parser of src/Arsenal/Parser/parser.c: one context  *)
(* (psrContext_t), the tokens a client adds to it, and the callbacks of    *)
(* the grammar.  Every turn of the loop of Parser_AddToken, and of the     *)
(* loop of __error_recovery inside it, is one step.                        *)
(*                                                                         *)
(* The grammar, its tables and its callbacks are chosen at the start from  *)
(* Languages: the module holds for any automaton.                          *)
(***************************************************************************)
EXTENDS ParserTable, SequencesExt, FiniteSets

CONSTANTS
  Languages,  \* records of what follows
  Node,       \* what the callbacks may allocate
  NULL        \* no node

VARIABLE lang \* the language of the context

Terms     == lang.terms      \* the terminals a client may add, EOI among them
Rules     == lang.rules      \* a sequence of [head, body]; rule 1 is augmented
ActionOf  == lang.action     \* [<<state, terminal>> -> [type, rule, to, count]]
GotoOf    == lang.goto       \* [<<state, nonterminal>> -> state, or 0 for none]
LeafF     == lang.leafF      \* the terminals with a leaf function
RuleF     == lang.ruleF      \* the rules with a function of their own
AutoRet   == lang.autoRet    \* [rule -> the node, from 0, it hands up without one]
AllConfig == lang.configs    \* [state -> its items, [rule, dot]]: all_config
Answers   == lang.answers    \* what error_f may return: "yes", "no", "fail"
MayFail   == lang.mayFail    \* whether leaf_f and rule_f may fail
MaxTokens == lang.maxTokens  \* bound: tokens per sentence

\* Reference: the sentences of the grammar, up to a length, and their prefixes.
Sentences      == lang.sentences
ViablePrefixes == lang.prefixes

MaxValidShift == 3         \* PSR_REPAIR_MAX_VALID_SHIFT

\* LalrBuild makes tables that fit (ParserProofs).
ASSUME LanguagesAssumption ==
  /\ NULL \notin Node
  /\ \A l \in Languages :
       /\ TableFits(l)
       /\ l.maxTokens \in Nat /\ l.answers \subseteq {"yes", "no", "fail"}
       /\ \A r \in DOMAIN l.rules : l.autoRet[r] \in Nat

-----------------------------------------------------------------------------
VARIABLES
  stateStack, \* state_stack
  nodeStack,  \* node_stack
  isAccepted, \* is_accepted
  isRepair,   \* is_repair
  validShift, \* repair_valid_shift
  pc,         \* idle, or inside Parser_AddToken: parse, recover; or how it
              \* returned when not with AR_S_YES: no (AR_S_NO), failed
  tok,        \* the token of the current or the last call
  fed,        \* tokens added to this sentence
  live,       \* the nodes allocated, not freed and not handed to anyone
  trees,      \* history: what each entry of the state stack stands for
  reports,    \* history: calls of error_f in this call of Parser_AddToken
  goodInput   \* history: a token was shifted since repair mode began

stacks == <<stateStack, nodeStack, trees>>
repair == <<isRepair, validShift, goodInput>>
vars == <<lang, stateStack, nodeStack, isAccepted, isRepair, validShift, pc, tok, fed,
          live, trees, reports, goodInput>>

-----------------------------------------------------------------------------
(* Stacks *)
DropLast(s, n)  == SubSeq(s, 1, Len(s) - n)
TakeLast(s, n)  == SubSeq(s, Len(s) - n + 1, Len(s))
NodesIn(s)      == ToSet(s) \ {NULL}
Top             == Last(stateStack)

\* One of them that is not in use, if there is one.
NewNodes == IF Node \subseteq live THEN {} ELSE {CHOOSE n \in Node : n \notin live}

(* A leaf and an inner node of the parse the stack stands for. *)
Leaf(t) == [sym |-> t, rule |-> 0, kids |-> <<>>, yield |-> <<t>>]
Tree(r, kids) ==
  [sym   |-> Rules[r].head, rule |-> r, kids |-> kids,
   yield |-> FoldLeft(LAMBDA y, k : y \o k.yield, <<>>, kids)]
NoTree == [sym |-> Rules[1].head, rule |-> 0, kids |-> <<>>, yield |-> <<>>]

-----------------------------------------------------------------------------
(* Parser_CreateContext *)
Init ==
  /\ lang \in Languages
  /\ stateStack = <<>> /\ nodeStack = <<>> /\ trees = <<>>
  /\ isAccepted = FALSE
  /\ isRepair = FALSE /\ validShift = 0 /\ goodInput = FALSE
  /\ pc = "idle" /\ tok = EOI /\ fed = 0
  /\ live = {} /\ reports = 0

(***************************************************************************)
(* Parser_AddToken is entered: an empty stack gets the start state, with   *)
(* no node.                                                                *)
(***************************************************************************)
AddToken(t) ==
  /\ pc = "idle" /\ ~isAccepted /\ fed < MaxTokens
  /\ IF stateStack = <<>>
     THEN /\ stateStack' = <<StartState>>
          /\ nodeStack' = <<NULL>>
          /\ trees' = <<NoTree>>
     ELSE UNCHANGED stacks
  /\ tok' = t /\ fed' = fed + 1 /\ reports' = 0 /\ pc' = "parse"
  /\ UNCHANGED <<isAccepted, repair, live>>

Action == ActionOf[<<Top, tok>>]

\* Mutant: the limit itself is still counted.
CountShiftPast ==
  IF isRepair /\ validShift + 1 > MaxValidShift
  THEN isRepair' = FALSE /\ validShift' = 0
  ELSE /\ validShift' = IF isRepair THEN validShift + 1 ELSE validShift
       /\ UNCHANGED isRepair

(* A shift, or a reduction, counts towards the end of repair mode. *)
CountShift ==
  IF isRepair /\ validShift + 1 >= MaxValidShift
  THEN isRepair' = FALSE /\ validShift' = 0
  ELSE /\ validShift' = IF isRepair THEN validShift + 1 ELSE validShift
       /\ UNCHANGED isRepair

(* __handle_shift: the state goes on the stack before the leaf is made. *)
LeafNodes(t) == IF t \in LeafF THEN {NULL} \cup NewNodes ELSE {NULL}

ShiftToken ==
  /\ pc = "parse" /\ Action.type = "shift"
  /\ \E n \in LeafNodes(tok) :
       /\ stateStack' = Append(stateStack, Action.to)
       /\ nodeStack' = Append(nodeStack, n)
       /\ live' = live \cup ({n} \ {NULL})
  /\ trees' = Append(trees, Leaf(tok))
  /\ CountShift
  /\ goodInput' = TRUE
  /\ pc' = "idle"
  /\ UNCHANGED <<isAccepted, tok, fed, reports>>

LeafFails ==
  /\ pc = "parse" /\ Action.type = "shift"
  /\ MayFail /\ tok \in LeafF
  /\ stateStack' = Append(stateStack, Action.to)
  /\ trees' = Append(trees, Leaf(tok))
  /\ pc' = "failed"
  /\ UNCHANGED <<nodeStack, isAccepted, repair, tok, fed, live, reports>>

(***************************************************************************)
(* __handle_reduce: the node of the rule is made from the nodes on top of  *)
(* the stack; those it did not take are freed, so that only a child that   *)
(* is itself handed up survives.                                           *)
(***************************************************************************)
RuleNodes(r, kids) ==
  IF r \in RuleF THEN {NULL} \cup NewNodes \cup ToSet(kids)
  ELSE IF AutoRet[r] < Len(kids) THEN {kids[AutoRet[r] + 1]} ELSE {NULL}

\* Mutant: a child that is handed up is freed too.
AfterReduceFreed(kids, n) == (live \cup ({n} \ {NULL})) \ NodesIn(kids)

AfterReduce(kids, n) == (live \ NodesIn(kids)) \cup ({n} \ {NULL})

Reduce(act) ==
  LET kids == TakeLast(nodeStack, act.count)
      rest == DropLast(stateStack, act.count)
  IN  /\ \E n \in RuleNodes(act.rule, kids) :
           /\ nodeStack' = Append(DropLast(nodeStack, act.count), n)
           /\ live' = AfterReduce(kids, n)
      /\ stateStack' = Append(rest, GotoOf[<<Last(rest), Rules[act.rule].head>>])
      /\ trees' = Append(DropLast(trees, act.count),
                         Tree(act.rule, TakeLast(trees, act.count)))
      /\ CountShift
      /\ UNCHANGED <<isAccepted, tok, fed, reports, goodInput>>

RuleFails(act) ==
  /\ MayFail /\ act.rule \in RuleF
  /\ pc' = "failed"
  /\ UNCHANGED <<stacks, isAccepted, repair, tok, fed, live, reports>>

ReduceOnToken ==
  /\ pc = "parse" /\ Action.type = "reduce"
  /\ \/ Reduce(Action) /\ UNCHANGED pc
     \/ RuleFails(Action)

Accept ==
  /\ pc = "parse" /\ Action.type = "accept"
  /\ isAccepted' = TRUE
  /\ isRepair' = FALSE /\ validShift' = 0
  /\ goodInput' = TRUE
  /\ pc' = "idle"
  /\ UNCHANGED <<stacks, tok, fed, live, reports>>

-----------------------------------------------------------------------------
InError == pc = "parse" /\ Action.type = "error"

(***************************************************************************)
(* __error_recovery, outside repair mode: the error is reported, and what  *)
(* error_f answers decides.  "no" enters repair mode with the stack as it  *)
(* is, where the token is dropped, or the end of input ends the parse.     *)
(***************************************************************************)
ReportError ==
  /\ InError /\ ~isRepair
  /\ reports' = reports + 1
  /\ \E answer \in Answers :
       CASE answer = "yes"  -> pc' = "recover" /\ UNCHANGED repair
         [] answer = "fail" -> pc' = "failed" /\ UNCHANGED repair
         [] answer = "no"   -> /\ isRepair' = TRUE /\ goodInput' = FALSE
                               /\ pc' = IF tok = EOI THEN "no" ELSE "idle"
                               /\ UNCHANGED validShift
  /\ UNCHANGED <<stacks, isAccepted, tok, fed, live>>

\* Mutant: the token that is dropped is tried again.
DiscardStays ==
  /\ InError /\ isRepair /\ tok # EOI
  /\ UNCHANGED vars

(* In repair mode a token is dropped silently; EOI is reported and fails. *)
Discard ==
  /\ InError /\ isRepair /\ tok # EOI
  /\ pc' = "idle"
  /\ UNCHANGED <<stacks, isAccepted, repair, tok, fed, live, reports>>

FailAtEOI ==
  /\ InError /\ isRepair /\ tok = EOI
  /\ reports' = reports + 1
  /\ pc' = "no"
  /\ UNCHANGED <<stacks, isAccepted, repair, tok, fed, live>>

(***************************************************************************)
(* The search for a state that shifts "error": reductions on it are made,  *)
(* states with no action on it are popped and their nodes freed.           *)
(***************************************************************************)
OnErrorT == ActionOf[<<Top, ErrorT>>]
Searching(type) == pc = "recover" /\ stateStack # <<>> /\ OnErrorT.type = type

ReduceOnError ==
  /\ Searching("reduce")
  /\ \/ Reduce(OnErrorT) /\ UNCHANGED pc
     \/ RuleFails(OnErrorT)

\* Mutant: the node of a popped state stays on its stack.
PopStateOnly ==
  /\ Searching("error")
  /\ live' = live \ {Last(nodeStack)}
  /\ stateStack' = DropLast(stateStack, 1)
  /\ trees' = DropLast(trees, 1)
  /\ UNCHANGED <<nodeStack, isAccepted, repair, pc, tok, fed, reports>>

PopState ==
  /\ Searching("error")
  /\ live' = live \ {Last(nodeStack)}
  /\ stateStack' = DropLast(stateStack, 1)
  /\ nodeStack' = DropLast(nodeStack, 1)
  /\ trees' = DropLast(trees, 1)
  /\ UNCHANGED <<isAccepted, repair, pc, tok, fed, reports>>

\* Mutant: recovery does not enter repair mode.
ShiftErrorLoudly ==
  /\ Searching("shift")
  /\ stateStack' = Append(stateStack, OnErrorT.to)
  /\ nodeStack' = Append(nodeStack, NULL)
  /\ trees' = Append(trees, Leaf(ErrorT))
  /\ pc' = "parse"
  /\ UNCHANGED <<isAccepted, repair, tok, fed, live, reports>>

ShiftError ==
  /\ Searching("shift")
  /\ stateStack' = Append(stateStack, OnErrorT.to)
  /\ nodeStack' = Append(nodeStack, NULL)
  /\ trees' = Append(trees, Leaf(ErrorT))
  /\ isRepair' = TRUE /\ validShift' = 0 /\ goodInput' = FALSE
  /\ pc' = "parse"
  /\ UNCHANGED <<isAccepted, tok, fed, live, reports>>

NoHandler ==
  /\ pc = "recover" /\ stateStack = <<>>
  /\ pc' = "no"
  /\ UNCHANGED <<stacks, isAccepted, repair, tok, fed, live, reports>>

-----------------------------------------------------------------------------
(* The client, between calls. *)

\* Mutant: is_accepted stays set.
GetResultTwice ==
  /\ pc = "idle" /\ isAccepted
  /\ live' = live \ {Last(nodeStack)}
  /\ stateStack' = DropLast(stateStack, 1)
  /\ nodeStack' = DropLast(nodeStack, 1)
  /\ trees' = DropLast(trees, 1)
  /\ fed' = 0
  /\ UNCHANGED <<isAccepted, repair, pc, tok, reports>>

(* Parser_GetResult: the node of the whole sentence goes to the client. *)
GetResult ==
  /\ pc = "idle" /\ isAccepted
  /\ live' = live \ {Last(nodeStack)}
  /\ stateStack' = DropLast(stateStack, 1)
  /\ nodeStack' = DropLast(nodeStack, 1)
  /\ trees' = DropLast(trees, 1)
  /\ isAccepted' = FALSE
  /\ fed' = 0
  /\ UNCHANGED <<repair, pc, tok, reports>>

(* Parser_Clear, by itself or from Parser_DestroyContext. *)
Clear ==
  /\ pc \in {"idle", "no", "failed"}
  /\ live' = live \ NodesIn(nodeStack)
  /\ stateStack' = <<>> /\ nodeStack' = <<>> /\ trees' = <<>>
  /\ isAccepted' = FALSE
  /\ isRepair' = FALSE /\ validShift' = 0 /\ goodInput' = FALSE
  /\ pc' = "idle" /\ tok' = EOI /\ fed' = 0 /\ reports' = 0

(* Parser_RecoverDone *)
RecoverDone ==
  /\ pc = "idle" /\ isRepair
  /\ isRepair' = FALSE /\ validShift' = 0
  /\ UNCHANGED <<stacks, isAccepted, pc, tok, fed, live, reports, goodInput>>

-----------------------------------------------------------------------------
(* One turn of the loops of Parser_AddToken and __error_recovery. *)
Turn ==
  \/ ShiftToken \/ LeafFails \/ ReduceOnToken \/ Accept
  \/ ReportError \/ Discard \/ FailAtEOI
  \/ ReduceOnError \/ PopState \/ ShiftError \/ NoHandler

Client ==
  \/ \E t \in Terms : AddToken(t)
  \/ GetResult \/ Clear \/ RecoverDone

Next == (Turn \/ Client) /\ UNCHANGED lang

Spec == Init /\ [][Next]_vars

(* A call of Parser_AddToken runs on in its thread until it returns. *)
FairSpec == Spec /\ WF_vars(Turn /\ UNCHANGED lang)

-----------------------------------------------------------------------------
(***************************************************************************)
(* Type invariant: the stacks of states and of nodes, the repair counter   *)
(* below PSR_REPAIR_MAX_VALID_SHIFT and zero outside repair mode, and      *)
(* repair mode and acceptance never at once (struct __parser_context_tag). *)
(***************************************************************************)
TypeOK ==
  /\ stateStack \in Seq(StatesOf(lang))
  /\ nodeStack \in Seq(Node \cup {NULL})
  /\ Len(trees) = Len(stateStack)
  /\ isAccepted \in BOOLEAN /\ isRepair \in BOOLEAN /\ goodInput \in BOOLEAN
  /\ validShift \in 0 .. MaxValidShift - 1
  /\ ~isRepair => validShift = 0
  /\ ~(isAccepted /\ isRepair)
  /\ pc \in {"idle", "parse", "recover", "no", "failed"}
  /\ tok \in Terms /\ fed \in 0 .. MaxTokens
  /\ live \subseteq Node /\ reports \in Nat

(***************************************************************************)
(* Every node the callbacks made is on the node stack exactly once, until  *)
(* it is freed, taken by another node or handed to the client: none is     *)
(* lost, none is freed while it is still referred to, through shifts,      *)
(* reductions, error recovery and Parser_Clear.                            *)
(***************************************************************************)
NodesOwnedOnce ==
  /\ NodesIn(nodeStack) = live
  /\ \A i, j \in DOMAIN nodeStack :
       nodeStack[i] = nodeStack[j] /\ nodeStack[i] # NULL => i = j

(***************************************************************************)
(* The two stacks stay in step (the assertion of Parser_GetNodeCount), and *)
(* only a leaf function that fails leaves them one apart, in a call that   *)
(* has failed.  Whenever a reduction is the next action, on a token or on  *)
(* "error", the rule's body is what the entries on top stand for, and the  *)
(* goto it needs exists (the assertions of __handle_reduce).               *)
(***************************************************************************)
BodyOnTop(act) ==
  /\ Len(stateStack) > act.count
  /\ LET kids == TakeLast(trees, act.count)
     IN  [k \in DOMAIN kids |-> kids[k].sym] = Rules[act.rule].body
  /\ GotoOf[<<Last(DropLast(stateStack, act.count)), Rules[act.rule].head>>] # 0

StacksInStep ==
  /\ \/ Len(nodeStack) = Len(stateStack)
     \/ pc = "failed" /\ Len(nodeStack) + 1 = Len(stateStack)
  /\ pc = "parse" /\ Action.type = "reduce" => BodyOnTop(Action)
  /\ Searching("reduce") => BodyOnTop(OnErrorT)

(***************************************************************************)
(* What has been shifted can always be completed to a sentence: the tables *)
(* never shift or keep what no sentence goes on from, "error" standing for *)
(* itself.  It is accepted on EOI only, when it is a sentence, with one    *)
(* entry above the start state (the assertions at PARSER_ACCEPT and in     *)
(* Parser_GetResult).                                                      *)
(***************************************************************************)
StackYield == FoldLeft(LAMBDA y, k : y \o k.yield, <<>>, trees)

AcceptsOne ==
  isAccepted => /\ tok = EOI
                /\ Len(stateStack) = 2
                /\ trees[2].sym = Rules[1].body[1]

InputStaysViable ==
  /\ StackYield \in ViablePrefixes
  /\ AcceptsOne
  /\ isAccepted => Append(StackYield, EOI) \in Sentences

(***************************************************************************)
(* error_f is called outside repair mode only for a token that no sentence *)
(* goes on with after what was shifted: the reductions made before the     *)
(* error was found, under lookaheads that were merged, lose nothing.       *)
(***************************************************************************)
ErrorIsReal ==
  [][ reports' = reports + 1 /\ ~isRepair
        => Append(StackYield, tok) \notin ViablePrefixes ]_vars

(***************************************************************************)
(* One call of Parser_AddToken reports its token at most once: after the   *)
(* report the token is shifted, dropped or ends the parse ("any illegal    *)
(* input is discarded, and no error message is shown").  Only EOI is       *)
(* reported again, when recovery does not get past it; and, with a rule    *)
(* for "error" that any statement can use, only EOI can make the call      *)
(* return AR_S_NO, which grammar_collector.c counts on for the token it    *)
(* adds before EOI.                                                        *)
(***************************************************************************)
HasErrorRule == \E r \in DOMAIN Rules : ErrorT \in ToSet(Rules[r].body)

TokenReportedOnce ==
  /\ reports <= IF tok = EOI THEN 2 ELSE 1
  /\ pc = "no" /\ HasErrorRule => tok = EOI

(***************************************************************************)
(* Repair mode ends only when correct input came after the error: the      *)
(* parser shifted a token since it entered it, or accepts (the comment in  *)
(* __handle_shift).                                                        *)
(***************************************************************************)
RepairNeedsInput ==
  [][ isRepair /\ ~isRepair' /\ pc = "parse" => goodInput' ]_vars

(***************************************************************************)
(* Every call of Parser_AddToken returns: the loops of __error_recovery    *)
(* and of reductions come to an end.                                       *)
(***************************************************************************)
AddTokenReturns == pc \in {"parse", "recover"} ~> pc \notin {"parse", "recover"}

=============================================================================
