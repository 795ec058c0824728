-------------------------------- MODULE RegexVM --------------------------------
(***************************************************************************)
(* The machine of Arsenal/Lex/rgx_exec.c that searches one compiled        *)
(* expression at one position: __thompson, and __loop and __lookahead,     *)
(* which it enters for a counted repetition and a look-ahead and which     *)
(* enter each other.  All three keep a list of threads in the order of     *)
(* preference, run each for one instruction and collect the threads of the *)
(* next round; a frame here is one activation of one of them.              *)
(*                                                                         *)
(* A step is one thread's instruction, or the change to the next list.     *)
(***************************************************************************)
EXTENDS RegexCode

VARIABLES
  input,   \* match->input
  flags,   \* match->flags
  code,    \* prog->start
  frames,  \* the activations, the innermost last
  marks,   \* prog->marks: when a thread was last begun at an instruction
  mark     \* prog->mark

vmvars == <<input, flags, code, frames, marks, mark>>

VMInit ==
  /\ flags = {} /\ code = <<>>
  /\ frames = <<>> /\ marks = <<>> /\ mark = 0

\* A thread: its next instruction, its place in the input, the coordinates of
\* that place, and whether a line feed is to end the line of the return before.
Thread(pc, sp, line, col, act) ==
  [pc |-> pc, sp |-> sp, line |-> line, col |-> col, act |-> act]

\* The threads of a look-ahead have no coordinates.
Uncounted(t) == [t EXCEPT !.line = 0, !.col = 0, !.act = FALSE]

\* __check_is_newline: the coordinates after the character at the thread.
CheckIsNewline(t) ==
  LET c == CharAt(input, t.sp)
  IN CASE ~IsLineTerminator(c) -> [t EXCEPT !.col = @ + 1]
       [] IsLineTerminator(c) /\ t.act -> [t EXCEPT !.line = @ + 1, !.col = 0, !.act = FALSE]
       [] c = "CR" /\ CharAt(input, t.sp + 1) = "LF" /\ ~t.act ->
            [t EXCEPT !.col = @ + 1, !.act = TRUE]
       [] OTHER -> [t EXCEPT !.line = @ + 1, !.col = 0]

\* The threads that t becomes when it is added.
Branches(c, t) ==
  LET L == Leaves(c)[t.pc] IN [k \in DOMAIN L |-> [t EXCEPT !.pc = L[k]]]

\* Mutant: the marks are not looked at.
AddThreadAgain(list, t) == list \o Branches(code, t)

\* __add_thread: t joins a list, unless one was begun at its pc in this round.
AddThread(list, t) == IF marks[t.pc] = mark THEN list ELSE list \o Branches(code, t)

Top == frames[Len(frames)]
Running == frames # <<>> /\ Top.i <= Len(Top.curr)
T == Top.curr[Top.i]
I == code[T.pc]

WithTop(f) == [frames EXCEPT ![Len(frames)] = f]

\* The thread that runs is done, and t, if there is one, is of the next round.
Drop == frames' = WithTop([Top EXCEPT !.i = @ + 1]) /\ UNCHANGED marks

Continue(t) ==
  /\ frames' = WithTop([Top EXCEPT !.i = @ + 1, !.next = AddThread(@, t)])
  /\ marks' = [marks EXCEPT ![t.pc] = mark]

\* An activation starts: the threads of t, on a cleared list, for a first round.
Activation(c, kind, t, times) ==
  [kind |-> kind, start |-> t.pc, times |-> times,
   curr |-> Branches(c, t), next |-> <<>>, i |-> 1, found |-> <<>>]

Enter(fs, kind, t, times) ==
  /\ frames' = Append(fs, Activation(code, kind, t, times))
  /\ marks' = [marks EXCEPT ![t.pc] = mark + 1]
  /\ mark' = mark + 2

\* The inner activation returned, and the one outside goes on with t, if any.
Return(ts) ==
  LET outer == SubSeq(frames, 1, Len(frames) - 1)
      f == outer[Len(outer)]
  IN IF ts = <<>>
     THEN /\ frames' = [outer EXCEPT ![Len(outer)] = [f EXCEPT !.i = @ + 1]]
          /\ UNCHANGED marks
     ELSE /\ frames' = [outer EXCEPT ![Len(outer)] =
                          [f EXCEPT !.i = @ + 1, !.next = AddThread(@, ts[1])]]
          /\ marks' = [marks EXCEPT ![ts[1].pc] = mark]

Caller == frames[Len(frames) - 1].curr[frames[Len(frames) - 1].i]
-------------------------------------------------------------------------------
Consume ==
  /\ Running /\ I.op \in {"char", "any"}
  /\ IF Accepts(I, CharAt(input, T.sp), flags)
     THEN LET t == IF Top.kind = "ahead" THEN T ELSE CheckIsNewline(T)
          IN Continue([t EXCEPT !.pc = @ + 1, !.sp = @ + 1])
     ELSE Drop
  /\ UNCHANGED mark

Test ==
  /\ Running /\ I.op \in {"begin", "end", "line begin", "line end"}
  /\ IF Holds(I, input, T.sp) THEN Continue([T EXCEPT !.pc = @ + 1]) ELSE Drop
  /\ UNCHANGED mark

\* Mutant: the threads that come after the one that matched go on.
SucceedGoesOn ==
  /\ Running /\ I.op \in {"match", "loop end"}
  /\ frames' = WithTop([Top EXCEPT !.found = <<T>>, !.i = @ + 1])
  /\ UNCHANGED <<marks, mark>>

\* RGX_MATCH_I and, in __loop, RGX_LOOP_END_I: the end found in an earlier round
\* gives way to this one, and the threads that come after it are dropped.
Succeed ==
  /\ Running /\ I.op \in {"match", "loop end"}
  /\ frames' = WithTop([Top EXCEPT !.found = <<T>>, !.i = Len(Top.curr) + 1])
  /\ UNCHANGED <<marks, mark>>

\* __match_on_loop: __loop runs the body once, fix_count times over.
EnterLoop ==
  /\ Running /\ I.op = "loop begin"
  /\ Enter(frames, "loop", [T EXCEPT !.pc = @ + 1], I.count)

\* __match_on_lookahead.
EnterLookahead ==
  /\ Running /\ I.op = "ahead begin"
  /\ Enter(frames, "ahead", [Uncounted(T) EXCEPT !.pc = @ + 1], 1)

\* RGX_LOOKAHEAD_END_I: one thread that gets there is enough.
AheadHolds ==
  /\ Running /\ I.op = "ahead end"
  /\ LET b == code[Caller.pc]
     IN Return(IF b.negative THEN <<>> ELSE <<[Caller EXCEPT !.pc = b.left]>>)
  /\ UNCHANGED mark

\* The list is through and the next one is not empty.
NextRound ==
  /\ frames # <<>> /\ ~Running /\ Top.next # <<>>
  /\ frames' = WithTop([Top EXCEPT !.curr = Top.next, !.next = <<>>, !.i = 1])
  /\ mark' = mark + 1
  /\ UNCHANGED marks

Over(kind) == frames # <<>> /\ ~Running /\ Top.next = <<>> /\ Top.kind = kind

\* Mutant: one round too many.
LoopOnceMore ==
  /\ Over("loop") /\ Top.found # <<>> /\ Top.times > 0
  /\ Enter(SubSeq(frames, 1, Len(frames) - 1), "loop",
           [Top.found[1] EXCEPT !.pc = Top.start], Top.times - 1)

\* A round of __match_on_loop is over.
LoopAgain ==
  /\ Over("loop") /\ Top.found # <<>> /\ Top.times > 1
  /\ Enter(SubSeq(frames, 1, Len(frames) - 1), "loop",
           [Top.found[1] EXCEPT !.pc = Top.start], Top.times - 1)

LoopReturns ==
  /\ Over("loop") /\ (Top.found = <<>> \/ Top.times = 1)
  /\ LET t(k) == IF frames[Len(frames) - 1].kind = "ahead"
                 THEN Uncounted(Top.found[k]) ELSE Top.found[k]
     IN Return([k \in DOMAIN Top.found |-> [t(k) EXCEPT !.pc = code[Caller.pc].left]])
  /\ UNCHANGED mark

AheadFails ==
  /\ Over("ahead")
  /\ LET b == code[Caller.pc]
     IN Return(IF b.negative THEN <<[Caller EXCEPT !.pc = b.left]>> ELSE <<>>)
  /\ UNCHANGED mark

\* RGX_Match of the program c, from the thread t.
StartSearch(c, t) ==
  /\ code' = c
  /\ frames' = <<Activation(c, "match", t, 1)>>
  /\ marks' = [pc \in DOMAIN c |-> IF pc = t.pc THEN 1 ELSE 0]
  /\ mark' = 2

\* RGX_Match returns; it has found an end or has not.
Stop(found) ==
  /\ Over("match") /\ found = (Top.found # <<>>)
  /\ frames' = <<>> /\ code' = <<>> /\ marks' = <<>> /\ mark' = 0

VMStep ==
  /\ \/ Consume \/ Test \/ Succeed \/ EnterLoop \/ EnterLookahead
     \/ AheadHolds \/ NextRound \/ LoopAgain \/ LoopReturns \/ AheadFails
  /\ UNCHANGED <<input, flags, code>>
===============================================================================
