# Verification of the Arsenal library

Arsenal is a C library: a portable run time (threads, memory, containers, text),
a lexer generator built on a regular-expression machine, an LR parser generator
with its run time, and tools written with them (JSON, property lists, a grammar
compiler). This directory models its parts in TLA+, checks small instances with
TLC and proves theorems with TLAPS. Paths below are under `src/Arsenal`.

Contents: [inventory](#inventory) · [plan](#plan) ·
[asynchronous queue](#asynchronous-queue) · [events and threads](#events-and-threads) ·
[heap](#heap) · [byte buffer](#byte-buffer) ·
[expressions and lexer](#regular-expressions-and-lexer) ·
[building a grammar](#building-a-grammar) · [parser tables](#parser-tables) ·
[parser run time](#parser-run-time) ·
[runs](#runs) · [findings](#findings) · [proofs](#proofs) ·
[what is not modelled](#what-is-not-modelled)

## Inventory

| Part | State it keeps | Operations | What is hard | What makes it correct |
|---|---|---|---|---|
| Asynchronous queue, `Common/thread.c` | data list, list of waiters whose records live on the waiters' stacks, cache of events, two spin locks | put (back, front), get with and without timeout, peek, clear, init, uninit | a put and the getter it wakes run at once; a timeout races a put; allocation, `AR_SetEvent` and waits fail half way | every item is received once or reported; no lost or stale wake-up; no event leaked or shared |
| Events, threads, locks, `Common/thread*.h` | mutex, condition variable, state flag; a `done` event per thread | create, set, reset, wait, timed wait, join, destroy | time-outs against signals, spurious wake-ups, destruction while in use | a set event releases every waiter; a time-out leaves no signal behind |
| Heap, `Common/heap.c` | pages in five lists, chains of blocks, free lists, two counters | alloc, free, realloc, destroy | long sequences of splits and merges; list membership is inferred, not stored | live blocks never overlap; every page is in one list; counters are exact |
| Allocation wrappers, `Common/memory.c` | in debug builds lists of live and freed blocks | malloc, calloc, realloc, free | up to a million retries, possibly under a spin lock | no block freed twice, leaks reported |
| Byte buffer, `Common/buffer.c` | block, read and write cursor | reserve, insert, read, erase, swap, copy | move or grow at a boundary | what is read is what was written |
| Lists, hash table, string table, `Common/datastructure.c`, `strtable.c` | nodes and counts | insert, remove, find, iterate | removal during a visit | a finite map; equal strings get one pointer |
| Regular expressions, `Lex/rgx_*.c` | program, two lists of threads, marks, a closure stack | parse, compile, match | bounded stacks, loops whose body matches nothing, look-ahead and counted loops run nested machines | the match is the one the expression's priority rules define |
| Lexer, `Lex/lex.c`, `match.c` | rules sorted by priority, enabled flags, position, `is_ok` | insert and remove names and rules, match, put back | skipped tokens, empty matches, sticky error flag | tokens tile the input |
| Grammar, `Parser/grammar.c`, `symbol.c`, `parser_in.c` | terminals, rules and precedences; symbols, shared by counted references; First and Follow sets | insert terms and rules, set the start, clear, validate, compute the sets | failures half way through building a rule; lent lists; names that are terminals in one rule and heads in another | each call has its whole effect or none; no symbol leaks or dies early; the sets are those of the definition |
| LR tables, `Parser/lalr_*.c`, `lr_action.c` | states, configurations, propagation links, action and goto table | closure, goto, propagation, conflict resolution | empty symbols, merged states, order of insertion | the table accepts the language and resolves conflicts by precedence |
| Parser run time, `Parser/parser.c` | state stack, node stack, repair mode | create, add token, get result, clear, recover done | error recovery, failing callbacks, ownership of nodes | nodes owned once; every call returns; errors are real |
| JSON, property lists, serializer, INI, `Tools/*.c` | trees | parse, print | partial failure while building a tree | a round trip is the identity |
| Grammar collector and code generator, `Tools/grammar_*.c` | records of names, tokens, rules | parse a grammar file, emit C | relies on what the parser does at the end of input | the emitted table is the one built |
| Tengu, `Tengu/*.c` | modules, tables, a stack machine | compile, execute | unfinished: calls and returns are empty cases | – |

How they interact. Clients call the parser with tokens they take from the lexer;
the parser calls back `leaf_f`, `rule_f`, `free_f` and `error_f` of the grammar,
whose answers steer error recovery. The table builder reads a grammar and its
First and Follow sets and hands the run time an immutable table. The queue uses
spin locks, events and list nodes from the allocation wrappers; its threads share
nothing but the queue and the event they sleep on. The heap is used by one thread
at a time and takes pages from malloc. Only the queue, the events and the debug
allocator are used concurrently; everything else is sequential, and what is hard
there is long sequences of legal calls and failures in the middle of one.
`PROJECT.json` lists each hazard at its line with the properties that cover it.

## Plan

Order of work, the most important behaviour first.

1. `AsyncQueue`, with `HandoffQueue` as its promise: done, proved.
2. `Heap`, with `Allocator` as its promise: done, proved.
3. `ParserContext`, and `Grammar`, `LRTable`, `LalrBuild` with `Derivation`
   as reference: done. Proved: the stacks and the nodes of `ParserContext` for every
   table of the right shape; for every grammar, that the table built has that shape,
   its conflict resolution and the least follow sets.
4. `Events` and `Threads`, with `SignalEvent` as the promise of an event: done,
   proved. Left: the lists of the debug allocator.
5. `RegexCode`, `Regex`, `RegexVM` and `Lexer`, with `LexerPromise`: done, model-checked;
   the machine and the coordinates proved for any code of the right shape.
6. `Buffer`, with `ByteQueue` as its promise: done, proved. `GrammarStore`, with
   `GrammarPromise`: done, proved. Left: `Containers`, that is lists, hash table and
   string table.
7. Codecs (JSON, property lists, INI) as round trips; the grammar collector as a
   client of the parser.

What is abstract is stated once (`HandoffQueue`, `SignalEvent`, `Allocator`,
`ByteQueue`, `GrammarPromise`, `Derivation`, the reference in `Regex` and `LexerPromise`)
and the detailed module is shown to implement it or to agree with it. The MC modules
give each module its instances.

## Asynchronous queue

`AsyncQueue.tla` models `arAsyncQueue_t`. `dataq` and `waitq` are its two lists,
`cached` and `cachedCnt` its cache of events, `infoEvent` and `infoData` the
`asyncWaitInfo_t` on each getter's stack, `event` the heap blocks an event can
occupy, `mutex` the spin lock.

A critical section is one action when nothing outside it can see it half done,
and is split where something can. `AR_PutToAsyncQueue` becomes `PutFill` (store the
item in the first waiter's info), `PutSignal` (set its event: from here the
waiter runs, returns and reuses its stack) and `PutUnlink` (remove the waiter's
node). A get becomes `GetEmpty`, `PickCached`/`PickNew` (an event from the cache
or a new one), `Register`, the wait (`Wake`, `Expire`, `WaitFails`), `Withdraw`
(look again under the lock after a wait that did not end well) and `Release`
(event to the cache, or destroyed). `Peek` has two sections, as in the code.
`Faults` names the library calls that may fail: `memory` and `event` (allocating a
node, creating an event), `lock` and `broadcast` of `AR_SetEvent`, `reset` and `wait`.
`fate` is a history of what became of each item.

`AR_SetEvent` raises the flag before it broadcasts (`thread_posix.h:460`). A put whose
broadcast fails is refused (`PutBroadcastFails`), its getter stays linked, and the flag
stays up: the event is `left`, a value that the code does not tell from `set` and the
properties do. A getter that was not asleep yet, or wakes for no reason, then returns
`AR_S_YES` with the refused item (`WakeUncalled`) and leaves its node in the line, with a
pointer into a frame that is gone. `AR_ResetEvent`, whose answer
nobody looks at, may also fail and let a raised flag into the cache. `astray` records
that one of the two has happened. What follows is modelled too: a later put fills the info
of the getter that has left and sets the event it names, wherever that event is by then, and
its item is gone. For this the model assumes that the frame of a thread's calls is
always in the same place, and that a write to a freed event has no effect; the code
promises neither, so that what happens then is a lower bound of what can. Nodes of getters
that have gone astray are never taken out, so `MaxLine` stops getters from joining a longer line
once one has; it bounds nothing before.

A timed wait may expire at any moment, even once its event is set: the loop of
`AR_WaitEventWithTimeout` (`thread_posix.h:555`) stops at ETIMEDOUT without
another look at the state. `AR_UnInitAsyncQueue` needs a quiet queue, as it asserts.

`HandoffQueue.tla` is the promise: every call atomic, waiters served in the order
of their arrival, an item received by one getter, refused with an error or
cleared. A get whose wait *fails* (not expires) drops the item a put handed it in
the same moment; the abstract queue has the action `Forfeit` for this case and no other.

Properties: the inductive invariant `QueueInv` (one part of it, `DataOrWaiters`,
says that data and waiters never meet, another is the type invariant) and the parts
of it that are checked on their own (`OnePlacePerItem`, `SetIffServed`, `EventHasOneOwner`),
`NoEventLeak` (tear-down visits only the first `cached_event_cnt` slots of an
array that gets holes while getters are inside), `PeekAssertionsHold` for a sole
consumer (`common.h:1336`: peek "can only be used in single consumer model"), `ImplementsHandoffQueue`, and `WaitEnds`.

A getter that goes astray breaks the queue, so four of these speak of the time until one
does: an item may then be received though it was refused, or be handed to a getter
that has left, and a getter may find a flag up that nobody raised for it. They are
`WaitLine` (a part of `QueueInv`), `SetIffServed`, `OnePlacePerItem` and
`ImplementsHandoffQueue`, which lets a step do anything once `astray` holds. `Blame` says that
only a failed broadcast or reset can lead there: failing locks, allocations,
events and waits cannot. The others, `EventHasOneOwner`, `DataOrWaiters`, the discipline of
the lock, the cache and `NoEventLeak`, hold even then.

Fairness: `Proceed(t)` and `Expire(t)` weakly fair for each thread: the scheduler
runs every thread that can run and clocks advance. `AR_LockSpinLock` is
test-and-set and promises nobody a turn, so weak fairness, not strong, is all the
code justifies (nor do the failures, or a wake-up for no reason, have to happen); accordingly a timed getter is promised an end only if the lock is
not taken for ever again and again by others, while a getter without timeout that
was served does not take that lock on its way out and returns unconditionally. It takes
`cached_event_mutex`, whose sections are single steps here; with the one consumer of the run
nobody else wants it.

## Events and threads

`Events.tla` models the calls on an `arEvent_t` of `thread_posix.h`: a flag under
a pthread mutex, with a condition variable. A call takes the mutex (`Acquire`),
does its work and leaves in one step (`SetEvent`, `ResetEvent`, `Test`); a wait
that finds the flag lowered gives the mutex up and sleeps in one step, as
`pthread_cond_wait` promises, and takes the mutex again before it looks. A timed
wait may reach its deadline at any moment, also when its flag has been raised.
`MayFail` names the pthread calls of which one may fail: taking the mutex, the
broadcast, and a wake-up for no reason. `SignalEvent.tla` is the promise: each
call takes effect in one step, a wait succeeds only at an instant when the flag
is up, the wait that succeeds on an auto-reset event takes the signal with it,
one that gives up takes nothing.

`Threads.tla` adds `arThread_t`: a handle that owns a pthread and a manual-reset
event `done`, set by `__entry` when the thread's function has returned.
`AR_CreateThread` makes the handle, the event and the thread in three steps, of
which the last two may fail; `AR_DestroyThread` joins through `done`, then calls
`pthread_join`, `pthread_detach`, and frees. The identifiers of pthreads are
drawn from `Ids` and are free again once a thread is reclaimed, which is what
makes the `pthread_detach` matter. Clients and children also meet at one more
event, the gate. Clients keep the contract: a handle is destroyed once and while
nobody joins it.

Properties: `NoLostWakeup` (nobody sleeps, or is about to sleep, on a raised flag,
unless the very broadcast failed), `JoinedHasRun` (a join that answers `AR_S_YES`
has waited for the function), `HandleOutlivesThread`, `NothingLeftBehind`,
`ImplementsSignalEvent`, and `JoinEnds`. `NothingLeftBehind` says that a handle in use has its
event and its thread, that one not in use has no event, also when a creation fails
half way, and that a freed handle leaves no thread behind: its thread has been reclaimed,
with one exception (`DetachedByMistake`), the thread that the `pthread_detach` of the first
finding has hit. That one is past its function and has set its `done`; it is
reclaimed when it leaves `__entry`, but its `AR_DestroyThread` has not waited for that.

Fairness: weak, for each thread's own steps inside a call (`Runs`), for what a
client does once its call has returned (`Finish`) and for a child that must set
its `done`. Creation, the choice to call and failures are not fair.

`AsyncQueue` does not extend these modules: it takes an event as a flag whose wait,
set and reset are atomic, and a set may fail before or after the flag is up, as in `Events`.

## Heap

`Heap.tla` models `arHeap_t` with sizes and offsets in units of the alignment.
Small blocks are cut off a current page and recycled by size class; medium pages
hold a chain of blocks (`blk` with `prev` and `next`) and a free list; a large
block has a page to itself. The page lists are sequences. `MediumFree` is written
as its three parts in the code's order: merge with the block before, with the
block behind, and put the larger of two first in the free list; then the page is
released, or moved between the list of pages with room and that of full ones,
which it decides from `largest_free` and not from any stored membership.
`AR_ReallocFromHeap` allocates, copies and frees in two steps (`moving`), since
the allocation sees the old block still in place. `Outgrows` is the test of each kind. A
medium request may take as many units as a large one, since the headers differ; a medium
block that has the room for a large request stays in the code and may move in the
model. A malloc that fails changes nothing. In a reallocation it ends the program, which
copies to NULL (`heap.c:234`, 652, 741): listed as a hazard, and no step of the model.

The sizes are those of a `layout`, chosen once at the start. A page of small blocks is
counted from the first block, so the end of a page that `heap.c:170` tests for is met exactly,
with other numbers than the code's.

Properties: `HeapInv`, of the parts `Tiled` (the blocks of a page fill it, in the
order of their links, and no two free ones are neighbours), `FreeListExact` (the
free list has the free blocks, and the page is in the list that `largest_free`
says), and `PagesLinkedOnce` (every page in one list, the count of pages and the small
free lists exact, nothing left after destruction, with blocks still live);
`MemoryCounted` (`actual_mem_used` is the size of the pages in use, and zero at the end);
`FreedIsOffered` (a freed medium block can be had again without a new page: the
free list is unsorted and only its first block counts, so this is not obvious);
and `ImplementsAllocator`: live regions never overlap and only their own free removes them.

## Byte buffer

`Buffer.tla` models `arBuffer_t`: a block `mem`, `readCur` and `writeCur`. Each
call is one action and computes what the code computes: a request is served where
the cursor stands, after the data is moved to the front, or from a larger block
(`AR_AllocFromBuffer`, `AR_ReserveBuffer`), and a read or an erasure that empties
the buffer rewinds it. All the buffers of a program share `MaxMemory`; a call
that needs a block and gets none changes nothing, except a copy, which has
cleared its target by then. `reserved` is a history: what the last reservation still promises.

Properties: `BufferInv` (the cursors stay in the block; what `AR_ReserveBuffer`
promised can be written without memory, `common.h:1033`, whatever is read or
erased in between) and `ImplementsByteQueue`: each buffer is a queue of bytes, a
line that is taken is what stands before the first separator, and no answer
depends on where the bytes lie. `ByteQueue` says of each step that some call was made, not
which: any call may empty a buffer as `AR_ClearBuffer` does, or append bytes the caller
has not named as `AR_AllocFromBuffer` does, if its answer is that call's.

Noticed on the way and followed by the model: asking `AR_GetLineFromBufferWithLineSP`
for the length of an empty line consumes the line although no target was given; lines
are copied with `strncpy` (bytes of zero are not modelled). A buffer
inserted into itself and an offset that `AR_ResetBufferData` asserts not to get
are the caller's mistake and not taken.

## Regular expressions and lexer

`RegexCode.tla` has the instructions: what one asks of a text, the way `__add_thread` takes
over jumps and branches (`Leaves`), and what can be said of all code (`IsCode`). `Regex.tla`
has the trees `rgx_parser.c` builds, the code `rgx_compile.c` makes of
one (`CompileTree`), and a reference that looks at trees only: `Ends`, where a tree
may end, and `Found`, which end the greedy and lazy signs prefer. `RegexVM.tla` is the machine
of `rgx_exec.c`: a frame is one activation of `__thompson`, `__loop` or
`__lookahead`, which enter each other; it has a list of threads and the list of
the next round. A step is one thread's instruction, or the change to the next
list; marks decide whether a thread is begun twice, and a nested activation uses
the marks of the one outside. `Lexer.tla` is `match.c` over it,
whoever compiles the rules (`Compile` is a constant, `CompileTree` in the runs): `Lex_Match` tries
the enabled rules by priority, starts over after a rule to skip, gives up after
two empty matches of such rules and keeps `is_ok` lowered after a failure. Where a thread
list has to be made and there is no memory (`NoMemory`: at the start of a search, of each turn
of a counted repetition and of a look-ahead) the call ends with `is_ok` lowered. Around it
are `Lex_SkipN`, `Lex_Skip`, `Lex_SkipTo`, `Lex_PutBack`, resets, flags and the
switching of rules.

Properties: `ScansAsPromised` of `LexerPromise.tla` (each answer, token and new position is what the
rules promise by the reference; refused calls change nothing),
`CoordinatesMatchPosition` (three loops of the machine and `Lex_SkipN` count lines
alike, also when a call ends between a return and its line feed), `ThreadsStayFew`
(a list holds no more threads than the code has ways on, where nothing is counted and
nothing looks ahead; that this stays below the 512 of `rgx.h:343` is not shown) and
`MatchReturns` (over the same expressions as all else: no repetition of what may be empty).

The reference tests one character by an operator of its own, `Fits`; the tests of a place
(`Holds`: beginnings and ends of text and line) it shares with the machine. `LEX_IGNORE_CASE` is in no
set of flags of the run, because the code does not do what the name says: all three branches
of `__match_on_char` answer true (`rgx_exec.c:301-317`), so under this flag a character of the
expression takes any character. `Accepts` follows the code; with the flag added to `FlagChoices`
of `MCLexer`, `ScansAsPromised` fails.

For expressions that mix counted repetitions with a choice the code does not keep
to the greedy and lazy signs: `a{0,2}a` does not match `aa`, because a counted repetition
(`rgx_parser.c:1638`) is one end per activation; the reference is exact on the rest
(`Exact`) and says only what is certain of these. The body of a repetition takes at least one
character: over an empty one, as in `(a*)*`, the compiler makes a circle of jumps and
branches, on which `__add_thread` does not return (listed as a hazard); `IsCode`, which the
theorems assume, excludes it. The model
stops each client after four calls.
Rules do not change during a match: `Lex_CreateMatch` copies them.

Fairness: `WF_vars(LexMatch)`, since a call runs on in its caller's thread.

## Building a grammar

`GrammarStore.tla` models the calls that build a grammar, with symbols as objects
that terms, rules and locals share by counted references. A rule arrives as a
string that is scanned symbol by symbol (`Parser_CreateRuleByStr`) or as the client's
list (`Parser_CreateRule`), is given its precedence, and is inserted
(`Parser_InsertRule`); each allocation on the way may fail, after which the code
gives back what it has. `Parser_ClearGrammar` makes a new grammar (`fresh`) term
by term and swaps it in. `Parser_GetSymbList` lends symbols without counting.
`GrammarPromise.tla` is the promise over names: each call has its whole effect or
none; no name is a terminal and a nonterminal; a rule's precedence names a terminal.

Properties: `StoreInv` (types; a count is the number of places that hold the
symbol, at every step of every call; the augmented rule has a body when there is
a rule, which two functions assert), `BorrowedAlive` (what a lent list names
stays alive while the grammar grows), and `ImplementsGrammarPromise`.

One use is left out: a client that makes a rule, then inserts a terminal of the
name of its head, then inserts the rule. `Parser_InsertRule` does not look at
terminals, so the name would have both kinds; the other order is refused.

## Parser tables

`Grammar.tla` has the precedence of a rule, grammar validity and First of a string
of symbols; `GrammarSets.tla` the empty, First and Follow sets as the code's
fixpoints. `LRTable.tla` has closure, goto, the links lookaheads travel, the candidate
actions of an entry in the code's order and `__insert_action_to_action_list` with its
precedence and associativity cases.

`LalrBuild.tla` is `Parser_Create_LALR_State` as a state machine. `stack` holds the
calls of `__build_goto` that run, each with the configurations it has not marked yet. A step
takes the next of them in table order and moves on its symbol: `GotoFound` when
`Parser_FindStateByBasis` knows the basis, `GotoNew` when a state is inserted, whose
moves are then built first, `GotoReturns` at the end of the list. `Link` makes the
forward links, `Visit` and `EndSweep` are the sweeps of
`__build_propagation_links`: one step per configuration visited, until a sweep changes
nothing, with `Parser_UnionBitSet`'s answer as it is: "changed" whenever the sets differ,
even if the target did not grow. The backward lists that `__build_goto` collects on
the way have no variable: turned round by `Link` they are what `Forward` says.
Its properties are `ConflictsResolved`, `PropagationEnds` and, in `LalrReference.tla`,
`FollowIsLALR`. `ConflictsResolved` says that a conflict is reported just when two actions
that nothing decides between met at some moment of the insertion; a later, stronger
one takes the entry but not the report away.

`LRGenerator.tla` computes a table in one go, with `Parser_CollectState`'s numbering, for the
instances of `MCParser`. It and `GrammarSets` are recursive, so the proofs, which need
neither, are about `LalrBuild` with arbitrary empty and First sets (`Empty`, `First`); the
configurations for TLC give it those of `GrammarSets`. `Derivation.tla` is the reference:
the language of a grammar by derivation and LALR(1) lookaheads by the textbook
definition over the canonical LR(1) collection. None of it is translated from the code, but
it takes the empty and First sets of single symbols from `GrammarSets`, which are thus
common to both sides of the comparison.

`GrammarsAssumption` asks that a grammar is one (`IsGrammar`): valid, with one symbol
derived by the augmented rule, no other rule for `%Start`, heads that are no terminals and
precedences that name terminals. The operations of `grammar.c` keep all of it
(`GrammarStore`) but one part: nothing stops a client from naming `%Start` in a body.

A shift has the precedence of the rule of the first configuration that moves on
the token, not of the token (`lr_action.c:550-557`); the model follows the code.
The comparison of lookaheads is made for productive grammars; the code accepts
others, where the reference automaton has other cores.

## Parser run time

`ParserContext.tla` models `psrContext_t` over an arbitrary table
(`ActionOf`, `GotoOf`) of the shape `ParserTable.tla` states. One step is one turn of the loop of `Parser_AddToken` or of
the loop of `__error_recovery` in it: `ShiftToken`, `LeafFails`, `ReduceOnToken`
(with `RuleFails`), `Accept`, `ReportError`, `Discard`, `FailAtEOI`,
`ReduceOnError`, `PopState`, `ShiftError`, `NoHandler`. `Parser_GetResult`, `Parser_Clear` and
`Parser_RecoverDone` are actions of the client. Nodes are model values with
explicit ownership: `live` are those allocated and not freed or handed over.
`trees` is a history of what each stack entry stands for.
`TableFits`, in `LanguagesAssumption`, states what `parser.c` relies on of a table: a goto or
a shift leads to a state whose configurations have that symbol before the dot, a reduction is
by a configuration whose dot is at its end, and a state has a goto for every head it
predicts. `configs` are the states of `all_config`, which `LRTable` fills as
`lalr_config.c` does. TLC evaluates the assumption in `parser` and `parser_chain`, and
`BuiltTablesFit` proves it of the table `LalrBuild` ends with, for every grammar.

Decisions a reader should know:

- After a call that failed, clients only clear or destroy the context
  (`json.c:1198`, `grammar_collector.c:3133` and `3147`), and so does the model. A `leaf_f`
  that fails leaves the state stack one longer than the node stack
  (`parser.c:650` pushes before 663 tests); `StacksInStep` says exactly that.
- A token outside the term list is an assertion (`parser.c:984-989`) and excluded.
- `on_error_is_handled` is local to `__error_recovery`, so EOI can be reported
  twice in one call; `TokenReportedOnce` allows it for EOI only.
- States are numbered from 1, so goto 0 stands for the code's -1.

Properties: `StacksInStep` (and the body on top before every reduction),
`NodesOwnedOnce`, `InputStaysViable` (what is shifted can be completed; what is
accepted is a sentence, on the stack as one start symbol: `AcceptsOne`), `TokenReportedOnce`, `ErrorIsReal`, `AddTokenReturns`, and
`TreesRespectPrecedence` for expressions.

`MCParser` chooses a language and its table at the start (`lang`): statements with
an error rule, with every answer of `error_f` and every callback failure; an
ambiguous grammar of expressions with left, right and prefix precedence; and, for
the finding, a grammar that ends repair mode by unit reductions. The tables are
those `LRTable` computes, so generator and run time are checked together.

Fairness: `WF_vars(Turn)`: a call of `Parser_AddToken` is ordinary code in
its caller's thread.

## Runs

| Run | Instance | Shows |
|---|---|---|
| `async_queue_safety` | 3 threads, 2 items, 3 events, cache of 2, all six faults, line of 2 once astray, symmetric | the invariants and the refinement under every interleaving and failure |
| `async_queue_consumer` | 4 threads of which 1 consumes, 3 items, 1 event, cache of 1, all six faults, line of 2 once astray, fair | the assertions of peek, `WaitEnds` |
| `threads` | 2 clients, 2 children, 2 identifiers; either 2 created, 1 join, 2 destroyed, or 1 created and 3 calls at the gate, there with a failing pthread call | wake-ups, joins, lifetimes, the event is atomic, joins end |
| `thread_detach` | violation, see findings | `pthread_detach` after `pthread_join` hits another thread |
| `heap` | 3 pages, symmetric; 13 units and medium sizes 3 and 4, or 4 units, two small sizes, and a medium and a large one of 4 units | chains, lists and counters, reallocation across kinds, destruction, refinement |
| `buffer` | 2 buffers, symmetric, 4 bytes of memory, lines end with two bytes | cursors, reservations, refinement |
| `grammar_store` | 2 names, symmetric, token values 255 (reserved) and 256, 2 rules with 2 symbols in their bodies | counts of symbols, lent lists, refinement |
| `lexer` | 4 sets of rules under every 4 calls, and every small expression alone | answers, coordinates, lists of threads, termination |
| `parser` | statements: 6 tokens, every callback answer; expressions: 7 tokens | stacks, nodes, reports, repair mode, precedence in trees, termination |
| `parser_chain` | violation, see findings | repair mode ends without input |
| `lalr_tables` | 1240 small grammars | states, lookaheads, conflict resolution, building ends |
| `lalr_three_reductions` | violation, see findings | a lower action survives |

Why the bounds suffice to meet the interesting cases.

- Queue: three threads are a put, the getter it serves and a third that reuses the
  event or the lock in between; two items tell order and duplication; a cache of
  two with three events has holes, is full and overflows. A line of two, once a getter has
gone astray, has a node left behind before or after that of a getter that waits, or two left
behind, of one thread or of two. With one consumer, three
  producers fill the list behind it. That run has no symmetry, which is unsound
  for liveness.
- Threads: two clients can hold two handles at once, and an identifier freed by one
  join is given to the other's thread before the detach. Three calls at the gate
  are two waits and a set, or a wait, a set and a reset, with the child's wait
  besides.
- Heap: thirteen units hold four blocks of three or three of four with a remainder
  smaller than the smallest block, so blocks are split with and without rest,
  merged on either side and on both, and a page is full, has room and becomes
  empty while another exists. In the mixed heap a block may end exactly at the end
  of a page.
- Buffer: four bytes are enough to write at the end, to move and to grow, each
  exactly at the boundary, and to run out of memory with two buffers; the
  separator of two bytes is met whole, cut at the end of the data, and doubled.
- Grammar: two names make two rules clash in kind; one ordinary token value is
  asked for twice; an array that grows by one place instead of four is full after the
  first rule, so growing, and failing to, happens with the second.
- Lexer: the rule sets have a keyword among words, rules to skip, also ones that match
  nothing, ambiguous choices, greedy and lazy, tests of the place, counted loops
  and look-aheads inside each other, and texts with each way to end a line. Four
  calls allow a match, a put-back, a change of rules and a match again.
- Parser: six tokens allow an error, recovery, a second error inside repair mode
  and an end of input in either; repair mode takes three shifts to leave. Reference
  sentences are computed up to the lengths that these tokens can be prefixes of.
- Tables: the 1240 grammars are all pairs of two rules for two nonterminals over a
  fixed list of bodies with empty rules and left, right and mutual recursion, less
  the unproductive ones; they include grammars that are LALR but not SLR and
  ambiguous ones.

Every property has a mutant in `PROJECT.json`, a plausible bug in the mapped code
under which the same run fails.

`CHECK_DEADLOCK FALSE` appears where the system may stop: a queue or heap that was
torn down, a table that is finished, a lexer's client after its last call, and
threads that have made all their calls or wait at the gate for nobody.

## Findings

- `parser_chain` / `RepairNeedsInput`, `Parser/parser.c:777`. The comment at 669-679 says that
  repair mode lasts until the next correct input after the error was reduced. The
  code counts each reduction as a shift too (777-785): three unit reductions over
  `error` end repair mode with no input; the same wrong token is then reported
  again, recovered from again, and so on: `Parser_AddToken` does not return.
- `lalr_three_reductions` / `HigherReplacesLower`, `Parser/lr_action.c:360`. The comments at 291 and 357
  say the higher precedence replaces the lower and is no conflict. `__copy_action`
  overwrites only the head of the list, so when two actions of one precedence
  already conflict, the second stays and is reported as a conflict with an action
  that beats it. The action taken is right.
- `thread_detach` / `DetachIsRedundant`, `Common/thread_posix.h:178`. The comment at 180-182 says
  that the `pthread_detach` after `pthread_join` is redundant and does not matter.
  `pthread_join` has freed the identifier: a thread created in between can have it,
  is detached, and can then not be joined by its own `AR_DestroyThread`. No memory is
  freed early, since that function waits for `done` first (`HandleOutlivesThread`).

## Proofs

Every theorem holds for all values of the constants that satisfy the named assumption
of its module (`AsyncQueueAssumption`, `HeapAssumption`, `LanguagesAssumption`, ...), which
TLC evaluates for the instances it checks.

| Module | Theorem | States |
|---|---|---|
| `AsyncQueueProofs` | `SpecInv` | `Spec => []QueueInv` |
| | `TypeCorrect`, `NeverBothQueues`, `ItemsKept`, `WakeupsExact`, `EventsOwned` | the parts of `QueueInv` a reader cares for |
| | `NeverAstray` | `Spec => []~astray` where neither a broadcast nor a reset fails |
| | `PeekSafe` | the assertions of `AR_PeekFromAsyncQueue`, called by a sole consumer |
| | `NothingLeaks` | tear-down frees every event |
| | `Refinement` | `Spec => ImplementsHandoffQueue` |
| | `PlainRefinement` | `Spec => Atomic!HSpec` where neither a broadcast nor a reset fails |
| `ThreadsProofs` | `WakeupsKept` | `NoLostWakeup`, under any callers that keep the contract |
| | `EventsRefinement` | an event implements `SignalEvent` |
| | `ThreadsTypeCorrect`, `ThreadsWakeupsKept`, `JoinsTellTheTruth`, `HandlesOutlive`, `NothingIsLeft` | the five safety properties of `threads` |
| | `ThreadsRefinement` | `Spec => ImplementsSignalEvent` |
| `HeapProofs` | `HeapSafety` | `Spec => []HeapInv` |
| | `FreedBlocksAreOffered` | `Spec => FreedIsOffered` |
| | `MemoryIsCounted` | `Spec => []MemoryCounted` |
| | `HeapRefinesAllocator` | `Spec => ImplementsAllocator` |
| `ParserProofs` | `TypesHold`, `StacksStayInStep`, `OneIsAccepted`, `NodesKeepOneOwner` | `TypeOK`, `StacksInStep`, `AcceptsOne`, `NodesOwnedOnce` |
| | `BuildInvariant` | the inductive invariant of `LalrBuild` |
| | `ActionsAreResolved` | `BuildSpec => []ConflictsResolved` |
| | `LeastFollow` | `BuildSpec => []FollowIsLeast` |
| | `BuiltTablesFit` | the table built satisfies `TableFits` |
| `BufferProofs` | `BufferSafety`, `BufferRefinement` | `BufferInv`, `ImplementsByteQueue` |
| `GrammarStoreProofs` | `StoreIsKept`, `BorrowedStayAlive` | `Spec => []StoreInv`, `Spec => []BorrowedAlive` |
| | `StoreKeepsPromise` | `Spec => ImplementsGrammarPromise` |
| | `StoreKeepsKinds` | `GrammarKept` of the grammar itself |
| | `GrammarIsKept` | the promise alone keeps kinds, values, precedences and start in agreement |
| `LexerProofs` | `LexerTypesHold`, `CoordinatesKept` | `Spec => []TypeOK`, `Spec => []CoordinatesMatchPosition` |
| | `ListsStayBounded` | `Spec => []ThreadsStayFew` |

**Queue.** Assumed is `AsyncQueueAssumption`: the set of threads is finite, the
cache size and `MaxLine` are natural numbers, `Faults` are of the six kinds, and NULL is none of the others. None of the parts of `QueueInv` is
inductive alone. The key notion is `blocked`: the line of waiters less the one a
put has signalled but not yet unlinked. `Served(t)` (waiting and not in `blocked`) then says who was handed an
item, and everything else is stated with it: until a getter goes astray, an event is set iff its owner is
served (`SetIffServed`), an item is sent iff it is in the data list or with a
served getter (`OnePlacePerItem`). `LockScope` says what a thread inside the lock
has established, which is what makes "no data" still true at `Register` and the
first waiter still first at `PutUnlink`. `WaitLine` ties linked infos to waiting
getters. `EventHasOneOwner` is needed so that setting, resetting or destroying one
event leaves the others' owners alone. The proofs have two halves. `Sound` (types, lock,
cache, owners, data or waiters) is preserved by every step, also by a put that writes
through the info of a getter that has left: such a write may raise the flag of an event but
neither frees nor gives one away. `Handoff` (`WaitLine`, `SetIffServed`,
`OnePlacePerItem`) need only be shown of a step that ends with `astray` false; then it held
before, and a getter that returns on a flag that is up was served, since on a flag that
is `left` it would be astray. `SeqLemmas` has the facts about heads,
tails, removal and injectivity of sequences, and about sums over finite sets. Each action has a lemma, and actions
that touch no hand-off state share one.

`PeekSafe` adds `PeekSound`: while the consumer is between its two sections the
data list is not empty, since only consumers take. `NothingLeaks` adds
`CacheDense`: an occupied slot has an index of at most `cached_event_cnt` plus the
number of getters that hold an event, so when no getter is left the occupied
slots are the first `cached_event_cnt`.
`Refinement` maps each step to one of the atomic queue or to a stutter; a put
takes effect when it sets the event, not when it unlinks the waiter.

**Events and threads.** The first half of `ThreadsProofs` is about `Events` alone and cites
no assumption but `EventsAssumption`. The invariant of the events, `EInv`, adds to `NoLostWakeup` what
makes it inductive: `CallsOK` (what a thread's place in a call says of its call,
event and answer), `MutexHeld` (a thread past its lock holds the mutex, so two
tests never overlap) and `EventsLive` (an event in use exists). `EventsSpec` lets any
threads make any calls, so a module that uses events need only show that its steps
keep the contract; the second half does, with `ClientsOK` and `ChildrenOK`: where a
client stands says what the handle it works on has, and where a child stands says
whether its handle must be there. `HandleOutlivesThread` needs that a destroying
client has waited for `done` even if `pthread_join` then misses the thread. `NothingIsLeft`
has an invariant of its own, `PInv`: of the threads not joined yet each has an identifier of its
own (`OneHolder`), a detached thread has taken over that of one that is gone (`Namesake`), and a
client past `pthread_join` has a thread that is reclaimed, or detached and about
to be (`PastJoin`). So `pthread_join` either finds the client's thread and reclaims it, or
misses it because it was detached. The theorems on `Threads` assume `DoneLocks`, that taking the mutex of a `done`
does not fail: `AR_DestroyThread` ignores the answer of `AR_JoinThread`
(`thread_posix.h:171`) and would free the event under its thread.

**Heap.** `HeapAssumption` asks that a program has finitely many pages, that small and medium
blocks fit a page, and that no medium block is smaller than `AR_MEDIUM_SMALLEST_SIZE`; nothing
is asked of how the sizes of the three classes compare. The number of pages, their size and the sizes asked for are arbitrary.
`IInv` (also checked by TLC before it was proved) describes each page by its kind: a
medium page's blocks form a `Chain` from offset 0 to its end with both links exact, no two
free blocks are neighbours, its free list has the free blocks once (`Listed`), and it is in
the list that `largest_free` says; a small page is cut in order up to the current offset; a
large page is one block; the page lists are injective and partition the pages by kind.
`HeapInv` is not inductive without the order of the small blocks and the counts of the lists. The facts on chains are `TakeAll` and `CutOff` (an allocation), `MergeBefore` and
`MergeBehind` (a free): after the first merge a page may have one pair of free neighbours,
which `NoTwoFree` names as its exception until the second has looked. The lists
follow from "a page is listed as having room exactly if a smallest block fits its first free
one", which is what `heap.c` tests before and after a call. That a walk along `next`
visits every live block is what destruction needs. `StepIs` sums the actions up: a
step hands out one block, takes one back, ends the heap or changes no live block;
`HeapRefinesAllocator` and `FreedBlocksAreOffered` follow from it and the invariant.
`MemoryIsCounted` adds `MemInv`: `memUsed` is the sum of the sizes of the pages in use. A
call adds the size of the page it takes (`AllocMoves`) or subtracts that of the one it gives
back (`FreeMoves`); destruction subtracts the sizes along the walk of the page lists, which
is the whole sum since the walk has each page once (`DestroyCounted`). Sums over finite sets are
folds, hence defined by recursion: `SumIsIter` shows of any finite set that they unfold, by
the smallest subset for which it fails, and `SumAdd`, `SumRemove` and `SumAlong` follow.

**Parser run time.** The grammar, its table, its callbacks' answers and the set of nodes are
arbitrary within `LanguagesAssumption`. The parser never compares the entries it pops with the
rule's body. That they match is the invariant `Explains`: for each configuration of each
state on the stack, the entries below it carry the symbols before its dot, and the state
under these predicted its rule. A shift or a goto extends this by one symbol; a pop during
recovery cuts it. From it a reduction finds its body and a goto, `Parser_Accept` finds one
symbol, and the stacks pop equally far. `NodesOwnedOnce` follows separately: the node stack
has no node twice, and the nodes a callback may return are either new or among those
it was given. What the client does once a call has failed (clear or destroy) is part of the
specification, as described above.

**Parser tables.** The grammars are arbitrary within `GrammarsAssumption`, and so are the empty
and First sets. `BuildOK`, the inductive invariant, has two halves. `AutomatonOK`: no basis
occurs twice and only the first is the start's; every state has the closure of its basis; and
every move of a state leads to a state of the set or is still on the list of a call of
`__build_goto` for it. So when the calls have returned, every move leads to a state.
`SweepOK`: each follow set has what its closure generates and is below every solution of the
links' equations, and each configuration marked completed has passed its set on. The second
part survives a step because a union that changes a set also unmarks its configuration; an
unmarked one may lie behind the sweep only if the sweep has noticed a change. Hence
a sweep that noticed none leaves a solution, below all others: `LeastFollow`. That the
least solution is the LALR(1) lookahead of the definition is what TLC compares in
`FollowIsLALR`.

`ActionsAreResolved` is proved over the insertions of one entry. The list's head and
whether it is longer than one are functions of the best actions met so far: those of the
highest precedence. Each of the cases of `InsertAction` keeps that, and `Candidates` gives at
most one shift, first, and at most one acceptance, which is why no case in the code meets
two. The lemmas on `Closure` (a sequence of turns that ends because each adds a rule) and on
`Sorted` (each rank is taken once: `OrderRank`) carry both theorems; recursive functions
over numbers are unfolded by `Recursion` of `SeqLemmas`, and facts about all their turns
by a least counterexample.

`BuiltTablesFit` takes any numbering of the states that starts with the first, and any further
data of a language record. The configurations behind a goto or a shift are `Moved` of those
before it, which gives `MovesTo`; that every head a closure predicts has a move is where
`AutomatonOK` is needed; that acceptance is on EOI only needs that the augmented rule is
never predicted, so that nothing but EOI reaches its follow set. With it the theorems on
`ParserContext` hold of generator and run time together.

**Buffer.** The set of buffers, the bytes, the separator, the inputs and the memory are
arbitrary. `TypeOK` with "what is reserved fits the block" is inductive; the
lemmas on `Moved`, `Increased` and `Roomy` say that every way of making room keeps
the data, and the refinement has one lemma per call.

**Building a grammar.** `StoreAssumption` asks that the array of rules really grows and
that token values are natural numbers; the names, the values, the number of rules and the
length of their bodies are arbitrary, and any allocation may fail. "The count of a symbol is the
number of its holders" is not inductive alone: that a destroyed rule gives back just what it
holds, and that a freed symbol is in no other place, needs the exact counts of *all* the
places at once, those of the grammar, of the one being made, of the locals of the call and of
the rule it builds. `SInv` therefore says that the symbols alive are exactly those whose tally is
not zero (`Owned`), and adds what the calls rely on: terminals have different names, the
first three are the built-in ones (`TermsOK`); the augmented rule is the first and derives
the head of a later one (`RulesOK`), which is also why a lent symbol survives
`Parser_SetStartRule`; and what the call in progress has tested still holds of the symbols it
holds (`CallOK`: `Creating`, `Scanning`, `Copying`, `Inserting`). The proof has three layers.
`CountMore`, `CountChange` and `CountBlock` say how a count changes when a place is added,
changed, or the places of a rule are; `CopiedExact`, `DestroyedExact` and `WithExact` that the
operations on symbols follow the tally. For each action a lemma `...Carries` shows that the
counts stay exact and no symbol that stays alive changes name or kind, and a lemma `...Step` the
rest of `SInv`. It implies that `InsertFails` never has a first rule to undo: the first
insertion always finds room, since `CreateGrammar` has grown the array.

For the refinement, what the promise sees (values by name, rules by the names in them, the name
of the start) depends only on the names of symbols the grammar holds, so every step that leaves
its terms and rules is a stutter (`NothingShown`). `InsertTermPromised` uses that no place has
the new name, `InsertRulePromised` that the terminals have not changed since the
scan, `SetStartRulePromised` that the start is a head. The promise's own invariant
(`GrammarIsKept`, where the interesting step is a terminal inserted after rules that use names)
then holds of the store: `StoreKeepsKinds`.

**Lexer.** `LexerAssumption` asks that the code of every rule is code (`IsCode`): a finite sequence of which each
instruction leads on within the code and within its repetition or look-ahead, only the
end of that kind leads out, counts are at least one, and no circle consists of jumps and
branches alone. TLC evaluates it on the code that `CompileTree` makes of every rule of the
run; for all trees it would need induction over them. Rules, texts, flags and calls are
arbitrary. `LexerInv` (checked by TLC before it was proved) says of the machine that the outermost activation is `__thompson`'s
and only that one, that each thread stands in the part of the code its activation runs
(`ThreadsOf`), that the activation outside waits at the instruction that entered the one
inside (`Entered`), and that marks never exceed the current one. A thread that is not in a
look-ahead, or in a repetition within one, has the coordinates of its place (`Counted`);
that is why a look-ahead hands back the thread that entered it and not its own, and a
repetition clears them when it ends inside one. `AtPlace` strengthens the property by what
makes it inductive: the flag that a line feed is to end the line of the return before is up
only at a line feed. `NewlineCounted` and `SkipOneCounted` are the two ways of counting, each
an instance of `Advance`; the walk of `Lex_SkipN` (`SkipFromCounted`) and the order of the rules
(`SortedFrom`: every rank of `Lex_SortProgSet` is taken, so every place of its list has a rule) are by a least
counterexample.

`ListsStayBounded` is about code without counted repetitions and look-aheads, which has one
activation (`OnlyThompson`). Its invariant `FewInv`: the next list is no longer than the sum,
over the instructions behind which threads have been begun in this round, of the ways on
from each. The marks of the round are what says so: an instruction already marked adds nothing, and one
that is not adds its ways and is marked (`RoomGrows`).

Only model-checked:

- All liveness (`WaitEnds`, `JoinEnds`, `MatchReturns`, `AddTokenReturns`,
  `PropagationEnds`), which is outside the prover's reach.
- What compares a result with a recursive definition: `FollowIsLALR` and the sets of
  `GrammarSets` (the canonical LR(1) collection), `ScansAsPromised` (`Regex`), `InputStaysViable`,
  `ErrorIsReal` and `TreesRespectPrecedence` (the sentences of a grammar and their trees).
- `TokenReportedOnce`, which does not follow from the assumption of `ParserContext` and
  holds for the tables of `parser` only: `parser_chain` shows one for which it fails.

## What is not modelled

Sources in `PROJECT.json` under `components`, with the reason for each.

- Threads: priorities, yield and sleep; the mutex, a wrapper of `pthread_mutex_*`;
  the inside of the spin lock, taken as atomic; the Windows build.
- Expressions: scanning their text, the arithmetic of character classes, what
  `LEX_IGNORE_CASE` was meant to do, the pools of nodes and of thread lists. Lexer: names, and inserting and removing rules (a
  match copies them when it is made).
- Grammar: symbol maps and the sorted symbol lists, `spec_id`, error texts.
- Tables: allocation failures while one is built; the widths of `lalrConfig_t`
  (8-bit dot, 16-bit rule number). Run time: the limit of 4096 stack entries, a
  token outside the term list (an assertion).
- Lists, hash tables, string table, the allocation wrappers: planned.
- JSON, property lists, serializer, INI, grammar collector: readers and printers of
  trees, planned last as round trips.
- Numbers, text, encodings, matrices: pure computation without state between calls,
  partly in floating point, which TLC has not. File system and environment:
  wrappers of system calls. Conflict reports: formatting.
- Tengu: its machine is compiled out, and calls and returns are empty cases.
- The rest of `src`, which is most of its lines: front ends, tests, generated
  parsers, sample grammars and vendored libraries (the tables of libiconv above all).

Data that no property tells apart is abstracted everywhere: payloads are model values,
names are compared but equal or not.
