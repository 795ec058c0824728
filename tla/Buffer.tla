-------------------------------- MODULE Buffer --------------------------------
(***************************************************************************)
(* The byte buffers of src/Arsenal/Common/buffer.c: for each buffer the    *)
(* block of memory first .. last, and the two cursors in it, as offsets.   *)
(* The bytes between the cursors are what the buffer holds; a write that   *)
(* does not fit behind write_cur moves them to the front of the block, and *)
(* gets a larger block only when that is not enough.                       *)
(*                                                                         *)
(* A call runs to its end before the next one: the code takes no lock.     *)
(***************************************************************************)
EXTENDS Integers, Sequences, FiniteSetsExt

CONSTANTS Buffers,  \* the buffers a program may have
          Byte,
          Junk,     \* what fresh memory holds, whatever it is
          LineSP,   \* line_sp
          Inputs,   \* bound: what callers write
          MaxMemory \* bound: all the memory there is

ASSUME BufferAssumption ==
  /\ Junk \in Byte
  /\ LineSP \in Seq(Byte) /\ Len(LineSP) > 0
  /\ Inputs \subseteq Seq(Byte)
  /\ MaxMemory \in Nat

VARIABLES
  open,       \* the buffers that exist
  mem,        \* the block of each, first .. last; <<>> while first is NULL
  readCur,    \* read_cur - first
  writeCur,   \* write_cur - first
  reply,      \* of the last call: its status, a number, the bytes handed over
  reserved    \* history: what AR_ReserveBuffer promised and was not yet written

vars == <<open, mem, readCur, writeCur, reply, reserved>>

\* The abstract queue: the bytes between the cursors.
Data(b) == SubSeq(mem[b], readCur[b] + 1, writeCur[b])
Queue == INSTANCE ByteQueue WITH bytes <- [b \in Buffers |-> Data(b)]

Reply(status, n, data) == [status |-> status, n |-> n, data |-> data]
Yes(n, data) == Reply("yes", n, data)
NoMemory == Reply("nomem", 0, <<>>)

Smaller(m, n) == IF m <= n THEN m ELSE n
Larger(m, n) == IF m >= n THEN m ELSE n

-----------------------------------------------------------------------------
(* AR_GetBufferAvailable and AR_GetBufferCapacity. *)
Available(b) == writeCur[b] - readCur[b]
Capacity(b)  == Len(mem[b]) - Available(b)

Fresh(n) == [i \in 1 .. n |-> Junk]

(***************************************************************************)
(* A block and its cursors: what a buffer's fields become.                 *)
(***************************************************************************)
Fields(m, r, w) == [mem |-> m, r |-> r, w |-> w]
Now(b)          == Fields(mem[b], readCur[b], writeCur[b])
Empty           == Fields(<<>>, 0, 0)

Becomes(b, f) ==
  /\ mem' = [mem EXCEPT ![b] = f.mem]
  /\ readCur' = [readCur EXCEPT ![b] = f.r]
  /\ writeCur' = [writeCur EXCEPT ![b] = f.w]

\* Mutant: the block is copied from its start.
IncreasedFromFirst(b, inc) ==
  Fields(SubSeq(mem[b], 1, Available(b)) \o Fresh(Len(mem[b]) + inc - Available(b)),
         0, Available(b))

(* __increase_capability: a larger block, the data at its front. *)
Increased(b, inc) ==
  Fields(Data(b) \o Fresh(Len(mem[b]) + inc - Available(b)), 0, Available(b))

(* __move_internal: the data moves to the front of the block. *)
Moved(b) ==
  Fields(Data(b) \o SubSeq(mem[b], Available(b) + 1, Len(mem[b])), 0, Available(b))

\* Mutant: the readable bytes count as free.
FreeLenAll(b) == Len(mem[b])

(* free_len of __move_internal: the room before and behind the data. *)
FreeLen(b) == (Len(mem[b]) - writeCur[b]) + readCur[b]

(* AR_ReserveBuffer: by how much the block grows. *)
ReserveInc(b, n) ==
  IF Capacity(b) >= n THEN 0 ELSE Larger(n - Capacity(b), Len(mem[b]))

(***************************************************************************)
(* AR_AllocFromBuffer, before it advances write_cur: the room for n bytes  *)
(* behind the data, in place, by moving the data, or in a larger block.    *)
(***************************************************************************)
Roomy(b, n) ==
  IF Len(mem[b]) - writeCur[b] >= n THEN Now(b)
  ELSE IF FreeLen(b) >= n THEN Moved(b)
  ELSE IF ReserveInc(b, n) = 0 THEN Now(b) ELSE Increased(b, ReserveInc(b, n))

NeedsBlock(b, n) ==
  /\ Len(mem[b]) - writeCur[b] < n
  /\ FreeLen(b) < n
  /\ ReserveInc(b, n) > 0

(* AR_NEWARR gives b a block of n bytes.  It may fail at any time. *)
HasMemory(b, n) ==
  MapThenSumSet(LAMBDA c : IF c = b THEN n ELSE Len(mem[c]), Buffers) <= MaxMemory

MayFit(b, n) == NeedsBlock(b, n) => HasMemory(b, Len(mem[b]) + ReserveInc(b, n))

\* AR_memcpy of s behind the first k bytes of a block.
Patched(m, k, s) ==
  [i \in DOMAIN m |-> IF i > k /\ i - k <= Len(s) THEN s[i - k] ELSE m[i]]

Filled(f, s) == Fields(Patched(f.mem, f.w, s), f.r, f.w + Len(s))

Kept(b, n) == reserved' = [reserved EXCEPT ![b] = Larger(0, @ - n)]

-----------------------------------------------------------------------------
Init ==
  /\ open = {}
  /\ mem = [b \in Buffers |-> <<>>]
  /\ readCur = [b \in Buffers |-> 0] /\ writeCur = [b \in Buffers |-> 0]
  /\ reply = Yes(0, <<>>)
  /\ reserved = [b \in Buffers |-> 0]

(* No memory: the buffers stay as they are. *)
Fail == reply' = NoMemory /\ UNCHANGED <<open, mem, readCur, writeCur, reserved>>

CreateBuffer(b, n) ==
  /\ b \notin open /\ HasMemory(b, n)
  /\ open' = open \cup {b}
  /\ Becomes(b, Fields(Fresh(n), 0, 0))
  /\ reply' = Yes(0, <<>>) /\ UNCHANGED reserved

CreateFails(b) == b \notin open /\ Fail

(* AR_CopyNewBuffer: AR_CopyBuffer clears the new buffer before it fills it. *)
CopyNewBuffer(b, c) ==
  /\ b \notin open /\ c \in open /\ HasMemory(b, Available(c))
  /\ open' = open \cup {b}
  /\ Becomes(b, Fields(Data(c), 0, Available(c)))
  /\ reply' = Yes(0, <<>>) /\ UNCHANGED reserved

DestroyBuffer(b) ==
  /\ b \in open
  /\ open' = open \ {b}
  /\ Becomes(b, Empty)
  /\ reply' = Yes(0, <<>>) /\ reserved' = [reserved EXCEPT ![b] = 0]

ClearBuffer(b) ==
  /\ b \in open
  /\ Becomes(b, Empty)
  /\ reply' = Yes(0, <<>>) /\ reserved' = [reserved EXCEPT ![b] = 0]
  /\ UNCHANGED open

Swapped(f, b, c) == [f EXCEPT ![b] = f[c], ![c] = f[b]]
SwapBuffer(b, c) ==
  /\ {b, c} \subseteq open
  /\ mem' = Swapped(mem, b, c)
  /\ readCur' = Swapped(readCur, b, c) /\ writeCur' = Swapped(writeCur, b, c)
  /\ reserved' = Swapped(reserved, b, c)
  /\ reply' = Yes(0, <<>>) /\ UNCHANGED open

(* AR_CopyBuffer: the destination is cleared first. *)
CopyBuffer(b, c) ==
  /\ {b, c} \subseteq open /\ b # c /\ HasMemory(b, Available(c))
  /\ Becomes(b, Fields(Data(c), 0, Available(c)))
  /\ reply' = Yes(Available(c), <<>>) /\ reserved' = [reserved EXCEPT ![b] = 0]
  /\ UNCHANGED open

CopyFails(b, c) ==
  /\ {b, c} \subseteq open /\ b # c /\ Available(c) > 0
  /\ Becomes(b, Empty)
  /\ reply' = NoMemory /\ reserved' = [reserved EXCEPT ![b] = 0]
  /\ UNCHANGED open

ReserveBuffer(b, n) ==
  /\ b \in open
  /\ ReserveInc(b, n) > 0 => HasMemory(b, Len(mem[b]) + ReserveInc(b, n))
  /\ IF ReserveInc(b, n) = 0 THEN UNCHANGED <<mem, readCur, writeCur>>
     ELSE Becomes(b, Increased(b, ReserveInc(b, n)))
  /\ reserved' = [reserved EXCEPT ![b] = Larger(n, @)]
  /\ reply' = Yes(0, <<>>) /\ UNCHANGED open

ReserveFails(b, n) == b \in open /\ ReserveInc(b, n) > 0 /\ Fail

(* AR_AllocFromBuffer: n bytes for the caller to fill in. *)
AllocFromBuffer(b, n) ==
  /\ b \in open /\ n > 0 /\ MayFit(b, n)
  /\ LET f == Roomy(b, n) IN Becomes(b, [f EXCEPT !.w = @ + n])
  /\ Kept(b, n) /\ reply' = Yes(n, <<>>) /\ UNCHANGED open

(* AR_InsertToBuffer and AR_InsertCStringToBuffer. *)
InsertToBuffer(b, s) ==
  /\ b \in open /\ s # <<>> /\ MayFit(b, Len(s))
  /\ Becomes(b, Filled(Roomy(b, Len(s)), s))
  /\ Kept(b, Len(s)) /\ reply' = Yes(Len(s), s) /\ UNCHANGED open

\* Both fail the same way.
InsertFails(b, n) == b \in open /\ NeedsBlock(b, n) /\ Fail

(* AR_InsertBufferToBuffer, from another buffer. *)
InsertBufferToBuffer(b, c) ==
  /\ {b, c} \subseteq open /\ b # c
  /\ IF Available(c) = 0 THEN UNCHANGED <<mem, readCur, writeCur, reserved>>
     ELSE /\ MayFit(b, Available(c))
          /\ Becomes(b, Filled(Roomy(b, Available(c)), Data(c)))
          /\ Kept(b, Available(c))
  /\ reply' = Yes(Available(c), <<>>) /\ UNCHANGED open

\* An empty buffer starts at the front of its block again.
Rewound(f) == IF f.r = f.w THEN [f EXCEPT !.r = 0, !.w = 0] ELSE f

(* AR_EraseBuffer of n bytes; read_cur advances over those there are. *)
Erased(b, n) ==
  IF n = 0 THEN Now(b)
  ELSE Rewound(Fields(mem[b], readCur[b] + Smaller(Available(b), n), writeCur[b]))

EraseBuffer(b, n) ==
  /\ b \in open
  /\ Becomes(b, Erased(b, n))
  /\ reply' = Yes(Smaller(Available(b), n), <<>>) /\ UNCHANGED <<open, reserved>>

EraseBufferBack(b, n) ==
  /\ b \in open /\ n > 0
  /\ Becomes(b, Rewound(Fields(mem[b], readCur[b],
                               writeCur[b] - Smaller(Available(b), n))))
  /\ reply' = Yes(Smaller(Available(b), n), <<>>) /\ UNCHANGED <<open, reserved>>

(* AR_ReadBufferData into dest. *)
ReadBufferData(b, n) ==
  LET got == Smaller(Available(b), n)
  IN  /\ b \in open
      /\ Becomes(b, Erased(b, got))
      /\ reply' = Yes(got, SubSeq(Data(b), 1, got)) /\ UNCHANGED <<open, reserved>>

(* AR_ResetBufferData, where its assertion holds. *)
ResetBufferData(b, offset, s) ==
  /\ b \in open /\ s # <<>>
  /\ offset < Available(b) /\ Len(s) < Available(b)
  /\ LET n == Smaller(Available(b) - offset, Len(s))
     IN  /\ mem' = [mem EXCEPT ![b] =
                      Patched(@, readCur[b] + offset, SubSeq(s, 1, n))]
         /\ reply' = Yes(n, SubSeq(s, 1, n))
  /\ UNCHANGED <<open, readCur, writeCur, reserved>>

-----------------------------------------------------------------------------
(***************************************************************************)
(* AR_GetLineFromBufferWithLineSP.  AR_strstr_s finds the first separator; *)
(* without one all that is there is the line.                              *)
(***************************************************************************)
SeparatorAt(s, k) ==
  k + Len(LineSP) <= Len(s) /\ SubSeq(s, k + 1, k + Len(LineSP)) = LineSP

FirstSeparator(s) ==
  {k \in 0 .. Len(s) : SeparatorAt(s, k) /\ \A j \in 0 .. k - 1 : ~SeparatorAt(s, j)}

\* need_n, and line_sp_len as it is used.
Lines(s) ==
  IF \A k \in 0 .. Len(s) : ~SeparatorAt(s, k) THEN {[need |-> Len(s), sp |-> 0]}
  ELSE {[need |-> k, sp |-> Len(LineSP)] : k \in FirstSeparator(s)}

GetNoLine(b) ==
  /\ b \in open /\ Available(b) = 0
  /\ reply' = Reply("notmatched", 0, <<>>)
  /\ UNCHANGED <<open, mem, readCur, writeCur, reserved>>

\* An empty line is taken even by a caller that asks for its length.
GetLine(b, room) ==
  \E l \in Lines(Data(b)) :
    /\ b \in open /\ Available(b) > 0
    /\ l.need = 0 \/ l.need <= room
    /\ Becomes(b, Erased(b, l.need + l.sp))
    /\ reply' = Yes(l.need, SubSeq(Data(b), 1, l.need)) /\ UNCHANGED <<open, reserved>>

\* line is NULL, or the room is too small.
AskLine(b) ==
  \E l \in Lines(Data(b)) :
    /\ b \in open /\ Available(b) > 0 /\ l.need > 0
    /\ reply' \in {Yes(l.need, <<>>), Reply("smallbuf", 0, <<>>)}
    /\ UNCHANGED <<open, mem, readCur, writeCur, reserved>>

-----------------------------------------------------------------------------
Lens == 0 .. MaxMemory

OnOne(b) ==
  \/ CreateFails(b) \/ DestroyBuffer(b) \/ ClearBuffer(b)
  \/ GetNoLine(b) \/ AskLine(b)
  \/ \E n \in Lens :
       \/ CreateBuffer(b, n) \/ ReserveBuffer(b, n) \/ ReserveFails(b, n)
       \/ AllocFromBuffer(b, n) \/ InsertFails(b, n)
       \/ EraseBuffer(b, n) \/ EraseBufferBack(b, n) \/ ReadBufferData(b, n)
       \/ GetLine(b, n)
  \/ \E s \in Inputs :
       InsertToBuffer(b, s) \/ \E offset \in Lens : ResetBufferData(b, offset, s)

OnTwo(b, c) ==
  \/ CopyNewBuffer(b, c) \/ SwapBuffer(b, c) \/ CopyBuffer(b, c)
  \/ CopyFails(b, c) \/ InsertBufferToBuffer(b, c)

Next == \E b \in Buffers : OnOne(b) \/ \E c \in Buffers : OnTwo(b, c)

Spec == Init /\ [][Next]_vars

-----------------------------------------------------------------------------
\* __buffer_is_valid: the cursors stay in the block, read_cur before write_cur.
CursorsOK(b) ==
  0 <= readCur[b] /\ readCur[b] <= writeCur[b] /\ writeCur[b] <= Len(mem[b])

\* The type of the variables; a buffer that does not exist has no block.
TypeOK ==
  /\ open \subseteq Buffers
  /\ mem \in [Buffers -> Seq(Byte)]
  /\ readCur \in [Buffers -> Nat] /\ writeCur \in [Buffers -> Nat]
  /\ reserved \in [Buffers -> Nat]
  /\ \A b \in Buffers : CursorsOK(b)
  /\ \A b \in Buffers \ open : mem[b] = <<>>

\* After AR_ReserveBuffer the bytes it was asked for can be written without
\* memory, however they are split and whatever is read or erased in between:
\* "the number of bytes not reallocate memory can also write" (common.h:1033).
ReservedIsKept ==
  \A b \in Buffers : \A n \in 1 .. reserved[b] : ~NeedsBlock(b, n)

\* No sequence of writes, reads, erasures, reservations and copies takes a cursor
\* out of its block, and what was reserved stays writable.
BufferInv == TypeOK /\ ReservedIsKept

\* Each buffer is a queue of bytes: a write that moves the data to the front of
\* the block or gets a larger one keeps what was held, a call that finds no memory
\* changes nothing (a copy has cleared its target), and what is read, also line by
\* line, is what was put.
ImplementsByteQueue == Queue!QSpec

===============================================================================
