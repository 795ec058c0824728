------------------------------ MODULE ByteQueue ------------------------------
(***************************************************************************)
(* What arBuffer_t promises its callers: each buffer is a queue of bytes   *)
(* that grows at the back, gives up bytes at either end, a number of them  *)
(* or a line at a time, and keeps what it holds when memory runs out.      *)
(***************************************************************************)
EXTENDS Naturals, Sequences

CONSTANTS Buffers,  \* the buffers a program may have
          LineSP    \* the separator of lines, a non-empty sequence of bytes

VARIABLES
  open,    \* the buffers that exist
  bytes,   \* what each holds
  reply    \* of the last call: its status, a number, and the bytes handed over

qvars == <<open, bytes, reply>>

Reply(status, n, data) == [status |-> status, n |-> n, data |-> data]
Yes(n, data) == Reply("yes", n, data)
NoMemory == Reply("nomem", 0, <<>>)

QInit == open = {} /\ bytes = [b \in Buffers |-> <<>>] /\ reply = Yes(0, <<>>)

\* Only b changes: it holds s afterwards.
Holds(b, s) == bytes' = [bytes EXCEPT ![b] = s] /\ UNCHANGED open

\* A new buffer is empty or a copy of another one.
QCreate(b) ==
  /\ b \notin open /\ open' = open \cup {b}
  /\ \E s \in {<<>>} \cup {bytes[c] : c \in open} : bytes' = [bytes EXCEPT ![b] = s]
  /\ reply' = Yes(0, <<>>)

QDestroy(b) ==
  /\ open' = open \ {b} /\ bytes' = [bytes EXCEPT ![b] = <<>>]
  /\ reply' = Yes(0, <<>>)

QSwap(b, c) ==
  /\ bytes' = [bytes EXCEPT ![b] = bytes[c], ![c] = bytes[b]]
  /\ reply' = Yes(0, <<>>) /\ UNCHANGED open

\* Without memory a call leaves every buffer as it was; only a copy has
\* cleared its destination.
QFail == reply' = NoMemory /\ UNCHANGED <<open, bytes>>
QCopyFails(b) == reply' = NoMemory /\ Holds(b, <<>>)

QClear(b) == reply' = Yes(0, <<>>) /\ Holds(b, <<>>)
QCopy(b, c) == reply' = Yes(Len(bytes[c]), <<>>) /\ Holds(b, bytes[c])
QReserve == reply' = Yes(0, <<>>) /\ UNCHANGED <<open, bytes>>

\* The caller's bytes, those of another buffer, or bytes that it fills in later.
QAppend(b, s) == reply'.status = "yes" /\ Holds(b, bytes[b] \o s)

\* The caller's bytes replace those behind the first k.
Overwritten(s, k, d) ==
  [i \in DOMAIN s |-> IF i > k /\ i - k <= Len(d) THEN d[i - k] ELSE s[i]]
QOverwrite(b, k) ==
  /\ reply'.status = "yes"
  /\ Holds(b, Overwritten(bytes[b], k, reply'.data))

\* n bytes leave at the front, which the caller may see, or at the back.
QRead(b, n) ==
  /\ Holds(b, SubSeq(bytes[b], n + 1, Len(bytes[b])))
  /\ reply' = Yes(n, SubSeq(bytes[b], 1, n))
QErase(b, n) ==
  /\ Holds(b, SubSeq(bytes[b], n + 1, Len(bytes[b])))
  /\ reply' = Yes(n, <<>>)
QEraseBack(b, n) ==
  /\ Holds(b, SubSeq(bytes[b], 1, Len(bytes[b]) - n))
  /\ reply' = Yes(n, <<>>)

\* The separator begins behind the first k bytes of s.
Separates(s, k) ==
  k + Len(LineSP) <= Len(s) /\ SubSeq(s, k + 1, k + Len(LineSP)) = LineSP

\* The first line of s has n bytes; with its separator it has m.
IsLine(s, n, m) ==
  /\ \A k \in 0 .. n - 1 : ~Separates(s, k)
  /\ \/ Separates(s, n) /\ m = n + Len(LineSP)
     \/ ~Separates(s, n) /\ n = Len(s) /\ m = n

\* The caller gets the line; its separator goes with it.
QGetLine(b, n, m) ==
  /\ IsLine(bytes[b], n, m)
  /\ Holds(b, SubSeq(bytes[b], m + 1, Len(bytes[b])))
  /\ reply' = Yes(n, SubSeq(bytes[b], 1, n))

\* The caller learns how long a line is, or that it has no room for it.
QLineLength(b, n, m) ==
  /\ n > 0 /\ IsLine(bytes[b], n, m)
  /\ reply' \in {Yes(n, <<>>), Reply("smallbuf", 0, <<>>)}
  /\ UNCHANGED <<open, bytes>>

QNoLine(b) ==
  /\ bytes[b] = <<>>
  /\ reply' = Reply("notmatched", 0, <<>>)
  /\ UNCHANGED <<open, bytes>>

QOnBytes(b) ==
  \E n \in 0 .. Len(bytes[b]) :
    \/ QOverwrite(b, n) \/ QRead(b, n) \/ QErase(b, n) \/ QEraseBack(b, n)
    \/ bytes[b] # <<>> /\ \E m \in {n, n + Len(LineSP)} :
                            QGetLine(b, n, m) \/ QLineLength(b, n, m)

\* What a caller passes is appended; what AR_AllocFromBuffer hands out is not
\* told: as many bytes as it says.
QFill(b) ==
  /\ Len(bytes'[b]) = Len(bytes[b]) + reply'.n
  /\ QAppend(b, SubSeq(bytes'[b], Len(bytes[b]) + 1, Len(bytes'[b])))

QNext ==
  \/ QFail \/ QReserve
  \/ \E b \in Buffers :
       \/ QCreate(b) \/ QDestroy(b) \/ QClear(b) \/ QCopyFails(b)
       \/ QOnBytes(b) \/ QNoLine(b)
       \/ QAppend(b, reply'.data)
       \/ reply'.data = <<>> /\ QFill(b)
       \/ \E c \in open : QSwap(b, c) \/ QCopy(b, c) \/ QAppend(b, bytes[c])

QSpec == QInit /\ [][QNext]_qvars
==============================================================================
