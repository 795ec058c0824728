----------------------------- MODULE BufferProofs -----------------------------
(* The cursors of a buffer stay in its block, what was reserved can be        *)
(* written without memory, and the buffers implement ByteQueue, for any bytes, *)
(* separator, inputs and amount of memory.                                    *)
EXTENDS Buffer, SequenceTheorems, TLAPS

\* What the fields of a buffer must be, and the bytes between their cursors.
FieldsOK(f) ==
  /\ f = Fields(f.mem, f.r, f.w)
  /\ f.mem \in Seq(Byte) /\ f.r \in Nat /\ f.w \in Nat
  /\ f.r <= f.w /\ f.w <= Len(f.mem)

Held(f) == SubSeq(f.mem, f.r + 1, f.w)

LEMMA SubSeqFacts ==
  ASSUME NEW s \in Seq(Byte), NEW i \in Nat, NEW j \in Nat, i <= j, j <= Len(s)
  PROVE  /\ SubSeq(s, i + 1, j) \in Seq(Byte)
         /\ Len(SubSeq(s, i + 1, j)) = j - i
         /\ \A k \in 1 .. j - i : SubSeq(s, i + 1, j)[k] = s[i + k]
<1>1. \A k \in i + 1 .. j : s[k] \in Byte
  BY ElementOfSeq
<1>2. SubSeq(s, i + 1, j) = [k \in 1 .. j - i |-> s[i + k]]
  OBVIOUS
<1>3. QED
  BY <1>1, <1>2, SeqDef

LEMMA SubSeqSplit ==
  ASSUME NEW s \in Seq(Byte), NEW i \in Nat, NEW j \in Nat, NEW k \in Nat,
         i <= j, j <= k, k <= Len(s)
  PROVE  SubSeq(s, i + 1, k) = SubSeq(s, i + 1, j) \o SubSeq(s, j + 1, k)
<1> DEFINE x == SubSeq(s, i + 1, k)
           y == SubSeq(s, i + 1, j)
           z == SubSeq(s, j + 1, k)
<1>0. Len(s) \in Nat /\ i <= k /\ j <= Len(s)
  BY LenProperties
<1>1. x \in Seq(Byte) /\ Len(x) = k - i /\ \A m \in 1 .. k - i : x[m] = s[i + m]
  BY <1>0, SubSeqFacts
<1>2. y \in Seq(Byte) /\ Len(y) = j - i /\ \A m \in 1 .. j - i : y[m] = s[i + m]
  BY <1>0, SubSeqFacts
<1>3. z \in Seq(Byte) /\ Len(z) = k - j /\ \A m \in 1 .. k - j : z[m] = s[j + m]
  BY <1>0, SubSeqFacts
<1> HIDE DEF x, y, z
<1>4. /\ y \o z \in Seq(Byte) /\ Len(y \o z) = k - i
      /\ \A m \in 1 .. k - i :
           (y \o z)[m] = IF m <= j - i THEN y[m] ELSE z[m - (j - i)]
  <2>1. y \o z \in Seq(Byte) /\ Len(y \o z) = Len(y) + Len(z)
    BY <1>2, <1>3, ConcatProperties
  <2>2. \A m \in 1 .. Len(y) + Len(z) :
          (y \o z)[m] = IF m <= Len(y) THEN y[m] ELSE z[m - Len(y)]
    BY <1>2, <1>3, ConcatProperties
  <2>3. QED
    BY <2>1, <2>2, <1>2, <1>3
<1>5. \A m \in 1 .. k - i : (y \o z)[m] = s[i + m]
  <2> TAKE m \in 1 .. k - i
  <2>1. CASE m <= j - i
    BY <2>1, <1>2, <1>4
  <2>2. CASE ~(m <= j - i)
    <3>1. m - (j - i) \in 1 .. k - j /\ j + (m - (j - i)) = i + m
      BY <2>2
    <3>2. QED
      BY <3>1, <2>2, <1>3, <1>4
  <2>3. QED
    BY <2>1, <2>2
<1>6. x = y \o z
  BY <1>1, <1>4, <1>5, SeqEqual
<1>7. QED
  BY <1>6 DEF x, y, z

LEMMA PartOfPart ==
  ASSUME NEW s \in Seq(Byte), NEW i \in Nat, NEW j \in Nat, i <= j, j <= Len(s),
         NEW a \in Nat, NEW c \in Nat, a <= c, c <= j - i
  PROVE  SubSeq(SubSeq(s, i + 1, j), a + 1, c) = SubSeq(s, i + a + 1, i + c)
<1> DEFINE x == SubSeq(s, i + 1, j)
           y == SubSeq(x, a + 1, c)
           z == SubSeq(s, i + a + 1, i + c)
<1>0. Len(s) \in Nat /\ i + a \in Nat /\ i + c \in Nat /\ i + a <= i + c /\ i + c <= Len(s)
  BY LenProperties
<1>1. x \in Seq(Byte) /\ Len(x) = j - i /\ \A m \in 1 .. j - i : x[m] = s[i + m]
  BY <1>0, SubSeqFacts
<1>2. z \in Seq(Byte) /\ Len(z) = c - a /\ \A m \in 1 .. c - a : z[m] = s[(i + a) + m]
  <2>1. /\ z \in Seq(Byte) /\ Len(z) = (i + c) - (i + a)
        /\ \A m \in 1 .. (i + c) - (i + a) : z[m] = s[(i + a) + m]
    BY <1>0, SubSeqFacts
  <2>2. (i + c) - (i + a) = c - a
    OBVIOUS
  <2>3. QED
    BY <2>1, <2>2
<1> HIDE DEF x
<1>3. y \in Seq(Byte) /\ Len(y) = c - a /\ \A m \in 1 .. c - a : y[m] = x[a + m]
  BY <1>0, <1>1, SubSeqFacts
<1> HIDE DEF y, z
<1>4. \A m \in 1 .. c - a : y[m] = z[m]
  <2> TAKE m \in 1 .. c - a
  <2>1. a + m \in 1 .. j - i /\ i + (a + m) = (i + a) + m
    OBVIOUS
  <2>2. QED
    BY <2>1, <1>1, <1>2, <1>3
<1>5. y = z
  BY <1>2, <1>3, <1>4, SeqEqual
<1>6. QED
  BY <1>5 DEF x, y, z

LEMMA NowOK ==
  ASSUME TypeOK, NEW b \in Buffers
  PROVE  FieldsOK(Now(b)) /\ Held(Now(b)) = Data(b)
BY DEF TypeOK, CursorsOK, FieldsOK, Held, Now, Fields, Data

LEMMA DataOK ==
  ASSUME TypeOK, NEW b \in Buffers
  PROVE  /\ Available(b) \in Nat /\ Capacity(b) \in Nat /\ FreeLen(b) = Capacity(b)
         /\ Len(mem[b]) \in Nat /\ Len(mem[b]) = Available(b) + Capacity(b)
         /\ Data(b) \in Seq(Byte) /\ Len(Data(b)) = Available(b)
<1>1. /\ mem[b] \in Seq(Byte) /\ readCur[b] \in Nat /\ writeCur[b] \in Nat
      /\ readCur[b] <= writeCur[b] /\ writeCur[b] <= Len(mem[b])
  BY DEF TypeOK, CursorsOK
<1>2. Len(mem[b]) \in Nat
  BY <1>1, LenProperties
<1>3. QED
  BY <1>1, <1>2, SubSeqFacts DEF Data, Available, Capacity, FreeLen

LEMMA FreshOK == ASSUME NEW n \in Nat PROVE Fresh(n) \in Seq(Byte) /\ Len(Fresh(n)) = n
BY BufferAssumption, SeqDef DEF Fresh

\* Data at the front of a block of any length.
LEMMA FrontOK ==
  ASSUME NEW d \in Seq(Byte), NEW t \in Seq(Byte), NEW n, n = Len(d)
  PROVE  /\ FieldsOK(Fields(d \o t, 0, n)) /\ Held(Fields(d \o t, 0, n)) = d
         /\ Len(d \o t) = n + Len(t)
<1>1. /\ d \o t \in Seq(Byte) /\ Len(d \o t) = Len(d) + Len(t)
      /\ \A i \in 1 .. Len(d) : (d \o t)[i] = d[i]
      /\ Len(d) \in Nat /\ Len(t) \in Nat
  BY ConcatProperties, LenProperties
<1>2. SubSeq(d \o t, 0 + 1, n) = d
  <2>1. /\ SubSeq(d \o t, 0 + 1, n) \in Seq(Byte)
        /\ Len(SubSeq(d \o t, 0 + 1, n)) = n
        /\ \A k \in 1 .. n : SubSeq(d \o t, 0 + 1, n)[k] = (d \o t)[k]
    BY <1>1, SubSeqFacts
  <2>2. QED
    BY <2>1, <1>1, SeqEqual
<1>3. QED
  BY <1>1, <1>2 DEF FieldsOK, Held, Fields

LEMMA IncreasedOK ==
  ASSUME TypeOK, NEW b \in Buffers, NEW inc \in Nat
  PROVE  /\ FieldsOK(Increased(b, inc)) /\ Held(Increased(b, inc)) = Data(b)
         /\ Len(Increased(b, inc).mem) = Len(mem[b]) + inc
         /\ Increased(b, inc).r = 0 /\ Increased(b, inc).w = Available(b)
<1> DEFINE d == Data(b)
           t == Fresh(Len(mem[b]) + inc - Available(b))
<1>1. d \in Seq(Byte) /\ Len(d) = Available(b)
  BY DataOK
<1>2. t \in Seq(Byte) /\ Len(t) = Len(mem[b]) + inc - Available(b)
  BY DataOK, FreshOK
<1>3. Increased(b, inc) = Fields(d \o t, 0, Available(b))
  BY DEF Increased
<1> HIDE DEF d, t
<1>4. /\ FieldsOK(Increased(b, inc)) /\ Held(Increased(b, inc)) = d
      /\ Len(d \o t) = Available(b) + Len(t)
  BY <1>1, <1>2, <1>3, FrontOK
<1>5. Available(b) + Len(t) = Len(mem[b]) + inc
  BY <1>2, DataOK
<1>6. QED
  BY <1>3, <1>4, <1>5 DEF Fields, d

LEMMA MovedOK ==
  ASSUME TypeOK, NEW b \in Buffers
  PROVE  /\ FieldsOK(Moved(b)) /\ Held(Moved(b)) = Data(b)
         /\ Len(Moved(b).mem) = Len(mem[b])
         /\ Moved(b).r = 0 /\ Moved(b).w = Available(b)
<1> DEFINE d == Data(b)
           t == SubSeq(mem[b], Available(b) + 1, Len(mem[b]))
<1>1. d \in Seq(Byte) /\ Len(d) = Available(b)
  BY DataOK
<1>2. mem[b] \in Seq(Byte) /\ Available(b) <= Len(mem[b])
  BY DataOK DEF TypeOK
<1>3. t \in Seq(Byte) /\ Len(t) = Len(mem[b]) - Available(b)
  BY <1>2, DataOK, SubSeqFacts
<1>4. Moved(b) = Fields(d \o t, 0, Available(b))
  BY DEF Moved
<1> HIDE DEF d, t
<1>5. /\ FieldsOK(Moved(b)) /\ Held(Moved(b)) = d
      /\ Len(d \o t) = Available(b) + Len(t)
  BY <1>1, <1>3, <1>4, FrontOK
<1>6. Available(b) + Len(t) = Len(mem[b])
  BY <1>3, DataOK
<1>7. QED
  BY <1>4, <1>5, <1>6 DEF Fields, d

LEMMA ReserveIncOK ==
  ASSUME TypeOK, NEW b \in Buffers, NEW n \in Nat
  PROVE  /\ ReserveInc(b, n) \in Nat /\ Capacity(b) + ReserveInc(b, n) >= n
         /\ ReserveInc(b, n) = 0 <=> Capacity(b) >= n
BY DataOK DEF ReserveInc, Larger

\* Whichever way AR_AllocFromBuffer makes room, the data is kept and n bytes fit
\* behind it.
LEMMA RoomyOK ==
  ASSUME TypeOK, NEW b \in Buffers, NEW n \in Nat
  PROVE  /\ FieldsOK(Roomy(b, n)) /\ Held(Roomy(b, n)) = Data(b)
         /\ Len(Roomy(b, n).mem) >= Len(mem[b])
         /\ Roomy(b, n).w + n <= Len(Roomy(b, n).mem)
         /\ Roomy(b, n).w - Roomy(b, n).r = Available(b)
<1>1. CASE Len(mem[b]) - writeCur[b] >= n
  <2>1. Roomy(b, n) = Now(b)
    BY <1>1 DEF Roomy
  <2>2. writeCur[b] \in Nat /\ Len(mem[b]) \in Nat
    BY DataOK DEF TypeOK
  <2>3. QED
    BY <2>1, <2>2, <1>1, NowOK DEF Now, Fields, Available
<1>2. CASE ~(Len(mem[b]) - writeCur[b] >= n) /\ FreeLen(b) >= n
  <2>1. Roomy(b, n) = Moved(b)
    BY <1>2 DEF Roomy
  <2>2. QED
    BY <2>1, <1>2, MovedOK, DataOK
<1>3. CASE ~(Len(mem[b]) - writeCur[b] >= n) /\ ~(FreeLen(b) >= n)
  <2>1. ReserveInc(b, n) # 0 /\ ReserveInc(b, n) \in Nat
    BY <1>3, DataOK, ReserveIncOK
  <2>2. Roomy(b, n) = Increased(b, ReserveInc(b, n))
    BY <1>3, <2>1 DEF Roomy
  <2>3. /\ FieldsOK(Roomy(b, n)) /\ Held(Roomy(b, n)) = Data(b)
        /\ Len(Roomy(b, n).mem) = Len(mem[b]) + ReserveInc(b, n)
        /\ Roomy(b, n).r = 0 /\ Roomy(b, n).w = Available(b)
    BY <2>1, <2>2, IncreasedOK
  <2>4. /\ Len(mem[b]) = Available(b) + Capacity(b)
        /\ Available(b) \in Nat /\ Capacity(b) \in Nat
        /\ Capacity(b) + ReserveInc(b, n) >= n
    BY DataOK, ReserveIncOK
  <2>5. QED
    BY <2>1, <2>3, <2>4
<1>4. QED
  BY <1>1, <1>2, <1>3

\* An allocation lengthens what is held by n bytes, and an insertion by the bytes
\* it copies.
LEMMA AdvancedOK ==
  ASSUME NEW f, FieldsOK(f), NEW n \in Nat, f.w + n <= Len(f.mem),
         NEW g, g = [f EXCEPT !.w = @ + n]
  PROVE  /\ FieldsOK(g) /\ g.mem = f.mem /\ g.r = f.r /\ g.w = f.w + n
         /\ Held(g) = Held(f) \o SubSeq(g.mem, f.w + 1, f.w + n)
<1>1. g = Fields(f.mem, f.r, f.w + n)
  BY DEF FieldsOK, Fields
<1>2. FieldsOK(g) /\ g.mem = f.mem /\ g.r = f.r /\ g.w = f.w + n
  BY <1>1 DEF FieldsOK, Fields
<1>3. Held(g) = Held(f) \o SubSeq(f.mem, f.w + 1, f.w + n)
  <2>1. /\ f.mem \in Seq(Byte) /\ f.r \in Nat /\ f.w \in Nat /\ f.w + n \in Nat
        /\ f.r <= f.w /\ f.w <= f.w + n
    BY DEF FieldsOK
  <2>2. SubSeq(f.mem, f.r + 1, f.w + n)
          = SubSeq(f.mem, f.r + 1, f.w) \o SubSeq(f.mem, f.w + 1, f.w + n)
    BY <2>1, SubSeqSplit
  <2>3. QED
    BY <2>2, <1>2 DEF Held
<1>4. QED
  BY <1>2, <1>3

\* Copying s into a block changes nothing before it and nothing behind it.
LEMMA PatchedOK ==
  ASSUME NEW m \in Seq(Byte), NEW s \in Seq(Byte), NEW k \in Nat, k + Len(s) <= Len(m)
  PROVE  /\ Patched(m, k, s) \in Seq(Byte) /\ Len(Patched(m, k, s)) = Len(m)
         /\ \A i \in 1 .. Len(m) :
              Patched(m, k, s)[i]
                = IF i > k /\ i - k <= Len(s) THEN s[i - k] ELSE m[i]
<1> DEFINE p == Patched(m, k, s)
<1>1. /\ Len(m) \in Nat /\ Len(s) \in Nat
      /\ DOMAIN m = 1 .. Len(m) /\ DOMAIN s = 1 .. Len(s)
  BY LenProperties
<1>2. p = [i \in 1 .. Len(m) |->
             IF i > k /\ i - k <= Len(s) THEN s[i - k] ELSE m[i]]
  BY <1>1 DEF Patched
<1>3. \A i \in 1 .. Len(m) :
        (IF i > k /\ i - k <= Len(s) THEN s[i - k] ELSE m[i]) \in Byte
  <2> TAKE i \in 1 .. Len(m)
  <2>1. CASE i > k /\ i - k <= Len(s)
    <3>1. i - k \in 1 .. Len(s)
      BY <2>1, <1>1
    <3>2. s[i - k] \in Byte
      BY <3>1, ElementOfSeq
    <3>3. QED
      BY <2>1, <3>2
  <2>2. CASE ~(i > k /\ i - k <= Len(s))
    BY <2>2, ElementOfSeq
  <2>3. QED
    BY <2>1, <2>2
<1> HIDE DEF p
<1>4. p \in Seq(Byte) /\ Len(p) = Len(m)
  BY <1>1, <1>2, <1>3, SeqDef
<1>5. \A i \in 1 .. Len(m) : p[i] = IF i > k /\ i - k <= Len(s) THEN s[i - k] ELSE m[i]
  BY <1>2
<1>6. QED
  BY <1>4, <1>5 DEF p

LEMMA PatchedParts ==
  ASSUME NEW m \in Seq(Byte), NEW s \in Seq(Byte), NEW j \in Nat, NEW k \in Nat,
         j <= k, k + Len(s) <= Len(m)
  PROVE  /\ SubSeq(Patched(m, k, s), j + 1, k) = SubSeq(m, j + 1, k)
         /\ SubSeq(Patched(m, k, s), k + 1, k + Len(s)) = s
<1> DEFINE p == Patched(m, k, s)
           n == Len(s)
<1>1. /\ n \in Nat /\ Len(m) \in Nat /\ k + n \in Nat /\ k <= k + n /\ k <= Len(m)
  BY LenProperties
<1>2. /\ p \in Seq(Byte) /\ Len(p) = Len(m)
      /\ \A i \in 1 .. Len(m) : p[i] = IF i > k /\ i - k <= n THEN s[i - k] ELSE m[i]
  BY PatchedOK
<1> HIDE DEF p
<1>3. SubSeq(p, j + 1, k) = SubSeq(m, j + 1, k)
  <2> DEFINE x == SubSeq(p, j + 1, k)
             y == SubSeq(m, j + 1, k)
  <2>1. x \in Seq(Byte) /\ Len(x) = k - j /\ \A i \in 1 .. k - j : x[i] = p[j + i]
    BY <1>1, <1>2, SubSeqFacts
  <2>2. y \in Seq(Byte) /\ Len(y) = k - j /\ \A i \in 1 .. k - j : y[i] = m[j + i]
    BY <1>1, SubSeqFacts
  <2> HIDE DEF x, y
  <2>3. \A i \in 1 .. k - j : p[j + i] = m[j + i]
    BY <1>1, <1>2
  <2>4. x = y
    BY <2>1, <2>2, <2>3, SeqEqual
  <2>5. QED
    BY <2>4 DEF x, y
<1>4. SubSeq(p, k + 1, k + n) = s
  <2> DEFINE x == SubSeq(p, k + 1, k + n)
  <2>1. /\ x \in Seq(Byte) /\ Len(x) = (k + n) - k
        /\ \A i \in 1 .. (k + n) - k : x[i] = p[k + i]
    BY <1>1, <1>2, SubSeqFacts
  <2> HIDE DEF x
  <2>2. (k + n) - k = n
    BY <1>1
  <2>3. \A i \in 1 .. n : p[k + i] = s[i]
    BY <1>1, <1>2
  <2>4. x = s
    BY <2>1, <2>2, <2>3, SeqEqual
  <2>5. QED
    BY <2>4 DEF x
<1>5. QED
  BY <1>3, <1>4 DEF p

LEMMA FilledOK ==
  ASSUME NEW f, FieldsOK(f), NEW s \in Seq(Byte), f.w + Len(s) <= Len(f.mem)
  PROVE  /\ FieldsOK(Filled(f, s)) /\ Held(Filled(f, s)) = Held(f) \o s
         /\ Len(Filled(f, s).mem) = Len(f.mem)
         /\ Filled(f, s).r = f.r /\ Filled(f, s).w = f.w + Len(s)
<1> DEFINE m == f.mem
           r == f.r
           w == f.w
           n == Len(s)
           p == Patched(m, w, s)
<1>1. /\ m \in Seq(Byte) /\ r \in Nat /\ w \in Nat /\ n \in Nat /\ Len(m) \in Nat
      /\ r <= w /\ w <= Len(m) /\ w + n <= Len(m) /\ w + n \in Nat /\ w <= w + n
      /\ r <= w + n
  BY LenProperties DEF FieldsOK
<1>2. Filled(f, s) = Fields(p, r, w + n) /\ Held(f) = SubSeq(m, r + 1, w)
  BY DEF Filled, Held
<1> HIDE DEF m, r, w, n
<1>3. p \in Seq(Byte) /\ Len(p) = Len(m)
  BY <1>1, PatchedOK DEF n
<1>4. SubSeq(p, r + 1, w) = SubSeq(m, r + 1, w) /\ SubSeq(p, w + 1, w + n) = s
  <2>1. w + Len(s) <= Len(m)
    BY <1>1 DEF n
  <2>2. /\ SubSeq(Patched(m, w, s), r + 1, w) = SubSeq(m, r + 1, w)
        /\ SubSeq(Patched(m, w, s), w + 1, w + Len(s)) = s
    <3>1. s \in Seq(Byte) /\ m \in Seq(Byte) /\ r \in Nat /\ w \in Nat /\ r <= w
      BY <1>1
    <3>2. QED
      BY ONLY <2>1, <3>1, PatchedParts
  <2>3. QED
    BY <2>2 DEF n
<1> HIDE DEF p
<1>5. SubSeq(p, r + 1, w + n) = SubSeq(p, r + 1, w) \o SubSeq(p, w + 1, w + n)
  BY <1>1, <1>3, SubSeqSplit
<1>6. /\ Filled(f, s).mem = p /\ Filled(f, s).r = r /\ Filled(f, s).w = w + n
  BY <1>2 DEF Fields
<1>7. FieldsOK(Filled(f, s)) /\ Held(Filled(f, s)) = SubSeq(p, r + 1, w + n)
  BY <1>1, <1>2, <1>3, <1>6 DEF FieldsOK, Held, Fields
<1>8. QED
  BY <1>2, <1>3, <1>4, <1>5, <1>6, <1>7 DEF m, r, w, n

\* Erasing from the front or the back.
LEMMA RewoundOK ==
  ASSUME NEW f, FieldsOK(f)
  PROVE  /\ FieldsOK(Rewound(f)) /\ Held(Rewound(f)) = Held(f)
         /\ Rewound(f).mem = f.mem /\ Rewound(f).w - Rewound(f).r = f.w - f.r
<1>1. /\ f = Fields(f.mem, f.r, f.w) /\ f.mem \in Seq(Byte)
      /\ f.r \in Nat /\ f.w \in Nat /\ f.w <= Len(f.mem) /\ Len(f.mem) \in Nat
  BY LenProperties DEF FieldsOK
<1>2. CASE f.r = f.w
  <2>1. Rewound(f) = Fields(f.mem, 0, 0)
    BY <1>1, <1>2 DEF Rewound, Fields
  <2>2. SubSeq(f.mem, 0 + 1, 0) = <<>> /\ SubSeq(f.mem, f.r + 1, f.w) = <<>>
    <3>1. /\ SubSeq(f.mem, 0 + 1, 0) \in Seq(Byte) /\ Len(SubSeq(f.mem, 0 + 1, 0)) = 0 - 0
          /\ SubSeq(f.mem, f.r + 1, f.w) \in Seq(Byte)
          /\ Len(SubSeq(f.mem, f.r + 1, f.w)) = f.w - f.r
      BY <1>1, <1>2, SubSeqFacts
    <3>2. QED
      BY <3>1, <1>1, <1>2, EmptySeq
  <2>3. FieldsOK(Fields(f.mem, 0, 0))
    BY <1>1 DEF FieldsOK, Fields
  <2>4. QED
    BY <2>1, <2>2, <2>3, <1>1, <1>2 DEF Held, Fields
<1>3. CASE f.r # f.w
  BY <1>3 DEF Rewound
<1>4. QED
  BY <1>2, <1>3

LEMMA ErasedOK ==
  ASSUME TypeOK, NEW b \in Buffers, NEW n \in Nat,
         NEW k, k = Smaller(Available(b), n)
  PROVE  /\ k \in 0 .. Available(b)
         /\ FieldsOK(Erased(b, n)) /\ Len(Erased(b, n).mem) = Len(mem[b])
         /\ Erased(b, n).w - Erased(b, n).r = Available(b) - k
         /\ Held(Erased(b, n)) = SubSeq(Data(b), k + 1, Available(b))
<1> DEFINE m == mem[b]
           r == readCur[b]
           w == writeCur[b]
           f == Fields(m, r + k, w)
<1>1. /\ m \in Seq(Byte) /\ r \in Nat /\ w \in Nat /\ Len(m) \in Nat
      /\ r <= w /\ w <= Len(m) /\ Available(b) = w - r
  BY LenProperties DEF TypeOK, CursorsOK, Available
<1>2. /\ k \in 0 .. w - r /\ k \in Nat /\ k <= w - r /\ w - r \in Nat
      /\ r + k \in Nat /\ r + k <= w
  BY <1>1 DEF Smaller
<1> HIDE DEF m, r, w
<1>3. FieldsOK(f) /\ f.mem = m /\ f.r = r + k /\ f.w = w
  BY <1>1, <1>2 DEF FieldsOK, Fields
<1>4. Held(f) = SubSeq(Data(b), k + 1, Available(b))
  <2>1. SubSeq(SubSeq(m, r + 1, w), k + 1, w - r) = SubSeq(m, r + k + 1, r + (w - r))
    <3>1. /\ m \in Seq(Byte) /\ r \in Nat /\ w \in Nat /\ r <= w /\ w <= Len(m)
          /\ k \in Nat /\ w - r \in Nat /\ k <= w - r /\ w - r <= w - r
      BY <1>1, <1>2
    <3>2. QED
      BY ONLY <3>1, PartOfPart
  <2>2. r + (w - r) = w
    BY <1>1
  <2>3. QED
    BY <2>1, <2>2, <1>1, <1>3 DEF Held, Data, m, r, w
<1>5. CASE n = 0
  <2>1. k = 0 /\ r + k = r
    BY <1>5, <1>1 DEF Smaller
  <2>2. Erased(b, n) = f
    BY <1>5, <2>1 DEF Erased, Now, m, r, w
  <2>3. QED
    BY <2>2, <1>1, <1>2, <1>3, <1>4 DEF m
<1>6. CASE n # 0
  <2>1. Erased(b, n) = Rewound(f)
    BY <1>6 DEF Erased, m, r, w
  <2>2. /\ FieldsOK(Rewound(f)) /\ Held(Rewound(f)) = Held(f)
        /\ Rewound(f).mem = m /\ Rewound(f).w - Rewound(f).r = w - (r + k)
    BY <1>3, RewoundOK
  <2>3. w - (r + k) = Available(b) - k
    BY <1>1, <1>2
  <2>4. QED
    BY <2>1, <2>2, <2>3, <1>1, <1>2, <1>4 DEF m
<1>7. QED
  BY <1>5, <1>6

\* One buffer gets new fields, and the others stay as they are.
LEMMA BecomesOK ==
  ASSUME TypeOK, NEW b \in Buffers, NEW f, FieldsOK(f), Becomes(b, f)
  PROVE  /\ mem' \in [Buffers -> Seq(Byte)]
         /\ readCur' \in [Buffers -> Nat] /\ writeCur' \in [Buffers -> Nat]
         /\ \A c \in Buffers : CursorsOK(c)'
         /\ mem'[b] = f.mem /\ Data(b)' = Held(f)
         /\ Capacity(b)' = Len(f.mem) - (f.w - f.r)
         /\ \A c \in Buffers \ {b} :
              mem'[c] = mem[c] /\ Data(c)' = Data(c) /\ Capacity(c)' = Capacity(c)
<1>1. /\ mem' = [mem EXCEPT ![b] = f.mem]
      /\ readCur' = [readCur EXCEPT ![b] = f.r]
      /\ writeCur' = [writeCur EXCEPT ![b] = f.w]
  BY DEF Becomes
<1>2. /\ f.mem \in Seq(Byte) /\ f.r \in Nat /\ f.w \in Nat
      /\ f.r <= f.w /\ f.w <= Len(f.mem)
  BY DEF FieldsOK
<1>3. /\ mem \in [Buffers -> Seq(Byte)]
      /\ readCur \in [Buffers -> Nat] /\ writeCur \in [Buffers -> Nat]
      /\ \A c \in Buffers : CursorsOK(c)
  BY DEF TypeOK
<1>4. /\ mem' \in [Buffers -> Seq(Byte)]
      /\ readCur' \in [Buffers -> Nat] /\ writeCur' \in [Buffers -> Nat]
  BY <1>1, <1>2, <1>3
<1>5. mem'[b] = f.mem /\ readCur'[b] = f.r /\ writeCur'[b] = f.w
  BY <1>1, <1>3
<1>6. \A c \in Buffers \ {b} :
        mem'[c] = mem[c] /\ readCur'[c] = readCur[c] /\ writeCur'[c] = writeCur[c]
  BY <1>1, <1>3
<1>7. \A c \in Buffers : CursorsOK(c)'
  <2> TAKE c \in Buffers
  <2>1. CASE c = b
    BY <2>1, <1>2, <1>5 DEF CursorsOK
  <2>2. CASE c # b
    BY <2>2, <1>3, <1>6 DEF CursorsOK
  <2>3. QED
    BY <2>1, <2>2
<1>8. QED
  BY <1>4, <1>5, <1>6, <1>7 DEF Data, Held, Capacity, Available

-----------------------------------------------------------------------------
(* The inductive invariant: what is still promised fits into the room there   *)
(* is before and behind the data.                                             *)
IInv == TypeOK /\ \A b \in Buffers : reserved[b] <= Capacity(b)

Bytes == [b \in Buffers |-> Data(b)]

\* The whole block is data, or the block is empty.
LEMMA WholeOK ==
  ASSUME NEW d \in Seq(Byte), NEW n, n = Len(d)
  PROVE  FieldsOK(Fields(d, 0, n)) /\ Held(Fields(d, 0, n)) = d
<1>1. Len(d) \in Nat
  BY LenProperties
<1>2. /\ SubSeq(d, 0 + 1, n) \in Seq(Byte) /\ Len(SubSeq(d, 0 + 1, n)) = n - 0
      /\ \A i \in 1 .. n - 0 : SubSeq(d, 0 + 1, n)[i] = d[0 + i]
  BY <1>1, SubSeqFacts
<1>3. \A i \in 1 .. n : SubSeq(d, 0 + 1, n)[i] = d[i]
  BY <1>1, <1>2
<1>4. SubSeq(d, 0 + 1, n) = d
  BY <1>1, <1>2, <1>3, SeqEqual
<1>5. QED
  BY <1>1, <1>4 DEF FieldsOK, Held, Fields

LEMMA UnwrittenOK ==
  ASSUME NEW m \in Seq(Byte)
  PROVE  FieldsOK(Fields(m, 0, 0)) /\ Held(Fields(m, 0, 0)) = <<>>
<1>1. Len(m) \in Nat
  BY LenProperties
<1>2. SubSeq(m, 0 + 1, 0) \in Seq(Byte) /\ Len(SubSeq(m, 0 + 1, 0)) = 0 - 0
  BY <1>1, SubSeqFacts
<1>3. SubSeq(m, 0 + 1, 0) = <<>>
  BY <1>2, EmptySeq
<1>4. QED
  BY <1>1, <1>3 DEF FieldsOK, Held, Fields

\* A call that changes one buffer.
LEMMA ChangeOK ==
  ASSUME IInv, NEW b \in Buffers, NEW f, FieldsOK(f), Becomes(b, f),
         open' \in {open, open \cup {b}, open \ {b}}, b \in open' \/ f.mem = <<>>,
         NEW k \in Nat, k <= Len(f.mem) - (f.w - f.r),
         reserved' = [reserved EXCEPT ![b] = k]
  PROVE  IInv' /\ Bytes' = [Bytes EXCEPT ![b] = Held(f)]
<1>1. /\ mem' \in [Buffers -> Seq(Byte)]
      /\ readCur' \in [Buffers -> Nat] /\ writeCur' \in [Buffers -> Nat]
      /\ \A c \in Buffers : CursorsOK(c)'
      /\ mem'[b] = f.mem /\ Data(b)' = Held(f)
      /\ Capacity(b)' = Len(f.mem) - (f.w - f.r)
      /\ \A c \in Buffers \ {b} :
           mem'[c] = mem[c] /\ Data(c)' = Data(c) /\ Capacity(c)' = Capacity(c)
  BY BecomesOK DEF IInv
<1>2. /\ open \subseteq Buffers /\ reserved \in [Buffers -> Nat]
      /\ \A c \in Buffers \ open : mem[c] = <<>>
      /\ \A c \in Buffers : reserved[c] <= Capacity(c)
  BY DEF IInv, TypeOK
<1>3. open' \subseteq Buffers /\ \A c \in Buffers \ open' : mem'[c] = <<>>
  BY <1>1, <1>2
<1>4. reserved' \in [Buffers -> Nat] /\ \A c \in Buffers : reserved'[c] <= Capacity(c)'
  <2>1. reserved' \in [Buffers -> Nat] /\ reserved'[b] = k
        /\ \A c \in Buffers \ {b} : reserved'[c] = reserved[c]
    BY <1>2
  <2>2. \A c \in Buffers : reserved'[c] <= Capacity(c)'
    <3> TAKE c \in Buffers
    <3>1. CASE c = b
      BY <3>1, <2>1, <1>1
    <3>2. CASE c # b
      BY <3>2, <2>1, <1>1, <1>2
    <3>3. QED
      BY <3>1, <3>2
  <2>3. QED
    BY <2>1, <2>2
<1>5. Bytes' = [Bytes EXCEPT ![b] = Held(f)]
  BY <1>1 DEF Bytes
<1>6. QED
  BY <1>1, <1>3, <1>4, <1>5 DEF IInv, TypeOK

\* One that leaves no promise.
LEMMA ReplaceOK ==
  ASSUME IInv, NEW b \in Buffers, NEW f, FieldsOK(f), Becomes(b, f),
         open' \in {open, open \cup {b}, open \ {b}}, b \in open' \/ f.mem = <<>>,
         reserved' = [reserved EXCEPT ![b] = 0]
  PROVE  IInv' /\ Bytes' = [Bytes EXCEPT ![b] = Held(f)]
<1>1. 0 <= Len(f.mem) - (f.w - f.r)
  <2>1. f.r \in Nat /\ f.w \in Nat /\ f.r <= f.w /\ f.w <= Len(f.mem) /\ Len(f.mem) \in Nat
    BY LenProperties DEF FieldsOK
  <2>2. QED
    BY <2>1
<1>2. QED
  BY <1>1, ChangeOK

\* A call that changes no buffer.
LEMMA QuietOK ==
  ASSUME IInv, UNCHANGED <<open, mem, readCur, writeCur, reserved>>
  PROVE  IInv' /\ Bytes' = Bytes /\ open' = open
BY DEF IInv, TypeOK, CursorsOK, Capacity, Available, Bytes, Data

\* A promise that is kept, and what remains of one after a write of n bytes.
LEMMA PromiseOK ==
  ASSUME IInv, NEW b \in Buffers
  PROVE  /\ reserved[b] \in Nat /\ reserved[b] <= Capacity(b)
         /\ reserved = [reserved EXCEPT ![b] = reserved[b]]
         /\ \A n \in Nat : /\ Larger(0, reserved[b] - n) \in Nat
                           /\ n <= Capacity(b) =>
                                Larger(0, reserved[b] - n) <= Capacity(b) - n
                           /\ n > Capacity(b) => Larger(0, reserved[b] - n) = 0
<1>1. /\ reserved \in [Buffers -> Nat] /\ reserved[b] \in Nat
      /\ reserved[b] <= Capacity(b) /\ Capacity(b) \in Nat
  BY DataOK DEF IInv, TypeOK
<1>2. QED
  BY <1>1 DEF Larger

-----------------------------------------------------------------------------
(* Every call keeps the invariant and is one step of the queue of bytes.      *)

\* The queue's view of a line is the code's.
LEMMA LinesOK ==
  ASSUME NEW s \in Seq(Byte), NEW l \in Lines(s)
  PROVE  /\ l.need \in 0 .. Len(s) /\ l.sp \in {0, Len(LineSP)}
         /\ l.need + l.sp \in Nat /\ l.need + l.sp <= Len(s)
         /\ Queue!IsLine(s, l.need, l.need + l.sp)
<1>1. Len(s) \in Nat /\ Len(LineSP) \in Nat
  BY LenProperties, BufferAssumption
<1>2. \A k : SeparatorAt(s, k) <=> Queue!Separates(s, k)
  BY DEF SeparatorAt, Queue!Separates
<1>3. CASE \A k \in 0 .. Len(s) : ~SeparatorAt(s, k)
  <2>1. l = [need |-> Len(s), sp |-> 0]
    BY <1>3 DEF Lines
  <2>2. QED
    BY <2>1, <1>1, <1>2, <1>3 DEF Queue!IsLine
<1>4. CASE ~ \A k \in 0 .. Len(s) : ~SeparatorAt(s, k)
  <2>1. PICK k \in FirstSeparator(s) : l = [need |-> k, sp |-> Len(LineSP)]
    BY <1>4 DEF Lines
  <2>2. /\ k \in 0 .. Len(s) /\ SeparatorAt(s, k)
        /\ \A j \in 0 .. k - 1 : ~SeparatorAt(s, j)
    BY <2>1 DEF FirstSeparator
  <2>3. k + Len(LineSP) <= Len(s)
    BY <2>2 DEF SeparatorAt
  <2>4. QED
    BY <2>1, <2>2, <2>3, <1>1, <1>2 DEF Queue!IsLine
<1>5. QED
  BY <1>3, <1>4

LEMMA QuietSteps ==
  ASSUME IInv, NEW b \in Buffers, Fail \/ GetNoLine(b) \/ AskLine(b)
  PROVE  IInv' /\ Queue!QNext
<1>1. UNCHANGED <<open, mem, readCur, writeCur, reserved>>
  BY DEF Fail, GetNoLine, AskLine
<1>2. IInv' /\ Bytes' = Bytes /\ open' = open
  BY <1>1, QuietOK
<1>3. Data(b) \in Seq(Byte) /\ Len(Data(b)) = Available(b) /\ Available(b) \in Nat
  BY DataOK DEF IInv
<1>4. CASE Fail
  BY <1>2, <1>4 DEF Fail, NoMemory, Reply, Bytes, Queue!QNext, Queue!QFail,
     Queue!NoMemory, Queue!Reply
<1>5. CASE GetNoLine(b)
  <2>1. Data(b) = <<>>
    BY <1>3, <1>5, EmptySeq DEF GetNoLine
  <2>2. Queue!QNoLine(b)
    BY <1>2, <1>5, <2>1 DEF GetNoLine, Reply, Bytes, Queue!QNoLine, Queue!Reply
  <2>3. QED
    BY <1>2, <2>2 DEF Queue!QNext
<1>6. CASE AskLine(b)
  <2>1. PICK l \in Lines(Data(b)) :
          /\ Available(b) > 0 /\ l.need > 0
          /\ reply' \in {Yes(l.need, <<>>), Reply("smallbuf", 0, <<>>)}
    BY <1>6 DEF AskLine
  <2>2. /\ l.need \in 0 .. Len(Data(b)) /\ l.sp \in {0, Len(LineSP)}
        /\ Queue!IsLine(Data(b), l.need, l.need + l.sp)
    BY <1>3, LinesOK
  <2>3. Queue!QLineLength(b, l.need, l.need + l.sp)
    BY <1>2, <2>1, <2>2 DEF Bytes, Yes, Reply, Queue!QLineLength, Queue!Yes, Queue!Reply
  <2>4. Data(b) # <<>> /\ l.need + l.sp \in {l.need, l.need + Len(LineSP)}
    BY <1>3, <2>1, <2>2, EmptySeq
  <2>5. Queue!QOnBytes(b)
    BY <2>2, <2>3, <2>4 DEF Bytes, Queue!QOnBytes
  <2>6. QED
    BY <1>2, <2>5 DEF Queue!QNext
<1>7. QED
  BY <1>4, <1>5, <1>6

\* The calls that give a buffer a block of its own, or none.
LEMMA WholeSteps ==
  ASSUME IInv, NEW b \in Buffers, NEW c \in Buffers,
         \/ \E n \in Lens : CreateBuffer(b, n)
         \/ CopyNewBuffer(b, c) \/ DestroyBuffer(b) \/ ClearBuffer(b)
         \/ CopyBuffer(b, c) \/ CopyFails(b, c)
  PROVE  IInv' /\ Queue!QNext
<1>1. /\ Data(c) \in Seq(Byte) /\ Len(Data(c)) = Available(c) /\ Available(c) \in Nat
      /\ reserved[b] \in Nat /\ reserved \in [Buffers -> Nat]
      /\ mem[b] \in Seq(Byte) /\ open \subseteq Buffers
      /\ b \notin open => reserved[b] = 0
  <2>1. b \notin open => Capacity(b) = 0
    <3>1. b \notin open => mem[b] = <<>>
      BY DEF IInv, TypeOK
    <3>2. Len(<<>>) = 0
      OBVIOUS
    <3>3. QED
      BY <3>1, <3>2, DataOK DEF IInv
  <2>2. reserved[b] \in Nat /\ reserved[b] <= Capacity(b) /\ reserved \in [Buffers -> Nat]
    BY DEF IInv, TypeOK
  <2>3. mem[b] \in Seq(Byte) /\ open \subseteq Buffers
    BY DEF IInv, TypeOK
  <2>4. Data(c) \in Seq(Byte) /\ Len(Data(c)) = Available(c) /\ Available(c) \in Nat
    BY DataOK DEF IInv
  <2>5. QED
    BY <2>1, <2>2, <2>3, <2>4
<1>2. CASE \E n \in Lens : CreateBuffer(b, n)
  <2>1. PICK n \in Lens : CreateBuffer(b, n)
    BY <1>2
  <2> DEFINE f == Fields(Fresh(n), 0, 0)
  <2>2. n \in Nat /\ Fresh(n) \in Seq(Byte) /\ Len(Fresh(n)) = n
    BY FreshOK, BufferAssumption DEF Lens
  <2>3. FieldsOK(f) /\ Held(f) = <<>>
    BY <2>2, UnwrittenOK
  <2>5. /\ Becomes(b, f) /\ open' = open \cup {b} /\ b \notin open
        /\ reserved' = [reserved EXCEPT ![b] = 0] /\ reply' = Yes(0, <<>>)
        /\ b \in open' /\ open' \in {open, open \cup {b}, open \ {b}}
    BY <1>1, <2>1 DEF CreateBuffer
  <2> HIDE DEF f
  <2>6. IInv' /\ Bytes' = [Bytes EXCEPT ![b] = <<>>]
    BY <2>3, <2>5, ReplaceOK
  <2>7. Queue!QCreate(b)
    BY <2>5, <2>6 DEF Bytes, Yes, Reply, Queue!QCreate, Queue!Yes, Queue!Reply
  <2>8. QED
    BY <2>6, <2>7 DEF Queue!QNext
<1>3. CASE CopyNewBuffer(b, c)
  <2> DEFINE f == Fields(Data(c), 0, Available(c))
  <2>1. FieldsOK(f) /\ Held(f) = Data(c)
    BY <1>1, WholeOK
  <2>3. /\ Becomes(b, f) /\ open' = open \cup {b} /\ b \notin open /\ c \in open
        /\ reserved' = [reserved EXCEPT ![b] = 0] /\ reply' = Yes(0, <<>>)
        /\ b \in open' /\ open' \in {open, open \cup {b}, open \ {b}}
    BY <1>1, <1>3 DEF CopyNewBuffer
  <2> HIDE DEF f
  <2>4. IInv' /\ Bytes' = [Bytes EXCEPT ![b] = Data(c)]
    BY <2>1, <2>3, ReplaceOK
  <2>5. Queue!QCreate(b)
    BY <2>3, <2>4 DEF Bytes, Yes, Reply, Queue!QCreate, Queue!Yes, Queue!Reply
  <2>6. QED
    BY <2>4, <2>5 DEF Queue!QNext
<1>4. CASE DestroyBuffer(b) \/ ClearBuffer(b) \/ CopyFails(b, c)
  <2>1. <<>> \in Seq(Byte) /\ Len(<<>>) = 0
    BY EmptySeq
  <2>2. FieldsOK(Empty) /\ Held(Empty) = <<>>
    BY <2>1, UnwrittenOK DEF Empty
  <2>3. Empty.mem = <<>> /\ Empty.r = 0 /\ Empty.w = 0
    BY DEF Empty, Fields
  <2>4. /\ Becomes(b, Empty) /\ reserved' = [reserved EXCEPT ![b] = 0]
        /\ open' \in {open, open \cup {b}, open \ {b}}
    BY <1>4 DEF DestroyBuffer, ClearBuffer, CopyFails
  <2>5. IInv' /\ Bytes' = [Bytes EXCEPT ![b] = <<>>]
    BY <2>2, <2>3, <2>4, ReplaceOK
  <2>6. Queue!QDestroy(b) \/ Queue!QClear(b) \/ Queue!QCopyFails(b)
    BY <1>4, <2>5 DEF DestroyBuffer, ClearBuffer, CopyFails, Bytes, Yes, NoMemory, Reply,
       Queue!QDestroy, Queue!QClear, Queue!QCopyFails, Queue!Holds, Queue!Yes,
       Queue!NoMemory, Queue!Reply
  <2>7. QED
    BY <2>5, <2>6 DEF Queue!QNext
<1>5. CASE CopyBuffer(b, c)
  <2> DEFINE f == Fields(Data(c), 0, Available(c))
  <2>1. FieldsOK(f) /\ Held(f) = Data(c)
    BY <1>1, WholeOK
  <2>3. /\ Becomes(b, f) /\ open' = open /\ b \in open /\ c \in open
        /\ reserved' = [reserved EXCEPT ![b] = 0] /\ reply' = Yes(Available(c), <<>>)
        /\ b \in open' /\ open' \in {open, open \cup {b}, open \ {b}}
    BY <1>5 DEF CopyBuffer
  <2> HIDE DEF f
  <2>4. IInv' /\ Bytes' = [Bytes EXCEPT ![b] = Data(c)]
    BY <2>1, <2>3, ReplaceOK
  <2>5. Queue!QCopy(b, c)
    BY <1>1, <2>3, <2>4 DEF Bytes, Yes, Reply, Queue!QCopy, Queue!Holds, Queue!Yes,
       Queue!Reply
  <2>6. QED
    BY <2>3, <2>4, <2>5 DEF Queue!QNext
<1>6. QED
  BY <1>2, <1>3, <1>4, <1>5

LEMMA SwapSteps ==
  ASSUME IInv, NEW b \in Buffers, NEW c \in Buffers, SwapBuffer(b, c)
  PROVE  IInv' /\ Queue!QNext
<1>1. /\ b \in open /\ c \in open /\ open' = open /\ reply' = Yes(0, <<>>)
      /\ mem' = Swapped(mem, b, c) /\ reserved' = Swapped(reserved, b, c)
      /\ readCur' = Swapped(readCur, b, c) /\ writeCur' = Swapped(writeCur, b, c)
  BY DEF SwapBuffer
<1>2. /\ open \subseteq Buffers /\ mem \in [Buffers -> Seq(Byte)]
      /\ readCur \in [Buffers -> Nat] /\ writeCur \in [Buffers -> Nat]
      /\ reserved \in [Buffers -> Nat]
      /\ \A d \in Buffers : CursorsOK(d) /\ reserved[d] <= Capacity(d)
      /\ \A d \in Buffers \ open : mem[d] = <<>>
  BY DEF IInv, TypeOK
<1> DEFINE from(d) == IF d = b THEN c ELSE IF d = c THEN b ELSE d
<1>3. /\ \A d \in Buffers :
           /\ from(d) \in Buffers /\ mem'[d] = mem[from(d)]
           /\ readCur'[d] = readCur[from(d)] /\ writeCur'[d] = writeCur[from(d)]
           /\ reserved'[d] = reserved[from(d)]
      /\ mem' \in [Buffers -> Seq(Byte)]
      /\ readCur' \in [Buffers -> Nat] /\ writeCur' \in [Buffers -> Nat]
      /\ reserved' \in [Buffers -> Nat]
  BY <1>1, <1>2 DEF Swapped
<1>4. \A d \in Buffers \ open : from(d) = d
  BY <1>1
<1> HIDE DEF from
<1>5. \A d \in Buffers : CursorsOK(d)' /\ reserved'[d] <= Capacity(d)'
  BY <1>2, <1>3 DEF CursorsOK, Capacity, Available
<1>6. \A d \in Buffers : Data(d)' = Data(from(d))
  BY <1>3 DEF Data
<1>7. IInv'
  BY <1>1, <1>2, <1>3, <1>4, <1>5 DEF IInv, TypeOK
<1>8. Bytes' = [Bytes EXCEPT ![b] = Data(c), ![c] = Data(b)]
  BY <1>6 DEF Bytes, from
<1>9. Queue!QSwap(b, c)
  BY <1>1, <1>8 DEF Bytes, Yes, Reply, Queue!QSwap, Queue!Yes, Queue!Reply
<1>10. QED
  BY <1>1, <1>7, <1>9 DEF Queue!QNext

LEMMA ReserveSteps ==
  ASSUME IInv, NEW b \in Buffers, NEW n \in Nat, ReserveBuffer(b, n)
  PROVE  IInv' /\ Queue!QNext
<1> DEFINE i == ReserveInc(b, n)
           f == IF i = 0 THEN Now(b) ELSE Increased(b, i)
           k == Larger(n, reserved[b])
<1>1. /\ i \in Nat /\ Capacity(b) + i >= n /\ Capacity(b) \in Nat
      /\ Available(b) \in Nat /\ Len(mem[b]) = Available(b) + Capacity(b)
  BY ReserveIncOK, DataOK DEF IInv
<1>2. FieldsOK(f) /\ Held(f) = Data(b) /\ Len(f.mem) - (f.w - f.r) = Capacity(b) + i
  <2>1. CASE i = 0
    BY <2>1, <1>1, NowOK DEF IInv, Now, Fields, Available, Capacity
  <2>2. CASE i # 0
    <3>1. /\ FieldsOK(f) /\ Held(f) = Data(b) /\ Len(f.mem) = Len(mem[b]) + i
          /\ f.r = 0 /\ f.w = Available(b)
      BY <2>2, <1>1, IncreasedOK DEF IInv
    <3>2. QED
      BY <3>1, <1>1
  <2>3. QED
    BY <2>1, <2>2
<1>3. k \in Nat /\ k <= Capacity(b) + i
  BY <1>1, PromiseOK DEF Larger
<1>4. /\ b \in open /\ open' = open /\ reply' = Yes(0, <<>>)
      /\ reserved' = [reserved EXCEPT ![b] = k]
  BY DEF ReserveBuffer
<1>5. Becomes(b, f)
  <2>1. CASE i = 0
    BY <2>1 DEF ReserveBuffer, Becomes, Now, Fields, IInv, TypeOK
  <2>2. CASE i # 0
    BY <2>2 DEF ReserveBuffer
  <2>3. QED
    BY <2>1, <2>2
<1> HIDE DEF f, i, k
<1>6. IInv' /\ Bytes' = [Bytes EXCEPT ![b] = Data(b)]
  <2>1. /\ open' \in {open, open \cup {b}, open \ {b}} /\ b \in open'
        /\ k <= Len(f.mem) - (f.w - f.r)
    BY <1>2, <1>3, <1>4
  <2>2. QED
    BY <2>1, <1>2, <1>3, <1>4, <1>5, ChangeOK
<1>7. Bytes' = Bytes
  BY <1>6 DEF Bytes
<1>8. Queue!QReserve
  BY <1>4, <1>7 DEF Bytes, Yes, Reply, Queue!QReserve, Queue!Yes, Queue!Reply
<1>9. QED
  BY <1>6, <1>8 DEF Queue!QNext

\* Room for n bytes: what AR_AllocFromBuffer leaves when the write needs it.
LEMMA RoomLeft ==
  ASSUME IInv, NEW b \in Buffers, NEW n \in Nat, NEW g, FieldsOK(g),
         Len(g.mem) = Len(Roomy(b, n).mem), g.r = Roomy(b, n).r,
         g.w = Roomy(b, n).w + n, Becomes(b, g),
         b \in open, open' = open, Kept(b, n)
  PROVE  IInv' /\ Bytes' = [Bytes EXCEPT ![b] = Held(g)]
<1> DEFINE k == Larger(0, reserved[b] - n)
           h == Roomy(b, n)
<1>1. /\ FieldsOK(h) /\ Len(h.mem) >= Len(mem[b]) /\ h.w + n <= Len(h.mem)
      /\ h.w - h.r = Available(b)
  BY RoomyOK DEF IInv
<1>2. /\ h.r \in Nat /\ h.w \in Nat /\ Len(h.mem) \in Nat /\ h.r <= h.w
      /\ g.r = h.r /\ g.w = h.w + n /\ Len(g.mem) = Len(h.mem)
  BY <1>1, LenProperties DEF FieldsOK
<1>3. /\ Capacity(b) \in Nat /\ Available(b) \in Nat /\ Len(mem[b]) \in Nat
      /\ Len(mem[b]) = Available(b) + Capacity(b)
  BY DataOK DEF IInv
<1>4. /\ k \in Nat
      /\ n <= Capacity(b) => k <= Capacity(b) - n
      /\ n > Capacity(b) => k = 0
  BY PromiseOK
<1> HIDE DEF h, k
<1>5. k <= Len(g.mem) - (g.w - g.r)
  <2>1. Len(g.mem) - (g.w - g.r) = Len(h.mem) - (Available(b) + n)
    BY <1>1, <1>2, <1>3
  <2>2. CASE n <= Capacity(b)
    BY <2>1, <2>2, <1>1, <1>2, <1>3, <1>4
  <2>3. CASE n > Capacity(b)
    BY <2>1, <2>3, <1>1, <1>2, <1>3, <1>4
  <2>4. QED
    BY <2>2, <2>3, <1>3
<1>6. /\ reserved' = [reserved EXCEPT ![b] = k]
      /\ open' \in {open, open \cup {b}, open \ {b}} /\ b \in open'
  BY DEF Kept, k, IInv, TypeOK
<1>7. QED
  BY <1>4, <1>5, <1>6, ChangeOK

LEMMA ConcatTail ==
  ASSUME NEW d \in Seq(Byte), NEW t \in Seq(Byte)
  PROVE  /\ Len(d \o t) = Len(d) + Len(t)
         /\ SubSeq(d \o t, Len(d) + 1, Len(d \o t)) = t
<1> DEFINE m == Len(d)
           n == Len(t)
           c == d \o t
           x == SubSeq(c, m + 1, m + n)
<1>1. /\ m \in Nat /\ n \in Nat /\ m + n \in Nat /\ m <= m + n
      /\ c \in Seq(Byte) /\ Len(c) = m + n
      /\ \A i \in m + 1 .. m + n : c[i] = t[i - m]
  BY LenProperties, ConcatProperties
<1> HIDE DEF m, n, c
<1>2. /\ x \in Seq(Byte) /\ Len(x) = (m + n) - m
      /\ \A i \in 1 .. (m + n) - m : x[i] = c[m + i]
  BY <1>1, SubSeqFacts
<1> HIDE DEF x
<1>3. (m + n) - m = n
  BY <1>1
<1>4. \A i \in 1 .. n : x[i] = t[i]
  <2> TAKE i \in 1 .. n
  <2>1. m + i \in m + 1 .. m + n /\ (m + i) - m = i
    BY <1>1
  <2>2. QED
    BY <2>1, <1>1, <1>2, <1>3
<1>5. x = t
  BY <1>1, <1>2, <1>3, <1>4, SeqEqual DEF n
<1>6. QED
  BY <1>1, <1>5 DEF m, n, c, x

LEMMA AllocSteps ==
  ASSUME IInv, NEW b \in Buffers, NEW n \in Nat, AllocFromBuffer(b, n)
  PROVE  IInv' /\ Queue!QNext
<1> DEFINE h == Roomy(b, n)
           g == [h EXCEPT !.w = @ + n]
           t == SubSeq(g.mem, h.w + 1, h.w + n)
<1>1. /\ FieldsOK(h) /\ Held(h) = Data(b) /\ h.w + n <= Len(h.mem)
  BY RoomyOK DEF IInv
<1>2. /\ Becomes(b, g) /\ b \in open /\ open' = open /\ Kept(b, n)
      /\ reply' = Yes(n, <<>>)
  BY DEF AllocFromBuffer
<1> HIDE DEF h
<1>3. /\ FieldsOK(g) /\ g.mem = h.mem /\ g.r = h.r /\ g.w = h.w + n
      /\ Held(g) = Held(h) \o t
  BY <1>1, AdvancedOK
<1>4. t \in Seq(Byte) /\ Len(t) = n
  <2>1. /\ h.mem \in Seq(Byte) /\ h.w \in Nat /\ h.w + n \in Nat /\ h.w <= h.w + n
    BY <1>1 DEF FieldsOK
  <2>2. /\ SubSeq(h.mem, h.w + 1, h.w + n) \in Seq(Byte)
        /\ Len(SubSeq(h.mem, h.w + 1, h.w + n)) = h.w + n - h.w
    <3> DEFINE j == h.w + n
    <3>1. /\ h.mem \in Seq(Byte) /\ h.w \in Nat /\ j \in Nat /\ h.w <= j
          /\ j <= Len(h.mem)
      BY <1>1, <2>1
    <3> HIDE DEF j
    <3>2. /\ SubSeq(h.mem, h.w + 1, j) \in Seq(Byte)
          /\ Len(SubSeq(h.mem, h.w + 1, j)) = j - h.w
      BY ONLY <3>1, SubSeqFacts
    <3>3. j = h.w + n
      BY DEF j
    <3>4. QED
      BY <2>1, <3>1, <3>2, <3>3
  <2>3. h.w + n - h.w = n
    BY <2>1
  <2>4. QED
    BY <2>2, <2>3, <1>3
<1> HIDE DEF g, t
<1>5. IInv' /\ Bytes' = [Bytes EXCEPT ![b] = Data(b) \o t]
  BY <1>1, <1>2, <1>3, RoomLeft DEF h
<1>6. /\ Data(b) \in Seq(Byte) /\ Bytes[b] = Data(b) /\ Bytes'[b] = Data(b) \o t
  BY <1>5, DataOK DEF IInv, Bytes
<1>7. /\ Len(Data(b) \o t) = Len(Data(b)) + n
      /\ SubSeq(Data(b) \o t, Len(Data(b)) + 1, Len(Data(b) \o t)) = t
  BY <1>4, <1>6, ConcatTail
<1>8. Queue!QFill(b)
  BY <1>2, <1>5, <1>6, <1>7 DEF Bytes, Yes, Reply, Queue!QFill, Queue!QAppend, Queue!Holds
<1>9. reply'.data = <<>>
  BY <1>2 DEF Yes, Reply
<1>10. QED
  BY <1>5, <1>8, <1>9 DEF Queue!QNext

\* A write of s that has its room.
LEMMA WriteOK ==
  ASSUME IInv, NEW b \in Buffers, NEW s \in Seq(Byte), NEW n, n = Len(s),
         Becomes(b, Filled(Roomy(b, n), s)), b \in open, open' = open, Kept(b, n)
  PROVE  IInv' /\ Bytes' = [Bytes EXCEPT ![b] = Data(b) \o s]
<1> DEFINE h == Roomy(b, n)
           g == Filled(h, s)
<1>1. n \in Nat
  BY LenProperties
<1>2. FieldsOK(h) /\ Held(h) = Data(b) /\ h.w + n <= Len(h.mem)
  BY <1>1, RoomyOK DEF IInv
<1> HIDE DEF h
<1>3. /\ FieldsOK(g) /\ Held(g) = Held(h) \o s /\ Len(g.mem) = Len(h.mem)
      /\ g.r = h.r /\ g.w = h.w + n
  BY <1>2, FilledOK
<1>4. Becomes(b, g)
  BY DEF h
<1> HIDE DEF g
<1>5. QED
  BY <1>1, <1>2, <1>3, <1>4, RoomLeft DEF h

LEMMA InsertSteps ==
  ASSUME IInv, NEW b \in Buffers, NEW s \in Inputs, InsertToBuffer(b, s)
  PROVE  IInv' /\ Queue!QNext
<1>1. s \in Seq(Byte)
  BY BufferAssumption
<1>2. IInv' /\ Bytes' = [Bytes EXCEPT ![b] = Data(b) \o s]
  BY <1>1, WriteOK DEF InsertToBuffer
<1>3. Queue!QAppend(b, reply'.data)
  BY <1>2 DEF InsertToBuffer, Bytes, Yes, Reply, Queue!QAppend, Queue!Holds
<1>4. QED
  BY <1>2, <1>3 DEF Queue!QNext

LEMMA InsertBufferSteps ==
  ASSUME IInv, NEW b \in Buffers, NEW c \in Buffers, InsertBufferToBuffer(b, c)
  PROVE  IInv' /\ Queue!QNext
<1>1. Data(c) \in Seq(Byte) /\ Len(Data(c)) = Available(c)
  BY DataOK DEF IInv
<1>2. CASE Available(c) = 0
  <2>1. UNCHANGED <<open, mem, readCur, writeCur, reserved>> /\ reply' = Yes(0, <<>>)
    BY <1>2 DEF InsertBufferToBuffer
  <2>2. IInv' /\ Bytes' = Bytes /\ open' = open
    BY <2>1, QuietOK
  <2>3. Queue!QReserve
    BY <2>1, <2>2 DEF Bytes, Yes, Reply, Queue!QReserve, Queue!Yes, Queue!Reply
  <2>4. QED
    BY <2>2, <2>3 DEF Queue!QNext
<1>3. CASE Available(c) # 0
  <2>1. /\ Becomes(b, Filled(Roomy(b, Available(c)), Data(c))) /\ Kept(b, Available(c))
        /\ b \in open /\ c \in open /\ open' = open /\ reply'.status = "yes"
    BY <1>3 DEF InsertBufferToBuffer, Yes, Reply
  <2>2. IInv' /\ Bytes' = [Bytes EXCEPT ![b] = Data(b) \o Data(c)]
    BY <1>1, <2>1, WriteOK
  <2>3. Queue!QAppend(b, Bytes[c])
    BY <2>1, <2>2 DEF Bytes, Queue!QAppend, Queue!Holds
  <2>4. QED
    BY <2>1, <2>2, <2>3 DEF Queue!QNext, Bytes
<1>4. QED
  BY <1>2, <1>3

\* Erasing leaves every promise: there is only more room.
LEMMA LessOK ==
  ASSUME IInv, NEW b \in Buffers, NEW f, FieldsOK(f), Becomes(b, f),
         Len(f.mem) = Len(mem[b]), f.w - f.r <= Available(b),
         b \in open, UNCHANGED <<open, reserved>>
  PROVE  IInv' /\ Bytes' = [Bytes EXCEPT ![b] = Held(f)]
<1>1. /\ Capacity(b) \in Nat /\ Available(b) \in Nat
      /\ Len(mem[b]) = Available(b) + Capacity(b)
  BY DataOK DEF IInv
<1>2. /\ reserved[b] \in Nat /\ reserved[b] <= Capacity(b)
      /\ reserved' = [reserved EXCEPT ![b] = reserved[b]]
  BY PromiseOK
<1>3. reserved[b] <= Len(f.mem) - (f.w - f.r)
  <2>1. f.w \in Nat /\ f.r \in Nat
    BY DEF FieldsOK
  <2>2. QED
    BY <2>1, <1>1, <1>2
<1>4. open' \in {open, open \cup {b}, open \ {b}} /\ b \in open'
  OBVIOUS
<1>5. QED
  BY <1>2, <1>3, <1>4, ChangeOK

LEMMA EraseSteps ==
  ASSUME IInv, NEW b \in Buffers, NEW n \in Nat,
         EraseBuffer(b, n) \/ ReadBufferData(b, n)
  PROVE  IInv' /\ Queue!QNext
<1> DEFINE k == Smaller(Available(b), n)
           d == Data(b)
<1>1. d \in Seq(Byte) /\ Len(d) = Available(b) /\ Available(b) \in Nat
  BY DataOK DEF IInv
<1>2. k \in 0 .. Available(b) /\ k \in Nat /\ Smaller(Available(b), k) = k
  BY <1>1 DEF Smaller
<1>3. CASE EraseBuffer(b, n)
  <2>1. /\ FieldsOK(Erased(b, n)) /\ Len(Erased(b, n).mem) = Len(mem[b])
        /\ Erased(b, n).w - Erased(b, n).r = Available(b) - k
        /\ Held(Erased(b, n)) = SubSeq(d, k + 1, Available(b))
    BY ErasedOK DEF IInv
  <2>2. /\ b \in open /\ UNCHANGED <<open, reserved>> /\ reply' = Yes(k, <<>>)
        /\ Becomes(b, Erased(b, n))
    BY <1>3 DEF EraseBuffer
  <2>3. Erased(b, n).w - Erased(b, n).r <= Available(b)
    BY <2>1, <1>1, <1>2
  <2> HIDE DEF k, d
  <2>4. IInv' /\ Bytes' = [Bytes EXCEPT ![b] = SubSeq(d, k + 1, Len(d))]
    BY <1>1, <2>1, <2>2, <2>3, LessOK
  <2>5. Queue!QErase(b, k)
    BY <2>2, <2>4 DEF Bytes, Yes, Reply, Queue!QErase, Queue!Holds, Queue!Yes,
       Queue!Reply, d
  <2>6. QED
    BY <1>1, <1>2, <2>4, <2>5 DEF Queue!QNext, Queue!QOnBytes, Bytes, d
<1>4. CASE ReadBufferData(b, n)
  <2>1. /\ FieldsOK(Erased(b, k)) /\ Len(Erased(b, k).mem) = Len(mem[b])
        /\ Erased(b, k).w - Erased(b, k).r = Available(b) - k
        /\ Held(Erased(b, k)) = SubSeq(d, k + 1, Available(b))
    BY <1>2, ErasedOK DEF IInv
  <2>2. /\ b \in open /\ UNCHANGED <<open, reserved>>
        /\ reply' = Yes(k, SubSeq(d, 1, k)) /\ Becomes(b, Erased(b, k))
    BY <1>4 DEF ReadBufferData
  <2>3. Erased(b, k).w - Erased(b, k).r <= Available(b)
    BY <2>1, <1>1, <1>2
  <2> HIDE DEF k, d
  <2>4. IInv' /\ Bytes' = [Bytes EXCEPT ![b] = SubSeq(d, k + 1, Len(d))]
    BY <1>1, <2>1, <2>2, <2>3, LessOK
  <2>5. Queue!QRead(b, k)
    BY <2>2, <2>4 DEF Bytes, Yes, Reply, Queue!QRead, Queue!Holds, Queue!Yes,
       Queue!Reply, d
  <2>6. QED
    BY <1>1, <1>2, <2>4, <2>5 DEF Queue!QNext, Queue!QOnBytes, Bytes, d
<1>5. QED
  BY <1>3, <1>4

LEMMA EraseBackSteps ==
  ASSUME IInv, NEW b \in Buffers, NEW n \in Nat, EraseBufferBack(b, n)
  PROVE  IInv' /\ Queue!QNext
<1> DEFINE k == Smaller(Available(b), n)
           d == Data(b)
           m == mem[b]
           r == readCur[b]
           w == writeCur[b]
           f == Fields(m, r, w - k)
<1>1. /\ d \in Seq(Byte) /\ Len(d) = Available(b) /\ Available(b) \in Nat
      /\ m \in Seq(Byte) /\ r \in Nat /\ w \in Nat /\ Len(m) \in Nat
      /\ r <= w /\ w <= Len(m) /\ Available(b) = w - r /\ d = SubSeq(m, r + 1, w)
  BY DataOK, LenProperties DEF IInv, TypeOK, CursorsOK, Available, Data
<1>2. k \in 0 .. w - r /\ w - k \in Nat /\ r <= w - k /\ w - k <= Len(m)
  <2>1. k \in 0 .. Available(b)
    BY <1>1 DEF Smaller
  <2> HIDE DEF k, d, m, r, w
  <2>2. QED
    BY <2>1, <1>1
<1>3. /\ b \in open /\ UNCHANGED <<open, reserved>> /\ reply' = Yes(k, <<>>)
      /\ Becomes(b, Rewound(f))
  BY DEF EraseBufferBack
<1> HIDE DEF k, d, m, r, w
<1>4. FieldsOK(f) /\ f.mem = m /\ f.r = r /\ f.w = w - k
  BY <1>1, <1>2 DEF FieldsOK, Fields
<1>5. Held(f) = SubSeq(d, 1, Len(d) - k)
  <2> DEFINE j == w - k - r
  <2>1. j \in Nat /\ 0 <= j /\ j <= w - r /\ 0 \in Nat /\ r + 0 + 1 = r + 1 /\ r + j = w - k
    BY <1>1, <1>2
  <2>2. j = Len(d) - k
    BY <1>1, <1>2
  <2> HIDE DEF j
  <2>3. m \in Seq(Byte) /\ r \in Nat /\ w \in Nat /\ r <= w /\ w <= Len(m)
    BY <1>1
  <2>4. SubSeq(SubSeq(m, r + 1, w), 0 + 1, j) = SubSeq(m, r + 0 + 1, r + j)
    BY ONLY <2>1, <2>3, PartOfPart
  <2>5. Held(f) = SubSeq(m, r + 1, w - k)
    BY <1>4 DEF Held
  <2>6. SubSeq(d, 1, j) = SubSeq(m, r + 1, w - k)
    <3>1. 0 + 1 = 1
      OBVIOUS
    <3>2. QED
      BY <2>1, <2>4, <1>1, <3>1
  <2>7. QED
    BY <2>2, <2>5, <2>6
<1> HIDE DEF f
<1>6. /\ FieldsOK(Rewound(f)) /\ Held(Rewound(f)) = SubSeq(d, 1, Len(d) - k)
      /\ Len(Rewound(f).mem) = Len(mem[b])
      /\ Rewound(f).w - Rewound(f).r <= Available(b)
  <2>1. f.w - f.r <= Available(b)
    BY <1>1, <1>2, <1>4
  <2>2. QED
    BY <2>1, <1>4, <1>5, RewoundOK DEF m
<1>7. IInv' /\ Bytes' = [Bytes EXCEPT ![b] = SubSeq(d, 1, Len(d) - k)]
  BY <1>3, <1>6, LessOK
<1>8. Queue!QEraseBack(b, k)
  BY <1>3, <1>7 DEF Bytes, Yes, Reply, Queue!QEraseBack, Queue!Holds, Queue!Yes,
     Queue!Reply, d
<1>9. k \in 0 .. Len(d)
  BY <1>1, <1>2
<1>10. QED
  BY <1>7, <1>8, <1>9 DEF Queue!QNext, Queue!QOnBytes, Bytes, d

LEMMA GetLineSteps ==
  ASSUME IInv, NEW b \in Buffers, NEW room, GetLine(b, room)
  PROVE  IInv' /\ Queue!QNext
<1> DEFINE d == Data(b)
<1>1. d \in Seq(Byte) /\ Len(d) = Available(b) /\ Available(b) \in Nat
  BY DataOK DEF IInv
<1>2. PICK l \in Lines(d) :
        /\ b \in open /\ Available(b) > 0 /\ UNCHANGED <<open, reserved>>
        /\ Becomes(b, Erased(b, l.need + l.sp))
        /\ reply' = Yes(l.need, SubSeq(d, 1, l.need))
  BY DEF GetLine
<1> DEFINE k == l.need + l.sp
<1>3. /\ l.need \in 0 .. Len(d) /\ l.sp \in {0, Len(LineSP)}
      /\ k \in Nat /\ k <= Len(d) /\ Queue!IsLine(d, l.need, k)
  BY <1>1, LinesOK
<1>4. k = Smaller(Available(b), k)
  BY <1>1, <1>3 DEF Smaller
<1>5. k \in {l.need, l.need + Len(LineSP)}
  BY <1>3
<1>6. /\ FieldsOK(Erased(b, k)) /\ Len(Erased(b, k).mem) = Len(mem[b])
      /\ Erased(b, k).w - Erased(b, k).r = Available(b) - k
      /\ Held(Erased(b, k)) = SubSeq(d, k + 1, Available(b))
  BY <1>3, <1>4, ErasedOK DEF IInv
<1>7. Erased(b, k).w - Erased(b, k).r <= Available(b)
  BY <1>1, <1>3, <1>6
<1>8. Becomes(b, Erased(b, k))
  BY <1>2
<1> HIDE DEF k, d
<1>9. IInv' /\ Bytes' = [Bytes EXCEPT ![b] = SubSeq(d, k + 1, Len(d))]
  BY <1>1, <1>2, <1>6, <1>7, <1>8, LessOK
<1>10. Queue!QGetLine(b, l.need, k)
  BY <1>2, <1>3, <1>9 DEF Bytes, Yes, Reply, Queue!QGetLine, Queue!Holds, Queue!Yes,
     Queue!Reply, d
<1>11. d # <<>>
  BY <1>1, <1>2, EmptySeq
<1>12. Queue!QOnBytes(b)
  BY <1>3, <1>5, <1>10, <1>11 DEF Queue!QOnBytes, Bytes, d
<1>13. QED
  BY <1>9, <1>12 DEF Queue!QNext

LEMMA ResetSteps ==
  ASSUME IInv, NEW b \in Buffers, NEW offset \in Nat, NEW s \in Inputs,
         ResetBufferData(b, offset, s)
  PROVE  IInv' /\ Queue!QNext
<1> DEFINE n == Smaller(Available(b) - offset, Len(s))
           t == SubSeq(s, 1, n)
           d == Data(b)
           m == mem[b]
           r == readCur[b]
           w == writeCur[b]
           p == Patched(m, r + offset, t)
           f == Fields(p, r, w)
<1>1. /\ b \in open /\ offset < Available(b) /\ reply' = Yes(n, t)
      /\ mem' = [mem EXCEPT ![b] = p] /\ UNCHANGED <<open, readCur, writeCur, reserved>>
  BY DEF ResetBufferData
<1>2. /\ d \in Seq(Byte) /\ Len(d) = w - r /\ Available(b) = w - r
      /\ m \in Seq(Byte) /\ r \in Nat /\ w \in Nat /\ Len(m) \in Nat
      /\ r <= w /\ w <= Len(m) /\ d = SubSeq(m, r + 1, w)
      /\ s \in Seq(Byte) /\ Len(s) \in Nat
  BY DataOK, LenProperties, BufferAssumption
     DEF IInv, TypeOK, CursorsOK, Available, Data
<1>3. n \in Nat /\ n <= Len(s) /\ offset + n <= w - r
  <2> HIDE DEF t, d, m, r, w, p, f
  <2>1. Available(b) - offset \in Nat
    BY <1>1, <1>2
  <2>2. n \in Nat /\ n <= Len(s) /\ n <= Available(b) - offset
    BY <2>1, <1>2 DEF Smaller
  <2> HIDE DEF n
  <2>3. QED
    BY <2>2, <1>2
<1>4. Becomes(b, f)
  BY <1>1 DEF Becomes, Fields, IInv, TypeOK
<1> HIDE DEF n
<1>5. t \in Seq(Byte) /\ Len(t) = n
  <2>1. 0 \in Nat /\ 0 <= n /\ n - 0 = n /\ 0 + 1 = 1
    BY <1>3
  <2>2. SubSeq(s, 0 + 1, n) \in Seq(Byte) /\ Len(SubSeq(s, 0 + 1, n)) = n - 0
    BY <1>2, <1>3, <2>1, SubSeqFacts
  <2>3. QED
    BY <2>1, <2>2
<1> HIDE DEF t, d, m, r, w
<1>6. /\ r + offset \in Nat /\ (r + offset) + Len(t) <= Len(m)
      /\ offset + Len(t) <= Len(d)
  BY <1>2, <1>3, <1>5
<1>7. /\ p \in Seq(Byte) /\ Len(p) = Len(m)
      /\ \A i \in 1 .. Len(m) :
           p[i] = IF i > r + offset /\ i - (r + offset) <= Len(t)
                  THEN t[i - (r + offset)] ELSE m[i]
  BY <1>2, <1>5, <1>6, PatchedOK
<1> DEFINE q == Patched(d, offset, t)
<1>8. /\ q \in Seq(Byte) /\ Len(q) = Len(d)
      /\ \A i \in 1 .. Len(d) :
           q[i] = IF i > offset /\ i - offset <= Len(t) THEN t[i - offset] ELSE d[i]
  <2>1. d \in Seq(Byte) /\ t \in Seq(Byte) /\ offset \in Nat /\ offset + Len(t) <= Len(d)
    BY <1>2, <1>5, <1>6
  <2>2. QED
    BY ONLY <2>1, PatchedOK
<1> HIDE DEF p, q
<1>9. FieldsOK(f) /\ f.mem = p /\ f.r = r /\ f.w = w
  BY <1>2, <1>7 DEF FieldsOK, Fields
<1>10. SubSeq(p, r + 1, w) = q
  <2> DEFINE x == SubSeq(p, r + 1, w)
  <2>1. x \in Seq(Byte) /\ Len(x) = w - r /\ \A i \in 1 .. w - r : x[i] = p[r + i]
    BY <1>2, <1>7, SubSeqFacts
  <2>2. \A i \in 1 .. w - r : d[i] = m[r + i]
    BY <1>2, SubSeqFacts
  <2> HIDE DEF x
  <2>3. \A i \in 1 .. w - r : x[i] = q[i]
    <3> TAKE i \in 1 .. w - r
    <3>1. /\ r + i \in 1 .. Len(m) /\ (r + i) - (r + offset) = i - offset
          /\ r + i > r + offset <=> i > offset
      BY <1>2
    <3>2. p[r + i] = IF i > offset /\ i - offset <= Len(t)
                     THEN t[i - offset] ELSE m[r + i]
      BY <3>1, <1>7
    <3>3. q[i] = IF i > offset /\ i - offset <= Len(t) THEN t[i - offset] ELSE d[i]
      BY <1>2, <1>8
    <3>4. QED
      BY <3>2, <3>3, <2>1, <2>2
  <2>4. x = q
    BY <1>2, <1>8, <2>1, <2>3, SeqEqual
  <2>5. QED
    BY <2>4 DEF x
<1>11. Held(f) = q /\ Len(f.mem) = Len(mem[b]) /\ f.w - f.r <= Available(b)
  BY <1>2, <1>7, <1>9, <1>10 DEF Held, m
<1> HIDE DEF f
<1>12. IInv' /\ Bytes' = [Bytes EXCEPT ![b] = q]
  BY <1>1, <1>4, <1>9, <1>11, LessOK
<1>13. Queue!QOverwrite(b, offset)
  BY <1>1, <1>12 DEF Bytes, Yes, Reply, Queue!QOverwrite, Queue!Holds,
     Queue!Overwritten, Patched, q, d
<1>14. offset \in 0 .. Len(d)
  BY <1>1, <1>2
<1>15. QED
  BY <1>12, <1>13, <1>14 DEF Queue!QNext, Queue!QOnBytes, Bytes, d

LEMMA StepOK == IInv /\ Next => IInv' /\ Queue!QNext
<1> SUFFICES ASSUME IInv, Next PROVE IInv' /\ Queue!QNext
  OBVIOUS
<1>1. PICK b \in Buffers, c \in Buffers : OnOne(b) \/ OnTwo(b, c)
  BY DEF Next
<1>2. Lens \subseteq Nat
  BY BufferAssumption DEF Lens
<1>3. CASE OnTwo(b, c)
  BY <1>3, WholeSteps, SwapSteps, InsertBufferSteps DEF OnTwo
<1>4. CASE OnOne(b)
  <2>1. CASE \/ CreateFails(b) \/ GetNoLine(b) \/ AskLine(b)
             \/ \E n \in Lens : ReserveFails(b, n) \/ InsertFails(b, n)
    BY <2>1, QuietSteps DEF CreateFails, ReserveFails, InsertFails
  <2>2. CASE DestroyBuffer(b) \/ ClearBuffer(b) \/ \E n \in Lens : CreateBuffer(b, n)
    BY <2>2, WholeSteps
  <2>3. CASE \E n \in Lens : ReserveBuffer(b, n)
    BY <2>3, <1>2, ReserveSteps
  <2>4. CASE \E n \in Lens : AllocFromBuffer(b, n)
    BY <2>4, <1>2, AllocSteps
  <2>5. CASE \E n \in Lens : EraseBuffer(b, n) \/ ReadBufferData(b, n)
    BY <2>5, <1>2, EraseSteps
  <2>6. CASE \E n \in Lens : EraseBufferBack(b, n)
    BY <2>6, <1>2, EraseBackSteps
  <2>7. CASE \E n \in Lens : GetLine(b, n)
    BY <2>7, GetLineSteps
  <2>8. CASE \E s \in Inputs : InsertToBuffer(b, s)
    BY <2>8, InsertSteps
  <2>9. CASE \E s \in Inputs : \E offset \in Lens : ResetBufferData(b, offset, s)
    BY <2>9, <1>2, ResetSteps
  <2>10. QED
    BY <1>4, <2>1, <2>2, <2>3, <2>4, <2>5, <2>6, <2>7, <2>8, <2>9 DEF OnOne
<1>5. QED
  BY <1>1, <1>3, <1>4

LEMMA InitOK == Init => IInv /\ Queue!QInit
<1> SUFFICES ASSUME Init PROVE IInv /\ Queue!QInit
  OBVIOUS
<1>1. <<>> \in Seq(Byte) /\ Len(<<>>) = 0
  BY EmptySeq
<1>2. FieldsOK(Fields(<<>>, 0, 0)) /\ Held(Fields(<<>>, 0, 0)) = <<>>
  BY <1>1, UnwrittenOK
<1>3. \A b \in Buffers : /\ mem[b] = <<>> /\ readCur[b] = 0 /\ writeCur[b] = 0
                        /\ reserved[b] = 0 /\ Data(b) = <<>>
  BY <1>2 DEF Init, Data, Held, Fields
<1>4. IInv
  BY <1>1, <1>3 DEF Init, IInv, TypeOK, CursorsOK, Capacity, Available
<1>5. Queue!QInit
  BY <1>3 DEF Init, Yes, Reply, Queue!QInit, Queue!Yes, Queue!Reply
<1>6. QED
  BY <1>4, <1>5

LEMMA StutterOK ==
  ASSUME IInv, UNCHANGED vars
  PROVE  IInv' /\ UNCHANGED Queue!qvars
<1>1. IInv' /\ Bytes' = Bytes /\ open' = open /\ reply' = reply
  BY QuietOK DEF vars
<1>2. QED
  BY <1>1 DEF Bytes, Queue!qvars

LEMMA Invariance == Spec => []IInv
<1>1. IInv /\ [Next]_vars => IInv'
  BY StepOK, StutterOK
<1>2. QED
  BY <1>1, InitOK, PTL DEF Spec

(* The cursors stay in their block, whatever is called, and what              *)
(* AR_ReserveBuffer promised can be written without memory.                   *)
THEOREM BufferSafety == Spec => []BufferInv
<1>1. IInv => ReservedIsKept
  <2> SUFFICES ASSUME IInv, NEW b \in Buffers, NEW n \in 1 .. reserved[b]
               PROVE  ~NeedsBlock(b, n)
    BY DEF ReservedIsKept
  <2>1. /\ reserved[b] \in Nat /\ reserved[b] <= Capacity(b)
        /\ Capacity(b) \in Nat /\ FreeLen(b) = Capacity(b)
    BY PromiseOK, DataOK DEF IInv
  <2>2. n \in Nat /\ ~(FreeLen(b) < n)
    BY <2>1
  <2>3. QED
    BY <2>2 DEF NeedsBlock
<1>2. IInv => BufferInv
  BY <1>1 DEF IInv, BufferInv
<1>3. QED
  BY <1>2, Invariance, PTL

(* Buffers are queues of bytes: a write, a growth or a move to the front of   *)
(* the block keeps what was held, and what is taken is what was put.          *)
THEOREM BufferRefinement == Spec => ImplementsByteQueue
<1>1. IInv /\ [Next]_vars => [Queue!QNext]_(Queue!qvars)
  BY StepOK, StutterOK
<1>2. QED
  BY <1>1, InitOK, Invariance, PTL DEF Spec, ImplementsByteQueue, Queue!QSpec
===============================================================================
