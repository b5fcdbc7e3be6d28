-------------------------- MODULE LockFreeFifoProofs --------------------------
(***************************************************************************)
(* The lock-free FIFO is safe for every ring size, every width of the      *)
(* cursors the size divides, every head length and every set of payload    *)
(* lengths that fit: the inductive invariant IInv of LockFreeFifo and what *)
(* follows from it.                                                        *)
(*                                                                         *)
(* The argument: seen from rd, the bytes in use have the offsets           *)
(* 0 .. Dist(wr, rd) - 1, and those of the push in progress the offsets    *)
(* from there up to at most Size - 1.  Offsets below Size that differ have *)
(* ring slots that differ (SlotsDiffer), because Size divides W.  So a     *)
(* copy of the producer touches no byte in use, whatever the consumer has  *)
(* done to rd since the space check, and the consumer, which only reads    *)
(* the first message, finds it as it was published.                        *)
(*                                                                         *)
(* After the lemmas come the results: the invariant holds, each safety     *)
(* property of LockFreeFifo follows from it, and every step of the FIFO is *)
(* a step of MsgFifo or a stutter.  The last part is about the program     *)
(* main.c builds (ShmFifo): when a process starts only while the other one *)
(* is in no call, kills at any point and restarts keep the invariant, so   *)
(* the ring keeps its messages and the receiver sees only heads the sender *)
(* wrote.  Each of their steps is a step of ShmQueue: a kill costs no      *)
(* published message, a start exactly those that nobody has got.           *)
(***************************************************************************)
EXTENDS ShmFifo, ByteRingProofs

-------------------------------------------------------------------------------
(* Cursors and ring slots.                                                 *)

\* Around the ring once.
Wrap(x) == IF x < Size THEN x ELSE x - Size

\* A cursor moved by at most Size has its index moved around the ring, also
\* where the cursor wraps.
LEMMA IndexAdvance ==
    ASSUME NEW c \in Cursor, NEW k \in 0 .. Size
    PROVE  /\ Index(c) \in Slot
           /\ Index(Advance(c, k)) = Wrap(Index(c) + k)
<1> DEFINE q == c \div Size
           r == c % Size
           v == W \div Size
           x == Wrap(r + k)
           a == Advance(c, k)
<1>1. Size \in Nat \ {0} /\ W \in Nat /\ W % Size = 0 /\ 2 * Size <= W
  BY LenAssumption, SizeAssumption
<1>2. c \in Nat /\ c < W BY <1>1 DEF Cursor
<1>3. q \in Nat /\ r \in Slot /\ c = Size * q + r BY <1>2, Quotient
<1>4. v \in Nat /\ W = Size * v BY <1>1, Quotient
<1> HIDE DEF q, r, v
<1>5. a \in Nat /\ (a = c + k \/ a = c + k - W)
  BY <1>1, <1>2 DEF Advance
<1>6. x \in Slot /\ (x = r + k \/ x = r + k - Size)
  BY <1>1, <1>3 DEF Wrap, Slot
<1> HIDE DEF a, x
<1>7. \E s \in Int : a = Size * s + x
  <2>1. Size * (q + 1) = Size * q + Size BY <1>1, <1>3
  <2>2. Size * (q - v) = Size * q - Size * v BY <1>1, <1>3, <1>4
  <2>3. Size * (q - v + 1) = Size * q - Size * v + Size BY <1>1, <1>3, <1>4
  <2> DEFINE A == Size * q
             B == Size * v
  <2>4. A \in Int /\ B \in Int BY <1>1, <1>3, <1>4
  <2>5. CASE a = c + k /\ x = r + k
    <3>1. a = Size * q + x BY <2>5, <2>4, <1>1, <1>3 DEF Slot
    <3> QED BY <3>1, <1>3
  <2>6. CASE a = c + k /\ x = r + k - Size
    <3> HIDE DEF A, B
    <3>1. a = A + Size + x BY <2>6, <2>4, <1>1, <1>3 DEF Slot, A
    <3>2. a = Size * (q + 1) + x BY <3>1, <2>1 DEF A
    <3> QED BY <3>2, <1>3
  <2>7. CASE a = c + k - W /\ x = r + k
    <3>1. a = A - B + x BY <2>7, <2>4, <1>1, <1>3, <1>4 DEF Slot
    <3>2. a = Size * (q - v) + x BY <3>1, <2>2
    <3> QED BY <3>2, <1>3, <1>4
  <2>8. CASE a = c + k - W /\ x = r + k - Size
    <3>1. a = A - B + Size + x BY <2>8, <2>4, <1>1, <1>3, <1>4 DEF Slot
    <3>2. a = Size * (q - v + 1) + x BY <3>1, <2>3
    <3> QED BY <3>2, <1>3, <1>4
  <2> QED BY <2>5, <2>6, <2>7, <2>8, <1>5, <1>6
<1>8. a % Size = x BY <1>5, <1>6, <1>7, RemainderUnique
<1> QED BY <1>3, <1>8 DEF Index, r, a, x

\* Cursor arithmetic is offset arithmetic as long as it stays below W.
LEMMA CursorArithmetic ==
    ASSUME NEW a \in Cursor, NEW b \in Cursor
    PROVE  /\ Dist(a, b) \in 0 .. W - 1
           /\ Dist(a, a) = 0
           /\ Dist(a, b) = 0 => a = b
           /\ a = Advance(b, Dist(a, b))
           /\ \A n \in 0 .. W - 1 : Advance(a, n) \in Cursor
           /\ \A n \in 0 .. W - 1 : Dist(a, b) + n < W =>
                Dist(Advance(a, n), b) = Dist(a, b) + n
           /\ \A n \in 0 .. Dist(a, b) : Dist(a, Advance(b, n)) = Dist(a, b) - n
           /\ \A n, k \in 0 .. W - 1 : n + k < W =>
                Advance(Advance(a, n), k) = Advance(a, n + k)
BY SizeAssumption, LenAssumption DEF Cursor, Dist, Advance

\* Different offsets below Size have different slots.
LEMMA SlotsDiffer ==
    ASSUME NEW r \in Slot, NEW x \in 0 .. Size - 1, NEW y \in 0 .. Size - 1,
           Wrap(r + x) = Wrap(r + y)
    PROVE  x = y
BY LenAssumption DEF Slot, Wrap

\* A copy that starts at the index of a cursor goes to the slots the cursor
\* passes, in one piece or in two.
LEMMA CopyFollowsCursor ==
    ASSUME NEW c \in Cursor, NEW straight \in BOOLEAN,
           NEW n \in 0 .. Size, NEW k \in 0 .. n - 1,
           straight => Index(c) + n <= Size
    PROVE  CopySlot(Index(c), straight, k) = Index(Advance(c, k))
<1>1. k \in 0 .. Size BY LenAssumption
<1>2. Index(c) \in Slot /\ Index(Advance(c, k)) = Wrap(Index(c) + k)
  BY <1>1, IndexAdvance
<1> QED BY <1>2, LenAssumption DEF CopySlot, Wrap, Slot

\* And so does the second copy of a call, which starts where the first, of h
\* bytes, ended.
LEMMA SecondCopyFollowsCursor ==
    ASSUME NEW c \in Cursor, NEW straight \in BOOLEAN,
           NEW h \in 0 .. Size, NEW n \in 0 .. Size, h + n <= Size,
           straight => Index(c) + h + n <= Size
    PROVE  /\ CopyFits(Index(c), straight, h)
           /\ CopyFits(AfterCopy(Index(c), straight, h), straight, n)
           /\ \A k \in 0 .. n - 1 :
                CopySlot(AfterCopy(Index(c), straight, h), straight, k) = Index(Advance(c, h + k))
<1>1. Index(c) \in Slot BY IndexAdvance, LenAssumption
<1>2. ASSUME NEW k \in 0 .. n - 1
      PROVE  CopySlot(AfterCopy(Index(c), straight, h), straight, k) = Index(Advance(c, h + k))
  <2>1. h + k \in 0 .. Size BY LenAssumption
  <2>2. Index(Advance(c, h + k)) = Wrap(Index(c) + (h + k)) BY <2>1, IndexAdvance
  <2> QED BY <1>1, <2>1, <2>2, LenAssumption DEF CopySlot, AfterCopy, Wrap, Slot
<1>3. CopyFits(Index(c), straight, h) /\ CopyFits(AfterCopy(Index(c), straight, h), straight, n)
  BY <1>1, LenAssumption DEF CopyFits, AfterCopy, Slot
<1> QED BY <1>2, <1>3

-------------------------------------------------------------------------------
(* Where the bytes in use and the bytes of a push are.                     *)

\* The bytes of the unread messages, at their offsets from rd.
LEMMA UsedSlots ==
    ASSUME TypeOK, Layout, NEW i \in DOMAIN queue
    PROVE  /\ queue[i].msg \in Message /\ queue[i].start \in Cursor
           /\ Total(queue[i].msg) \in 1 .. Size
           /\ Offset(i) \in Nat /\ Ends(i) <= Dist(wr, rd)
           /\ \A k \in 0 .. Total(queue[i].msg) - 1 :
                /\ Offset(i) + k < Dist(wr, rd)
                /\ Index(Advance(queue[i].start, k)) = Wrap(Index(rd) + (Offset(i) + k))
<1> DEFINE m == queue[i].msg
           c == queue[i].start
           d == Offset(i)
           u == Dist(wr, rd)
<1>1. m \in Message /\ c \in Cursor /\ rd \in Cursor /\ wr \in Cursor
  <2> DEFINE S == [msg : Message, start : Cursor]
  <2>1. queue \in Seq(S) BY DEF TypeOK
  <2> HIDE DEF S
  <2>2. i \in 1 .. Len(queue) BY <2>1, LenProperties
  <2>3. queue[i] \in S BY <2>1, <2>2, ElementOfSeq
  <2> QED BY <2>3 DEF S, TypeOK
<1>2. Total(m) \in 1 .. Size BY <1>1, MessageIsBytes, LenAssumption
<1>3. u \in Nat /\ u <= Size
  <2>1. Reserved \in Nat BY MessageIsBytes, LenAssumption DEF TypeOK, Reserved
  <2> QED BY <1>1, <2>1, CursorArithmetic, LenAssumption DEF Layout
<1>4. d \in 0 .. W - 1 /\ c = Advance(rd, d) BY <1>1, CursorArithmetic DEF Offset
<1>5. d + Total(m) <= u BY DEF Layout, Ends
<1> HIDE DEF m, c, d, u
<1>6. ASSUME NEW k \in 0 .. Total(m) - 1
      PROVE  d + k < u /\ Index(Advance(c, k)) = Wrap(Index(rd) + (d + k))
  <2>1. d + k < u /\ d + k \in 0 .. Size /\ d + k < W /\ k \in 0 .. W - 1
    BY <1>2, <1>3, <1>4, <1>5, LenAssumption, SizeAssumption
  <2>2. Advance(c, k) = Advance(rd, d + k)
    BY <1>1, <1>4, <2>1, CursorArithmetic
  <2> QED BY <1>1, <2>1, <2>2, IndexAdvance
<1>7. Ends(i) <= Dist(wr, rd) BY DEF Layout
<1> QED BY <1>1, <1>2, <1>4, <1>6, <1>7 DEF m, c, d, u

\* The bytes of a push in progress come after them, and still below Size.
LEMMA PushSlots ==
    ASSUME TypeOK, Layout, ppc # "idle"
    PROVE  /\ pmsg \in Message /\ Total(pmsg) \in 1 .. Size
           /\ Dist(wr, rd) + Total(pmsg) <= Size
           /\ Dist(wr, rd) \in Nat
           /\ \A k \in 0 .. Total(pmsg) - 1 :
                /\ Dist(wr, rd) + k < Size
                /\ Index(Advance(wr, k)) = Wrap(Index(rd) + (Dist(wr, rd) + k))
<1> DEFINE d == Dist(wr, rd)
<1>1. pmsg \in Message /\ rd \in Cursor /\ wr \in Cursor BY DEF TypeOK
<1>2. Total(pmsg) \in 1 .. Size BY <1>1, MessageIsBytes, LenAssumption
<1>3. d + Total(pmsg) <= Size BY DEF Layout, Reserved
<1>4. d \in 0 .. W - 1 /\ wr = Advance(rd, d) BY <1>1, CursorArithmetic
<1> HIDE DEF d
<1>5. ASSUME NEW k \in 0 .. Total(pmsg) - 1
      PROVE  d + k < Size /\ Index(Advance(wr, k)) = Wrap(Index(rd) + (d + k))
  <2>1. d + k < Size /\ d + k \in 0 .. Size /\ d + k < W /\ k \in 0 .. W - 1
    BY <1>1, <1>2, <1>3, <1>4, LenAssumption, SizeAssumption
  <2>2. Advance(wr, k) = Advance(rd, d + k)
    BY <1>1, <1>4, <2>1, CursorArithmetic
  <2> QED BY <1>1, <2>1, <2>2, IndexAdvance
<1> QED BY <1>1, <1>2, <1>3, <1>4, <1>5 DEF d

\* So the two never share a slot, ...
LEMMA PushAvoidsUsed ==
    ASSUME TypeOK, Layout, ppc # "idle",
           NEW i \in DOMAIN queue,
           NEW k \in 0 .. Total(queue[i].msg) - 1, NEW j \in 0 .. Total(pmsg) - 1
    PROVE  Index(Advance(queue[i].start, k)) # Index(Advance(wr, j))
<1> DEFINE x == Offset(i) + k
           y == Dist(wr, rd) + j
           r == Index(rd)
<1>1. Index(Advance(queue[i].start, k)) = Wrap(r + x) /\ x < Dist(wr, rd) /\ x \in Nat
  BY UsedSlots
<1>2. Index(Advance(wr, j)) = Wrap(r + y) /\ y < Size /\ y \in Nat /\ Dist(wr, rd) <= y
  BY PushSlots
<1>3. r \in Slot BY IndexAdvance, LenAssumption DEF TypeOK
<1>4. Dist(wr, rd) \in Nat BY PushSlots
<1> HIDE DEF x, y, r
<1>5. x \in 0 .. Size - 1 /\ y \in 0 .. Size - 1 /\ x # y
  BY <1>1, <1>2, <1>4, LenAssumption
<1> QED BY <1>1, <1>2, <1>3, <1>5, SlotsDiffer

\* ... nor do two bytes of the push.
LEMMA PushBytesApart ==
    ASSUME TypeOK, Layout, ppc # "idle",
           NEW j \in 0 .. Total(pmsg) - 1, NEW k \in 0 .. Total(pmsg) - 1, j # k
    PROVE  Index(Advance(wr, j)) # Index(Advance(wr, k))
<1> DEFINE x == Dist(wr, rd) + j
           y == Dist(wr, rd) + k
           r == Index(rd)
<1>1. Index(Advance(wr, j)) = Wrap(r + x) /\ x < Size
      /\ Index(Advance(wr, k)) = Wrap(r + y) /\ y < Size
  BY PushSlots
<1>2. x \in Nat /\ y \in Nat /\ x # y BY PushSlots
<1>3. r \in Slot BY IndexAdvance, LenAssumption DEF TypeOK
<1> HIDE DEF x, y, r
<1>4. x \in 0 .. Size - 1 /\ y \in 0 .. Size - 1 BY <1>1, <1>2, LenAssumption
<1> QED BY <1>1, <1>2, <1>3, <1>4, SlotsDiffer

-------------------------------------------------------------------------------
(* The invariant holds initially and the producer keeps it.                *)

\* A FIFO that was just created satisfies the invariant.
LEMMA InitInvariant == Init => IInv
<1> SUFFICES ASSUME Init PROVE IInv OBVIOUS
<1>1. 0 \in Cursor /\ Dist(0, 0) = 0
  BY SizeAssumption, LenAssumption DEF Cursor, Dist
<1>2. TypeOK
  <2>1. <<>> \in Seq(Cell) /\ <<>> \in Seq([msg : Message, start : Cursor])
    BY EmptySeq
  <2>2. [s \in Slot |-> NoByte] \in [Slot -> Cell] BY DEF Cell
  <2>3. pat \in 0 .. Size /\ cat \in 0 .. Size BY LenAssumption DEF Init
  <2> QED BY <1>1, <2>1, <2>2, <2>3 DEF Init, TypeOK, Pc
<1>3. Layout
  BY <1>1, LenAssumption DEF Init, Layout, Reserved
<1>4. Contents /\ PushInProgress /\ GetInProgress
  BY DEF Init, Contents, PushInProgress, GetInProgress
<1> QED BY <1>2, <1>3, <1>4 DEF IInv

\* A push that finds room only remembers its cursors.
LEMMA PushCheckKeeps ==
    ASSUME IInv, NEW m \in Message, PushCheck(m)
    PROVE  IInv'
<1>1. TypeOK'
  BY DEF IInv, TypeOK, PushCheck, consumerVars, Pc
<1>2. Layout'
  <2>1. Dist(wr, rd) + Total(m) <= Size
    <3>1. Dist(wr, rd) \in Int /\ Total(m) \in Int
      BY CursorArithmetic, MessageIsBytes, LenAssumption, SizeAssumption DEF IInv, TypeOK
    <3> QED BY <3>1, LenAssumption DEF PushCheck, FreeSpace
  <2>2. (Dist(wr, rd) + Reserved <= Size)'
    BY <2>1 DEF PushCheck, Reserved
  <2> QED BY <2>2 DEF IInv, Layout, PushCheck, consumerVars, Offset, Ends
<1>3. Contents' /\ GetInProgress'
  BY DEF IInv, Contents, GetInProgress, Holds, PushCheck, consumerVars
<1>4. PushInProgress'
  BY DEF PushInProgress, PushCheck
<1> QED BY <1>1, <1>2, <1>3, <1>4 DEF IInv

\* A push that finds no room for head and payload writes nothing.
LEMMA PushFullKeeps ==
    ASSUME IInv, NEW m \in Message, PushFull(m)
    PROVE  IInv'
<1>1. TypeOK'
  BY DEF IInv, TypeOK, PushFull, producerVars, consumerVars
<1>2. Layout' /\ Contents' /\ PushInProgress' /\ GetInProgress'
  BY DEF IInv, Layout, Reserved, Offset, Ends, Contents, Holds, PushInProgress,
         GetInProgress, PushFull, producerVars, consumerVars
<1> QED BY <1>1, <1>2 DEF IInv

\* The branch is chosen with a fresh rd: below it, what was found free by the
\* space check is still in one piece.
LEMMA PushIndexKeeps ==
    ASSUME IInv, PushIndex
    PROVE  IInv'
<1> USE DEF IInv
<1>1. wr \in Cursor /\ rd \in Cursor /\ Index(wr) \in Slot /\ Index(rd) \in Slot
  BY IndexAdvance, LenAssumption DEF TypeOK
<1>2. TypeOK'
  BY <1>1, LenAssumption DEF TypeOK, PushIndex, consumerVars, Pc, Slot
<1>3. Layout'
  BY DEF Layout, Reserved, Offset, Ends, PushIndex, consumerVars
<1>4. Contents' /\ GetInProgress'
  BY DEF Contents, GetInProgress, Holds, PushIndex, consumerVars
<1>5. Index(wr) < Index(rd) => Index(wr) + Total(pmsg) <= Size
  <2> DEFINE u == Dist(wr, rd)
  <2>1. u \in Nat /\ Total(pmsg) \in 1 .. Size /\ u + Total(pmsg) <= Size
    BY PushSlots DEF PushIndex
  <2>2. Index(wr) = Wrap(Index(rd) + u)
    <3>1. wr = Advance(rd, u) BY <1>1, CursorArithmetic
    <3> HIDE DEF u
    <3>2. u \in 0 .. Size BY <2>1, LenAssumption
    <3> QED BY <3>1, <3>2, <1>1, IndexAdvance
  <2> HIDE DEF u
  <2> QED BY <1>1, <2>1, <2>2, LenAssumption DEF Wrap, Slot
<1>6. PushInProgress'
  BY <1>5 DEF PushInProgress, PushIndex, Holds
<1> QED BY <1>2, <1>3, <1>4, <1>6

\* A copy to the slots of a push leaves the unread messages alone.
LEMMA CopyKeepsContents ==
    ASSUME TypeOK, Layout, Contents, ppc # "idle", UNCHANGED queue,
           \A s \in Slot :
             s \notin {Index(Advance(wr, j)) : j \in 0 .. Total(pmsg) - 1} => buffer'[s] = buffer[s]
    PROVE  Contents'
<1> SUFFICES ASSUME NEW i \in DOMAIN queue, NEW k \in 0 .. Total(queue[i].msg) - 1
             PROVE  buffer'[Index(Advance(queue[i].start, k))] = <<queue[i].msg, k>>
  BY DEF Contents, Holds
<1> DEFINE s == Index(Advance(queue[i].start, k))
<1>1. s \in Slot
  <2>1. queue[i].start \in Cursor /\ Total(queue[i].msg) \in 1 .. Size BY UsedSlots
  <2>2. k \in 0 .. W - 1 BY <2>1, LenAssumption, SizeAssumption
  <2>3. Advance(queue[i].start, k) \in Cursor BY <2>1, <2>2, CursorArithmetic
  <2> QED BY <2>3, IndexAdvance, LenAssumption
<1>2. s \notin {Index(Advance(wr, j)) : j \in 0 .. Total(pmsg) - 1}
  BY PushAvoidsUsed
<1>3. buffer[s] = <<queue[i].msg, k>> BY DEF Contents, Holds
<1> QED BY <1>1, <1>2, <1>3

\* The head goes into free bytes and is not published yet.
LEMMA PushHeadKeeps ==
    ASSUME IInv, PushHead
    PROVE  IInv'
<1> USE DEF IInv
<1> DEFINE h == HeadLen
           n == pmsg.len
           t == Total(pmsg)
<1>1. /\ wr \in Cursor /\ pmsg \in Message /\ pstraight \in BOOLEAN
      /\ h \in 1 .. Size /\ n \in Nat /\ t = h + n /\ t <= Size
      /\ pat = Index(wr) /\ (pstraight => Index(wr) + t <= Size)
  <2>1. pmsg \in Message /\ t \in 1 .. Size BY PushSlots DEF PushHead
  <2>2. n \in Nat /\ t = h + n BY <2>1, MessageIsBytes DEF Total
  <2> QED BY <2>1, <2>2, LenAssumption DEF TypeOK, PushInProgress, PushHead
<1>2. h \in 0 .. Size /\ n \in 0 .. Size /\ h + n <= Size /\ Index(wr) \in Slot
      /\ (pstraight => Index(wr) + h + n <= Size) /\ (pstraight => Index(wr) + h <= Size)
  BY <1>1, IndexAdvance, LenAssumption DEF Slot
<1>3. CopyFits(pat, pstraight, h) /\ CopyFits(AfterCopy(pat, pstraight, h), pstraight, n)
  BY <1>1, <1>2, SecondCopyFollowsCursor
<1>4. /\ buffer' \in [Slot -> Cell]
      /\ \A k \in 0 .. h - 1 : buffer'[CopySlot(pat, pstraight, k)] = HeadBytes(pmsg)[k + 1]
      /\ \A s \in Slot : s \notin CopySlots(pat, pstraight, h) => buffer'[s] = buffer[s]
  <2>1. HeadBytes(pmsg) \in Seq(Cell) /\ Len(HeadBytes(pmsg)) = h BY <1>1, MessageIsBytes
  <2>2. buffer \in [Slot -> Cell] /\ buffer' = Written(buffer, HeadBytes(pmsg), pat, pstraight)
    BY DEF TypeOK, PushHead
  <2> QED BY <2>1, <2>2, <1>3, WrittenBytes
<1>5. \A k \in 0 .. h - 1 : CopySlot(pat, pstraight, k) = Index(Advance(wr, k))
  BY <1>1, <1>2, CopyFollowsCursor
<1>6. CopySlots(pat, pstraight, h) \subseteq {Index(Advance(wr, j)) : j \in 0 .. t - 1}
  <2>1. \A k \in 0 .. h - 1 : k \in 0 .. t - 1 BY <1>1
  <2> HIDE DEF h, t
  <2> QED BY <2>1, <1>5 DEF CopySlots
<1>7. Holds(wr, pmsg, h)'
  <2>1. \A k \in 0 .. h - 1 : HeadBytes(pmsg)[k + 1] = <<pmsg, k>>
    BY <1>1, LenAssumption DEF HeadBytes
  <2>2. \A k \in 0 .. h - 1 : buffer'[Index(Advance(wr, k))] = <<pmsg, k>>
    BY <2>1, <1>4, <1>5
  <2> QED BY <2>2 DEF Holds, PushHead
<1>8. TypeOK'
  <2>1. pat' \in 0 .. Size BY <1>3 DEF PushHead, CopyFits
  <2> QED BY <1>4, <2>1 DEF TypeOK, PushHead, consumerVars, Pc
<1>9. Layout'
  BY DEF Layout, Reserved, Offset, Ends, PushHead, consumerVars
<1>10. Contents'
  <2>1. \A s \in Slot : s \notin {Index(Advance(wr, j)) : j \in 0 .. t - 1} => buffer'[s] = buffer[s]
    BY <1>4, <1>6
  <2> QED BY <2>1, CopyKeepsContents DEF PushHead
<1>11. PushInProgress'
  BY <1>1, <1>7 DEF PushInProgress, PushHead
<1>12. GetInProgress'
  BY DEF GetInProgress, PushHead, consumerVars
<1> QED BY <1>8, <1>9, <1>10, <1>11, <1>12

\* So does the payload, behind the head.
LEMMA PushPayloadKeeps ==
    ASSUME IInv, PushPayload
    PROVE  IInv'
<1> USE DEF IInv
<1> DEFINE h == HeadLen
           n == pmsg.len
           t == Total(pmsg)
<1>1. /\ wr \in Cursor /\ pmsg \in Message /\ pstraight \in BOOLEAN
      /\ h \in 1 .. Size /\ n \in Nat /\ t = h + n /\ t <= Size
      /\ pat = AfterCopy(Index(wr), pstraight, h)
      /\ (pstraight => Index(wr) + t <= Size)
      /\ Holds(wr, pmsg, h)
  <2>1. pmsg \in Message /\ t \in 1 .. Size BY PushSlots DEF PushPayload
  <2>2. n \in Nat /\ t = h + n BY <2>1, MessageIsBytes DEF Total
  <2> QED BY <2>1, <2>2, LenAssumption DEF TypeOK, PushInProgress, PushPayload
<1>2. h \in 0 .. Size /\ n \in 0 .. Size /\ h + n <= Size /\ Index(wr) \in Slot
      /\ (pstraight => Index(wr) + h + n <= Size)
  BY <1>1, IndexAdvance, LenAssumption DEF Slot
<1>3. /\ CopyFits(pat, pstraight, n)
      /\ \A k \in 0 .. n - 1 : CopySlot(pat, pstraight, k) = Index(Advance(wr, h + k))
  BY <1>1, <1>2, SecondCopyFollowsCursor
<1>4. /\ buffer' \in [Slot -> Cell]
      /\ \A k \in 0 .. n - 1 : buffer'[CopySlot(pat, pstraight, k)] = PayloadBytes(pmsg)[k + 1]
      /\ \A s \in Slot : s \notin CopySlots(pat, pstraight, n) => buffer'[s] = buffer[s]
  <2>1. PayloadBytes(pmsg) \in Seq(Cell) /\ Len(PayloadBytes(pmsg)) = n
    BY <1>1, MessageIsBytes
  <2>2. buffer \in [Slot -> Cell] /\ buffer' = Written(buffer, PayloadBytes(pmsg), pat, pstraight)
    BY DEF TypeOK, PushPayload
  <2> QED BY <2>1, <2>2, <1>3, WrittenBytes
<1>5. \A s \in CopySlots(pat, pstraight, n) :
         \E k \in 0 .. n - 1 : s = Index(Advance(wr, h + k))
  BY <1>3 DEF CopySlots
<1>6. CopySlots(pat, pstraight, n) \subseteq {Index(Advance(wr, j)) : j \in 0 .. t - 1}
  <2>1. \A k \in 0 .. n - 1 : h + k \in 0 .. t - 1 BY <1>1
  <2> HIDE DEF h, n, t
  <2> QED BY <2>1, <1>5
<1>7. Holds(wr, pmsg, t)'
  <2> SUFFICES ASSUME NEW k \in 0 .. t - 1
               PROVE  buffer'[Index(Advance(wr, k))] = <<pmsg, k>>
    BY DEF Holds, PushPayload
  <2>1. CASE k >= h
    <3> DEFINE j == k - h
    <3>1. j \in 0 .. n - 1 /\ h + j = k /\ j + 1 \in 1 .. n BY <2>1, <1>1
    <3>2. PayloadBytes(pmsg)[j + 1] = <<pmsg, h + (j + 1) - 1>>
      BY <3>1 DEF PayloadBytes
    <3>3. h + (j + 1) - 1 = k BY <3>1, <1>1
    <3>4. CopySlot(pat, pstraight, j) = Index(Advance(wr, k)) BY <3>1, <1>3
    <3>5. buffer'[CopySlot(pat, pstraight, j)] = PayloadBytes(pmsg)[j + 1] BY <3>1, <1>4
    <3> HIDE DEF j, h
    <3> QED BY <3>2, <3>3, <3>4, <3>5
  <2>2. CASE k < h
    <3>1. buffer[Index(Advance(wr, k))] = <<pmsg, k>>
      BY <2>2, <1>1 DEF Holds
    <3>2. Index(Advance(wr, k)) \in Slot
      <4>1. k \in 0 .. W - 1 BY <1>1, LenAssumption, SizeAssumption
      <4>2. Advance(wr, k) \in Cursor BY <4>1, <1>1, CursorArithmetic
      <4> QED BY <4>2, IndexAdvance, LenAssumption
    <3>3. \A j \in 0 .. n - 1 : h + j \in 0 .. t - 1 /\ h + j # k BY <2>2, <1>1
    <3>4. \A j \in 0 .. n - 1 : Index(Advance(wr, k)) # Index(Advance(wr, h + j))
      <4> TAKE j \in 0 .. n - 1
      <4>1. h + j \in 0 .. t - 1 /\ h + j # k BY <3>3
      <4> HIDE DEF h, n
      <4> DEFINE x == h + j
      <4>2. x \in 0 .. t - 1 /\ x # k BY <4>1
      <4> HIDE DEF x
      <4>3. Index(Advance(wr, k)) # Index(Advance(wr, x)) BY <4>2, PushBytesApart DEF PushPayload
      <4> QED BY <4>3 DEF x
    <3>5. Index(Advance(wr, k)) \notin CopySlots(pat, pstraight, n) BY <3>4, <1>5
    <3> QED BY <3>1, <3>2, <3>5, <1>4
  <2> QED BY <2>1, <2>2, <1>1
<1>8. TypeOK'
  <2>1. pat' \in 0 .. Size
    BY <1>3, LenAssumption DEF PushPayload, CopyFits, AfterCopy
  <2> QED BY <1>4, <2>1 DEF TypeOK, PushPayload, consumerVars, Pc
<1>9. Layout'
  BY DEF Layout, Reserved, Offset, Ends, PushPayload, consumerVars
<1>10. Contents'
  <2>1. \A s \in Slot : s \notin {Index(Advance(wr, j)) : j \in 0 .. t - 1} => buffer'[s] = buffer[s]
    BY <1>4, <1>6
  <2> QED BY <2>1, CopyKeepsContents DEF PushPayload
<1>11. PushInProgress'
  BY <1>7 DEF PushInProgress, PushPayload
<1>12. GetInProgress'
  BY DEF GetInProgress, PushPayload, consumerVars
<1> QED BY <1>8, <1>9, <1>10, <1>11, <1>12

\* Publishing turns the bytes of the push into the last unread message.
LEMMA PushPublishKeeps ==
    ASSUME IInv, PushPublish
    PROVE  IInv'
<1> USE DEF IInv
<1> DEFINE t == Total(pmsg)
           u == Dist(wr, rd)
           L == Len(queue)
           e == [msg |-> pmsg, start |-> wr]
           S == [msg : Message, start : Cursor]
<1>1. /\ wr \in Cursor /\ rd \in Cursor /\ pmsg \in Message /\ queue \in Seq(S)
      /\ t \in 1 .. Size /\ u \in Nat /\ u + t <= Size
      /\ Holds(wr, pmsg, t)
  BY PushSlots DEF TypeOK, PushPublish, PushInProgress
<1>2. t \in 0 .. W - 1 /\ u + t < W BY <1>1, LenAssumption, SizeAssumption
<1>3. wr' = Advance(wr, t) /\ wr' \in Cursor /\ rd' = rd /\ Dist(wr', rd) = u + t
  BY <1>1, <1>2, CursorArithmetic DEF PushPublish
<1>4. /\ queue' = Append(queue, e) /\ e \in S /\ L \in Nat
      /\ queue' \in Seq(S) /\ Len(queue') = L + 1 /\ DOMAIN queue' = 1 .. L + 1
      /\ DOMAIN queue = 1 .. L
      /\ \A i \in 1 .. L : queue'[i] = queue[i]
      /\ queue'[L + 1] = e
  <2>1. queue' = Append(queue, e) /\ e \in S BY <1>1 DEF PushPublish
  <2> HIDE DEF e, S
  <2>2. L \in Nat /\ DOMAIN queue = 1 .. L BY <1>1, LenProperties
  <2> QED BY <2>1, <2>2, <1>1
<1>5. e.msg = pmsg /\ e.start = wr OBVIOUS
<1>6. \A i \in 1 .. L : Offset(i)' = Offset(i) /\ Ends(i)' = Ends(i)
  BY <1>3, <1>4 DEF Offset, Ends
<1>7. ASSUME NEW i, i = L + 1
      PROVE  Offset(i)' = u /\ Ends(i)' = u + t
  <2>1. queue'[i].msg = pmsg /\ queue'[i].start = wr BY <1>4, <1>5, <1>7
  <2>2. Offset(i)' = u BY <2>1, <1>3 DEF Offset
  <2>3. Ends(i)' = u + t BY <2>1, <2>2 DEF Ends
  <2> QED BY <2>2, <2>3
<1>8. \A i \in 1 .. L : Ends(i) \in Nat /\ Ends(i) <= u
  <2> TAKE i \in 1 .. L
  <2>1. i \in DOMAIN queue BY <1>4
  <2>2. Ends(i) <= u /\ Offset(i) \in Nat /\ Total(queue[i].msg) \in 1 .. Size
    BY <2>1, UsedSlots
  <2> QED BY <2>2, LenAssumption DEF Ends
<1>9. TypeOK'
  <2>1. ppc' = "idle" /\ pmsg' = NoMessage /\ pat' = 0 /\ pstraight' = FALSE
        /\ pushRes' = <<"ok">> /\ buffer' = buffer /\ cpc' = cpc /\ got' = got
        /\ glen' = glen /\ cat' = cat /\ cstraight' = cstraight /\ getRes' = getRes
    BY DEF PushPublish, consumerVars
  <2>2. wr' \in Cursor /\ rd' = rd BY <1>3
  <2>3. queue' \in Seq([msg : Message, start : Cursor]) BY <1>4
  <2>4. 0 \in 0 .. Size BY LenAssumption
  <2> HIDE DEF e, S, t, u, L
  <2> QED BY <2>1, <2>2, <2>3, <2>4 DEF TypeOK, Pc
<1>10. Layout'
  <2>1. (Dist(wr, rd) + Reserved <= Size)'
    BY <1>1, <1>3 DEF PushPublish, Reserved
  <2>2. queue' # <<>> BY <1>4
  <2>3. queue'[1].start = rd'
    <3>1. CASE queue = <<>>
      <4>1. L = 0 /\ wr = rd BY <3>1 DEF Layout
      <4> QED BY <4>1, <1>3, <1>4, <1>5
    <3>2. CASE queue # <<>>
      <4>1. 1 \in 1 .. L BY <3>2, <1>1, <1>4, EmptySeq
      <4> QED BY <4>1, <3>2, <1>3, <1>4 DEF Layout
    <3> QED BY <3>1, <3>2
  <2>4. \A i \in 1 .. L + 1 : Ends(i)' <= u + t
    <3> TAKE i \in 1 .. L + 1
    <3> HIDE DEF u, t, L
    <3>1. i \in 1 .. L \/ i = L + 1 BY <1>4
    <3>2. CASE i \in 1 .. L
      <4>1. Ends(i)' = Ends(i) /\ Ends(i) \in Nat /\ Ends(i) <= u BY <3>2, <1>6, <1>8
      <4> HIDE DEF Ends
      <4> QED BY <4>1, <1>1
    <3>3. CASE i = L + 1
      <4>1. Ends(i)' = u + t BY <3>3, <1>7
      <4> QED BY <4>1, <1>1
    <3> QED BY <3>1, <3>2, <3>3
  <2>5. \A i, j \in 1 .. L + 1 : i < j => Ends(i)' <= Offset(j)'
    <3> TAKE i, j \in 1 .. L + 1
    <3> HAVE i < j
    <3> HIDE DEF u, t, L
    <3>1. i \in 1 .. L /\ (j \in 1 .. L \/ j = L + 1) BY <1>4
    <3>2. CASE j \in 1 .. L
      <4>1. Ends(i) <= Offset(j) BY <3>1, <3>2, <1>4 DEF Layout
      <4>2. Ends(i)' = Ends(i) /\ Offset(j)' = Offset(j) BY <3>1, <3>2, <1>6
      <4> QED BY <4>1, <4>2
    <3>3. CASE j = L + 1
      <4>1. Ends(i)' = Ends(i) /\ Ends(i) <= u BY <3>1, <1>6, <1>8
      <4>2. Offset(j)' = u BY <3>3, <1>7
      <4> QED BY <4>1, <4>2
    <3> QED BY <3>1, <3>2, <3>3
  <2>6. \A i \in 1 .. L + 1 :
           Advance(queue'[i].start, Total(queue'[i].msg)) =
             IF i = L + 1 THEN wr' ELSE queue'[i + 1].start
    <3> TAKE i \in 1 .. L + 1
    <3>1. CASE i = L + 1 BY <3>1, <1>3, <1>4, <1>5
    <3>2. CASE i \in 1 .. L
      <4>1. Advance(queue[i].start, Total(queue[i].msg)) =
              IF i = L THEN wr ELSE queue[i + 1].start
        BY <3>2, <1>4 DEF Layout
      <4> HIDE DEF L, e
      <4>2. i # L + 1 /\ queue'[i] = queue[i] BY <3>2, <1>4
      <4>3. CASE i = L
        <5>1. queue'[i + 1].start = wr BY <4>3, <1>4, <1>5
        <5> QED BY <4>1, <4>2, <4>3, <5>1
      <4>4. CASE i # L
        <5>1. i + 1 \in 1 .. L BY <3>2, <4>4, <1>4
        <5>2. queue'[i + 1] = queue[i + 1] BY <5>1, <1>4
        <5> QED BY <4>1, <4>2, <4>4, <5>2
      <4> QED BY <4>3, <4>4
    <3> HIDE DEF L
    <3>3. i = L + 1 \/ i \in 1 .. L BY <1>4
    <3> QED BY <3>1, <3>2, <3>3
  <2> QED BY <2>1, <2>2, <2>3, <2>4, <2>5, <2>6, <1>3, <1>4 DEF Layout
<1>11. Contents'
  <2> SUFFICES ASSUME NEW i \in 1 .. L + 1
               PROVE  Holds(queue[i].start, queue[i].msg, Total(queue[i].msg))'
    BY <1>4 DEF Contents
  <2>1. buffer' = buffer BY DEF PushPublish
  <2>2. CASE i = L + 1
    <3>1. queue'[i].msg = pmsg /\ queue'[i].start = wr BY <2>2, <1>4, <1>5
    <3> QED BY <3>1, <2>1, <1>1 DEF Holds
  <2>3. CASE i \in 1 .. L
    <3>1. queue'[i] = queue[i] BY <2>3, <1>4
    <3>2. Holds(queue[i].start, queue[i].msg, Total(queue[i].msg)) BY <2>3, <1>4 DEF Contents
    <3> QED BY <3>1, <3>2, <2>1 DEF Holds
  <2> HIDE DEF L
  <2>4. i = L + 1 \/ i \in 1 .. L BY <1>4
  <2> QED BY <2>2, <2>3, <2>4
<1>12. PushInProgress'
  BY DEF PushInProgress, PushPublish
<1>13. GetInProgress'
  <2>1. queue # <<>> => queue'[1] = queue[1]
    <3>1. queue # <<>> => 1 \in 1 .. L BY <1>1, <1>4, EmptySeq
    <3> QED BY <3>1, <1>4
  <2>2. queue' # <<>> BY <1>4
  <2> QED BY <2>1, <2>2 DEF GetInProgress, PushPublish, consumerVars
<1> QED BY <1>9, <1>10, <1>11, <1>12, <1>13

-------------------------------------------------------------------------------
(* The consumer keeps it.                                                  *)

\* The first message starts at rd and its bytes are there.
LEMMA FirstMessage ==
    ASSUME IInv, queue # <<>>
    PROVE  /\ 1 \in DOMAIN queue
           /\ queue[1].msg \in Message /\ queue[1].start = rd
           /\ Offset(1) = 0
           /\ Total(queue[1].msg) \in 1 .. Size
           /\ Dist(wr, rd) \in Nat /\ Total(queue[1].msg) <= Dist(wr, rd)
           /\ Dist(wr, rd) <= Size
           /\ \A k \in 0 .. Total(queue[1].msg) - 1 :
                buffer[Index(Advance(rd, k))] = <<queue[1].msg, k>>
<1> USE DEF IInv
<1>1. queue \in Seq([msg : Message, start : Cursor]) /\ rd \in Cursor /\ wr \in Cursor
  BY DEF TypeOK
<1>2. 1 \in DOMAIN queue
  <2> HIDE DEF IInv
  <2>1. Len(queue) \in Nat \ {0} /\ DOMAIN queue = 1 .. Len(queue)
    BY <1>1, EmptySeq, LenProperties
  <2> QED BY <2>1
<1>3. queue[1].start = rd BY DEF Layout
<1>4. queue[1].msg \in Message /\ Total(queue[1].msg) \in 1 .. Size /\ Ends(1) <= Dist(wr, rd)
  BY <1>2, UsedSlots
<1>5. Offset(1) = 0 BY <1>1, <1>3, CursorArithmetic DEF Offset
<1>6. Dist(wr, rd) \in Nat BY <1>1, CursorArithmetic, SizeAssumption
<1>7. Dist(wr, rd) <= Size
  <2>1. Reserved \in Nat BY MessageIsBytes, LenAssumption DEF TypeOK, Reserved
  <2> QED BY <1>6, <2>1, LenAssumption DEF Layout
<1>8. \A k \in 0 .. Total(queue[1].msg) - 1 :
         buffer[Index(Advance(rd, k))] = <<queue[1].msg, k>>
  BY <1>2, <1>3 DEF Contents, Holds
<1> QED BY <1>2, <1>3, <1>4, <1>5, <1>6, <1>7, <1>8 DEF Ends

\* A get from an empty FIFO reads nothing.
LEMMA GetEmptyKeeps ==
    ASSUME IInv, GetEmpty
    PROVE  IInv'
<1>1. TypeOK'
  BY DEF IInv, TypeOK, GetEmpty, producerVars, consumerVars
<1>2. Layout' /\ Contents' /\ PushInProgress' /\ GetInProgress'
  BY DEF IInv, Layout, Reserved, Offset, Ends, Contents, Holds, PushInProgress,
         GetInProgress, GetEmpty, producerVars, consumerVars
<1> QED BY <1>1, <1>2 DEF IInv

\* A get that finds bytes only remembers its cursors.
LEMMA GetCheckKeeps ==
    ASSUME IInv, GetCheck
    PROVE  IInv'
<1>1. TypeOK'
  BY DEF IInv, TypeOK, GetCheck, producerVars, Pc
<1>2. Layout' /\ Contents' /\ PushInProgress'
  BY DEF IInv, Layout, Reserved, Offset, Ends, Contents, Holds, PushInProgress,
         GetCheck, producerVars
<1>3. queue # <<>> BY DEF IInv, Layout, GetCheck, Empty
<1>4. GetInProgress'
  BY <1>3 DEF GetInProgress, GetCheck
<1> QED BY <1>1, <1>2, <1>4 DEF IInv

\* The branch is chosen with a fresh wr: below it, the first message is in one
\* piece.
LEMMA GetIndexKeeps ==
    ASSUME IInv, GetIndex
    PROVE  IInv'
<1>1. wr \in Cursor /\ rd \in Cursor /\ Index(wr) \in Slot /\ Index(rd) \in Slot
  BY IndexAdvance, LenAssumption DEF IInv, TypeOK
<1>2. TypeOK'
  BY <1>1, LenAssumption DEF IInv, TypeOK, GetIndex, producerVars, Pc, Slot
<1>3. Layout' /\ Contents' /\ PushInProgress'
  BY DEF IInv, Layout, Reserved, Offset, Ends, Contents, Holds, PushInProgress,
         GetIndex, producerVars
<1>4. queue # <<>> BY DEF IInv, GetInProgress, GetIndex
<1>5. Index(rd) < Index(wr) => Index(rd) + Total(queue[1].msg) <= Size
  <2> DEFINE u == Dist(wr, rd)
             t == Total(queue[1].msg)
  <2>1. u \in 0 .. Size /\ t \in 1 .. Size /\ t <= u
    BY <1>4, FirstMessage, LenAssumption
  <2>2. wr = Advance(rd, u) BY <1>1, CursorArithmetic
  <2> HIDE DEF u, t
  <2>3. Index(wr) = Wrap(Index(rd) + u) BY <1>1, <2>1, <2>2, IndexAdvance
  <2>4. Index(rd) < Index(wr) => Index(rd) + t <= Size
    BY <1>1, <2>1, <2>3, LenAssumption DEF Wrap, Slot
  <2> QED BY <2>4 DEF t
<1>6. GetInProgress'
  BY <1>4, <1>5 DEF GetInProgress, GetIndex
<1> QED BY <1>2, <1>3, <1>6 DEF IInv

\* The head of the first message is copied out, and tells its length.
LEMMA GetHeadKeeps ==
    ASSUME IInv, GetHead
    PROVE  IInv'
<1> DEFINE m == queue[1].msg
           t == Total(m)
<1>1. queue # <<>> /\ cat = Index(rd) /\ (cstraight => Index(rd) + t <= Size)
  BY DEF IInv, GetInProgress, GetHead
<1>2. /\ m \in Message /\ t \in 1 .. Size /\ m.len \in Nat /\ t = HeadLen + m.len
      /\ \A k \in 0 .. t - 1 : buffer[Index(Advance(rd, k))] = <<m, k>>
  BY <1>1, FirstMessage, MessageIsBytes DEF Total
<1>3. rd \in Cursor /\ buffer \in [Slot -> Cell] /\ cstraight \in BOOLEAN
  BY DEF IInv, TypeOK
<1> HIDE DEF t
<1>4. HeadLen \in 0 .. Size /\ m.len \in 0 .. Size /\ HeadLen + m.len <= Size
      /\ Index(rd) \in Slot
      /\ (cstraight => Index(rd) + HeadLen + m.len <= Size)
      /\ (cstraight => Index(rd) + HeadLen <= Size)
  <2>1. Index(rd) \in Slot BY <1>3, IndexAdvance, LenAssumption
  <2> HIDE DEF m
  <2> QED BY <1>1, <1>2, <2>1, LenAssumption DEF Slot
<1>5. CopyFits(cat, cstraight, HeadLen)
      /\ CopyFits(AfterCopy(cat, cstraight, HeadLen), cstraight, m.len)
  BY <1>1, <1>3, <1>4, SecondCopyFollowsCursor
<1>6. /\ got' \in Seq(Cell) /\ Len(got') = HeadLen
      /\ \A k \in 1 .. HeadLen : got'[k] = buffer[CopySlot(cat, cstraight, k - 1)]
  BY <1>3, <1>5, ReadOutBytes DEF GetHead
<1>7. got' = HeadBytes(m)
  <2>1. HeadBytes(m) \in Seq(Cell) /\ Len(HeadBytes(m)) = HeadLen
    BY <1>2, MessageIsBytes
  <2>2. ASSUME NEW k \in 1 .. HeadLen
        PROVE  got'[k] = HeadBytes(m)[k]
    <3>1. k - 1 \in 0 .. HeadLen - 1 /\ k - 1 \in 0 .. t - 1 BY <1>2, LenAssumption
    <3>2. CopySlot(cat, cstraight, k - 1) = Index(Advance(rd, k - 1))
      BY <3>1, <1>1, <1>3, <1>4, CopyFollowsCursor
    <3>3. buffer[Index(Advance(rd, k - 1))] = <<m, k - 1>> BY <3>1, <1>2
    <3> QED BY <3>2, <3>3, <1>6 DEF HeadBytes
  <2> HIDE DEF m
  <2> QED BY <2>1, <2>2, <1>6, SeqEqual
<1>8. glen' = m.len
  <2>1. glen' \in LengthsIn(HeadBytes(m)) BY <1>7 DEF GetHead
  <2> QED BY <2>1, <1>2, HeadTellsLength
<1>9. TypeOK'
  <2>1. cat' \in 0 .. Size BY <1>5 DEF GetHead, CopyFits
  <2>2. m.len \in Lens BY <1>2 DEF Message
  <2> QED BY <1>6, <1>8, <2>1, <2>2 DEF IInv, TypeOK, GetHead, producerVars, Pc
<1>10. Layout' /\ Contents' /\ PushInProgress'
  BY DEF IInv, Layout, Reserved, Offset, Ends, Contents, Holds, PushInProgress,
         GetHead, producerVars
<1>11. GetInProgress'
  <2>1. queue' = queue /\ rd' = rd /\ cstraight' = cstraight /\ cpc' = "payload"
        /\ cat' = AfterCopy(Index(rd), cstraight, HeadLen)
    BY <1>1 DEF GetHead
  <2>2. cstraight => Index(rd) + Total(m) <= Size BY <1>1 DEF t
  <2> QED BY <1>1, <1>7, <1>8, <2>1, <2>2 DEF GetInProgress
<1> QED BY <1>9, <1>10, <1>11 DEF IInv

\* With the payload, what was copied out is the first message.
LEMMA GetPayloadKeeps ==
    ASSUME IInv, GetPayload
    PROVE  IInv'
<1> DEFINE m == queue[1].msg
           t == Total(m)
           n == m.len
           r == ReadOut(buffer, cat, cstraight, n)
<1>1. /\ queue # <<>> /\ cat = AfterCopy(Index(rd), cstraight, HeadLen)
      /\ (cstraight => Index(rd) + t <= Size)
      /\ got = HeadBytes(m) /\ glen = n
  BY DEF IInv, GetInProgress, GetPayload
<1>2. /\ m \in Message /\ t \in 1 .. Size /\ n \in Nat /\ t = HeadLen + n
      /\ \A k \in 0 .. t - 1 : buffer[Index(Advance(rd, k))] = <<m, k>>
  BY <1>1, FirstMessage, MessageIsBytes DEF Total
<1>3. rd \in Cursor /\ buffer \in [Slot -> Cell] /\ cstraight \in BOOLEAN
  BY DEF IInv, TypeOK
<1>4. HeadLen \in 0 .. Size /\ n \in 0 .. Size /\ HeadLen + n <= Size
      /\ (cstraight => Index(rd) + HeadLen + n <= Size)
  <2>1. Index(rd) \in Slot BY <1>3, IndexAdvance, LenAssumption
  <2> HIDE DEF n, t
  <2> QED BY <1>1, <1>2, <2>1, LenAssumption DEF Slot
<1>5. /\ CopyFits(cat, cstraight, n)
      /\ \A k \in 0 .. n - 1 : CopySlot(cat, cstraight, k) = Index(Advance(rd, HeadLen + k))
  BY <1>1, <1>3, <1>4, SecondCopyFollowsCursor
<1>6. r \in Seq(Cell) /\ Len(r) = n
      /\ \A k \in 1 .. n : r[k] = buffer[CopySlot(cat, cstraight, k - 1)]
  BY <1>3, <1>5, ReadOutBytes
<1>7. PayloadBytes(m) \in Seq(Cell) /\ Len(PayloadBytes(m)) = n
      /\ HeadBytes(m) \o PayloadBytes(m) = MessageBytes(m) /\ MessageBytes(m) \in Seq(Cell)
  BY <1>2, MessageIsBytes
<1>8. r = PayloadBytes(m)
  <2>1. ASSUME NEW k \in 1 .. n
        PROVE  r[k] = PayloadBytes(m)[k]
    <3>1. PayloadBytes(m)[k] = <<m, HeadLen + k - 1>> BY DEF PayloadBytes
    <3> HIDE DEF n, t, m
    <3>2. k - 1 \in 0 .. n - 1 /\ HeadLen + (k - 1) \in 0 .. t - 1
          /\ HeadLen + (k - 1) = HeadLen + k - 1
      BY <1>2, LenAssumption
    <3>3. CopySlot(cat, cstraight, k - 1) = Index(Advance(rd, HeadLen + k - 1))
      BY <3>2, <1>5
    <3>4. buffer[Index(Advance(rd, HeadLen + k - 1))] = <<m, HeadLen + k - 1>>
      BY <3>2, <1>2
    <3> QED BY <3>1, <3>3, <3>4, <1>6
  <2> HIDE DEF m, n, r
  <2> QED BY <2>1, <1>6, <1>7, SeqEqual
<1>9. got' = MessageBytes(m)
  BY <1>1, <1>7, <1>8 DEF GetPayload
<1>10. TypeOK'
  <2>1. cat' \in 0 .. Size
    <3>1. cat' = AfterCopy(cat, cstraight, n) BY <1>1 DEF GetPayload
    <3> HIDE DEF n
    <3> QED BY <3>1, <1>5, LenAssumption DEF CopyFits, AfterCopy
  <2> QED BY <1>7, <1>9, <2>1 DEF IInv, TypeOK, GetPayload, producerVars, Pc
<1>11. Layout' /\ Contents' /\ PushInProgress'
  BY DEF IInv, Layout, Reserved, Offset, Ends, Contents, Holds, PushInProgress,
         GetPayload, producerVars
<1>12. GetInProgress'
  BY <1>1, <1>9 DEF GetInProgress, GetPayload
<1> QED BY <1>10, <1>11, <1>12 DEF IInv

\* Releasing the bytes of the first message makes the second one the first.
LEMMA GetPublishKeeps ==
    ASSUME IInv, GetPublish
    PROVE  IInv' /\ getRes' = <<"got", queue[1].msg>>
<1> DEFINE m == queue[1].msg
           t == Total(m)
           u == Dist(wr, rd)
           L == Len(queue)
           S == [msg : Message, start : Cursor]
<1>1. queue # <<>> /\ got = MessageBytes(m) /\ glen = m.len
  BY DEF IInv, GetInProgress, GetPublish
<1>2. /\ m \in Message /\ t \in 1 .. Size /\ queue[1].start = rd
      /\ u \in Nat /\ t <= u /\ u <= Size
  BY <1>1, FirstMessage
<1>3. wr \in Cursor /\ rd \in Cursor /\ queue \in Seq(S)
  BY DEF IInv, TypeOK
<1>4. /\ rd' = Advance(rd, t) /\ rd' \in Cursor /\ wr' = wr
      /\ Dist(wr, rd') = u - t
  <2>1. rd' = Advance(rd, t) BY <1>1 DEF GetPublish, Total
  <2>2. t \in 0 .. W - 1 /\ t \in 0 .. u BY <1>2, LenAssumption, SizeAssumption
  <2> QED BY <2>1, <2>2, <1>3, CursorArithmetic DEF GetPublish
<1>5. L \in Nat /\ L >= 1 /\ DOMAIN queue = 1 .. L
  BY <1>1, <1>3, EmptySeq, LenProperties
<1>6. /\ queue' = SubSeq(queue, 2, L) /\ queue' \in Seq(S) /\ Len(queue') = L - 1
      /\ DOMAIN queue' = 1 .. L - 1
      /\ \A i \in 1 .. L - 1 : queue'[i] = queue[i + 1] /\ i + 1 \in 1 .. L
  <2>1. queue' = SubSeq(queue, 2, L) BY DEF GetPublish
  <2>2. \A i \in 2 .. L : queue[i] \in S
    <3> TAKE i \in 2 .. L
    <3>1. i \in 1 .. Len(queue) BY <1>5
    <3> HIDE DEF S
    <3> QED BY <3>1, <1>3, ElementOfSeq
  <2> HIDE DEF S, L
  <2>3. L - 2 + 1 = L - 1 /\ (IF 2 <= L THEN L - 2 + 1 ELSE 0) = L - 1
        /\ \A i \in 1 .. L - 1 : 2 + i - 1 = i + 1 /\ i + 1 \in 1 .. L
    BY <1>5
  <2>4. /\ queue' \in Seq(S) /\ Len(queue') = IF 2 <= L THEN L - 2 + 1 ELSE 0
        /\ \A i \in 1 .. L - 2 + 1 : queue'[i] = queue[2 + i - 1]
    BY <2>1, <2>2, <1>5, SubSeqProperties
  <2>5. Len(queue') = L - 1 /\ \A i \in 1 .. L - 1 : queue'[i] = queue[i + 1]
    BY <2>3, <2>4
  <2>6. DOMAIN queue' = 1 .. L - 1 BY <2>4, <2>5, LenProperties
  <2> QED BY <2>1, <2>3, <2>4, <2>5, <2>6
<1>7. \A i \in 1 .. L : Ends(i) <= u /\ Offset(i) \in Nat /\ queue[i].start \in Cursor
        /\ queue[i].msg \in Message /\ Total(queue[i].msg) \in 1 .. Size
  <2> TAKE i \in 1 .. L
  <2>1. TypeOK /\ Layout /\ i \in DOMAIN queue BY <1>5 DEF IInv
  <2> QED BY <2>1, UsedSlots
<1>8. \A i \in 2 .. L : t <= Offset(i)
  <2> TAKE i \in 2 .. L
  <2>1. 1 \in 1 .. L /\ i \in 1 .. L /\ 1 < i BY <1>5
  <2>2. Ends(1) <= Offset(i) BY <2>1, <1>5 DEF IInv, Layout
  <2>3. Ends(1) = t
    <3>1. Offset(1) = 0 /\ t \in Nat BY <1>1, <1>2, FirstMessage
    <3> QED BY <3>1 DEF Ends
  <2> QED BY <2>2, <2>3
<1>9. \A i \in 1 .. L - 1 : Offset(i)' = Offset(i + 1) - t /\ Ends(i)' = Ends(i + 1) - t
  <2> TAKE i \in 1 .. L - 1
  <2>1. queue'[i] = queue[i + 1] /\ i + 1 \in 1 .. L /\ i + 1 \in 2 .. L BY <1>5, <1>6
  <2> DEFINE c == queue[i + 1].start
             d == Total(queue[i + 1].msg)
  <2>2. c \in Cursor /\ t <= Offset(i + 1) /\ d \in Nat /\ Offset(i + 1) \in Nat
    BY <2>1, <1>7, <1>8, LenAssumption
  <2>3. Dist(c, Advance(rd, t)) = Dist(c, rd) - t
    <3>1. t \in 0 .. Dist(c, rd) BY <2>2, <1>2, <1>3, CursorArithmetic DEF Offset
    <3> HIDE DEF c, t
    <3> QED BY <3>1, <2>2, <1>3, CursorArithmetic
  <2>4. Offset(i)' = Offset(i + 1) - t BY <2>1, <2>3, <1>4 DEF Offset
  <2>5. Ends(i)' = Offset(i)' + d /\ Ends(i + 1) = Offset(i + 1) + d
    BY <2>1 DEF Ends
  <2> HIDE DEF d, t
  <2> QED BY <2>2, <2>4, <2>5, <1>2
<1>10. getRes' = <<"got", m>>
  BY <1>1, <1>2, MessageDecoded DEF GetPublish
<1>11. TypeOK'
  <2>1. <<"got", m>> \in {"got"} \X Message BY <1>2
  <2>2. queue' \in Seq([msg : Message, start : Cursor]) BY <1>6
  <2>3. <<>> \in Seq(Cell) /\ 0 \in 0 .. Size BY LenAssumption
  <2> HIDE DEF m, t, u, L, S
  <2> QED BY <2>1, <2>2, <2>3, <1>4, <1>10
      DEF IInv, TypeOK, GetPublish, producerVars, Pc
<1>12. Layout'
  <2>1. (Dist(wr, rd) + Reserved <= Size)'
    <3>1. Reserved' = Reserved /\ Reserved \in Nat
      BY MessageIsBytes, LenAssumption DEF IInv, TypeOK, Reserved, GetPublish, producerVars
    <3>2. u + Reserved <= Size BY DEF IInv, Layout
    <3> HIDE DEF u, t
    <3> QED BY <3>1, <3>2, <1>2, <1>4, LenAssumption
  <2>2. queue' = <<>> => wr' = rd'
    <3>1. queue' = <<>> => L = 1
      <4>1. queue' = <<>> => Len(queue') = 0 BY EmptySeq
      <4> HIDE DEF L
      <4> QED BY <4>1, <1>5, <1>6
    <3>2. Advance(queue[1].start, t) = IF 1 = L THEN wr ELSE queue[1 + 1].start
      BY <1>5 DEF IInv, Layout
    <3> QED BY <3>1, <3>2, <1>2, <1>4
  <2>3. queue' # <<>> => queue'[1].start = rd'
    <3>1. queue' # <<>> => 1 \in 1 .. L - 1 /\ L # 1
      BY <1>5, <1>6, EmptySeq
    <3>2. Advance(queue[1].start, t) = IF 1 = L THEN wr ELSE queue[1 + 1].start
      BY <1>5 DEF IInv, Layout
    <3>3. queue' # <<>> => queue'[1] = queue[1 + 1] BY <3>1, <1>6
    <3> QED BY <3>1, <3>2, <3>3, <1>2, <1>4
  <2>4. \A i \in 1 .. L - 1 : Ends(i)' <= Dist(wr', rd')
    <3> TAKE i \in 1 .. L - 1
    <3>1. Ends(i)' = Ends(i + 1) - t /\ i + 1 \in 1 .. L BY <1>6, <1>9
    <3>2. Ends(i + 1) <= u /\ Ends(i + 1) \in Int
      BY <3>1, <1>7, LenAssumption DEF Ends
    <3> HIDE DEF Ends, t, u
    <3> QED BY <3>1, <3>2, <1>2, <1>4
  <2>5. \A i, j \in 1 .. L - 1 : i < j => Ends(i)' <= Offset(j)'
    <3> TAKE i, j \in 1 .. L - 1
    <3> HAVE i < j
    <3>1. i + 1 \in 1 .. L /\ j + 1 \in 1 .. L /\ i + 1 < j + 1 BY <1>6
    <3>2. Ends(i + 1) <= Offset(j + 1) BY <3>1, <1>5 DEF IInv, Layout
    <3>3. Ends(i + 1) \in Int /\ Offset(j + 1) \in Int
      BY <3>1, <1>7, LenAssumption DEF Ends
    <3>4. Ends(i)' = Ends(i + 1) - t /\ Offset(j)' = Offset(j + 1) - t BY <1>9
    <3> HIDE DEF Ends, Offset, t
    <3> QED BY <3>2, <3>3, <3>4, <1>2
  <2>6. \A i \in 1 .. L - 1 :
           Advance(queue'[i].start, Total(queue'[i].msg)) =
             IF i = L - 1 THEN wr' ELSE queue'[i + 1].start
    <3> TAKE i \in 1 .. L - 1
    <3>1. queue'[i] = queue[i + 1] /\ i + 1 \in 1 .. L BY <1>6
    <3>2. Advance(queue[i + 1].start, Total(queue[i + 1].msg)) =
            IF i + 1 = L THEN wr ELSE queue[(i + 1) + 1].start
      BY <3>1, <1>5 DEF IInv, Layout
    <3> HIDE DEF L
    <3>3. (i = L - 1) <=> (i + 1 = L) BY <1>5
    <3>4. i # L - 1 => i + 1 \in 1 .. L - 1 BY <1>5
    <3>5. i # L - 1 => queue'[i + 1] = queue[(i + 1) + 1] BY <3>4, <1>6
    <3> QED BY <3>1, <3>2, <3>3, <3>5, <1>4
  <2> QED BY <2>1, <2>2, <2>3, <2>4, <2>5, <2>6, <1>6 DEF Layout
<1>13. Contents'
  <2> SUFFICES ASSUME NEW i \in 1 .. L - 1
               PROVE  Holds(queue[i].start, queue[i].msg, Total(queue[i].msg))'
    BY <1>6 DEF Contents
  <2>1. queue'[i] = queue[i + 1] /\ i + 1 \in 1 .. L BY <1>6
  <2>2. Holds(queue[i + 1].start, queue[i + 1].msg, Total(queue[i + 1].msg))
    BY <2>1, <1>5 DEF IInv, Contents
  <2>3. buffer' = buffer BY DEF GetPublish
  <2> QED BY <2>1, <2>2, <2>3 DEF Holds
<1>14. PushInProgress'
  BY DEF IInv, PushInProgress, Holds, GetPublish, producerVars
<1>15. GetInProgress'
  BY DEF GetInProgress, GetPublish
<1> QED BY <1>10, <1>11, <1>12, <1>13, <1>14, <1>15 DEF IInv

-------------------------------------------------------------------------------
(* The results about the lock-free FIFO.                                   *)

\* Every step of either side, in whatever order the two threads run, keeps the
\* inductive invariant.
LEMMA NextKeeps ==
    ASSUME IInv, [Next]_vars
    PROVE  IInv'
<1>1. CASE Producer
  <2>1. ASSUME NEW m \in Message, PushCheck(m) PROVE IInv' BY <2>1, PushCheckKeeps
  <2>2. ASSUME NEW m \in Message, PushFull(m) PROVE IInv' BY <2>2, PushFullKeeps
  <2>3. CASE PushIndex BY <2>3, PushIndexKeeps
  <2>4. CASE PushHead BY <2>4, PushHeadKeeps
  <2>5. CASE PushPayload BY <2>5, PushPayloadKeeps
  <2>6. CASE PushPublish BY <2>6, PushPublishKeeps
  <2> QED BY <1>1, <2>1, <2>2, <2>3, <2>4, <2>5, <2>6 DEF Producer
<1>2. CASE Consumer
  <2>1. CASE GetEmpty BY <2>1, GetEmptyKeeps
  <2>2. CASE GetCheck BY <2>2, GetCheckKeeps
  <2>3. CASE GetIndex BY <2>3, GetIndexKeeps
  <2>4. CASE GetHead BY <2>4, GetHeadKeeps
  <2>5. CASE GetPayload BY <2>5, GetPayloadKeeps
  <2>6. CASE GetPublish BY <2>6, GetPublishKeeps
  <2> QED BY <1>2, <2>1, <2>2, <2>3, <2>4, <2>5, <2>6 DEF Consumer
<1>3. CASE UNCHANGED vars
  <2>1. TypeOK' BY <1>3 DEF IInv, TypeOK, vars, producerVars, consumerVars
  <2>2. Layout' /\ Contents'
    BY <1>3 DEF IInv, Layout, Reserved, Offset, Ends, Contents, Holds, vars, producerVars
  <2>3. PushInProgress'
    BY <1>3 DEF IInv, PushInProgress, Holds, vars, producerVars
  <2>4. GetInProgress'
    BY <1>3 DEF IInv, GetInProgress, vars, consumerVars
  <2> QED BY <2>1, <2>2, <2>3, <2>4 DEF IInv
<1> QED BY <1>1, <1>2, <1>3 DEF Next

\* The inductive invariant holds in every reachable state.
THEOREM Invariant == Spec => []IInv
<1>1. Init => IInv BY InitInvariant
<1>2. IInv /\ [Next]_vars => IInv' BY NextKeeps
<1> QED BY <1>1, <1>2, PTL DEF Spec

\* Type correctness of the lock-free FIFO.
THEOREM TypeCorrect == Spec => []TypeOK
<1>1. IInv => TypeOK BY DEF IInv
<1> QED BY <1>1, Invariant, PTL

-------------------------------------------------------------------------------
(* The safety properties.                                                  *)

\* What a get has claimed is the first message, which was published.
LEMMA CursorsStaySafe == IInv => CursorsSafe
<1> SUFFICES ASSUME IInv PROVE CursorsSafe OBVIOUS
<1>1. Dist(wr, rd) + Reserved <= Size BY DEF IInv, Layout
<1>2. Claimed <= Dist(wr, rd)
  <2>1. CASE cpc \in {"payload", "publish"}
    <3>1. queue # <<>> /\ glen = queue[1].msg.len
      BY <2>1 DEF IInv, GetInProgress
    <3>2. Total(queue[1].msg) <= Dist(wr, rd) BY <3>1, FirstMessage
    <3> QED BY <2>1, <3>1, <3>2 DEF Claimed, Total
  <2>2. CASE cpc \notin {"payload", "publish"}
    <3>1. Dist(wr, rd) \in Nat
      BY CursorArithmetic, SizeAssumption DEF IInv, TypeOK
    <3> QED BY <2>2, <3>1 DEF Claimed
  <2> QED BY <2>1, <2>2
<1> QED BY <1>1, <1>2 DEF CursorsSafe

\* The cursors never cross, for every interleaving of push and get.
THEOREM CursorsAlwaysSafe == Spec => []CursorsSafe
BY CursorsStaySafe, Invariant, PTL

\* The slots a push is still to write are those of the bytes from wr on.
LEMMA WritesFollowCursor ==
    ASSUME IInv
    PROVE  /\ WriteSlots \subseteq Slot
           /\ \A s \in WriteSlots : ppc # "idle" /\
                \E j \in 0 .. Total(pmsg) - 1 : s = Index(Advance(wr, j))
<1> DEFINE h == HeadLen
           n == pmsg.len
           t == Total(pmsg)
           C1 == CopySlots(Index(wr), pstraight, h)
           C2 == CopySlots(AfterCopy(Index(wr), pstraight, h), pstraight, n)
<1>1. ASSUME ppc \in {"head", "payload"}
      PROVE  /\ C1 \cup C2 \subseteq Slot
             /\ \A s \in C1 \cup C2 : \E j \in 0 .. t - 1 : s = Index(Advance(wr, j))
  <2>1. /\ pmsg \in Message /\ t \in 1 .. Size /\ n \in Nat /\ t = h + n
        /\ wr \in Cursor /\ pstraight \in BOOLEAN
        /\ (pstraight => Index(wr) + t <= Size)
    BY <1>1, PushSlots, MessageIsBytes DEF IInv, TypeOK, PushInProgress, Total
  <2>2. h \in 1 .. Size /\ h \in 0 .. Size /\ n \in 0 .. Size /\ h + n <= Size /\ Index(wr) \in Slot
    <3>1. Index(wr) \in Slot BY <2>1, IndexAdvance, LenAssumption
    <3> HIDE DEF n, t
    <3> QED BY <2>1, <3>1, LenAssumption
  <2>3. (pstraight => Index(wr) + h + n <= Size) /\ (pstraight => Index(wr) + h <= Size)
    <3> HIDE DEF n, t
    <3> QED BY <2>1, <2>2, LenAssumption DEF Slot
  <2>4. /\ CopyFits(Index(wr), pstraight, h)
        /\ CopyFits(AfterCopy(Index(wr), pstraight, h), pstraight, n)
        /\ \A k \in 0 .. n - 1 :
             CopySlot(AfterCopy(Index(wr), pstraight, h), pstraight, k) = Index(Advance(wr, h + k))
    BY <2>1, <2>2, <2>3, SecondCopyFollowsCursor
  <2>5. C1 \subseteq Slot /\ C2 \subseteq Slot BY <2>4, CopySlotsDistinct
  <2>6. ASSUME NEW s \in C1 PROVE \E j \in 0 .. t - 1 : s = Index(Advance(wr, j))
    <3>1. PICK k \in 0 .. h - 1 : s = CopySlot(Index(wr), pstraight, k)
      BY <2>6 DEF CopySlots
    <3>2. s = Index(Advance(wr, k)) BY <3>1, <2>1, <2>2, <2>3, CopyFollowsCursor
    <3>3. k \in 0 .. t - 1
      <4> HIDE DEF n, t
      <4> QED BY <2>1, <2>2
    <3> QED BY <3>2, <3>3
  <2>7. ASSUME NEW s \in C2 PROVE \E j \in 0 .. t - 1 : s = Index(Advance(wr, j))
    <3>1. PICK k \in 0 .. n - 1 :
            s = CopySlot(AfterCopy(Index(wr), pstraight, h), pstraight, k)
      BY <2>7 DEF CopySlots
    <3>2. s = Index(Advance(wr, h + k)) BY <3>1, <2>4
    <3>3. h + k \in 0 .. t - 1
      <4> HIDE DEF n, t
      <4> QED BY <2>1, <2>2
    <3> QED BY <3>2, <3>3
  <2> QED BY <2>5, <2>6, <2>7
<1>2. CASE ppc = "head"
  <2>1. pat = Index(wr) BY <1>2 DEF IInv, PushInProgress
  <2>2. WriteSlots = C1 \cup C2 BY <1>2, <2>1 DEF WriteSlots
  <2> QED BY <1>1, <1>2, <2>2
<1>3. CASE ppc = "payload"
  <2>1. pat = AfterCopy(Index(wr), pstraight, h) BY <1>3 DEF IInv, PushInProgress
  <2>2. WriteSlots = C2 BY <1>3, <2>1 DEF WriteSlots
  <2> QED BY <1>1, <1>3, <2>2
<1>4. CASE ppc \notin {"head", "payload"}
  <2>1. WriteSlots = {} BY <1>4 DEF WriteSlots
  <2> QED BY <2>1
<1> QED BY <1>2, <1>3, <1>4

\* The slots a get is still to read are those of the first message.
LEMMA ReadsFollowCursor ==
    ASSUME IInv
    PROVE  /\ ReadSlots \subseteq Slot
           /\ \A s \in ReadSlots : queue # <<>> /\
                \E k \in 0 .. Total(queue[1].msg) - 1 : s = Index(Advance(rd, k))
<1> DEFINE h == HeadLen
           m == queue[1].msg
           n == m.len
           t == Total(m)
           C1 == CopySlots(Index(rd), cstraight, h)
           C2 == CopySlots(AfterCopy(Index(rd), cstraight, h), cstraight, n)
<1>1. ASSUME cpc \in {"head", "payload"}
      PROVE  /\ queue # <<>>
             /\ C1 \cup C2 \subseteq Slot
             /\ \A s \in C1 \cup C2 : \E j \in 0 .. t - 1 : s = Index(Advance(rd, j))
  <2>1. queue # <<>> /\ (cstraight => Index(rd) + t <= Size)
    BY <1>1 DEF IInv, GetInProgress
  <2>2. /\ m \in Message /\ t \in 1 .. Size /\ n \in Nat /\ t = h + n
        /\ rd \in Cursor /\ cstraight \in BOOLEAN
    BY <2>1, FirstMessage, MessageIsBytes DEF IInv, TypeOK, Total
  <2>3. h \in 1 .. Size /\ h \in 0 .. Size /\ n \in 0 .. Size /\ h + n <= Size /\ Index(rd) \in Slot
    <3>1. Index(rd) \in Slot BY <2>2, IndexAdvance, LenAssumption
    <3> HIDE DEF n, t
    <3> QED BY <2>2, <3>1, LenAssumption
  <2>4. (cstraight => Index(rd) + h + n <= Size) /\ (cstraight => Index(rd) + h <= Size)
    <3> HIDE DEF n, t
    <3> QED BY <2>1, <2>2, <2>3, LenAssumption DEF Slot
  <2>5. /\ CopyFits(Index(rd), cstraight, h)
        /\ CopyFits(AfterCopy(Index(rd), cstraight, h), cstraight, n)
        /\ \A k \in 0 .. n - 1 :
             CopySlot(AfterCopy(Index(rd), cstraight, h), cstraight, k) = Index(Advance(rd, h + k))
    BY <2>2, <2>3, <2>4, SecondCopyFollowsCursor
  <2>6. C1 \subseteq Slot /\ C2 \subseteq Slot BY <2>5, CopySlotsDistinct
  <2>7. ASSUME NEW s \in C1 PROVE \E j \in 0 .. t - 1 : s = Index(Advance(rd, j))
    <3>1. PICK k \in 0 .. h - 1 : s = CopySlot(Index(rd), cstraight, k)
      BY <2>7 DEF CopySlots
    <3>2. s = Index(Advance(rd, k)) BY <3>1, <2>2, <2>3, <2>4, CopyFollowsCursor
    <3>3. k \in 0 .. t - 1
      <4> HIDE DEF n, t
      <4> QED BY <2>2, <2>3
    <3> QED BY <3>2, <3>3
  <2>8. ASSUME NEW s \in C2 PROVE \E j \in 0 .. t - 1 : s = Index(Advance(rd, j))
    <3>1. PICK k \in 0 .. n - 1 :
            s = CopySlot(AfterCopy(Index(rd), cstraight, h), cstraight, k)
      BY <2>8 DEF CopySlots
    <3>2. s = Index(Advance(rd, h + k)) BY <3>1, <2>5
    <3>3. h + k \in 0 .. t - 1
      <4> HIDE DEF n, t
      <4> QED BY <2>2, <2>3
    <3> QED BY <3>2, <3>3
  <2> QED BY <2>1, <2>6, <2>7, <2>8
<1>2. CASE cpc = "head"
  <2>1. cat = Index(rd) BY <1>2 DEF IInv, GetInProgress
  <2>2. ReadSlots = C1 BY <1>2, <2>1 DEF ReadSlots
  <2> QED BY <1>1, <1>2, <2>2
<1>3. CASE cpc = "payload"
  <2>1. cat = AfterCopy(Index(rd), cstraight, h) /\ glen = n
    BY <1>3 DEF IInv, GetInProgress
  <2>2. ReadSlots = C2 BY <1>3, <2>1 DEF ReadSlots
  <2> QED BY <1>1, <1>3, <2>2
<1>4. CASE cpc \notin {"head", "payload"}
  <2>1. ReadSlots = {} BY <1>4 DEF ReadSlots
  <2> QED BY <2>1
<1> QED BY <1>2, <1>3, <1>4

\* Both sides together: their copies stay inside the buffer.
LEMMA CopiesStayInBounds == IInv => CopiesInBounds
BY WritesFollowCursor, ReadsFollowCursor DEF CopiesInBounds

\* No memcpy of push or get leaves the buffer, although each side chooses its
\* branch by a second read of a cursor that may have moved since its check.
THEOREM CopiesAlwaysInBounds == Spec => []CopiesInBounds
BY CopiesStayInBounds, Invariant, PTL

\* The bytes a push is still to write are free, those a get is still to read
\* are of the first message.
LEMMA SidesStayApart == IInv => NoByteRace
<1> SUFFICES ASSUME IInv, NEW s \in WriteSlots, s \in ReadSlots PROVE FALSE
  BY DEF NoByteRace
<1>1. PICK j \in 0 .. Total(pmsg) - 1 : ppc # "idle" /\ s = Index(Advance(wr, j))
  BY WritesFollowCursor
<1>2. PICK k \in 0 .. Total(queue[1].msg) - 1 :
        queue # <<>> /\ s = Index(Advance(rd, k))
  BY ReadsFollowCursor
<1>3. 1 \in DOMAIN queue /\ queue[1].start = rd BY <1>2, FirstMessage
<1>4. TypeOK /\ Layout BY DEF IInv
<1>5. Index(Advance(queue[1].start, k)) # Index(Advance(wr, j))
  BY <1>1, <1>3, <1>4, PushAvoidsUsed
<1> QED BY <1>1, <1>2, <1>3, <1>5

\* Push and get never copy the same byte at the same time.
THEOREM NeverByteRace == Spec => []NoByteRace
BY SidesStayApart, Invariant, PTL

\* Layout and contents, in the words of the property.
LEMMA UnreadStaysIntact == IInv => UnreadIntact
<1> SUFFICES ASSUME IInv PROVE UnreadIntact OBVIOUS
<1>1. DOMAIN queue = 1 .. Len(queue)
  <2>1. queue \in Seq([msg : Message, start : Cursor]) BY DEF IInv, TypeOK
  <2> QED BY <2>1, LenProperties
<1> QED BY <1>1 DEF UnreadIntact, IInv, Layout, Contents, Holds

\* Every published message is in the buffer, whole, until it is released.
THEOREM UnreadAlwaysIntact == Spec => []UnreadIntact
BY UnreadStaysIntact, Invariant, PTL

-------------------------------------------------------------------------------
(* The lock-free FIFO implements MsgFifo.                                  *)

\* The abstract queue: the messages without where they start.
Msgs(s) == [i \in DOMAIN s |-> s[i].msg]

\* A sequence of records projected to its messages.
LEMMA MsgsOf ==
    ASSUME NEW s, s \in Seq([msg : Message, start : Cursor])
    PROVE  /\ Msgs(s) \in Seq(Message) /\ Len(Msgs(s)) = Len(s)
           /\ \A i \in 1 .. Len(s) : Msgs(s)[i] = s[i].msg
<1> DEFINE S == [msg : Message, start : Cursor]
<1>1. Len(s) \in Nat /\ DOMAIN s = 1 .. Len(s) BY LenProperties
<1>2. \A i \in 1 .. Len(s) : s[i].msg \in Message
  <2> TAKE i \in 1 .. Len(s)
  <2>1. s[i] \in S
    <3> HIDE DEF S
    <3> QED BY ElementOfSeq DEF S
  <2> QED BY <2>1
<1> DEFINE L == Len(s)
<1>3. Msgs(s) \in [1 .. L -> Message] BY <1>1, <1>2 DEF Msgs
<1> HIDE DEF L
<1>4. Msgs(s) \in Seq(Message) /\ Len(Msgs(s)) = L BY <1>1, <1>3 DEF L
<1>5. \A i \in 1 .. Len(s) : Msgs(s)[i] = s[i].msg BY <1>1 DEF Msgs
<1> QED BY <1>4, <1>5 DEF L

\* Publishing a push is the abstract Push.
LEMMA PublishIsPush ==
    ASSUME IInv, PushPublish
    PROVE  Abstract!Push(pmsg)
<1> DEFINE e == [msg |-> pmsg, start |-> wr]
           S == [msg : Message, start : Cursor]
           t == Total(pmsg)
           u == Dist(wr, rd)
<1>1. /\ pmsg \in Message /\ t \in 1 .. Size /\ u \in Nat /\ u + t <= Size
      /\ wr \in Cursor /\ rd \in Cursor /\ queue \in Seq(S)
  BY PushSlots DEF IInv, TypeOK, PushPublish
<1>2. Dist(wr', rd') = u + t
  <2>1. t \in 0 .. W - 1 /\ u + t < W BY <1>1, LenAssumption, SizeAssumption
  <2> QED BY <1>1, <2>1, CursorArithmetic DEF PushPublish
<1>3. queue' = Append(queue, e) /\ e \in S BY <1>1 DEF PushPublish
<1>4. Msgs(queue') = Append(Msgs(queue), pmsg)
  <2>1. /\ queue' \in Seq(S) /\ Len(queue') = Len(queue) + 1 /\ Len(queue) \in Nat
        /\ \A i \in 1 .. Len(queue) : queue'[i] = queue[i]
        /\ queue'[Len(queue) + 1] = e
    <3> HIDE DEF e, S
    <3> QED BY <1>1, <1>3, LenProperties, AppendProperties
  <2>2. /\ Msgs(queue) \in Seq(Message) /\ Len(Msgs(queue)) = Len(queue)
        /\ \A i \in 1 .. Len(queue) : Msgs(queue)[i] = queue[i].msg
    BY <1>1, MsgsOf
  <2>3. /\ Msgs(queue') \in Seq(Message) /\ Len(Msgs(queue')) = Len(queue')
        /\ \A i \in 1 .. Len(queue') : Msgs(queue')[i] = queue'[i].msg
    BY <2>1, MsgsOf
  <2> DEFINE a == Msgs(queue)
             b == Append(a, pmsg)
             c == Msgs(queue')
             l == Len(queue)
  <2>4. /\ b \in Seq(Message) /\ Len(b) = l + 1
        /\ \A i \in 1 .. l : b[i] = a[i]
        /\ b[l + 1] = pmsg
    <3> HIDE DEF a
    <3> QED BY <2>2, <1>1, AppendProperties DEF a
  <2>5. ASSUME NEW i \in 1 .. l + 1 PROVE c[i] = b[i]
    <3>1. c[i] = queue'[i].msg BY <2>1, <2>3
    <3>2. CASE i = l + 1 BY <3>1, <3>2, <2>1, <2>4
    <3>3. CASE i \in 1 .. l BY <3>1, <3>3, <2>1, <2>2, <2>4
    <3>4. i = l + 1 \/ i \in 1 .. l
      <4> HIDE DEF l
      <4>1. l \in Nat BY <2>1 DEF l
      <4> QED BY <4>1
    <3> QED BY <3>2, <3>3, <3>4
  <2>6. c \in Seq(Message) /\ Len(c) = l + 1 BY <2>1, <2>3
  <2> HIDE DEF b, c
  <2>7. c = b BY <2>4, <2>5, <2>6, SeqEqual
  <2> QED BY <2>7 DEF b, c
<1>5. Abstract!Total(pmsg) = t BY DEF Abstract!Total, Total
<1> HIDE DEF t, u
<1>6. pushRes' = <<"ok">> /\ getRes' = getRes BY DEF PushPublish
<1> QED BY <1>1, <1>2, <1>4, <1>5, <1>6 DEF Abstract!Push, Msgs, u

\* Releasing a message is the abstract Get.
LEMMA ReleaseIsGet ==
    ASSUME IInv, GetPublish
    PROVE  Abstract!Get
<1> DEFINE S == [msg : Message, start : Cursor]
           a == Msgs(queue)
           l == Len(queue)
           m == queue[1].msg
           t == Total(m)
           u == Dist(wr, rd)
<1>1. queue # <<>> /\ getRes' = <<"got", m>> /\ glen = m.len
  BY GetPublishKeeps DEF IInv, GetInProgress, GetPublish
<1>2. m \in Message /\ t \in 1 .. Size /\ u \in Nat /\ t <= u /\ u <= Size
  BY <1>1, FirstMessage
<1>3. wr \in Cursor /\ rd \in Cursor /\ queue \in Seq(S) BY DEF IInv, TypeOK
<1>4. Dist(wr', rd') = u - t
  <2>1. rd' = Advance(rd, t) /\ wr' = wr BY <1>1 DEF GetPublish, Total
  <2>2. t \in 0 .. u BY <1>2, LenAssumption
  <2> QED BY <1>3, <2>1, <2>2, CursorArithmetic
<1>5. l \in Nat /\ l >= 1
  <2>1. l \in Nat \ {0}
    <3> HIDE DEF S
    <3> QED BY <1>1, <1>3, EmptySeq
  <2> QED BY <2>1
<1>6. a \in Seq(Message) /\ Len(a) = l /\ a # <<>> /\ Head(a) = m
      /\ \A i \in 1 .. l : a[i] = queue[i].msg
  <2>1. a \in Seq(Message) /\ Len(a) = l /\ \A i \in 1 .. l : a[i] = queue[i].msg
    BY <1>3, MsgsOf
  <2>2. a # <<>> BY <2>1, <1>5, EmptySeq
  <2>3. 1 \in 1 .. l BY <1>5
  <2>4. Head(a) = a[1] BY <2>1, <2>2, HeadTailProperties
  <2> QED BY <2>1, <2>2, <2>3, <2>4
<1>7. Msgs(queue') = Tail(a)
  <2>1. queue' = SubSeq(queue, 2, l) BY DEF GetPublish
  <2>2. \A i \in 2 .. l : queue[i] \in S
    <3> TAKE i \in 2 .. l
    <3>1. i \in 1 .. Len(queue) BY <1>5
    <3> HIDE DEF S
    <3> QED BY <3>1, <1>3, ElementOfSeq
  <2>3. /\ queue' \in Seq(S) /\ Len(queue') = IF 2 <= l THEN l - 2 + 1 ELSE 0
        /\ \A i \in 1 .. l - 2 + 1 : queue'[i] = queue[2 + i - 1]
    <3> HIDE DEF S, l
    <3> QED BY <2>1, <2>2, <1>5, SubSeqProperties
  <2> DEFINE c == Msgs(queue')
             b == Tail(a)
  <2>4. b \in Seq(Message) /\ Len(b) = l - 1 /\ \A i \in 1 .. l - 1 : b[i] = a[i + 1]
    <3> HIDE DEF a
    <3> QED BY <1>6, HeadTailProperties
  <2>5. c \in Seq(Message) /\ Len(c) = Len(queue')
        /\ \A i \in 1 .. Len(queue') : c[i] = queue'[i].msg
    BY <2>3, MsgsOf
  <2>6. Len(queue') = l - 1
    <3> HIDE DEF l
    <3> QED BY <2>3, <1>5
  <2>7. ASSUME NEW i \in 1 .. l - 1 PROVE c[i] = b[i]
    <3>1. i \in 1 .. l - 2 + 1 /\ 2 + i - 1 = i + 1 /\ i + 1 \in 1 .. l
      <4> HIDE DEF l
      <4> QED BY <1>5
    <3>2. queue'[i] = queue[i + 1] BY <3>1, <2>3
    <3>3. c[i] = queue[i + 1].msg BY <3>2, <2>5, <2>6
    <3> QED BY <3>1, <3>3, <2>4, <1>6
  <2> HIDE DEF b, c
  <2>8. c = b BY <2>4, <2>5, <2>6, <2>7, SeqEqual
  <2> QED BY <2>8 DEF b, c
<1>8. Abstract!Total(m) = t BY DEF Abstract!Total, Total
<1>9. pushRes' = pushRes BY DEF GetPublish
<1> HIDE DEF t, m, u, a
<1> QED BY <1>1, <1>4, <1>6, <1>7, <1>8, <1>9 DEF Abstract!Get, Msgs, u, a

\* A push is refused when the abstract one is.
LEMMA RefusalIsPushFull ==
    ASSUME IInv, NEW m \in Message, PushFull(m)
    PROVE  Abstract!PushFull(m)
<1>1. Dist(wr, rd) \in Int /\ Total(m) \in Int
  BY CursorArithmetic, MessageIsBytes, LenAssumption, SizeAssumption DEF IInv, TypeOK
<1>2. Dist(wr, rd) + Total(m) > Size
  <2>1. Size - Dist(wr, rd) < Total(m) BY DEF PushFull, FreeSpace
  <2> QED BY <1>1, <2>1, LenAssumption
<1> QED BY <1>2 DEF PushFull, Abstract!PushFull, Abstract!Total, Total

\* A get is refused when the abstract one is.
LEMMA EmptyIsGetEmpty ==
    ASSUME IInv, GetEmpty
    PROVE  Abstract!GetEmpty
<1>1. queue = <<>>
  <2> SUFFICES ASSUME queue # <<>> PROVE FALSE OBVIOUS
  <2>1. Total(queue[1].msg) \in 1 .. Size /\ Total(queue[1].msg) <= Dist(wr, rd)
    BY FirstMessage
  <2>2. Dist(wr, rd) = 0 BY CursorArithmetic DEF GetEmpty, Empty, IInv, TypeOK
  <2> QED BY <2>1, <2>2, LenAssumption
<1>2. [i \in DOMAIN queue |-> queue[i].msg] = <<>> BY <1>1
<1> QED BY <1>2 DEF GetEmpty, Abstract!GetEmpty

\* Every step of the FIFO is a step of MsgFifo or leaves its variables alone: a
\* push takes effect when it publishes, a get when it releases, and a refusal
\* is the truth at the moment of the check.
LEMMA StepImplements ==
    ASSUME IInv, [Next]_vars
    PROVE  [Abstract!Next]_Abstract!vars
<1>1. ASSUME NEW m \in Message, PushFull(m) PROVE Abstract!Next
  BY <1>1, RefusalIsPushFull DEF Abstract!Next, Abstract!Message, Message
<1>2. ASSUME PushPublish PROVE Abstract!Next
  <2>1. pmsg \in Message BY <1>2 DEF PushPublish, IInv, TypeOK
  <2>2. Abstract!Push(pmsg) BY <1>2, PublishIsPush
  <2>3. pmsg \in Abstract!Message BY <2>1 DEF Abstract!Message, Message
  <2> QED BY <2>2, <2>3 DEF Abstract!Next, Abstract!Push
<1>3. ASSUME GetPublish PROVE Abstract!Next
  BY <1>3, ReleaseIsGet DEF Abstract!Next
<1>4. ASSUME GetEmpty PROVE Abstract!Next
  BY <1>4, EmptyIsGetEmpty DEF Abstract!Next
<1>5. ASSUME NEW m \in Message, PushCheck(m) PROVE UNCHANGED Abstract!vars
  BY <1>5 DEF PushCheck, Abstract!vars
<1>6. ASSUME PushIndex \/ PushHead \/ PushPayload PROVE UNCHANGED Abstract!vars
  BY <1>6 DEF PushIndex, PushHead, PushPayload, Abstract!vars
<1>7. ASSUME GetCheck \/ GetIndex \/ GetHead \/ GetPayload PROVE UNCHANGED Abstract!vars
  BY <1>7 DEF GetCheck, GetIndex, GetHead, GetPayload, Abstract!vars
<1>8. ASSUME UNCHANGED vars PROVE UNCHANGED Abstract!vars
  BY <1>8 DEF vars, Abstract!vars
<1> QED BY <1>1, <1>2, <1>3, <1>4, <1>5, <1>6, <1>7, <1>8 DEF Next, Producer, Consumer

\* The lock-free FIFO is a message FIFO: whole messages, in order, each once.
THEOREM Refinement == Spec => ImplementsMsgFifo
<1>1. Init => Abstract!Init
  <2> SUFFICES ASSUME Init PROVE Abstract!Init OBVIOUS
  <2>1. [i \in DOMAIN queue |-> queue[i].msg] = <<>> BY DEF Init
  <2>2. Dist(wr, rd) = 0 BY DEF Init, Dist
  <2> QED BY <2>1, <2>2 DEF Init, Abstract!Init
<1>2. IInv /\ [Next]_vars => [Abstract!Next]_Abstract!vars BY StepImplements
<1> QED BY <1>1, <1>2, Invariant, PTL DEF Spec, ImplementsMsgFifo, Abstract!Spec

-------------------------------------------------------------------------------
(* The results about the shared memory test program.                       *)

\* The cleared ring, while neither side is in a call, is the initial one but
\* for what the callers remember.
LEMMA ClearRestores ==
    ASSUME TypeOK, ppc = "idle", cpc = "idle", Clear,
           UNCHANGED <<producerVars, consumerVars, pushRes, getRes>>
    PROVE  IInv'
<1>1. 0 \in Cursor /\ Dist(0, 0) = 0
  BY SizeAssumption, LenAssumption DEF Cursor, Dist
<1>2. TypeOK'
  <2>1. <<>> \in Seq([msg : Message, start : Cursor]) BY EmptySeq
  <2> QED BY <1>1, <2>1 DEF TypeOK, Clear, producerVars, consumerVars, Cell
<1>3. Layout'
  BY <1>1, LenAssumption DEF Layout, Clear, Reserved, producerVars
<1>4. Contents'
  <2>1. queue' = <<>> BY DEF Clear
  <2>2. \A i \in DOMAIN queue' : FALSE BY <2>1
  <2> QED BY <2>2 DEF Contents
<1>5. PushInProgress' BY DEF PushInProgress, producerVars
<1>6. GetInProgress' BY DEF GetInProgress, consumerVars
<1> QED BY <1>2, <1>3, <1>4, <1>5, <1>6 DEF IInv

\* A push that dies gives back what it had reserved and has published nothing.
LEMMA KillTxKeeps ==
    ASSUME IInv, KillTx
    PROVE  IInv'
<1>1. TypeOK'
  <2>1. /\ ppc' \in Pc /\ pmsg' \in Message \cup {NoMessage} /\ ppc' = "idle"
        /\ pat' \in 0 .. Size /\ pstraight' \in BOOLEAN
    <3>1. ppc' = "idle" /\ pmsg' = NoMessage /\ pat' = 0 /\ pstraight' = FALSE
      BY DEF KillTx
    <3>2. 0 \in 0 .. Size BY LenAssumption
    <3>3. "idle" \in Pc BY DEF Pc
    <3>4. pstraight' \in BOOLEAN BY <3>1
    <3> QED BY <3>1, <3>2, <3>3, <3>4
  <2>2. UNCHANGED <<wr, rd, buffer, cpc, got, glen, cat, cstraight, pushRes, getRes, queue>>
    BY DEF KillTx, consumerVars
  <2> QED BY <2>1, <2>2 DEF IInv, TypeOK
<1>2. Layout'
  <2>1. Dist(wr, rd) \in Int /\ Dist(wr, rd) + Reserved <= Size
    BY CursorArithmetic, SizeAssumption DEF IInv, TypeOK, Layout
  <2>2. Reserved \in Nat
    <3>1. ppc # "idle" => Total(pmsg) \in Nat
      BY PushSlots DEF IInv
    <3> QED BY <3>1 DEF Reserved
  <2>3. Dist(wr, rd) + 0 <= Size BY <2>1, <2>2, LenAssumption
  <2>4. Dist(wr', rd') + Reserved' <= Size BY <2>3 DEF KillTx, Reserved
  <2>5. UNCHANGED <<wr, rd, queue>> BY DEF KillTx
  <2>6. \A i \in DOMAIN queue : Offset(i)' = Offset(i) /\ Ends(i)' = Ends(i)
    BY <2>5 DEF Offset, Ends
  <2> QED BY <2>4, <2>5, <2>6 DEF IInv, Layout
<1>3. Contents' BY DEF IInv, Contents, Holds, KillTx
<1>4. PushInProgress' BY DEF PushInProgress, KillTx
<1>5. GetInProgress' BY DEF IInv, GetInProgress, KillTx, consumerVars
<1> QED BY <1>1, <1>2, <1>3, <1>4, <1>5 DEF IInv

\* A get that dies has released nothing.
LEMMA KillRxKeeps ==
    ASSUME IInv, KillRx
    PROVE  IInv'
<1>1. TypeOK'
  <2>1. <<>> \in Seq(Cell) BY EmptySeq
  <2>2. /\ cpc' \in Pc /\ got' \in Seq(Cell) /\ glen' \in Lens \cup {0}
        /\ cat' \in 0 .. Size /\ cstraight' \in BOOLEAN
    <3>1. /\ cpc' = "idle" /\ got' = <<>> /\ glen' = 0 /\ cat' = 0 /\ cstraight' = FALSE
      BY DEF KillRx
    <3>2. 0 \in 0 .. Size BY LenAssumption
    <3>3. "idle" \in Pc BY DEF Pc
    <3>4. cstraight' \in BOOLEAN BY <3>1
    <3> QED BY <2>1, <3>1, <3>2, <3>3, <3>4
  <2>3. UNCHANGED <<wr, rd, buffer, ppc, pmsg, pat, pstraight, pushRes, getRes, queue>>
    BY DEF KillRx, producerVars
  <2> QED BY <2>2, <2>3 DEF IInv, TypeOK
<1>2. Layout' /\ Contents' /\ PushInProgress'
  BY DEF IInv, Layout, Reserved, Offset, Ends, Contents, Holds, PushInProgress,
         KillRx, producerVars
<1>3. GetInProgress' BY DEF GetInProgress, KillRx
<1> QED BY <1>1, <1>2, <1>3 DEF IInv

\* Only the process a side belongs to moves it.
LEMMA SidesOwnTheirCalls ==
    /\ Producer => UNCHANGED consumerVars
    /\ Consumer => UNCHANGED producerVars
BY DEF Producer, Consumer, PushCheck, PushFull, PushIndex, PushHead, PushPayload,
       PushPublish, GetEmpty, GetCheck, GetIndex, GetHead, GetPayload, GetPublish

\* Every push, get, kill and restart keeps the invariant.
LEMMA QuietNextKeeps ==
    ASSUME QuietInv, [QuietNext]_shmVars
    PROVE  QuietInv'
<1>1. CASE "tx" \in running /\ Producer /\ UNCHANGED <<running, lost>>
  <2>1. IInv' BY <1>1, NextKeeps DEF QuietInv, Next
  <2>2. cpc' = cpc BY <1>1, SidesOwnTheirCalls DEF consumerVars
  <2> QED BY <1>1, <2>1, <2>2 DEF QuietInv
<1>2. CASE "rx" \in running /\ Consumer /\ UNCHANGED <<running, lost>>
  <2>1. IInv' BY <1>2, NextKeeps DEF QuietInv, Next
  <2>2. ppc' = ppc BY <1>2, SidesOwnTheirCalls DEF producerVars
  <2> QED BY <1>2, <2>1, <2>2 DEF QuietInv
<1>3. CASE cpc = "idle" /\ StartTx
  <2>1. IInv' BY <1>3, ClearRestores DEF QuietInv, IInv, StartTx
  <2> QED BY <1>3, <2>1 DEF QuietInv, StartTx, producerVars, consumerVars
<1>4. CASE ppc = "idle" /\ StartRx
  <2>1. IInv' BY <1>4, ClearRestores DEF QuietInv, IInv, StartRx
  <2> QED BY <1>4, <2>1 DEF QuietInv, StartRx, producerVars, consumerVars
<1>5. CASE KillTx
  <2>1. IInv' BY <1>5, KillTxKeeps DEF QuietInv
  <2> QED BY <1>5, <2>1 DEF QuietInv, KillTx, consumerVars
<1>6. CASE KillRx
  <2>1. IInv' BY <1>6, KillRxKeeps DEF QuietInv
  <2> QED BY <1>6, <2>1 DEF QuietInv, KillRx, producerVars
<1>7. CASE UNCHANGED shmVars
  <2>1. IInv' BY <1>7, NextKeeps DEF QuietInv, shmVars
  <2> QED BY <1>7, <2>1 DEF QuietInv, shmVars, vars, producerVars, consumerVars
<1> QED BY <1>1, <1>2, <1>3, <1>4, <1>5, <1>6, <1>7 DEF QuietNext

\* The invariant of the FIFO survives every kill and every restart that waits
\* for the other process to be between two calls.
THEOREM QuietInvariant == QuietSpec => []QuietInv
<1>1. ShmInit => QuietInv BY InitInvariant DEF ShmInit, QuietInv, Init
<1>2. QuietInv /\ [QuietNext]_shmVars => QuietInv' BY QuietNextKeeps
<1> QED BY <1>1, <1>2, PTL DEF QuietSpec

\* Every head the receiving process gets is one the sender wrote, with its
\* MAGIC_NUM, whatever was killed and restarted before.
THEOREM HeadsAlwaysMagic == QuietSpec => []EveryHeadIsMagic
<1>1. QuietInv => EveryHeadIsMagic
  <2> SUFFICES ASSUME QuietInv, cpc = "payload"
               PROVE  \E m \in Message : got = HeadBytes(m)
    BY DEF EveryHeadIsMagic
  <2>1. queue # <<>> /\ got = HeadBytes(queue[1].msg)
    BY DEF QuietInv, IInv, GetInProgress
  <2>2. queue[1].msg \in Message BY <2>1, FirstMessage DEF QuietInv
  <2> QED BY <2>1, <2>2
<1> QED BY <1>1, QuietInvariant, PTL

\* A start wipes what is queued, and only that.
LEMMA StartEmpties ==
    ASSUME NEW p \in {"tx", "rx"}, p \notin running, running' = running \cup {p},
           Clear, UNCHANGED <<pushRes, getRes>>
    PROVE  Shared!Start(p)
<1>1. Published' = <<>> BY DEF Published, Clear
<1>2. Dist(wr', rd') = 0 BY SizeAssumption, LenAssumption DEF Clear, Dist
<1>3. lost' = Published BY DEF Clear
<1> QED BY <1>1, <1>2, <1>3 DEF Shared!Start

\* Every push, get, kill and restart is one of ShmQueue, or leaves its variables
\* alone.
LEMMA QuietStepImplements ==
    ASSUME QuietInv, [QuietNext]_shmVars
    PROVE  [Shared!ShmNext]_Shared!shmVars
<1>1. CASE "tx" \in running /\ Producer /\ UNCHANGED <<running, lost>>
  <2>1. ASSUME NEW m \in Message, PushFull(m) PROVE Shared!PushFull(m)
    BY <2>1, RefusalIsPushFull
    DEF QuietInv, Published, Abstract!PushFull, Abstract!Total, Shared!PushFull, Shared!Total
  <2>2. ASSUME PushPublish PROVE Shared!Push(pmsg)
    BY <2>2, PublishIsPush
    DEF QuietInv, Published, Abstract!Push, Abstract!Total, Shared!Push, Shared!Total
  <2>3. ASSUME PushPublish PROVE pmsg \in Message
    BY <2>3 DEF PushPublish, QuietInv, IInv, TypeOK
  <2>4. ASSUME NEW m \in Message, PushCheck(m) PROVE UNCHANGED Shared!shmVars
    BY <1>1, <2>4 DEF PushCheck, Published, Shared!shmVars, Shared!vars
  <2>5. ASSUME PushIndex \/ PushHead \/ PushPayload PROVE UNCHANGED Shared!shmVars
    BY <1>1, <2>5 DEF PushIndex, PushHead, PushPayload, Published, Shared!shmVars, Shared!vars
  <2> QED
    BY <1>1, <2>1, <2>2, <2>3, <2>4, <2>5
    DEF Producer, Shared!ShmNext, Shared!Tx, Shared!Message, Message
<1>2. CASE "rx" \in running /\ Consumer /\ UNCHANGED <<running, lost>>
  <2>1. ASSUME GetEmpty PROVE Shared!GetEmpty
    BY <2>1, EmptyIsGetEmpty DEF QuietInv, Published, Abstract!GetEmpty, Shared!GetEmpty
  <2>2. ASSUME GetPublish PROVE Shared!Get
    BY <2>2, ReleaseIsGet
    DEF QuietInv, Published, Abstract!Get, Abstract!Total, Shared!Get, Shared!Total
  <2>3. ASSUME GetCheck \/ GetIndex \/ GetHead \/ GetPayload
        PROVE  UNCHANGED Shared!shmVars
    BY <1>2, <2>3 DEF GetCheck, GetIndex, GetHead, GetPayload, Published,
                      Shared!shmVars, Shared!vars
  <2> QED BY <1>2, <2>1, <2>2, <2>3 DEF Consumer, Shared!ShmNext, Shared!Rx
<1>3. CASE cpc = "idle" /\ StartTx
  <2>1. Shared!Start("tx") BY <1>3, StartEmpties DEF StartTx
  <2> QED BY <2>1 DEF Shared!ShmNext
<1>4. CASE ppc = "idle" /\ StartRx
  <2>1. Shared!Start("rx") BY <1>4, StartEmpties DEF StartRx
  <2> QED BY <2>1 DEF Shared!ShmNext
<1>5. CASE KillTx
  <2>1. Shared!Kill("tx") BY <1>5 DEF KillTx, Shared!Kill, Shared!vars, Published
  <2> QED BY <2>1 DEF Shared!ShmNext
<1>6. CASE KillRx
  <2>1. Shared!Kill("rx") BY <1>6 DEF KillRx, Shared!Kill, Shared!vars, Published
  <2> QED BY <2>1 DEF Shared!ShmNext
<1>7. CASE UNCHANGED shmVars
  BY <1>7 DEF shmVars, vars, Shared!shmVars, Shared!vars, Published
<1> QED BY <1>1, <1>2, <1>3, <1>4, <1>5, <1>6, <1>7 DEF QuietNext

\* A kill in the middle of a push or a get costs no published message and
\* leaves no half of one behind; a start costs exactly those published and not
\* got; all others come out whole, in order and once.
THEOREM RestartsImplementShmQueue == QuietSpec => ImplementsShmQueue
<1>1. ShmInit => Shared!ShmInit
  <2> SUFFICES ASSUME ShmInit PROVE Shared!ShmInit OBVIOUS
  <2>1. Published = <<>> BY DEF ShmInit, Init, Published
  <2>2. Dist(wr, rd) = 0 BY SizeAssumption, LenAssumption DEF ShmInit, Init, Dist
  <2> QED BY <2>1, <2>2 DEF ShmInit, Init, Shared!ShmInit, Shared!Init
<1>2. QuietInv /\ [QuietNext]_shmVars => [Shared!ShmNext]_Shared!shmVars
  BY QuietStepImplements
<1> QED BY <1>1, <1>2, QuietInvariant, PTL DEF QuietSpec, ImplementsShmQueue, Shared!ShmSpec

\* Nor does a restart let the two processes copy out of bounds or over each
\* other's bytes.
THEOREM CrashesKeepCopiesApart == QuietSpec => [](CopiesInBounds /\ NoByteRace)
<1>1. QuietInv => CopiesInBounds /\ NoByteRace
  BY CopiesStayInBounds, SidesStayApart DEF QuietInv
<1> QED BY <1>1, QuietInvariant, PTL
===============================================================================
