---------------------------- MODULE ByteRingProofs ----------------------------
(***************************************************************************)
(* What the copies of ByteRing do to a buffer, for every size of the ring  *)
(* and every set of messages that fit in it.                               *)
(***************************************************************************)
EXTENDS ByteRing, SequenceTheorems, TLAPS

-------------------------------------------------------------------------------
(* Indices.                                                                *)

\* Division by the size of the ring.
LEMMA Quotient ==
    ASSUME NEW a \in Nat
    PROVE  /\ a % Size \in Slot
           /\ a \div Size \in Nat
           /\ a = Size * (a \div Size) + (a % Size)
BY LenAssumption DEF Slot

\* The remainder is what is left below Size of any multiple of it.
LEMMA RemainderUnique ==
    ASSUME NEW a \in Nat, NEW q \in Int, NEW r \in Slot, a = Size * q + r
    PROVE  a % Size = r
<1> DEFINE p == a \div Size
           t == a % Size
<1>1. p \in Nat /\ t \in Slot /\ a = Size * p + t BY Quotient
<1> HIDE DEF p, t
<1>2. Size \in Nat \ {0} BY LenAssumption
<1>3. \A d \in Int : d >= 1 => Size * d >= Size BY <1>2
<1>4. Size * (p - q) = r - t /\ Size * (q - p) = t - r
  <2>1. Size * (p - q) = Size * p - Size * q BY <1>1, <1>2
  <2>2. Size * (q - p) = Size * q - Size * p BY <1>1, <1>2
  <2> QED BY <2>1, <2>2, <1>1, <1>2 DEF Slot
<1>5. ~ (p - q >= 1)
  <2>1. p - q >= 1 => Size * (p - q) >= Size BY <1>1, <1>3
  <2> QED BY <2>1, <1>1, <1>2, <1>4 DEF Slot
<1>6. ~ (q - p >= 1)
  <2>1. q - p >= 1 => Size * (q - p) >= Size BY <1>1, <1>3
  <2> QED BY <2>1, <1>1, <1>2, <1>4 DEF Slot
<1>7. p = q BY <1>5, <1>6, <1>1
<1>8. t = r BY <1>7, <1>1, <1>2 DEF Slot
<1> QED BY <1>8 DEF t

-------------------------------------------------------------------------------
(* Copies.                                                                 *)

\* An n-byte copy at index i that stays inside the ring: a straight one ends
\* before the end of the buffer, a split one is no longer than the buffer.
CopyFits(i, straight, n) ==
    /\ i \in 0 .. Size
    /\ n \in 0 .. Size
    /\ straight \in BOOLEAN
    /\ straight => i + n <= Size
    /\ ~straight => i < Size

\* The slots of a copy that fits are slots of the buffer, and different bytes
\* of the copy have different slots.
LEMMA CopySlotsDistinct ==
    ASSUME NEW i, NEW straight, NEW n, CopyFits(i, straight, n)
    PROVE  /\ \A k \in 0 .. n - 1 : CopySlot(i, straight, k) \in Slot
           /\ \A j, k \in 0 .. n - 1 :
                CopySlot(i, straight, j) = CopySlot(i, straight, k) => j = k
           /\ CopySlots(i, straight, n) \subseteq Slot
BY LenAssumption DEF CopyFits, CopySlot, CopySlots, Slot

\* After a copy that fits, its slots hold its bytes and the others are as
\* before.
LEMMA WrittenBytes ==
    ASSUME NEW buffer \in [Slot -> Cell], NEW n,
           NEW src, src \in Seq(Cell), Len(src) = n,
           NEW i, NEW straight, CopyFits(i, straight, n)
    PROVE  /\ Written(buffer, src, i, straight) \in [Slot -> Cell]
           /\ \A k \in 0 .. n - 1 :
                Written(buffer, src, i, straight)[CopySlot(i, straight, k)] = src[k + 1]
           /\ \A s \in Slot : s \notin CopySlots(i, straight, n) =>
                Written(buffer, src, i, straight)[s] = buffer[s]
<1> DEFINE hits(s) == {k \in 1 .. Len(src) : CopySlot(i, straight, k - 1) = s}
           new(s)  == IF hits(s) = {} THEN buffer[s] ELSE src[CHOOSE k \in hits(s) : TRUE]
           b       == Written(buffer, src, i, straight)
<1>1. n \in Nat BY LenAssumption DEF CopyFits
<1>2. b = [s \in Slot |-> new(s)]
  BY DEF Written
<1>3. \A s : hits(s) # {} => (CHOOSE k \in hits(s) : TRUE) \in hits(s)
  OBVIOUS
<1>4. \A s \in Slot : new(s) \in Cell
  <2> TAKE s \in Slot
  <2>1. CASE hits(s) = {} BY <2>1
  <2>2. CASE hits(s) # {}
    <3>1. (CHOOSE k \in hits(s) : TRUE) \in 1 .. Len(src) BY <1>3, <2>2
    <3> QED BY <3>1, <2>2, ElementOfSeq
  <2> QED BY <2>1, <2>2
<1>5. ASSUME NEW k \in 0 .. n - 1
      PROVE  b[CopySlot(i, straight, k)] = src[k + 1]
  <2> DEFINE s == CopySlot(i, straight, k)
  <2>1. s \in Slot BY CopySlotsDistinct
  <2>2. k + 1 \in hits(s) BY <1>1
  <2>3. \A j \in hits(s) : j = k + 1
    <3> TAKE j \in hits(s)
    <3>1. j - 1 \in 0 .. n - 1 /\ CopySlot(i, straight, j - 1) = CopySlot(i, straight, k)
      BY <1>1
    <3>2. j - 1 = k BY <3>1, CopySlotsDistinct
    <3> QED BY <3>2, <1>1
  <2>4. (CHOOSE j \in hits(s) : TRUE) = k + 1 BY <2>2, <2>3, <1>3
  <2> HIDE DEF hits
  <2> QED BY <1>2, <2>1, <2>2, <2>4
<1>6. ASSUME NEW s \in Slot, s \notin CopySlots(i, straight, n)
      PROVE  b[s] = buffer[s]
  <2>1. hits(s) = {} BY <1>6, <1>1 DEF CopySlots
  <2> QED BY <1>2, <2>1
<1> HIDE DEF new
<1>7. b \in [Slot -> Cell] BY <1>2, <1>4
<1> QED BY <1>5, <1>6, <1>7

\* What a copy that fits reads out of a buffer.
LEMMA ReadOutBytes ==
    ASSUME NEW buffer \in [Slot -> Cell], NEW n,
           NEW i, NEW straight, CopyFits(i, straight, n)
    PROVE  /\ ReadOut(buffer, i, straight, n) \in Seq(Cell)
           /\ Len(ReadOut(buffer, i, straight, n)) = n
           /\ \A k \in 1 .. n :
                ReadOut(buffer, i, straight, n)[k] = buffer[CopySlot(i, straight, k - 1)]
<1> DEFINE r == ReadOut(buffer, i, straight, n)
<1>1. n \in Nat BY LenAssumption DEF CopyFits
<1>2. \A k \in 1 .. n : CopySlot(i, straight, k - 1) \in Slot
  BY CopySlotsDistinct, <1>1
<1>3. \A k \in 1 .. n : r[k] = buffer[CopySlot(i, straight, k - 1)]
  BY <1>2 DEF ReadOut
<1>4. r \in [1 .. n -> Cell]
  BY <1>2 DEF ReadOut
<1>5. r \in Seq(Cell) /\ Len(r) = n
  BY <1>4, <1>1
<1> QED BY <1>3, <1>5

\* It reads a sequence out if the bytes of that are in its slots.
LEMMA ReadOutIs ==
    ASSUME NEW buffer \in [Slot -> Cell], NEW n,
           NEW i, NEW straight, CopyFits(i, straight, n),
           NEW src, src \in Seq(Cell), Len(src) = n,
           \A k \in 0 .. n - 1 : buffer[CopySlot(i, straight, k)] = src[k + 1]
    PROVE  ReadOut(buffer, i, straight, n) = src
<1> DEFINE r == ReadOut(buffer, i, straight, n)
<1>1. r \in Seq(Cell) /\ Len(r) = n
      /\ \A k \in 1 .. n : r[k] = buffer[CopySlot(i, straight, k - 1)]
  BY ReadOutBytes
<1>2. n \in Nat BY LenAssumption DEF CopyFits
<1>3. \A k \in 1 .. n : r[k] = src[k]
  <2> TAKE k \in 1 .. n
  <2>1. k - 1 \in 0 .. n - 1 /\ k - 1 + 1 = k BY <1>2
  <2>2. buffer[CopySlot(i, straight, k - 1)] = src[k - 1 + 1] BY <2>1
  <2> HIDE DEF r
  <2> QED BY <1>1, <2>1, <2>2
<1> HIDE DEF r
<1>4. r = src BY <1>1, <1>3, SeqEqual
<1> QED BY <1>4 DEF r

\* The bytes of a message.
LEMMA MessageIsBytes ==
    ASSUME NEW m \in Message
    PROVE  /\ m.len \in Nat /\ Total(m) \in HeadLen .. Size
           /\ HeadBytes(m) \in Seq(Cell) /\ Len(HeadBytes(m)) = HeadLen
           /\ PayloadBytes(m) \in Seq(Cell) /\ Len(PayloadBytes(m)) = m.len
           /\ MessageBytes(m) \in Seq(Cell) /\ Len(MessageBytes(m)) = Total(m)
           /\ MessageBytes(m) = HeadBytes(m) \o PayloadBytes(m)
<1>1. m.len \in Nat /\ m.len \in Lens /\ Total(m) \in HeadLen .. Size
  <2>1. m.len \in Lens BY DEF Message
  <2>2. m.len \in Nat BY <2>1, LenAssumption
  <2>3. HeadLen + m.len <= Size BY <2>1, LenAssumption
  <2> QED BY <2>1, <2>2, <2>3, LenAssumption DEF Total
<1>2. \A k \in 0 .. Size - 1 : <<m, k>> \in Cell
  BY DEF Cell, Byte
<1>3. HeadBytes(m) \in [1 .. HeadLen -> Cell]
  BY <1>1, <1>2, LenAssumption DEF HeadBytes
<1>4. PayloadBytes(m) \in [1 .. m.len -> Cell]
  BY <1>1, <1>2, LenAssumption DEF PayloadBytes, Total
<1>5. MessageBytes(m) \in [1 .. Total(m) -> Cell]
  BY <1>1, <1>2, LenAssumption DEF MessageBytes
<1>6. HeadBytes(m) \in Seq(Cell) /\ Len(HeadBytes(m)) = HeadLen
  BY <1>3, LenAssumption
<1>7. PayloadBytes(m) \in Seq(Cell) /\ Len(PayloadBytes(m)) = m.len
  BY <1>4, <1>1
<1>8. MessageBytes(m) \in Seq(Cell) /\ Len(MessageBytes(m)) = Total(m)
  BY <1>5, <1>1, LenAssumption
<1>9. MessageBytes(m) = HeadBytes(m) \o PayloadBytes(m)
  <2>1. HeadBytes(m) \o PayloadBytes(m) \in Seq(Cell)
        /\ Len(HeadBytes(m) \o PayloadBytes(m)) = Total(m)
    <3> DEFINE h == HeadBytes(m)
               p == PayloadBytes(m)
    <3>1. h \in Seq(Cell) /\ p \in Seq(Cell) /\ Len(h) = HeadLen /\ Len(p) = m.len
      BY <1>6, <1>7
    <3> HIDE DEF h, p
    <3>2. h \o p \in Seq(Cell) /\ Len(h \o p) = Len(h) + Len(p)
      BY <3>1, ConcatProperties
    <3>3. Len(h \o p) = HeadLen + m.len BY <3>1, <3>2
    <3> QED BY <3>2, <3>3 DEF Total, h, p
  <2>2. \A k \in 1 .. Total(m) :
          MessageBytes(m)[k] = (HeadBytes(m) \o PayloadBytes(m))[k]
    <3> TAKE k \in 1 .. Total(m)
    <3>1. MessageBytes(m)[k] = <<m, k - 1>> BY DEF MessageBytes
    <3>2. (HeadBytes(m) \o PayloadBytes(m))[k] =
             IF k <= HeadLen THEN HeadBytes(m)[k] ELSE PayloadBytes(m)[k - HeadLen]
      BY <1>6, <1>7, ConcatProperties DEF Total
    <3>3. CASE k <= HeadLen
      BY <3>1, <3>2, <3>3, LenAssumption DEF HeadBytes
    <3>4. CASE k > HeadLen
      <4>1. k - HeadLen \in 1 .. m.len /\ HeadLen + (k - HeadLen) - 1 = k - 1
        BY <3>4, <1>1, LenAssumption DEF Total
      <4>2. PayloadBytes(m)[k - HeadLen] = <<m, HeadLen + (k - HeadLen) - 1>>
        BY <4>1 DEF PayloadBytes
      <4> QED BY <3>1, <3>2, <3>4, <4>1, <4>2, LenAssumption
    <3>5. k <= HeadLen \/ k > HeadLen BY <1>1, LenAssumption
    <3> QED BY <3>3, <3>4, <3>5
  <2> QED BY <2>1, <2>2, <1>8, SeqEqual
<1> QED BY <1>1, <1>6, <1>7, <1>8, <1>9

\* A head tells the length of its message, and the bytes of a message are
\* decoded to it.
LEMMA HeadTellsLength ==
    ASSUME NEW m \in Message
    PROVE  LengthsIn(HeadBytes(m)) = {m.len}
<1> DEFINE of == {x \in Message : HeadBytes(m) = HeadBytes(x)}
<1>1. \A x \in of : x = m
  <2> TAKE x \in of
  <2>1. HeadBytes(m)[1] = <<m, 1 - 1>> /\ HeadBytes(x)[1] = <<x, 1 - 1>>
    BY LenAssumption DEF HeadBytes
  <2> QED BY <2>1
<1>2. of = {m} BY <1>1
<1> HIDE DEF of
<1>3. {x.len : x \in of} = {m.len} BY <1>2
<1> QED BY <1>2, <1>3 DEF LengthsIn, of

\* What the bytes of a message decode to is that message.
LEMMA MessageDecoded ==
    ASSUME NEW m \in Message
    PROVE  Decoded(MessageBytes(m)) = <<"got", m>>
<1> DEFINE of == {x \in Message : MessageBytes(m) = MessageBytes(x)}
<1>1. \A x \in of : x = m
  <2> TAKE x \in of
  <2>1. 1 \in 1 .. Total(m) /\ 1 \in 1 .. Total(x)
    BY MessageIsBytes, LenAssumption
  <2>2. MessageBytes(m)[1] = <<m, 1 - 1>> /\ MessageBytes(x)[1] = <<x, 1 - 1>>
    BY <2>1 DEF MessageBytes
  <2> QED BY <2>2
<1>2. of = {m} BY <1>1
<1> HIDE DEF of
<1>3. (CHOOSE x \in of : TRUE) = m BY <1>2
<1> QED BY <1>2, <1>3 DEF Decoded, of
===============================================================================
