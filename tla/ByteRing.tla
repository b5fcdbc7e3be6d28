------------------------------- MODULE ByteRing -------------------------------
(***************************************************************************)
(* Messages as bytes, and the memcpys that move them into and out of a     *)
(* byte ring: what push and get of both FIFOs of phy_eth_common.c share.   *)
(*                                                                         *)
(* A message is a head of HeadLen bytes, which carries the length, and     *)
(* that many payload bytes.  The contents of a byte are abstracted to      *)
(* which message it is of and which byte of it: <<m, k>>.                  *)
(***************************************************************************)
EXTENDS Integers, Sequences

CONSTANTS
    Size,      \* bytes in the ring
    HeadLen,   \* sizeof(msg_head)
    Ids,       \* what tells two messages of the same length apart
    Lens       \* the payload lengths callers use

\* A message has at least a head, and fits in an empty ring.
ASSUME LenAssumption ==
    /\ Size \in Nat \ {0}
    /\ HeadLen \in Nat \ {0}
    /\ Lens \subseteq Nat
    /\ \A n \in Lens : HeadLen + n <= Size

Message == [id : Ids, len : Lens]
Total(m) == HeadLen + m.len

Slot == 0 .. Size - 1

NoByte == <<>>                  \* a zero byte, as in memory never written
Byte   == Message \X (0 .. Size - 1)
Cell   == Byte \cup {NoByte}

\* The sources of the memcpys, and the whole message.
HeadBytes(m)    == [k \in 1 .. HeadLen |-> <<m, k - 1>>]
PayloadBytes(m) == [k \in 1 .. m.len |-> <<m, HeadLen + k - 1>>]
MessageBytes(m) == [k \in 1 .. Total(m) |-> <<m, k - 1>>]

\* Mutants of the next two: a split one byte late, and no wrap after a split.
CopySlotLateSplit(i, straight, k) ==
    IF straight \/ k <= Size - i THEN i + k ELSE k - (Size - i)

AfterCopyNoWrap(i, straight, n) == i + n

\* Where byte k (from 0) of a copy at ring index i goes.  The straight branch
\* never wraps; the other one splits the copy at the end of the buffer.
CopySlot(i, straight, k) ==
    IF straight \/ k < Size - i THEN i + k ELSE k - (Size - i)

\* The local index after an n-byte copy that started at i.
AfterCopy(i, straight, n) ==
    IF straight \/ n < Size - i THEN i + n ELSE n - (Size - i)

\* The ring slots an n-byte copy at i touches.
CopySlots(i, straight, n) == {CopySlot(i, straight, k) : k \in 0 .. n - 1}

\* The buffer after the bytes of src were copied into it from index i on; a
\* byte that falls outside of it is lost.
Written(buffer, src, i, straight) ==
    [s \in Slot |->
        LET hits == {k \in 1 .. Len(src) : CopySlot(i, straight, k - 1) = s}
        IN  IF hits = {} THEN buffer[s] ELSE src[CHOOSE k \in hits : TRUE]]

\* The n bytes copied out of the buffer from index i on; a byte outside of it
\* reads as no message's byte.
ReadOut(buffer, i, straight, n) ==
    [k \in 1 .. n |->
        LET s == CopySlot(i, straight, k - 1)
        IN  IF s \in Slot THEN buffer[s] ELSE NoByte]

\* The length field of a head is whatever its bytes say: the length of the
\* message they are the head of, zero in zeroed memory, or of any message.
LengthsIn(head) ==
    LET of == {m \in Message : head = HeadBytes(m)}
    IN  IF of # {} THEN {m.len : m \in of}
        ELSE IF \A k \in DOMAIN head : head[k] = NoByte THEN {0}
        ELSE Lens

\* What a get hands to its caller: the message its bytes are, if they are one.
Decoded(bytes) ==
    LET of == {m \in Message : bytes = MessageBytes(m)}
    IN  IF of = {} THEN <<"garbage">> ELSE <<"got", CHOOSE m \in of : TRUE>>
===============================================================================
