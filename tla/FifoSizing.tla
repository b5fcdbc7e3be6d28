------------------------------ MODULE FifoSizing ------------------------------
(***************************************************************************)
(* How create_msg_fifo_without_lock chooses the size of the ring: the      *)
(* requested size is adjusted to a power of two, because the ring index of *)
(* a cursor is its low bits (GET_WR_INDEX), and a size above MSG_FIFO_MAX  *)
(* is refused.  The state is one request and what it was answered.         *)
(*                                                                         *)
(* An unsigned int has WordBits bits, 32 in the code.  The scan for the    *)
(* highest bit starts four bits below the top (0x8000000 has seven zeros   *)
(* where 0x80000000 has eight digits) and answers as if it started there.  *)
(***************************************************************************)
EXTENDS Integers, FiniteSetsExt

CONSTANTS
    WordBits,    \* bits of an unsigned int
    MsgFifoMax,  \* MSG_FIFO_MAX
    Requests     \* the sizes asked for, each a size_t

\* The first bit the scan does not reach is the one above its first mask.
FirstMask == WordBits - 5

BitSet(n, b) == (n \div 2^b) % 2 = 1

\* The mask moves down one bit a turn; in turn i the answer is 31 - i.
FirstBit1(size) ==
    LET hits == {i \in 0 .. FirstMask : BitSet(size, FirstMask - i)}
    IN  IF hits = {} THEN 0 ELSE WordBits - 1 - Min(hits)

\* Mutant: the size is taken as it is.
Unadjusted(size) == {size}

\* 1 << i.  A shift by all bits of the word is undefined: the machine's shift
\* gives one, the compiler's may give zero.
ShiftedOne(i) == IF i < WordBits THEN {2^i} ELSE {0, 1}

AdjustedSize2n(size) ==
    LET i == FirstBit1(size)
    IN  IF 2^i < size THEN ShiftedOne(i + 1) ELSE ShiftedOne(i)

Refused == -1

\* The answers of create_msg_fifo_without_lock, when malloc succeeds: its size_t
\* is cut to an unsigned int.
CreateMsgFifo(size) ==
    {IF adjusted > MsgFifoMax THEN Refused ELSE adjusted :
        adjusted \in AdjustedSize2n(size % 2^WordBits)}

VARIABLES
    request,  \* the size asked for
    size      \* pfifo->size, or Refused

vars == <<request, size>>

Init == request = 0 /\ size = Refused

Next ==
    \E n \in Requests :
        /\ request' = n
        /\ size' \in CreateMsgFifo(n)

Spec == Init /\ [][Next]_vars

-------------------------------------------------------------------------------
IsPowerOfTwo(n) == \E b \in 0 .. WordBits - 1 : n = 2^b

\* What the FIFO needs of a size: the bytes it was asked for, and a power of two,
\* so that masking a cursor is taking it modulo the size (the size then divides
\* the 2^16 values of a cursor, with room to tell full from empty).  Every size
\* that is not refused is one, as long as the request has no bit above the
\* first mask of the scan (is below 2^28); from there on every FIFO that is
\* created is too small.  What is asked for may be rounded to as much as 16 times
\* itself, so only a sixteenth of MSG_FIFO_MAX is sure to be given.
SizeIsUsable ==
    /\ size # Refused =>
           /\ size >= request <=> request < 2^(FirstMask + 1)
           /\ request < 2^(FirstMask + 1) =>
                  IsPowerOfTwo(size) /\ 2^16 % size = 0 /\ 2 * size <= 2^16
    /\ request > 0 /\ 16 * request <= MsgFifoMax => size # Refused
===============================================================================
