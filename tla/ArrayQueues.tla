----------------------------- MODULE ArrayQueues -----------------------------
(***************************************************************************)
(* fifo.c and lifo.c, each with a caller that has initialised it and then  *)
(* calls in any order.  FifoInit leaves a status that is none of the       *)
(* others, so that a pop of the fresh FIFO succeeds; what it leaves behind *)
(* is taken for a FIFO that lacks one element to be full.                  *)
(***************************************************************************)
EXTENDS StatusFifo, SequencesExt

CONSTANTS
    Values,  \* the numbers pushed
    Word     \* 2^32: a sum is returned as an unsigned int

VARIABLES
    fifo,      \* *pFifo
    lifo,      \* *pLifo: its data, index and status
    inFifo,    \* history: what has been pushed and not popped, behind the zeros
               \* that the pop of a fresh FIFO makes it hold
    inLifo,    \* history: what has been pushed and not popped
    astray     \* LifoPop has read outside the array

vars == <<fifo, lifo, inFifo, inLifo, astray>>

LifoInit == [data |-> [i \in 0 .. DataLen - 1 |-> 0], index |-> 0, status |-> Cleared]

Init ==
    /\ fifo = FifoInit
    /\ lifo = LifoInit
    /\ inFifo = <<>>
    /\ inLifo = <<>>
    /\ astray = FALSE

-------------------------------------------------------------------------------
(* fifo.c                                                                  *)

PushFifo(d) ==
    /\ IF PushFails(fifo) THEN UNCHANGED <<fifo, inFifo>>
       ELSE fifo' = FifoPush(fifo, d) /\ inFifo' = Append(inFifo, d)
    /\ UNCHANGED <<lifo, inLifo, astray>>

\* What a FIFO holds after it was popped before anything was pushed.
Phantoms == [i \in 1 .. DataLen - 1 |-> 0]

PopFifo ==
    /\ IF PopFails(fifo) THEN UNCHANGED <<fifo, inFifo>>
       ELSE /\ fifo' = FifoPop(fifo)
            /\ inFifo' = IF fifo.status = Cleared THEN Phantoms ELSE Tail(inFifo)
    /\ UNCHANGED <<lifo, inLifo, astray>>

Endless == "endless"

SumOf(s) == FoldLeft(LAMBDA x, y : x + y, 0, s) % Word

\* The loop of GetSum tests its index before it wraps it: after turn i > 0 the
\* index is one to DataLen, never zero.
SumIndex(q, i) == IF i = 0 THEN q.rIndex ELSE ((q.rIndex + i - 1) % DataLen) + 1

FifoGetSum(q) ==
    LET stops == {i \in 0 .. 2 * DataLen : SumIndex(q, i) = q.wIndex}
    IN  IF stops = {} THEN Endless
        ELSE SumOf([i \in 1 .. Min(stops) |-> q.data[(q.rIndex + i - 1) % DataLen]])

FifoNext == PopFifo \/ \E d \in Values : PushFifo(d)

-------------------------------------------------------------------------------
(* lifo.c                                                                  *)

LifoPush(s, d) ==
    [s EXCEPT !.data[s.index] = d,
              !.index = s.index + 1,
              !.status = IF s.index + 1 = DataLen THEN Full ELSE Normal]

PushLifo(d) ==
    /\ ~astray
    /\ IF lifo.status = Full THEN UNCHANGED <<lifo, inLifo>>
       ELSE lifo' = LifoPush(lifo, d) /\ inLifo' = Append(inLifo, d)
    /\ UNCHANGED <<fifo, inFifo, astray>>

\* The index is compared with LIFO_DATA_LEN, which it never is after a pop, so
\* that the status is never EMPTY.
LifoPop(s) ==
    [s EXCEPT !.index = s.index - 1,
              !.status = IF s.index - 1 = DataLen THEN Empty ELSE Normal]

\* A pop of nothing therefore goes below the array.
PopLifo ==
    /\ ~astray
    /\ IF lifo.status = Empty THEN UNCHANGED <<lifo, inLifo, astray>>
       ELSE IF lifo.index = 0 THEN astray' = TRUE /\ UNCHANGED <<lifo, inLifo>>
       ELSE lifo' = LifoPop(lifo) /\ inLifo' = Front(inLifo) /\ UNCHANGED astray
    /\ UNCHANGED <<fifo, inFifo>>

LifoGetSum(s) == SumOf([i \in 1 .. s.index |-> s.data[i - 1]])

LifoNext == PopLifo \/ \E d \in Values : PushLifo(d)

Next == FifoNext \/ LifoNext

-------------------------------------------------------------------------------
(* Properties.                                                             *)

TypeOK ==
    /\ IsFifo(fifo, Values \cup {0})
    /\ lifo.index \in 0 .. DataLen
    /\ inFifo \in BoundedSeq(Values \cup {0}, DataLen)
    /\ inLifo \in BoundedSeq(Values, DataLen)

\* The status and the two indices of the FIFO say the same, wherever the
\* indices have wrapped to: the elements from the read index on are those
\* pushed and not popped, oldest first, and the status is FULL with DataLen of
\* them, EMPTY with none, NORMAL otherwise.  So a push is refused exactly when
\* there is no room, a pop exactly when there is nothing, and a pop gives the
\* oldest element.  The exception is a FIFO nothing was ever pushed into: its
\* first pop is not refused, and from then on the FIFO holds DataLen - 1 zeros
\* nobody pushed, which come out before anything that is.
FifoHoldsPushed ==
    /\ inFifo = [i \in 1 .. Len(inFifo) |-> fifo.data[(fifo.rIndex + i - 1) % DataLen]]
    /\ fifo.wIndex = (fifo.rIndex + Len(inFifo)) % DataLen
    /\ fifo.status # Cleared =>
           fifo.status = CASE inFifo = <<>> -> Empty
                           [] Len(inFifo) = DataLen -> Full
                           [] OTHER -> Normal

\* GetSum is the sum of what the FIFO holds with two exceptions: of a full one
\* it is zero, and it does not come back when the write index has wrapped to
\* zero and the read index has not.
FifoSumsHeld ==
    FifoGetSum(fifo) = CASE Len(inFifo) = DataLen -> 0
                         [] fifo.wIndex = 0 /\ fifo.rIndex # 0 -> Endless
                         [] OTHER -> SumOf(inFifo)

\* The LIFO holds what was pushed and not popped below its index, refuses a
\* push exactly when it is full, and sums what it holds, as long as nobody
\* pops an empty one.
LifoHoldsPushed ==
    ~astray =>
        /\ inLifo = [i \in 1 .. lifo.index |-> lifo.data[i - 1]]
        /\ (lifo.status = Full) = (Len(inLifo) = DataLen)
        /\ LifoGetSum(lifo) = SumOf(inLifo)
===============================================================================
