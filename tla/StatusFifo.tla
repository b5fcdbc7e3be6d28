----------------------------- MODULE StatusFifo -----------------------------
(***************************************************************************)
(* The FIFO of fifo.c, which the red-black tree exerciser has a copy of:   *)
(* an array, two indices and a status that tells a full array from an      *)
(* empty one.  A FIFO is a record, and its functions are operators on it.  *)
(***************************************************************************)
EXTENDS Integers, FiniteSets

CONSTANT DataLen  \* FIFO_DATA_LEN

\* The values of status.  Zero, which FifoInit leaves, is neither of the others.
Cleared == 0
Empty   == 2
Full    == 3
Normal  == 4

FifoInit == [data |-> [i \in 0 .. DataLen - 1 |-> 0], rIndex |-> 0, wIndex |-> 0, status |-> Cleared]

PushFails(q) == q.status = Full

FifoPush(q, d) ==
    LET w == (q.wIndex + 1) % DataLen
    IN  [q EXCEPT !.data[q.wIndex] = d,
                  !.wIndex = w,
                  !.status = IF w = q.rIndex THEN Full ELSE Normal]

PopFails(q) == q.status = Empty

\* What FifoPop stores through its pointer, and the FIFO after it.
Popped(q) == q.data[q.rIndex]

\* Mutant: the status is taken from the index before it moves.
PopTestsFirst(q) ==
    [q EXCEPT !.rIndex = (q.rIndex + 1) % DataLen,
              !.status = IF q.wIndex = q.rIndex THEN Empty ELSE Normal]

FifoPop(q) ==
    LET r == (q.rIndex + 1) % DataLen
    IN  [q EXCEPT !.rIndex = r,
                  !.status = IF q.wIndex = r THEN Empty ELSE Normal]

IsFifo(q, values) ==
    /\ q.data \in [0 .. DataLen - 1 -> values]
    /\ q.rIndex \in 0 .. DataLen - 1
    /\ q.wIndex \in 0 .. DataLen - 1
    /\ q.status \in {Cleared, Empty, Full, Normal}
===============================================================================
