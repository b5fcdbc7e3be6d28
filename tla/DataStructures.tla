---------------------------- MODULE DataStructures -----------------------------
(***************************************************************************)
(* The sequential programs that are data structures, side by side: the     *)
(* doubly linked list, the circular list of packets, the array queues and  *)
(* the tree of words.  MCSequential adds the programs about hash tables    *)
(* and sizes, and chooses which one runs.                                  *)
(***************************************************************************)
EXTENDS LinkedList

CONSTANTS
    Packets, MaxIndex,                          \* CircularList
    DataLen, Values, Word,                      \* ArrayQueues
    LetterCount, MaxLen, MaxWords,              \* WordTree
    MaxBelow, MaxOdd

VARIABLES
    next, prev, index, packet_index, inUse, pc, pPkt, pPkt_next,
    fifo, lifo, inFifo, inLifo, astray,
    count, live, entered, crashed, odd

Circular == INSTANCE CircularList WITH at <- pc
Queues   == INSTANCE ArrayQueues
Dict     == INSTANCE WordTree

\* Values are numbers in the code and an array has a place; the packets can be
\* counted, and the head of the ring is none of them.
ASSUME DataAssumption ==
    /\ IsFiniteSet(Packets) /\ Circular!packet_list \notin Packets
    /\ Values \subseteq Int /\ {DataLen, Word} \subseteq Nat \ {0}
    /\ {MaxIndex, LetterCount, MaxLen, MaxWords, MaxBelow, MaxOdd} \subseteq Nat

listVars     == vars
circularVars == <<next, prev, index, packet_index, inUse, pc, pPkt, pPkt_next>>
queueVars    == <<fifo, lifo, inFifo, inLifo, astray>>
dictVars     == <<count, live, entered, crashed, odd>>

-------------------------------------------------------------------------------
(* Their properties, with their types, under names for the configuration.  *)

\* The ring of packets is the same forwards and backwards, in the order of the
\* indices (list_add_tail, list_del), and deleting all packets never touches one
\* that was freed and leaves none.
RingHoldsPackets ==
    /\ Circular!TypeOK
    /\ Circular!RingAgrees
    /\ Circular!NoPacketAfterFree

\* The indices and the status of FIFO and LIFO say what has been pushed and not
\* popped, and GetSum is the sum of it, with two exceptions for the FIFO.
QueuesHoldPushed ==
    /\ Queues!TypeOK
    /\ Queues!FifoHoldsPushed
    /\ Queues!FifoSumsHeld
    /\ Queues!LifoHoldsPushed

\* search finds a word, and printall prints it in its place, as often as it was
\* entered and not erased, while no number below one has been entered.
WordsAreCounted ==
    /\ Dict!TypeOK
    /\ Dict!SearchIsExact
    /\ Dict!PrintedInOrder

\* erase frees all it unlinks, and unlinks nothing that is in use, while no number
\* below one has been entered.
NoUselessNodes == Dict!NoUselessNodes
===============================================================================
