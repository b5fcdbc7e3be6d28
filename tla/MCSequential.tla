---------------------------- MODULE MCSequential ----------------------------
(***************************************************************************)
(* The sequential programs of the repository, for TLC: the initial         *)
(* states choose one, and then it is the only one that moves.              *)
(*                                                                         *)
(* Bounds: three nodes or packets, so that a list has a first, a last and  *)
(* an inner one, and two keys, so that two nodes have the same; queues of  *)
(* three; two words of up to three of two letters, and one number below    *)
(* one; sizes around every power of two and past the word, with 20 bits in *)
(* it, as TLC's numbers have 32; caches with fewer places than keys; every *)
(* tree of four processes.                                                 *)
(***************************************************************************)
EXTENDS DataStructures, TLC

CONSTANTS
    WordBits, MsgFifoMax, Requests,             \* FifoSizing
    LruKeys, MaxCapacity, MaxUses,              \* LruCache
    PidSize                                     \* KillProcess

VARIABLES
    program,
    request, size,
    sorts, capacity, hashTable, usedCnt, putCnt, open, lastCall, recency, latest,
    pHashTableEntryHead, menuInUse, menuAt,
    ppid, kill, pHeadEntry, killPid, stack, pRslt, killAt

Sizing == INSTANCE FifoSizing
Cache  == INSTANCE LruCache WITH Keys <- LruKeys
Menu   == INSTANCE HashMenu WITH inUse <- menuInUse, at <- menuAt
Killer == INSTANCE KillProcess WITH at <- killAt

\* Keys are numbers in the code.
ASSUME SequentialAssumption ==
    /\ Keys \subseteq Int /\ LruKeys \subseteq Int
    /\ {MaxUses, MaxCapacity, PidSize, MsgFifoMax} \subseteq Nat /\ Requests \subseteq Nat

\* Cursors of 16 bits tell a full ring of MSG_FIFO_MAX bytes from an empty one.  An
\* unsigned int has 32 bits; TLC, whose own numbers are no wider, has fewer.
ASSUME SizingAssumption == MsgFifoMax <= 2^15 /\ WordBits \in 20 .. 32

SymmetryOfHeaps == Permutations(Nodes) \cup Permutations(Packets)

sizingVars == <<request, size>>
lruVars    == <<sorts, capacity, hashTable, usedCnt, putCnt, open, lastCall, recency, latest>>
menuVars   == <<pHashTableEntryHead, menuInUse, menuAt>>
killVars   == <<ppid, kill, pHeadEntry, killPid, stack, pRslt, killAt>>

arrayVars == <<queueVars, dictVars, sizingVars>>
hashVars  == <<lruVars, menuVars, killVars>>

\* A program that does not run starts in one of its initial states only.
SequentialInit ==
    /\ program \in {"list", "circular", "fifo", "lifo", "dict", "sizing", "lru", "menu", "kill"}
    /\ Init
    /\ Circular!Init
    /\ Queues!Init
    /\ Dict!Init
    /\ Sizing!Init
    /\ Cache!Init
    /\ program # "lru" => sorts /\ capacity = 1
    /\ Menu!Init
    /\ Killer!Init
    /\ program # "kill" => kill = 1 /\ ppid = [p \in Killer!Pids |-> p - 1]

SequentialNext ==
    /\ UNCHANGED program
    /\ \/ /\ program = "list"
          /\ Next
          /\ UNCHANGED <<circularVars, arrayVars, hashVars>>
       \/ /\ program = "circular"
          /\ Circular!Next
          /\ UNCHANGED <<listVars, arrayVars, hashVars>>
       \/ /\ program = "fifo"
          /\ Queues!FifoNext
          /\ UNCHANGED <<listVars, circularVars, dictVars, sizingVars, hashVars>>
       \/ /\ program = "lifo"
          /\ Queues!LifoNext
          /\ UNCHANGED <<listVars, circularVars, dictVars, sizingVars, hashVars>>
       \/ /\ program = "dict"
          /\ Dict!Next
          /\ UNCHANGED <<listVars, circularVars, queueVars, sizingVars, hashVars>>
       \/ /\ program = "sizing"
          /\ Sizing!Next
          /\ UNCHANGED <<listVars, circularVars, queueVars, dictVars, hashVars>>
       \/ /\ program = "lru"
          /\ Cache!Next
          /\ UNCHANGED <<listVars, circularVars, arrayVars, menuVars, killVars>>
       \/ /\ program = "menu"
          /\ Menu!Next
          /\ UNCHANGED <<listVars, circularVars, arrayVars, lruVars, killVars>>
       \/ /\ program = "kill"
          /\ Killer!Next
          /\ UNCHANGED <<listVars, circularVars, arrayVars, lruVars, menuVars>>

SequentialSpec ==
    SequentialInit
        /\ [][SequentialNext]_<<program, listVars, circularVars, arrayVars, hashVars>>

-------------------------------------------------------------------------------
(* The properties of the other programs, with their types, under names for *)
(* the configuration.                                                      *)

\* The sizes of the lock-free FIFO are those it needs.
SizeIsUsable == Sizing!SizeIsUsable

\* Both LRU caches answer for the keys used last, and for no others, each call
\* with the value of the key it asks for.
ImplementsLru == Cache!ImplementsLru

\* The entries of the hash table menus are those in use, each there once; and a
\* cache counts its entries and never has more of them than places.
EntriesInUse ==
    /\ Menu!TypeOK
    /\ Cache!TypeOK
    /\ Cache!CountInStep
    /\ Menu!EntriesInUse

\* killProcess names the process and its descendants, each once.
KillsDescendants ==
    /\ Killer!TypeOK
    /\ Killer!KillsDescendants
===============================================================================
