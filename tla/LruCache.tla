------------------------------- MODULE LruCache -------------------------------
(***************************************************************************)
(* The two LRU caches of uthash.c, on a hash table that keeps its entries  *)
(* in an order.  The first gives an entry a number at every use and sorts  *)
(* the table by it; the second deletes an entry and adds it again at every *)
(* use.  Either way the first entry is the one to throw out.               *)
(*                                                                         *)
(* The numbers come from an unsigned int and would start again after 2^32  *)
(* uses, from where on the first cache would sort wrongly; MaxUses stays   *)
(* below that.                                                             *)
(***************************************************************************)
EXTENDS HashTable

CONSTANTS
    Keys, Values,
    MaxCapacity, \* bound: the largest capacity, which is at least one
    MaxUses      \* bound: how often putCnt is counted up

VARIABLES
    sorts,     \* which of the two caches it is
    capacity,
    hashTable,
    usedCnt,
    putCnt,    \* only the first cache counts
    open,      \* created and not freed
    lastCall,  \* the last call, with its key and what it returned or put
    recency,   \* history: the keys ever put, the one used last first
    latest     \* history: the value last put for each

NotFound == -1

lruVars == <<sorts, capacity, hashTable, usedCnt, putCnt, open, lastCall, recency, latest>>

\* lRUCacheCreate.
Init ==
    /\ sorts \in BOOLEAN
    /\ capacity \in 1 .. MaxCapacity
    /\ hashTable = <<>>
    /\ usedCnt = 0
    /\ putCnt = 0
    /\ open = TRUE
    /\ lastCall = <<"none">>
    /\ recency = <<>>
    /\ latest = [k \in Keys |-> NotFound]

\* The table in the order of SortFunc, where the cache sorts.
Sorted(table) == IF sorts THEN HashSort(table, "idx") ELSE table

\* Mutant: a use without a new number, and without a new place.
TouchedNot(i) == hashTable

\* The table after a get has found its entry at i.
Touched(i) ==
    IF sorts
    THEN Sorted([hashTable EXCEPT ![i].idx = putCnt])
    ELSE HashAdd(HashDel(hashTable, i), hashTable[i])

NowUsed(k) == recency' = <<k>> \o RemoveFirst(recency, k)

lRUCacheGet(k) ==
    /\ open /\ putCnt < MaxUses
    /\ IF HashFind(hashTable, k) = {}
       THEN /\ lastCall' = <<"get", k, NotFound>>
            /\ UNCHANGED <<hashTable, putCnt, recency>>
       ELSE \E i \in HashFind(hashTable, k) :
              /\ hashTable' = Touched(i)
              /\ putCnt' = IF sorts THEN putCnt + 1 ELSE putCnt
              /\ lastCall' = <<"get", k, hashTable[i].value>>
              /\ NowUsed(k)
    /\ UNCHANGED <<sorts, capacity, usedCnt, open, latest>>

\* An entry with the key is replaced, and a full cache loses its first entry.
lRUCachePut(k, v) ==
    /\ open /\ putCnt < MaxUses
    /\ LET old   == HashFind(hashTable, k)
           kept  == IF old = {} THEN hashTable ELSE HashDel(hashTable, CHOOSE i \in old : TRUE)
           cnt   == IF old = {} THEN usedCnt ELSE usedCnt - 1
           full  == cnt = capacity
           room  == IF full THEN HashDel(kept, 1) ELSE kept
           entry == [key |-> k, value |-> v, idx |-> IF sorts THEN putCnt ELSE 0]
       IN  /\ hashTable' = Sorted(HashAdd(room, entry))
           /\ usedCnt' = (IF full THEN cnt - 1 ELSE cnt) + 1
    /\ putCnt' = IF sorts THEN putCnt + 1 ELSE putCnt
    /\ NowUsed(k)
    /\ latest' = [latest EXCEPT ![k] = v]
    /\ lastCall' = <<"put", k, v>>
    /\ UNCHANGED <<sorts, capacity, open>>

\* Every entry is deleted and freed, and the cache is not used again.
lRUCacheFree ==
    /\ open
    /\ open' = FALSE
    /\ hashTable' = <<>>
    /\ UNCHANGED <<sorts, capacity, usedCnt, putCnt, lastCall, recency, latest>>

Next ==
    \/ \E k \in Keys : lRUCacheGet(k) \/ \E v \in Values : lRUCachePut(k, v)
    \/ lRUCacheFree

-------------------------------------------------------------------------------
(* Properties.                                                             *)

Calls ==
    {<<"none">>}
        \cup ({"get"} \X Keys \X (Values \cup {NotFound}))
        \cup ({"put"} \X Keys \X Values)

TypeOK ==
    /\ sorts \in BOOLEAN
    /\ capacity \in 1 .. MaxCapacity
    /\ hashTable \in Seq([key : Keys, value : Values, idx : 0 .. MaxUses])
    /\ usedCnt \in 0 .. capacity
    /\ putCnt \in 0 .. MaxUses
    /\ open \in BOOLEAN
    /\ lastCall \in Calls
    /\ recency \in Seq(Keys)
    /\ latest \in [Keys -> Values \cup {NotFound}]

\* The count the caches compare with their capacity is that of the entries in the
\* table, which never has more than the capacity, as long as it is not freed.
CountInStep == open => usedCnt = Len(hashTable) /\ Len(hashTable) <= capacity

\* Whatever is put and asked for, both caches answer as the keys used last do:
\* an entry is thrown out exactly when capacity other keys have been used since
\* its last use, and no use is forgotten, by the sort or by the new place.
Abstract == INSTANCE Lru

ImplementsLru == Abstract!Spec
===============================================================================
