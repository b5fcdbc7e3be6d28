------------------------------- MODULE HashMenu -------------------------------
(***************************************************************************)
(* The menu of uthash_key_int.c, which keeps entries from the heap in a    *)
(* hash table, several with one key if the user enters them.  The menu of  *)
(* uthash_key_str.c is the same with names, but is not compiled (#if 0).   *)
(***************************************************************************)
EXTENDS HashTable

CONSTANTS
    Nodes,          \* the heap: what calloc can hand out (a bound)
    Keys, Values

VARIABLES
    pHashTableEntryHead,
    inUse,     \* entries handed out by calloc and not freed
    at         \* "menu", "done", or "crashed"

menuVars == <<pHashTableEntryHead, inUse, at>>

Init ==
    /\ pHashTableEntryHead = <<>>
    /\ inUse = {}
    /\ at = "menu"

table == pHashTableEntryHead

\* Order a: an entry is added whether there is one with its key or not.
AddEntry(p, k, v) ==
    /\ at = "menu"
    /\ p \notin inUse
    /\ inUse' = inUse \cup {p}
    /\ pHashTableEntryHead' = HashAdd(table, [node |-> p, key |-> k, value |-> v])
    /\ UNCHANGED at

\* Order e: HASH_ITER with deletion and free.
FreeAllEntry ==
    /\ at = "menu"
    /\ inUse' = inUse \ {table[i].node : i \in DOMAIN table}
    /\ pHashTableEntryHead' = <<>>
    /\ UNCHANGED at

\* Orders d and r: one entry with the key goes; f only looks.
DelEntry(k) ==
    /\ at = "menu"
    /\ \E i \in HashFind(table, k) :
         /\ pHashTableEntryHead' = HashDel(table, i)
         /\ inUse' = inUse \ {table[i].node}
    /\ UNCHANGED at

\* Orders s and x.
Sort(field) ==
    /\ at = "menu"
    /\ pHashTableEntryHead' = HashSort(table, field)
    /\ UNCHANGED <<inUse, at>>

\* Mutant: the freed entry is the one the head points to after HASH_DEL.
DelHeadByHead ==
    /\ at = "menu"
    /\ table # <<>>
    /\ pHashTableEntryHead' = HashDel(table, 1)
    /\ inUse' = inUse \ {table[i].node : i \in {2} \cap DOMAIN table}
    /\ UNCHANGED at

\* Order h: HASH_DEL moves the head pointer, so the entry to free is kept aside.
DelHead ==
    /\ at = "menu"
    /\ table # <<>>
    /\ pHashTableEntryHead' = HashDel(table, 1)
    /\ inUse' = inUse \ {Head(table).node}
    /\ UNCHANGED at

\* Order h with no entry deletes through a null pointer.
DelHeadOfNone ==
    /\ at = "menu"
    /\ table = <<>>
    /\ at' = "crashed"
    /\ UNCHANGED <<pHashTableEntryHead, inUse>>

\* Order q: nothing is freed.
Exit ==
    /\ at = "menu"
    /\ at' = "done"
    /\ UNCHANGED <<pHashTableEntryHead, inUse>>

Next ==
    \/ \E p \in Nodes, k \in Keys, v \in Values : AddEntry(p, k, v)
    \/ \E k \in Keys : DelEntry(k)
    \/ FreeAllEntry
    \/ Sort("key") \/ Sort("value")
    \/ DelHead \/ DelHeadOfNone
    \/ Exit

-------------------------------------------------------------------------------
(* Properties.                                                             *)

\* The types.
TypeOK ==
    /\ table \in Seq([node : Nodes, key : Keys, value : Values])
    /\ inUse \subseteq Nodes
    /\ at \in {"menu", "done", "crashed"}

\* Whatever was deleted, by key, from the head or all together, and however the
\* table was sorted between, the entries in the table are exactly those in use,
\* each in it once: none is lost, and none is still in it after its free.
EntriesInUse ==
    /\ inUse = {table[i].node : i \in DOMAIN table}
    /\ Cardinality(inUse) = Len(table)
===============================================================================
