------------------------------ MODULE HashTable ------------------------------
(***************************************************************************)
(* What the programs of uthash*.c use of uthash: a table as the sequence   *)
(* of its entries in the order the iteration macros visit them.  The       *)
(* pointer to the table is the pointer to the first entry, and null when   *)
(* there is none.  Entries may have the same key.                          *)
(***************************************************************************)
EXTENDS Integers, SequencesExt

\* HASH_ADD appends.
HashAdd(table, entry) == Append(table, entry)

\* HASH_FIND gives one of the entries with the key, by an order of its own.
HashFind(table, key) == {i \in DOMAIN table : table[i].key = key}

\* HASH_DEL; the second entry becomes the first when the first is deleted.
HashDel(table, i) == RemoveAt(table, i)

\* HASH_SORT: a stable merge sort by one of the fields.
HashSort(table, field) ==
    LET before(i, j) ==
            \/ table[i][field] < table[j][field]
            \/ table[i][field] = table[j][field] /\ i <= j
        place(j) == Cardinality({i \in DOMAIN table : before(i, j)})
    IN  [n \in DOMAIN table |-> table[CHOOSE j \in DOMAIN table : place(j) = n]]
===============================================================================
