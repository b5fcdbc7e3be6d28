------------------------------ MODULE LinkedList ------------------------------
(***************************************************************************)
(* list_nonlinuxkernel_mystyle.c: a doubly linked list of heap nodes and   *)
(* the menu loop of main that works on it, together with the deletions     *)
(* without free, which main does not call and which leave the node to the  *)
(* caller.                                                                 *)
(*                                                                         *)
(* The list is a record of its three fields and of the links of all nodes, *)
(* so that a function of the code is an operator from list to list.        *)
(***************************************************************************)
EXTENDS Integers, SequencesExt

CONSTANTS
    Nodes,     \* the heap: what calloc can hand out (a bound)
    Keys       \* the data of nodes

Null == "null"

ASSUME KeysAssumption == Keys \subseteq Int
ASSUME NodesAssumption == IsFiniteSet(Nodes) /\ Null \notin Nodes

VARIABLES
    running,   \* main has not returned
    exists,    \* pList is not null
    list,      \* head, tail and nodeNums of *pList, prev and next of every node
    data,      \* the data of every node
    allocated, \* nodes handed out by calloc and not freed
    kept,      \* nodes taken out without free, which the caller still holds
    call       \* history: the call made last

vars == <<running, exists, list, data, allocated, kept, call>>

Unlinked == [n \in Nodes |-> Null]
Empty    == [head |-> Null, tail |-> Null, num |-> 0, prev |-> Unlinked, next |-> Unlinked]

Init ==
    /\ running = TRUE
    /\ exists = FALSE
    /\ list = Empty
    /\ data = [n \in Nodes |-> 0]
    /\ allocated = {}
    /\ kept = {}
    /\ call = <<"none">>

\* The nodes from start on, by one of the links, up to the first null one; longer
\* than the heap if the links have a cycle.
Path(start, link) ==
    LET walk[k \in 1 .. Cardinality(Nodes) + 1] ==
            IF k = 1 THEN start
            ELSE IF walk[k - 1] = Null THEN Null ELSE link[walk[k - 1]]
    IN  SubSeq(walk, 1, Cardinality({k \in DOMAIN walk : walk[k] # Null}))

Chain == Path(list.head, list.next)

-------------------------------------------------------------------------------
(* The functions of the list.                                              *)

\* The first insertion of a node sets neither of its links.
InsertListNodeToHead(l, n) ==
    LET into == [l EXCEPT !.tail = IF l.tail = Null THEN n ELSE l.tail,
                          !.head = n,
                          !.num  = l.num + 1]
    IN  IF l.head = Null THEN into
        ELSE [into EXCEPT !.next[n] = l.head, !.prev[n] = Null, !.prev[l.head] = n]

\* Mutant: the old links of the node stay.
InsertTailStale(l, n) ==
    LET into == [l EXCEPT !.head = IF l.head = Null THEN n ELSE l.head,
                          !.tail = n,
                          !.num  = l.num + 1]
    IN  IF l.tail = Null THEN into
        ELSE [into EXCEPT !.prev[n] = l.tail, !.next[l.tail] = n]

InsertListNodeToTail(l, n) ==
    LET into == [l EXCEPT !.head = IF l.head = Null THEN n ELSE l.head,
                          !.tail = n,
                          !.num  = l.num + 1]
    IN  IF l.tail = Null THEN into
        ELSE [into EXCEPT !.next[n] = Null, !.prev[n] = l.tail, !.next[l.tail] = n]

\* DeleteListNode and its two sisters: the four cases by the node's own links.
\* The links of the node itself are left as they are.
DeleteListNodeWithoutFree(l, n) ==
    LET p == l.prev[n]
        s == l.next[n]
        out == [l EXCEPT !.num = l.num - 1]
    IN  CASE s = Null /\ p = Null -> [out EXCEPT !.head = Null, !.tail = Null]
          [] s = Null /\ p # Null -> [out EXCEPT !.next[p] = Null, !.tail = p]
          [] s # Null /\ p = Null -> [out EXCEPT !.prev[s] = Null, !.head = s]
          [] s # Null /\ p # Null -> [out EXCEPT !.next[p] = s, !.prev[s] = p]

DeleteListHeadWithoutFree(l) ==
    LET s == l.next[l.head]
        out == [l EXCEPT !.head = s, !.num = l.num - 1]
    IN  IF s # Null THEN [out EXCEPT !.prev[s] = Null] ELSE [out EXCEPT !.tail = Null]

\* Mutant: the head stays when the last node goes.
DeleteTailKeepsHead(l) ==
    LET p == l.prev[l.tail]
        out == [l EXCEPT !.tail = p, !.num = l.num - 1]
    IN  IF p # Null THEN [out EXCEPT !.next[p] = Null] ELSE out

DeleteListTailWithoutFree(l) ==
    LET p == l.prev[l.tail]
        out == [l EXCEPT !.tail = p, !.num = l.num - 1]
    IN  IF p # Null THEN [out EXCEPT !.next[p] = Null] ELSE [out EXCEPT !.head = Null]

\* free of some nodes: what was in them is not looked at again.
Free(l, freed) ==
    [l EXCEPT !.prev = [n \in Nodes |-> IF n \in freed THEN Null ELSE l.prev[n]],
              !.next = [n \in Nodes |-> IF n \in freed THEN Null ELSE l.next[n]]]

FindListNode(k) ==
    LET at == {i \in DOMAIN Chain : data[Chain[i]] = k}
    IN  IF at = {} THEN Null ELSE Chain[Min(at)]

\* The nodes in an order qsort can give them; it need not keep equal ones in
\* order.
SortedNodes ==
    {s \in TupleOf(ToSet(Chain), Len(Chain)) :
        /\ IsInjective(s)
        /\ \A i \in 1 .. Len(s) - 1 : data[s[i]] <= data[s[i + 1]]}

\* The list is emptied and filled again from the sorted array.
Relinked(s) ==
    FoldLeft(InsertListNodeToTail,
             [list EXCEPT !.head = Null, !.tail = Null, !.num = 0,
                          !.prev[s[1]] = Null, !.next[s[Len(s)]] = Null],
             s)

-------------------------------------------------------------------------------
(* The orders of main.                                                     *)

CreateList ==
    /\ running
    /\ ~exists
    /\ exists' = TRUE
    /\ list' = [list EXCEPT !.head = Null, !.tail = Null, !.num = 0]
    /\ call' = <<"create">>
    /\ UNCHANGED <<running, data, allocated, kept>>

\* Every node of the list is freed, and then the list.
DestroyList ==
    /\ running
    /\ exists
    /\ exists' = FALSE
    /\ list' = Free([list EXCEPT !.head = Null, !.tail = Null, !.num = 0], ToSet(Chain))
    /\ allocated' = allocated \ ToSet(Chain)
    /\ call' = <<"destroy">>
    /\ UNCHANGED <<running, data, kept>>

\* calloc gives a node without links, and the order takes its data.
InsertHead(n, k) ==
    /\ running
    /\ exists
    /\ n \notin allocated
    /\ allocated' = allocated \cup {n}
    /\ data' = [data EXCEPT ![n] = k]
    /\ list' = InsertListNodeToHead(list, n)
    /\ call' = <<"insert_head", k>>
    /\ UNCHANGED <<running, exists, kept>>

InsertTail(n, k) ==
    /\ running
    /\ exists
    /\ n \notin allocated
    /\ allocated' = allocated \cup {n}
    /\ data' = [data EXCEPT ![n] = k]
    /\ list' = InsertListNodeToTail(list, n)
    /\ call' = <<"insert_tail", k>>
    /\ UNCHANGED <<running, exists, kept>>

\* A node that is taken out and freed.
Drop(n, shorter) ==
    /\ list' = Free(shorter, {n})
    /\ allocated' = allocated \ {n}

DeleteByKey(k) ==
    /\ running
    /\ exists
    /\ LET n == FindListNode(k)
       IN  IF n = Null THEN UNCHANGED <<list, allocated>>
           ELSE Drop(n, DeleteListNodeWithoutFree(list, n))
    /\ call' = <<"delete_by_key", k>>
    /\ UNCHANGED <<running, exists, data, kept>>

\* The order x deletes the node it has found.
DeleteNode(i) ==
    /\ running
    /\ exists
    /\ Chain[i] = FindListNode(data[Chain[i]])
    /\ Drop(Chain[i], DeleteListNodeWithoutFree(list, Chain[i]))
    /\ call' = <<"delete_node", i>>
    /\ UNCHANGED <<running, exists, data, kept>>

DeleteHead ==
    /\ running
    /\ exists
    /\ IF list.head = Null THEN UNCHANGED <<list, allocated>>
       ELSE Drop(list.head, DeleteListHeadWithoutFree(list))
    /\ call' = <<"delete_head">>
    /\ UNCHANGED <<running, exists, data, kept>>

DeleteTail ==
    /\ running
    /\ exists
    /\ IF list.tail = Null THEN UNCHANGED <<list, allocated>>
       ELSE Drop(list.tail, DeleteListTailWithoutFree(list))
    /\ call' = <<"delete_tail">>
    /\ UNCHANGED <<running, exists, data, kept>>

\* ListSort counts the nodes in an i that was never set.  If it is zero, as in
\* a fresh stack frame, the array is filled from its start.
Sort ==
    /\ running
    /\ exists
    /\ IF list.num = 0 THEN UNCHANGED list
       ELSE \E s \in SortedNodes : list' = Relinked(s)
    /\ call' = <<"sort">>
    /\ UNCHANGED <<running, exists, data, allocated, kept>>

\* If it is not, the array is written out of its bounds, and what the program
\* does then is not its own any more.
SortAstray ==
    /\ running
    /\ exists
    /\ list.num # 0
    /\ running' = FALSE
    /\ UNCHANGED <<exists, list, data, allocated, kept, call>>

Quit ==
    /\ running
    /\ running' = FALSE
    /\ UNCHANGED <<exists, list, data, allocated, kept, call>>

-------------------------------------------------------------------------------
(* The deletions without free, for a caller who keeps the node.            *)

Keep(n, shorter) ==
    /\ list' = shorter
    /\ kept' = kept \cup {n}

TakeNode(i) ==
    /\ running
    /\ exists
    /\ Keep(Chain[i], DeleteListNodeWithoutFree(list, Chain[i]))
    /\ call' = <<"delete_node", i>>
    /\ UNCHANGED <<running, exists, data, allocated>>

TakeHead ==
    /\ running
    /\ exists
    /\ IF list.head = Null THEN UNCHANGED <<list, kept>>
       ELSE Keep(list.head, DeleteListHeadWithoutFree(list))
    /\ call' = <<"delete_head">>
    /\ UNCHANGED <<running, exists, data, allocated>>

TakeTail ==
    /\ running
    /\ exists
    /\ IF list.tail = Null THEN UNCHANGED <<list, kept>>
       ELSE Keep(list.tail, DeleteListTailWithoutFree(list))
    /\ call' = <<"delete_tail">>
    /\ UNCHANGED <<running, exists, data, allocated>>

\* The caller puts a kept node into the list again.
PutBack(n) ==
    /\ running
    /\ exists
    /\ n \in kept
    /\ kept' = kept \ {n}
    /\ \/ /\ list' = InsertListNodeToHead(list, n)
          /\ call' = <<"insert_head", data[n]>>
       \/ /\ list' = InsertListNodeToTail(list, n)
          /\ call' = <<"insert_tail", data[n]>>
    /\ UNCHANGED <<running, exists, data, allocated>>

FreeKept(n) ==
    /\ running
    /\ n \in kept
    /\ kept' = kept \ {n}
    /\ list' = Free(list, {n})
    /\ allocated' = allocated \ {n}
    /\ UNCHANGED <<running, exists, data, call>>

-------------------------------------------------------------------------------
MenuNext ==
    \/ CreateList \/ DestroyList \/ DeleteHead \/ DeleteTail \/ Sort \/ SortAstray \/ Quit
    \/ \E n \in Nodes, k \in Keys : InsertHead(n, k) \/ InsertTail(n, k)
    \/ \E k \in Keys : DeleteByKey(k)
    \/ \E i \in DOMAIN Chain : DeleteNode(i)

TakeNext ==
    \/ TakeHead \/ TakeTail
    \/ \E i \in DOMAIN Chain : TakeNode(i)
    \/ \E n \in Nodes : FreeKept(n)

\* The menu, and callers who keep nodes and put them back into a list that is
\* not empty: there both links of the node are set.
Next ==
    \/ MenuNext
    \/ TakeNext
    \/ list.head # Null /\ \E n \in Nodes : PutBack(n)

Spec == Init /\ [][Next]_vars

\* Callers who put a kept node back whenever they like.
AnyPutBackSpec == Init /\ [][Next \/ \E n \in Nodes : PutBack(n)]_vars

-------------------------------------------------------------------------------
(* Properties.                                                             *)

\* The types of the list, the heap and main's own variables.
TypeOK ==
    /\ running \in BOOLEAN
    /\ exists \in BOOLEAN
    /\ list \in [head : Nodes \cup {Null}, tail : Nodes \cup {Null},
                 num : 0 .. Cardinality(Nodes),
                 prev : [Nodes -> Nodes \cup {Null}], next : [Nodes -> Nodes \cup {Null}]]
    /\ data \in [Nodes -> Keys \cup {0}]
    /\ allocated \subseteq Nodes
    /\ kept \subseteq allocated

\* Whatever calls were made, the list read backwards from its tail is the list
\* read forwards from its head, nodeNums long: the four cases of a deletion,
\* told apart by the links of the node alone, never leave one of the two
\* chains or one of the two ends behind.
ChainsAgree ==
    /\ IsInjective(Chain)
    /\ Chain = Reverse(Path(list.tail, list.prev))
    /\ list.num = Len(Chain)

\* No node is lost and none is in the list after it was freed: what calloc
\* handed out is in the list or with the caller, never both.
HeapAccountedFor ==
    /\ TypeOK
    /\ allocated = ToSet(Chain) \cup kept
    /\ ToSet(Chain) \cap kept = {}

\* What the list promises (ListSeq): every call does to the sequence of keys
\* what its name says.
Abstract == INSTANCE ListSeq WITH
    keys <- [i \in DOMAIN Chain |-> data[Chain[i]]]

ImplementsListSeq == Abstract!Spec
===============================================================================
