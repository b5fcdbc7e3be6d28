----------------------------- MODULE RbExerciser -----------------------------
(***************************************************************************)
(* The red-black tree tests of rocklee_kernel_rbtree.c: a read of either   *)
(* of two sysfs attributes allocates an array of nodes, puts them into the *)
(* tree and takes them out again, checking or printing it on the way.  The *)
(* array, the tree and the FIFO of the printing are globals, and no lock   *)
(* is taken, so readers can be in it together.                             *)
(*                                                                         *)
(* A place in the tree is numbered as in a heap: the root is 1 and the     *)
(* children of place p are 2p and 2p + 1.  The tree is the function from   *)
(* occupied places to nodes.  Its balancing is the kernel's: insertions    *)
(* and removals leave the nodes in order, in any shape that has a          *)
(* red-black colouring.                                                    *)
(***************************************************************************)
EXTENDS StatusFifo, SequencesExt

CONSTANTS
    Readers,   \* processes that read the attributes
    NArrays,   \* bound: arrays that can be allocated at a time
    NNodes,    \* nnodes
    Keys,      \* the keys of nodes
    Levels     \* bound: levels a red-black tree of all the nodes can have

\* A pointer to a node is a number: node j of array a, or NULL.
NULL    == 0
Arrays  == 1 .. NArrays
Node(a, j) == a * NNodes + j
NodesOf(a) == {Node(a, j) : j \in 0 .. NNodes - 1}
AllNodes == UNION {NodesOf(a) : a \in Arrays}
Places   == 1 .. 2^Levels - 1

VARIABLES
    nodes,      \* the array the global points to
    allocated,  \* arrays from kmalloc_array that have not been freed
    key,        \* the key of every node
    tree,       \* root.rb_root
    leftmost,   \* root.rb_leftmost
    fifo,       \* g_rbtree_fifo
    shown,      \* g_disp_buffer, of the printing in progress
    at,         \* where each reader is: call, step of it, j, node_count
    corrupt     \* a node was linked twice, removed or used without being there

vars == <<nodes, allocated, key, tree, leftmost, fifo, shown, at, corrupt>>

NoTree == [p \in {} |-> NULL]
Idle   == [call |-> "none", step |-> 0, j |-> 0, count |-> 0]

Init ==
    /\ nodes = NULL
    /\ allocated = {}
    /\ key = [n \in AllNodes |-> 0]
    /\ tree = NoTree
    /\ leftmost = NULL
    /\ fifo = FifoInit
    /\ shown = NoTree
    /\ at = [r \in Readers |-> Idle]
    /\ corrupt = FALSE

-------------------------------------------------------------------------------
(* The kernel's tree.                                                      *)

LevelOf(p) == CHOOSE l \in 1 .. Levels : p \in 2^(l - 1) .. 2^l - 1

\* Where a place stands from left to right.
Across == [p \in Places |-> (2 * (p - 2^(LevelOf(p) - 1)) + 1) * 2^(Levels - LevelOf(p))]

Above(p) == {p \div 2^k : k \in 0 .. Levels - 1} \ {0}

HasColouring(S) ==
    \E red \in SUBSET (S \ {1}) :
        /\ \A p \in red : p \div 2 \notin red
        /\ \A p, q \in S : ~({2 * p, 2 * p + 1} \subseteq S) /\ ~({2 * q, 2 * q + 1} \subseteq S)
               => Cardinality(Above(p) \ red) = Cardinality(Above(q) \ red)

\* The places of each number of nodes.  Collected with UNION, the sets are
\* evaluated once, which filters alone are not.
Shapes ==
    LET trees == {S \in SUBSET Places : \A p \in S : p = 1 \/ p \div 2 \in S}
        fit(S, n) == Cardinality(S) = n /\ HasColouring(S)
    IN  [n \in 0 .. NArrays * NNodes |-> UNION {{S} : S \in {S \in trees : fit(S, n)}}]

LeftToRight == SortSeq([p \in Places |-> p], LAMBDA p, q : Across[p] < Across[q])

\* The nodes of a tree from left to right, and the trees that have them so.
InOrder(t) ==
    FoldLeft(LAMBDA order, p : IF p \in DOMAIN t THEN Append(order, t[p]) ELSE order,
             <<>>, LeftToRight)

Balanced(order) ==
    {[p \in S |-> order[Cardinality({q \in S : Across[q] <= Across[p]})]] :
        S \in Shapes[Len(order)]}

First(t) == IF t = NoTree THEN NULL ELSE InOrder(t)[1]

rb_next(n) ==
    LET order == InOrder(tree)
        i == CHOOSE k \in DOMAIN order : order[k] = n
    IN  IF i = Len(order) THEN NULL ELSE order[i + 1]

InTree(n) == n \in {tree[p] : p \in DOMAIN tree}

-------------------------------------------------------------------------------
(* The functions on the tree.                                              *)

\* Mutant: larger keys go left.
WayUp(n, p) == IF key[n] > key[tree[p]] THEN 2 * p ELSE 2 * p + 1

Way(n, p) == IF key[n] < key[tree[p]] THEN 2 * p ELSE 2 * p + 1

\* The place at which insert and insert_cached link a node.
LinkPlace(n) ==
    FoldLeft(LAMBDA p, level : IF p \in DOMAIN tree THEN Way(n, p) ELSE p,
             1, [level \in 1 .. Levels - 1 |-> level])

insert(n) ==
    tree' \in Balanced(InOrder((LinkPlace(n) :> n) @@ tree))

\* Mutant: all nodes with the key are removed.
erase_key(n) ==
    tree' \in Balanced(SelectSeq(InOrder(tree), LAMBDA m : key[m] # key[n]))

erase(n) ==
    tree' \in Balanced(SelectSeq(InOrder(tree), LAMBDA m : m # n))

\* Mutant: the walk forgets that it went right.
AlwaysLeft(p) == TRUE

\* The walk to a place went left at every node.
AllLeft(p) == \E l \in 0 .. Levels - 1 : p = 2^l

insert_cached(n) ==
    /\ insert(n)
    /\ leftmost' = IF AllLeft(LinkPlace(n)) THEN n ELSE leftmost

erase_cached(n) ==
    /\ erase(n)
    /\ leftmost' = IF leftmost = n THEN rb_next(n) ELSE leftmost

\* The warnings of check that are about its caller: the keys in order, and as
\* many nodes as the caller has inserted.  The others are about colours.
CheckPasses(nr_nodes) ==
    LET order == InOrder(tree)
    IN  /\ \A i \in 1 .. Len(order) - 1 : key[order[i]] <= key[order[i + 1]]
        /\ Len(order) = nr_nodes

get_tree_height(node_nums) == Min({h \in 1 .. node_nums : 2^h >= node_nums})

int_pow(base, exp) ==
    LET pow[b \in Nat, e \in Nat] ==
            IF e = 0 THEN 1 ELSE (IF e % 2 = 1 THEN b ELSE 1) * pow[b * b, e \div 2]
    IN  pow[base, exp]

-------------------------------------------------------------------------------
(* The calls: rbtree_test_init for one attribute, rbtree_test_print for    *)
(* the other, as lists of loops over the nodes.                            *)

Script ==
    [show   |-> <<"alloc", "init",
                  "insert", "erase",                             \* perf_loops times
                  "insert_cached", "erase_cached",               \* perf_loops times
                  "insert", "erase",                             \* around tests 3 and 4, which read
                  "init", "check_insert", "check_erase", "check_0",  \* check_loops times
                  "free">>,
     show_1 |-> <<"alloc", "init", "insert", "show", "show_loop", "erase", "free">>]

\* How often perf_loops and check_loops repeat is left open.
After(call, step) ==
    {step + 1} \cup {back \in 1 .. step :
                        call = "show" /\ <<step, back>> \in {<<4, 3>>, <<6, 5>>, <<12, 9>>}}

Step(r) == IF at[r].call = "none" THEN "none" ELSE Script[at[r].call][at[r].step]
Current(r) == Node(nodes, at[r].j)

Proceed(r) ==
    IF at[r].step = Len(Script[at[r].call]) THEN at' = [at EXCEPT ![r] = Idle]
    ELSE \E s \in After(at[r].call, at[r].step) :
             at' = [at EXCEPT ![r] = [Idle EXCEPT !.call = at[r].call, !.step = s]]

\* The turn of a loop over the nodes.
Loop(r) ==
    IF at[r].j + 1 < NNodes THEN at' = [at EXCEPT ![r].j = at[r].j + 1] ELSE Proceed(r)

\* rocklee_show and rocklee_show_1.
Read(r, call) ==
    /\ Step(r) = "none"
    /\ at' = [at EXCEPT ![r] = [Idle EXCEPT !.call = call, !.step = 1]]
    /\ UNCHANGED <<nodes, allocated, key, tree, leftmost, fifo, shown, corrupt>>

Alloc(r) ==
    /\ Step(r) = "alloc"
    /\ \E a \in Arrays \ allocated :
           nodes' = a /\ allocated' = allocated \cup {a}
    /\ Proceed(r)
    /\ UNCHANGED <<key, tree, leftmost, fifo, shown, corrupt>>

AllocFails(r) ==
    /\ Step(r) = "alloc"
    /\ nodes' = NULL
    /\ at' = [at EXCEPT ![r] = Idle]
    /\ UNCHANGED <<allocated, key, tree, leftmost, fifo, shown, corrupt>>

\* What goes wrong when the nodes are not what this reader takes them for.
Corrupt ==
    /\ corrupt' = TRUE
    /\ UNCHANGED <<nodes, allocated, key, tree, leftmost, fifo, shown, at>>

InitKeys(r) ==
    /\ Step(r) = "init"
    /\ IF nodes \notin allocated THEN Corrupt
       ELSE /\ \E drawn \in [NodesOf(nodes) -> Keys] :
                   key' = [n \in AllNodes |-> IF n \in NodesOf(nodes) THEN drawn[n] ELSE key[n]]
            /\ Proceed(r)
            /\ UNCHANGED <<nodes, allocated, tree, leftmost, fifo, shown, corrupt>>

\* check comes before the insertion, in the loop that has it.
Insert(r) ==
    /\ Step(r) \in {"insert", "insert_cached", "check_insert"}
    /\ IF nodes \notin allocated \/ InTree(Current(r)) THEN Corrupt
       ELSE /\ IF Step(r) = "insert_cached" THEN insert_cached(Current(r))
               ELSE insert(Current(r)) /\ UNCHANGED leftmost
            /\ Loop(r)
            /\ UNCHANGED <<nodes, allocated, key, fifo, shown, corrupt>>

Erase(r) ==
    /\ Step(r) \in {"erase", "erase_cached", "check_erase"}
    /\ IF nodes \notin allocated \/ ~InTree(Current(r)) THEN Corrupt
       ELSE /\ IF Step(r) = "erase_cached" THEN erase_cached(Current(r))
               ELSE erase(Current(r)) /\ UNCHANGED leftmost
            /\ Loop(r)
            /\ UNCHANGED <<nodes, allocated, key, fifo, shown, corrupt>>

CheckEnd(r) ==
    /\ Step(r) = "check_0"
    /\ Proceed(r)
    /\ UNCHANGED <<nodes, allocated, key, tree, leftmost, fifo, shown, corrupt>>

\* What was in a freed array is not looked at again.
Free(r) ==
    /\ Step(r) = "free"
    /\ IF nodes \notin allocated THEN Corrupt
       ELSE /\ allocated' = allocated \ {nodes}
            /\ key' = [n \in AllNodes |-> IF n \in NodesOf(nodes) THEN 0 ELSE key[n]]
            /\ Proceed(r)
            /\ UNCHANGED <<nodes, tree, leftmost, fifo, shown, corrupt>>

-------------------------------------------------------------------------------
(* show_rbtree: the tree level by level, with a place kept in the FIFO for *)
(* a missing child.                                                        *)

PushTo(q, n) == IF PushFails(q) THEN q ELSE FifoPush(q, n)

\* The buffer is not cleared, but as the seed is always the same one, an
\* earlier printing has left just what this one writes.
ShowBegin(r) ==
    /\ Step(r) = "show"
    /\ shown' = NoTree
    /\ IF tree = NoTree
       THEN at' = [at EXCEPT ![r].step = at[r].step + 2] /\ UNCHANGED fifo
       ELSE Proceed(r) /\ fifo' = FifoPush(FifoInit, tree[1])
    /\ UNCHANGED <<nodes, allocated, key, tree, leftmost, corrupt>>

Child(p) == IF p \in DOMAIN tree THEN tree[p] ELSE NULL

\* Mutant: no place is kept for a missing child.
PushExisting(q, p) ==
    LET left == IF Child(2 * p) = NULL THEN q ELSE PushTo(q, Child(2 * p))
    IN  IF Child(2 * p + 1) = NULL THEN left ELSE PushTo(left, Child(2 * p + 1))

PushChildren(q, p) == PushTo(PushTo(q, Child(2 * p)), Child(2 * p + 1))

ShowNode(r) ==
    /\ Step(r) = "show_loop"
    /\ fifo.status # Empty
    /\ LET n     == Popped(fifo)
           count == at[r].count + 1
           level == get_tree_height(count + 1)
           cell  == <<level, count - int_pow(2, level - 1)>>
       IN  IF n # NULL /\ ~InTree(n) THEN Corrupt
           ELSE /\ IF n = NULL THEN fifo' = FifoPop(fifo) /\ UNCHANGED shown
                   ELSE /\ shown' = (cell :> n) @@ shown
                        /\ fifo' = PushChildren(FifoPop(fifo),
                                                CHOOSE p \in DOMAIN tree : tree[p] = n)
                /\ at' = [at EXCEPT ![r].count = count]
                /\ UNCHANGED <<nodes, allocated, key, tree, leftmost, corrupt>>

ShowEnd(r) ==
    /\ Step(r) = "show_loop"
    /\ fifo.status = Empty
    /\ shown' = NoTree
    /\ fifo' = FifoInit
    /\ Proceed(r)
    /\ UNCHANGED <<nodes, allocated, key, tree, leftmost, corrupt>>

Reader(r) ==
    \/ \E call \in {"show", "show_1"} : Read(r, call)
    \/ Alloc(r) \/ AllocFails(r) \/ InitKeys(r) \/ Insert(r) \/ Erase(r)
    \/ CheckEnd(r) \/ Free(r) \/ ShowBegin(r) \/ ShowNode(r) \/ ShowEnd(r)

Next == ~corrupt /\ \E r \in Readers : Reader(r)

Spec == Init /\ [][Next]_vars

-------------------------------------------------------------------------------
(* Properties.                                                             *)

TypeOK ==
    /\ nodes \in Arrays \cup {NULL}
    /\ allocated \subseteq Arrays
    /\ key \in [AllNodes -> Keys \cup {0}]
    /\ tree \in Balanced(InOrder(tree))
    /\ leftmost \in AllNodes \cup {NULL}
    /\ IsFifo(fifo, AllNodes \cup {NULL})
    /\ \A r \in Readers : at[r].j \in 0 .. NNodes - 1 /\ at[r].count \in 0 .. 2 * NNodes + 1
    /\ corrupt \in BOOLEAN

\* Whenever a reader is about to call check, its warnings would not come: the
\* tree is in the order of its keys, equal ones included, and has exactly the
\* nodes the reader has inserted and not yet erased.
CheckNeverWarns ==
    \A r \in Readers :
        /\ Step(r) = "check_insert" => CheckPasses(at[r].j)
        /\ Step(r) = "check_erase" => CheckPasses(NNodes - at[r].j)
        /\ Step(r) = "check_0" => CheckPasses(0)

\* The cached leftmost node is the first of the tree all through the loops that
\* keep it, and outside of them there is none: the plain insertions and
\* removals, which do not keep it, never leave a stale one behind.
LeftmostIsFirst ==
    leftmost = IF \E r \in Readers : Step(r) \in {"insert_cached", "erase_cached"}
               THEN First(tree) ELSE NULL

\* No node stays in the tree when its array is freed, none is linked twice or
\* removed without being there, and the printing never follows a node that has
\* gone.
TreeOfLiveNodes ==
    /\ TypeOK
    /\ \A p \in DOMAIN tree : \E a \in allocated : tree[p] \in NodesOf(a)
    /\ ~corrupt

\* The cell of the printing whose number, counted level by level, is p.
CellOf(p) == <<LevelOf(p), p - 2^(LevelOf(p) - 1)>>

\* No place before p lacks a parent.
NoGapBefore(p) == \A q \in 2 .. p : q \div 2 \in DOMAIN tree

\* The printing shows every node, each in a cell of its own, and in its own place
\* as long as no place before it lacks a parent: the FIFO keeps the places of
\* missing children, but not of the children they would have.
ShownOnce ==
    \A r \in Readers : Step(r) = "show_loop" /\ fifo.status = Empty =>
        /\ {shown[cell] : cell \in DOMAIN shown} = {tree[p] : p \in DOMAIN tree}
        /\ Cardinality(DOMAIN shown) = Cardinality(DOMAIN tree)
        /\ \A p \in DOMAIN tree :
               NoGapBefore(p) => CellOf(p) \in DOMAIN shown /\ shown[CellOf(p)] = tree[p]

\* What the comments say: by the places that are kept, the number of an element
\* tells its place, as if the tree were a full binary tree.
ShownInPlace ==
    \A r \in Readers : Step(r) = "show_loop" /\ fifo.status = Empty =>
        shown = [cell \in {CellOf(p) : p \in DOMAIN tree} |->
                     tree[2^(cell[1] - 1) + cell[2]]]
===============================================================================
