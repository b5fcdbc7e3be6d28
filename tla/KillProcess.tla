------------------------------ MODULE KillProcess ------------------------------
(***************************************************************************)
(* killProcess of uthash.c: the processes to end with a process, found by  *)
(* following a hash table from parent to child.  A parent has one entry    *)
(* per child, all with its key: it is looked up until nothing is found,    *)
(* each entry found is deleted, and its child waits on a stack.            *)
(***************************************************************************)
EXTENDS HashTable

CONSTANTS
    PidSize   \* bound: how many processes there are; they are 1 .. PidSize

Pids == 1 .. PidSize

VARIABLES
    ppid,        \* the parent of each process, 0 of the one that has none
    kill,
    pHeadEntry,  \* the hash table
    killPid, stack, pRslt,
    at           \* "loop" or "done"

killVars == <<ppid, kill, pHeadEntry, killPid, stack, pRslt, at>>

\* The ancestors of p among parents, itself included.
Ancestors(parents, p) ==
    LET up[k \in 0 .. PidSize] ==
            IF k = 0 THEN {p}
            ELSE up[k - 1] \cup {parents[q] : q \in up[k - 1] \ {0}}
    IN  up[PidSize]

\* The processes form a tree: the problem says so (uthash.c:445).
Trees ==
    {parents \in [Pids -> 0 .. PidSize] :
        /\ Cardinality({p \in Pids : parents[p] = 0}) = 1
        /\ \A p \in Pids : 0 \in Ancestors(parents, p)}

\* The table is filled before the loop, in the order of the arrays.
Init ==
    /\ ppid \in Trees
    /\ kill \in Pids
    /\ pHeadEntry = [p \in Pids |-> [key |-> ppid[p], value |-> p]]
    /\ killPid = kill
    /\ stack = <<>>
    /\ pRslt = <<kill>>
    /\ at = "loop"

Children == HashFind(pHeadEntry, killPid)

\* Mutant: the first child found takes the other entries of its parent along.
PushChildDropOthers ==
    /\ at = "loop"
    /\ \E i \in Children :
         /\ stack' = Append(stack, pHeadEntry[i].value)
         /\ pHeadEntry' = SelectSeq(pHeadEntry, LAMBDA e : e.key # killPid)
    /\ UNCHANGED <<ppid, kill, killPid, pRslt, at>>

\* HASH_FIND finds a child, any of them.
PushChild ==
    /\ at = "loop"
    /\ \E i \in Children :
         /\ stack' = Append(stack, pHeadEntry[i].value)
         /\ pHeadEntry' = HashDel(pHeadEntry, i)
    /\ UNCHANGED <<ppid, kill, killPid, pRslt, at>>

\* No more children: on to the process on top of the stack.
NextProcess ==
    /\ at = "loop"
    /\ Children = {}
    /\ stack # <<>>
    /\ killPid' = Last(stack)
    /\ stack' = Front(stack)
    /\ pRslt' = Append(pRslt, Last(stack))
    /\ UNCHANGED <<ppid, kill, pHeadEntry, at>>

\* The rest of the table is freed.
Finish ==
    /\ at = "loop"
    /\ Children = {}
    /\ stack = <<>>
    /\ at' = "done"
    /\ pHeadEntry' = <<>>
    /\ UNCHANGED <<ppid, kill, killPid, stack, pRslt>>

Next == PushChild \/ NextProcess \/ Finish

-------------------------------------------------------------------------------
(* Properties.                                                             *)

\* The types.
TypeOK ==
    /\ ppid \in [Pids -> 0 .. PidSize]
    /\ kill \in Pids
    /\ pHeadEntry \in Seq([key : 0 .. PidSize, value : Pids])
    /\ killPid \in Pids
    /\ stack \in Seq(Pids)
    /\ pRslt \in Seq(Pids)
    /\ at \in {"loop", "done"}

\* The result never outgrows the array allocated for it, names no process
\* twice, and in the end names the process and all its descendants and nobody
\* else, in whatever order the table gives the children.
Doomed == {p \in Pids : kill \in Ancestors(ppid, p)}
KillsDescendants ==
    /\ Len(pRslt) <= 2 * PidSize
    /\ \A i, j \in DOMAIN pRslt : pRslt[i] = pRslt[j] => i = j
    /\ ToSet(pRslt) \cup ToSet(stack) \subseteq Doomed
    /\ at = "done" => ToSet(pRslt) = Doomed
===============================================================================
