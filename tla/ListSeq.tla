------------------------------- MODULE ListSeq -------------------------------
(***************************************************************************)
(* What the doubly linked list of list_nonlinuxkernel_mystyle.c promises:  *)
(* a sequence of keys that takes and gives at both ends, loses the first   *)
(* one equal to a key, and can be sorted.                                  *)
(***************************************************************************)
EXTENDS Integers, SequencesExt

CONSTANT Keys

VARIABLES
    exists,    \* the list was created
    keys,      \* what is in it, first to last
    call       \* the call made last: <<name>> or <<name, argument>>

vars == <<exists, keys, call>>

Init == exists = FALSE /\ keys = <<>> /\ call = <<"none">>

Create ==
    /\ ~exists
    /\ exists' = TRUE
    /\ keys' = <<>>
    /\ call' = <<"create">>

Destroy ==
    /\ exists
    /\ exists' = FALSE
    /\ keys' = <<>>
    /\ call' = <<"destroy">>

InsertHead(k) ==
    /\ exists
    /\ keys' = <<k>> \o keys
    /\ call' = <<"insert_head", k>>
    /\ UNCHANGED exists

InsertTail(k) ==
    /\ exists
    /\ keys' = Append(keys, k)
    /\ call' = <<"insert_tail", k>>
    /\ UNCHANGED exists

\* The first key equal to k goes, if there is one.
DeleteByKey(k) ==
    /\ exists
    /\ call' = <<"delete_by_key", k>>
    /\ LET at == {i \in DOMAIN keys : keys[i] = k}
       IN  keys' = IF at = {} THEN keys ELSE RemoveAt(keys, Min(at))
    /\ UNCHANGED exists

\* A caller who holds the i-th node takes that one out.
DeleteNode(i) ==
    /\ exists
    /\ i \in DOMAIN keys
    /\ keys' = RemoveAt(keys, i)
    /\ call' = <<"delete_node", i>>
    /\ UNCHANGED exists

DeleteHead ==
    /\ exists
    /\ keys' = IF keys = <<>> THEN <<>> ELSE Tail(keys)
    /\ call' = <<"delete_head">>
    /\ UNCHANGED exists

DeleteTail ==
    /\ exists
    /\ keys' = IF keys = <<>> THEN <<>> ELSE Front(keys)
    /\ call' = <<"delete_tail">>
    /\ UNCHANGED exists

Count(s, k) == Cardinality({i \in DOMAIN s : s[i] = k})

Sort ==
    /\ exists
    /\ \A i \in 1 .. Len(keys') - 1 : keys'[i] <= keys'[i + 1]
    /\ Len(keys') = Len(keys)
    /\ \A k \in Keys : Count(keys', k) = Count(keys, k)
    /\ call' = <<"sort">>
    /\ UNCHANGED exists

Next ==
    \/ Create \/ Destroy \/ DeleteHead \/ DeleteTail \/ Sort
    \/ \E k \in Keys : InsertHead(k) \/ InsertTail(k) \/ DeleteByKey(k)
    \/ \E i \in DOMAIN keys : DeleteNode(i)

Spec == Init /\ [][Next]_vars
===============================================================================
