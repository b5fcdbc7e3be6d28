--------------------------------- MODULE Lru ---------------------------------
(***************************************************************************)
(* What the LRU caches of uthash.c promise (uthash.c:230-247): a cache of  *)
(* capacity keys that answers for the capacity keys used last.  A put uses *)
(* its key, and a get does if the cache has it.  Nothing is ever thrown    *)
(* out here: the cache is the newest part of everything ever put.  The     *)
(* last call is part of the state, with the key it was about and what it   *)
(* answered, so that an answer belongs to its question.                    *)
(***************************************************************************)
EXTENDS Integers, SequencesExt

CONSTANTS Keys, Values

VARIABLES
    capacity,
    recency,   \* the keys ever put, the one used last first
    latest,    \* the value last put for each
    lastCall   \* the last call: <<"none">>, <<"get", key, answer>> or <<"put", key, value>>

NotFound == -1

Cached == {recency[i] : i \in DOMAIN recency \cap 1 .. capacity}

\* The keys with k moved, or added, to the front.
Used(k) == <<k>> \o RemoveFirst(recency, k)

Init ==
    /\ capacity \in Nat \ {0}
    /\ recency = <<>>
    /\ latest = [k \in Keys |-> NotFound]
    /\ lastCall = <<"none">>

Get(k) ==
    /\ IF k \in Cached
       THEN /\ recency' = Used(k)
            /\ lastCall' = <<"get", k, latest[k]>>
       ELSE /\ lastCall' = <<"get", k, NotFound>>
            /\ UNCHANGED recency
    /\ UNCHANGED <<capacity, latest>>

Put(k, v) ==
    /\ recency' = Used(k)
    /\ latest' = [latest EXCEPT ![k] = v]
    /\ lastCall' = <<"put", k, v>>
    /\ UNCHANGED capacity

Next == \E k \in Keys : Get(k) \/ \E v \in Values : Put(k, v)

Spec == Init /\ [][Next]_<<capacity, recency, latest, lastCall>>
===============================================================================
