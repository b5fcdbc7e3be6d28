----------------------------- MODULE CircularList -----------------------------
(***************************************************************************)
(* list_linuxkernel_style.c: the circular list of the Linux kernel, with a *)
(* head that is a link and no packet, and the menu of main that inserts    *)
(* packets at its tail and deletes them by their index.                    *)
(***************************************************************************)
EXTENDS Integers, SequencesExt

CONSTANTS
    Packets,   \* the heap: what malloc can hand out (a bound)
    MaxIndex   \* bound: the last index given to a packet

packet_list == "packet_list"
Poison == "poison"    \* LIST_POISON1 and LIST_POISON2
Null   == "null"

Links == Packets \cup {packet_list}

VARIABLES
    next, prev,     \* of the head and of every packet
    index,          \* of every packet
    packet_index,   \* the index of the next packet
    inUse,          \* packets handed out by malloc and not freed
    at,             \* where main is: the menu, the deletion of all, or done
    pPkt, pPkt_next \* the cursors of the deletion of all

vars == <<next, prev, index, packet_index, inUse, at, pPkt, pPkt_next>>

\* LIST_HEAD: the head alone points to itself.
Init ==
    /\ next = [l \in Links |-> IF l = packet_list THEN packet_list ELSE Null]
    /\ prev = next
    /\ index = [p \in Packets |-> 0]
    /\ packet_index = 1
    /\ inUse = {}
    /\ at = "menu"
    /\ pPkt = Null
    /\ pPkt_next = Null

\* The links from the head on, up to the head again; longer than the heap if
\* they do not come back to it.
Around(link) ==
    LET walk[k \in 1 .. Cardinality(Packets) + 1] ==
            IF k = 1 THEN link[packet_list]
            ELSE IF walk[k - 1] \in Packets THEN link[walk[k - 1]] ELSE walk[k - 1]
    IN  SubSeq(walk, 1, Cardinality({k \in DOMAIN walk : walk[k] # packet_list}))

Ring == Around(next)

-------------------------------------------------------------------------------
list_add_tail(p) ==
    LET last == prev[packet_list]
    IN  /\ next' = [next EXCEPT ![p] = packet_list, ![last] = p]
        /\ prev' = [prev EXCEPT ![p] = last, ![packet_list] = p]

list_del(p) ==
    /\ next' = [next EXCEPT ![prev[p]] = next[p], ![p] = Poison]
    /\ prev' = [prev EXCEPT ![next[p]] = prev[p], ![p] = Poison]

free(p) == inUse' = inUse \ {p}

\* Choice 1.
InsertPacket(p) ==
    /\ at = "menu"
    /\ p \notin inUse
    /\ packet_index <= MaxIndex
    /\ list_add_tail(p)
    /\ inUse' = inUse \cup {p}
    /\ index' = [index EXCEPT ![p] = packet_index]
    /\ packet_index' = packet_index + 1
    /\ UNCHANGED <<at, pPkt, pPkt_next>>

\* Choice 2: the first packet with the index entered, if there is one.
DeletePacket(i) ==
    /\ at = "menu"
    /\ LET found == {k \in DOMAIN Ring : index[Ring[k]] = i}
       IN  /\ found # {}
           /\ list_del(Ring[Min(found)])
           /\ free(Ring[Min(found)])
    /\ UNCHANGED <<index, packet_index, at, pPkt, pPkt_next>>

\* Choice 4 deletes one packet after the other.  The cursors are set before a
\* packet is freed (list_for_each_entry_safe), from the link of what may be
\* the head by then.
StartDeleteAll ==
    /\ at = "menu"
    /\ at' = "delete_all"
    /\ pPkt' = next[packet_list]
    /\ pPkt_next' = next[next[packet_list]]
    /\ UNCHANGED <<next, prev, index, packet_index, inUse>>

\* Mutant: the cursor moves on by the link of the packet that was freed.
DeleteUnsafely ==
    /\ at = "delete_all"
    /\ pPkt # packet_list
    /\ list_del(pPkt)
    /\ free(pPkt)
    /\ pPkt' = next'[pPkt]
    /\ UNCHANGED <<index, packet_index, at, pPkt_next>>

DeleteOne ==
    /\ at = "delete_all"
    /\ pPkt # packet_list
    /\ list_del(pPkt)
    /\ free(pPkt)
    /\ pPkt' = pPkt_next
    /\ pPkt_next' = next'[pPkt_next]
    /\ UNCHANGED <<index, packet_index, at>>

Return ==
    /\ at = "delete_all"
    /\ pPkt = packet_list
    /\ at' = "done"
    /\ UNCHANGED <<next, prev, index, packet_index, inUse, pPkt, pPkt_next>>

Next ==
    \/ \E p \in Packets : InsertPacket(p)
    \/ \E i \in 1 .. MaxIndex : DeletePacket(i)
    \/ StartDeleteAll \/ DeleteOne \/ Return

-------------------------------------------------------------------------------
(* Properties.                                                             *)

TypeOK ==
    /\ next \in [Links -> Links \cup {Poison, Null}]
    /\ prev \in [Links -> Links \cup {Poison, Null}]
    /\ index \in [Packets -> 0 .. MaxIndex]
    /\ packet_index \in 1 .. MaxIndex + 1
    /\ inUse \subseteq Packets
    /\ at \in {"menu", "delete_all", "done"}
    /\ {pPkt, pPkt_next} \subseteq Links \cup {Null, Poison}

\* The ring is the same read forwards and backwards, whichever packets were
\* deleted from it, the head included as a neighbour: and it has the packets in
\* the order in which they came, so that an index names at most one of them.
RingAgrees ==
    /\ ToSet(Ring) \subseteq Packets
    /\ Ring = Reverse(Around(prev))
    /\ \A i, j \in DOMAIN Ring : i < j => index[Ring[i]] < index[Ring[j]]

\* The packets in use are those in the ring, neither cursor ever points to one
\* that was freed, and main returns with nothing left.
NoPacketAfterFree ==
    /\ inUse = ToSet(Ring)
    /\ at # "menu" => {pPkt, pPkt_next} \subseteq inUse \cup {packet_list}
    /\ at = "done" => inUse = {}
===============================================================================
