------------------------------- MODULE ShmQueue -------------------------------
(***************************************************************************)
(* What main.c makes of the message FIFO for two processes that are killed *)
(* and started again.  A kill touches nothing that was published: a push   *)
(* cut short was never there, a get cut short has taken nothing out.  A    *)
(* start, of either process, costs everything that is queued: what was     *)
(* pushed and not yet got is gone, and nobody is told.  Between two starts *)
(* nothing is lost, repeated, reordered or invented.                       *)
(***************************************************************************)
EXTENDS MsgFifo

VARIABLES
    running,   \* the processes at work: "tx" pushes, "rx" gets
    lost       \* the queued messages the last start wiped, oldest first

shmVars == <<vars, running, lost>>

ShmInit ==
    /\ Init
    /\ running = {}
    /\ lost = <<>>

\* Whichever process starts, the queue is empty after it.
Start(p) ==
    /\ p \notin running
    /\ running' = running \cup {p}
    /\ lost' = q
    /\ q' = <<>>
    /\ used' = 0
    /\ UNCHANGED <<pushRes, getRes>>

Kill(p) ==
    /\ p \in running
    /\ running' = running \ {p}
    /\ UNCHANGED <<vars, lost>>

Tx == \E m \in Message : Push(m) \/ PushFull(m)

Rx == Get \/ GetEmpty

ShmNext ==
    \/ "tx" \in running /\ Tx /\ UNCHANGED <<running, lost>>
    \/ "rx" \in running /\ Rx /\ UNCHANGED <<running, lost>>
    \/ \E p \in {"tx", "rx"} : Start(p) \/ Kill(p)

ShmSpec == ShmInit /\ [][ShmNext]_shmVars
===============================================================================
