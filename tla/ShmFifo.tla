-------------------------------- MODULE ShmFifo --------------------------------
(***************************************************************************)
(* The program main.c builds: the lock-free FIFO in a named shared memory, *)
(* a process that pushes (test_fifo_thread_tx) and a process that gets     *)
(* (test_fifo_thread_rx) and checks every message it gets.  Each process,  *)
(* when it starts, clears the whole shared memory and sets the size, even  *)
(* if the other one is at work in it.  A process may be killed at any      *)
(* point and started again: the shared memory is never unlinked, and what  *)
(* the other process has published in it is gone with the next start.      *)
(*                                                                         *)
(* Clearing the memory and setting the size are one step here, so that     *)
(* the ring never has size zero while the other process looks at it.       *)
(***************************************************************************)
EXTENDS LockFreeFifo

VARIABLES
    running,   \* the processes at work: "tx", "rx"
    lost       \* history: the published messages the last start wiped, unread

shmVars == <<vars, running, lost>>

ShmInit == Init /\ running = {} /\ lost = <<>>

Published == [i \in DOMAIN queue |-> queue[i].msg]

\* Mutant: only what the producer owns is cleared.
ClearWr ==
    /\ wr' = 0
    /\ buffer' = [s \in Slot |-> NoByte]
    /\ lost' = Published
    /\ queue' = <<>>
    /\ UNCHANGED rd

\* memset(pfifo, 0, SHM_SIZE): the messages in it are lost with the cursors.
Clear ==
    /\ wr' = 0
    /\ rd' = 0
    /\ buffer' = [s \in Slot |-> NoByte]
    /\ lost' = Published
    /\ queue' = <<>>

\* Mutant: a sender that finds the memory in use joins it as it is.
JoinTx ==
    /\ "tx" \notin running
    /\ running' = running \cup {"tx"}
    /\ UNCHANGED <<vars, lost>>

StartTx ==
    /\ "tx" \notin running
    /\ running' = running \cup {"tx"}
    /\ Clear
    /\ UNCHANGED <<producerVars, consumerVars, pushRes, getRes>>

StartRx ==
    /\ "rx" \notin running
    /\ running' = running \cup {"rx"}
    /\ Clear
    /\ UNCHANGED <<producerVars, consumerVars, pushRes, getRes>>

\* A killed process leaves the shared memory as it is and loses its locals.
KillTx ==
    /\ "tx" \in running
    /\ running' = running \ {"tx"}
    /\ ppc' = "idle"
    /\ pmsg' = NoMessage
    /\ pat' = 0
    /\ pstraight' = FALSE
    /\ UNCHANGED <<wr, rd, buffer, consumerVars, pushRes, getRes, queue, lost>>

KillRx ==
    /\ "rx" \in running
    /\ running' = running \ {"rx"}
    /\ cpc' = "idle"
    /\ got' = <<>>
    /\ glen' = 0
    /\ cat' = 0
    /\ cstraight' = FALSE
    /\ UNCHANGED <<wr, rd, buffer, producerVars, pushRes, getRes, queue, lost>>

ShmNext ==
    \/ "tx" \in running /\ Producer /\ UNCHANGED <<running, lost>>
    \/ "rx" \in running /\ Consumer /\ UNCHANGED <<running, lost>>
    \/ StartTx
    \/ StartRx
    \/ KillTx
    \/ KillRx

ShmSpec == ShmInit /\ [][ShmNext]_shmVars

\* The same processes, when each starts only while the other one is not in
\* the middle of a call.
QuietNext ==
    \/ "tx" \in running /\ Producer /\ UNCHANGED <<running, lost>>
    \/ "rx" \in running /\ Consumer /\ UNCHANGED <<running, lost>>
    \/ cpc = "idle" /\ StartTx
    \/ ppc = "idle" /\ StartRx
    \/ KillTx
    \/ KillRx

QuietSpec == ShmInit /\ [][QuietNext]_shmVars

-------------------------------------------------------------------------------
(* Properties.                                                             *)

\* What the receiving process checks of every message it gets: that its type
\* is MAGIC_NUM, which the sender puts into every head.  Clearing the memory
\* under a call of the other process breaks it; a kill in the middle of a call
\* and a start between the other's calls do not.
EveryHeadIsMagic == cpc = "payload" => \E m \in Message : got = HeadBytes(m)

\* What main.c promises of the messages (ShmQueue): a kill at any point, in the
\* middle of a push or a get too, costs nothing that was published and leaves no
\* half of a message behind; a start costs exactly what was published and not
\* got; the messages between come out whole, in order and once.
Shared == INSTANCE ShmQueue WITH
    q    <- Published,
    used <- Dist(wr, rd)

ImplementsShmQueue == Shared!ShmSpec

\* The inductive invariant behind them: the one of the FIFO, and a process that
\* is not running is in no call.
QuietInv ==
    /\ IInv
    /\ running \subseteq {"tx", "rx"}
    /\ "tx" \notin running => ppc = "idle"
    /\ "rx" \notin running => cpc = "idle"
===============================================================================
