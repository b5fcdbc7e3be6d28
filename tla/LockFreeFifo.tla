----------------------------- MODULE LockFreeFifo -----------------------------
(***************************************************************************)
(* The lock-free message FIFO of phy_eth_common.c: a byte ring shared by   *)
(* one producer (push_msg_fifo_without_lock) and one consumer              *)
(* (get_msg_fifo_without_lock).  wr and rd count the bytes ever written    *)
(* and read and wrap around at W; the ring index of a cursor is its value  *)
(* modulo Size.  Only the producer writes wr and only the consumer writes  *)
(* rd, but each reads the other's cursor twice in a call, once for the     *)
(* space or empty check and once to choose the branch of the copy, so the  *)
(* two reads can disagree.                                                 *)
(*                                                                         *)
(* Copying the head is a step, copying the payload is a step, and so is    *)
(* every access to a shared cursor.                                        *)
(***************************************************************************)
EXTENDS ByteRing

CONSTANT
    W          \* number of values of a cursor (2^16: unsigned short)

\* Every ring index must survive the wrap of a cursor, and a full FIFO must
\* not look empty: Size divides W and is not W itself.
ASSUME SizeAssumption ==
    /\ W \in Nat
    /\ W % Size = 0
    /\ 2 * Size <= W

Cursor == 0 .. W - 1

-------------------------------------------------------------------------------
(* Cursor arithmetic.                                                      *)

\* (unsigned short)(a - b)
Dist(a, b) == IF a >= b THEN a - b ELSE a - b + W

\* a += n, for an unsigned short a
Advance(a, n) == IF a + n < W THEN a + n ELSE a + n - W

\* GET_WR_INDEX and GET_RD_INDEX: the low bits of a cursor
Index(c) == c % Size

-------------------------------------------------------------------------------
VARIABLES
    wr,        \* pfifo->wr
    rd,        \* pfifo->rd
    buffer,    \* pfifo->buffer
    ppc,       \* where the producer is in push_msg_fifo_without_lock
    pmsg,      \* the message being pushed
    pat,       \* the producer's local wr, a ring index
    pstraight, \* the producer took the branch that never wraps
    cpc,       \* where the consumer is in get_msg_fifo_without_lock
    got,       \* the bytes copied out so far
    glen,      \* pmsg->head.len, as read from the head
    cat,       \* the consumer's local rd, a ring index
    cstraight, \* the consumer took the branch that never wraps
    pushRes,   \* what the last push returned: <<"none">>, <<"ok">> or <<"full", message>>
    getRes,    \* what the last get returned: <<"none">>, <<"empty">> or <<"got", message>>
    queue      \* history: the published, unread messages and where they start

producerVars == <<ppc, pmsg, pat, pstraight>>
consumerVars == <<cpc, got, glen, cat, cstraight>>
vars == <<wr, rd, buffer, producerVars, consumerVars, pushRes, getRes, queue>>

Pc == {"idle", "index", "head", "payload", "publish"}

NoMessage == <<>>

Init ==
    /\ wr = 0
    /\ rd = 0
    /\ buffer = [s \in Slot |-> NoByte]
    /\ ppc = "idle"
    /\ pmsg = NoMessage
    /\ pat = 0
    /\ pstraight = FALSE
    /\ cpc = "idle"
    /\ got = <<>>
    /\ glen = 0
    /\ cat = 0
    /\ cstraight = FALSE
    /\ pushRes = <<"none">>
    /\ getRes = <<"none">>
    /\ queue = <<>>

-------------------------------------------------------------------------------
(* push_msg_fifo_without_lock.                                             *)

\* Mutants: the cast to unsigned short dropped, and one byte never used.
FreeSpaceUncast     == Size - (wr - rd)
FreeSpaceKeepingOne == Size - 1 - Dist(wr, rd)

\* free_space = size - (unsigned short)(wr - rd)
FreeSpace == Size - Dist(wr, rd)

\* The space check, with its read of the consumer's cursor.  A refused push
\* returns -1 here and has changed nothing.
PushCheck(m) ==
    /\ ppc = "idle"
    /\ FreeSpace >= Total(m)
    /\ ppc' = "index"
    /\ pmsg' = m
    /\ UNCHANGED <<wr, rd, buffer, pat, pstraight, consumerVars, pushRes, getRes, queue>>

PushFull(m) ==
    /\ ppc = "idle"
    /\ FreeSpace < Total(m)
    /\ pushRes' = <<"full", m>>
    /\ UNCHANGED <<wr, rd, buffer, producerVars, consumerVars, getRes, queue>>

\* The second read of rd: below it the copy is straight.
PushIndex ==
    /\ ppc = "index"
    /\ ppc' = "head"
    /\ pat' = Index(wr)
    /\ pstraight' = (Index(wr) < Index(rd))
    /\ UNCHANGED <<wr, rd, buffer, pmsg, consumerVars, pushRes, getRes, queue>>

PushHead ==
    /\ ppc = "head"
    /\ ppc' = "payload"
    /\ buffer' = Written(buffer, HeadBytes(pmsg), pat, pstraight)
    /\ pat' = AfterCopy(pat, pstraight, HeadLen)
    /\ UNCHANGED <<wr, rd, pmsg, pstraight, consumerVars, pushRes, getRes, queue>>

PushPayload ==
    /\ ppc = "payload"
    /\ ppc' = "publish"
    /\ buffer' = Written(buffer, PayloadBytes(pmsg), pat, pstraight)
    /\ pat' = AfterCopy(pat, pstraight, pmsg.len)
    /\ UNCHANGED <<wr, rd, pmsg, pstraight, consumerVars, pushRes, getRes, queue>>

\* wr += msg_total_len makes the message visible to the consumer.
PushPublish ==
    /\ ppc = "publish"
    /\ wr' = Advance(wr, Total(pmsg))
    /\ queue' = Append(queue, [msg |-> pmsg, start |-> wr])
    /\ pushRes' = <<"ok">>
    /\ ppc' = "idle"
    /\ pmsg' = NoMessage
    /\ pat' = 0
    /\ pstraight' = FALSE
    /\ UNCHANGED <<rd, buffer, consumerVars, getRes>>

Producer ==
    \/ \E m \in Message : PushCheck(m) \/ PushFull(m)
    \/ PushIndex
    \/ PushHead
    \/ PushPayload
    \/ PushPublish

-------------------------------------------------------------------------------
(* get_msg_fifo_without_lock.                                              *)

\* Mutant: the ring indices are compared.
EmptyByIndex == Index(wr) = Index(rd)

\* The empty check compares the cursors, not the ring indices: in a full FIFO
\* the indices are equal too.
Empty == wr = rd

GetEmpty ==
    /\ cpc = "idle"
    /\ Empty
    /\ getRes' = <<"empty">>
    /\ UNCHANGED <<wr, rd, buffer, producerVars, consumerVars, pushRes, queue>>

GetCheck ==
    /\ cpc = "idle"
    /\ ~Empty
    /\ cpc' = "index"
    /\ UNCHANGED <<wr, rd, buffer, producerVars, got, glen, cat, cstraight, pushRes, getRes, queue>>

\* The second read of wr: below it the copy is straight.
GetIndex ==
    /\ cpc = "index"
    /\ cpc' = "head"
    /\ cat' = Index(rd)
    /\ cstraight' = (Index(rd) < Index(wr))
    /\ UNCHANGED <<wr, rd, buffer, producerVars, got, glen, pushRes, getRes, queue>>

GetHead ==
    /\ cpc = "head"
    /\ cpc' = "payload"
    /\ got' = ReadOut(buffer, cat, cstraight, HeadLen)
    /\ glen' \in LengthsIn(got')
    /\ cat' = AfterCopy(cat, cstraight, HeadLen)
    /\ UNCHANGED <<wr, rd, buffer, producerVars, cstraight, pushRes, getRes, queue>>

GetPayload ==
    /\ cpc = "payload"
    /\ cpc' = "publish"
    /\ got' = got \o ReadOut(buffer, cat, cstraight, glen)
    /\ cat' = AfterCopy(cat, cstraight, glen)
    /\ UNCHANGED <<wr, rd, buffer, producerVars, glen, cstraight, pushRes, getRes, queue>>

\* rd += sizeof(head) + head.len frees the bytes for the producer.
GetPublish ==
    /\ cpc = "publish"
    /\ rd' = Advance(rd, HeadLen + glen)
    /\ queue' = SubSeq(queue, 2, Len(queue))
    /\ getRes' = Decoded(got)
    /\ cpc' = "idle"
    /\ got' = <<>>
    /\ glen' = 0
    /\ cat' = 0
    /\ cstraight' = FALSE
    /\ UNCHANGED <<wr, buffer, producerVars, pushRes>>

Consumer ==
    \/ GetEmpty
    \/ GetCheck
    \/ GetIndex
    \/ GetHead
    \/ GetPayload
    \/ GetPublish

-------------------------------------------------------------------------------
Next == Producer \/ Consumer

Spec == Init /\ [][Next]_vars

\* Both sides call in endless loops (main.c, socket_recv_task and
\* sync_fsm_translation), each in a thread the operating system schedules.
FairSpec == Spec /\ WF_vars(Producer) /\ WF_vars(Consumer)

-------------------------------------------------------------------------------
(* Properties.                                                             *)

\* Every variable has its type: cursors are 16-bit counts, the buffer holds
\* message bytes, and locals are ring indices (one past the end after a copy
\* that ends there in the straight branch).
TypeOK ==
    /\ wr \in Cursor
    /\ rd \in Cursor
    /\ buffer \in [Slot -> Cell]
    /\ ppc \in Pc
    /\ pmsg \in Message \cup {NoMessage}
    /\ ppc # "idle" => pmsg \in Message
    /\ pat \in 0 .. Size
    /\ pstraight \in BOOLEAN
    /\ cpc \in Pc
    /\ got \in Seq(Cell)
    /\ glen \in Lens \cup {0}
    /\ cat \in 0 .. Size
    /\ cstraight \in BOOLEAN
    /\ pushRes \in {<<"none">>, <<"ok">>} \cup ({"full"} \X Message)
    /\ getRes \in {<<"none">>, <<"empty">>, <<"garbage">>} \cup ({"got"} \X Message)
    /\ queue \in Seq([msg : Message, start : Cursor])

\* The bytes a call in progress owns: what a push has found free and not yet
\* published, and what a get has found full and not yet released.
Reserved == IF ppc = "idle" THEN 0 ELSE Total(pmsg)
Claimed  == IF cpc \in {"payload", "publish"} THEN HeadLen + glen ELSE 0

\* The cursors never cross: the unread bytes and the push in progress fit in
\* the buffer together, and a get never claims more than was published, at any
\* point of either call and across every wrap of the unsigned short cursors.
CursorsSafe ==
    /\ Dist(wr, rd) + Reserved <= Size
    /\ Claimed <= Dist(wr, rd)

\* The ring slots the producer may still write, and those the consumer may
\* still read, before their calls return.
WriteSlots ==
    CASE ppc = "head" ->
            CopySlots(pat, pstraight, HeadLen)
            \cup CopySlots(AfterCopy(pat, pstraight, HeadLen), pstraight, pmsg.len)
      [] ppc = "payload" -> CopySlots(pat, pstraight, pmsg.len)
      [] OTHER -> {}

ReadSlots ==
    CASE cpc = "head" -> CopySlots(cat, cstraight, HeadLen)
      [] cpc = "payload" -> CopySlots(cat, cstraight, glen)
      [] OTHER -> {}

\* Every memcpy of both sides stays inside the buffer, although the branch is
\* chosen by a second read of the other side's cursor, which may have moved
\* since the space or empty check.
CopiesInBounds == WriteSlots \cup ReadSlots \subseteq Slot

\* No byte is ever copied in by the producer while the consumer is copying it
\* out: without a lock the two memcpys may run at the same time, so they must
\* touch disjoint bytes.
NoByteRace == WriteSlots \cap ReadSlots = {}

\* From rd to wr the buffer holds the bytes of the published, unread messages,
\* one after the other: nothing that was published is overwritten before it
\* was read, wherever the ring or a cursor wraps.
UnreadIntact ==
    /\ queue = <<>> => wr = rd
    /\ queue # <<>> => queue[1].start = rd
    /\ \A i \in DOMAIN queue :
        LET m   == queue[i].msg
            end == Advance(queue[i].start, Total(m))
        IN  /\ end = IF i = Len(queue) THEN wr ELSE queue[i + 1].start
            /\ \A k \in 0 .. Total(m) - 1 :
                 buffer[Index(Advance(queue[i].start, k))] = <<m, k>>

\* The inductive invariant behind the properties above.  Offsets are taken
\* from rd: a message at offset Offset(i) ends before the next one starts and
\* before wr, so that distinct bytes in use have distinct ring slots.
Offset(i) == Dist(queue[i].start, rd)
Ends(i)   == Offset(i) + Total(queue[i].msg)

Holds(start, m, n) ==
    \A k \in 0 .. n - 1 : buffer[Index(Advance(start, k))] = <<m, k>>

Layout ==
    /\ Dist(wr, rd) + Reserved <= Size
    /\ queue = <<>> => wr = rd
    /\ queue # <<>> => queue[1].start = rd
    /\ \A i \in DOMAIN queue : Ends(i) <= Dist(wr, rd)
    /\ \A i, j \in DOMAIN queue : i < j => Ends(i) <= Offset(j)
    /\ \A i \in DOMAIN queue :
         Advance(queue[i].start, Total(queue[i].msg)) =
             IF i = Len(queue) THEN wr ELSE queue[i + 1].start

Contents == \A i \in DOMAIN queue : Holds(queue[i].start, queue[i].msg, Total(queue[i].msg))

\* What the producer has done of its push, and that a straight copy fits.
PushInProgress ==
    /\ ppc \in {"head", "payload"} /\ pstraight => Index(wr) + Total(pmsg) <= Size
    /\ ppc = "head" => pat = Index(wr)
    /\ ppc = "payload" => /\ pat = AfterCopy(Index(wr), pstraight, HeadLen)
                          /\ Holds(wr, pmsg, HeadLen)
    /\ ppc = "publish" => Holds(wr, pmsg, Total(pmsg))

\* What the consumer has done of its get: it is getting the first message.
GetInProgress ==
    /\ cpc # "idle" => queue # <<>>
    /\ cpc \in {"head", "payload"} /\ cstraight => Index(rd) + Total(queue[1].msg) <= Size
    /\ cpc = "head" => cat = Index(rd)
    /\ cpc = "payload" => /\ cat = AfterCopy(Index(rd), cstraight, HeadLen)
                          /\ got = HeadBytes(queue[1].msg)
    /\ cpc = "publish" => got = MessageBytes(queue[1].msg)
    /\ cpc \in {"payload", "publish"} => glen = queue[1].msg.len

IInv == TypeOK /\ Layout /\ Contents /\ PushInProgress /\ GetInProgress

\* What the FIFO promises (MsgFifo): order, no loss, no duplication, whole
\* messages, and a refusal only when there is really no room.
Abstract == INSTANCE MsgFifo WITH
    q    <- [i \in DOMAIN queue |-> queue[i].msg],
    used <- Dist(wr, rd)

ImplementsMsgFifo == Abstract!Spec

\* A published message is eventually taken out: the consumer's cursor leaves
\* every value at which there is something to read.
EveryMessageLeaves ==
    \A c \in Cursor : (rd = c /\ wr # c) ~> (rd # c)

\* A full FIFO does not stay full for ever: whatever the lengths it is called
\* with, the producer keeps getting messages through.
ProducerNotStarved == []<>(ppc = "publish")
===============================================================================
