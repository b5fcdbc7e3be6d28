------------------------------ MODULE LockedFifo ------------------------------
(***************************************************************************)
(* The message FIFO of phy_eth_common.c for several producers and several  *)
(* consumers: push_msg_fifo and get_msg_fifo.  wr and rd are ring indices, *)
(* depth is the number of free bytes, and each call runs under the mutex   *)
(* of the FIFO from its check to its last update.  A call moves the shared *)
(* index itself while it copies, so the FIFO is only consistent while no   *)
(* call holds the mutex.                                                   *)
(*                                                                         *)
(* Size stands for depth_max; it need not be a power of two.               *)
(***************************************************************************)
EXTENDS ByteRing

CONSTANTS
    Producers, Consumers

Threads == Producers \cup Consumers

NoThread  == "none"

ASSUME ThreadAssumption ==
    /\ Producers \cap Consumers = {}
    /\ NoThread \notin Threads

NoMessage == <<>>

VARIABLES
    wr,       \* pfifo->wr
    rd,       \* pfifo->rd
    depth,    \* pfifo->depth: the free bytes
    buffer,   \* pfifo->buffer
    mutex,    \* the thread that holds pfifo->mutex
    pc,       \* where each thread is in its call
    msg,      \* the message a thread pushes
    straight, \* the call in progress took the branch that never wraps
    got,      \* the bytes the call in progress has copied out
    glen,     \* pmsg->head.len, as read from the head
    pushRes,  \* what the last push returned: <<"none">>, <<"ok">> or <<"full", message>>
    getRes,   \* what the last get returned: <<"none">>, <<"empty">> or <<"got", message>>
    queue     \* history: the messages pushed and not yet got

copyVars == <<straight, got, glen>>
vars == <<wr, rd, depth, buffer, mutex, pc, msg, copyVars, pushRes, getRes, queue>>

Init ==
    /\ wr = 0
    /\ rd = 0
    /\ depth = Size
    /\ buffer = [s \in Slot |-> NoByte]
    /\ mutex = NoThread
    /\ pc = [t \in Threads |-> "idle"]
    /\ msg = [t \in Threads |-> NoMessage]
    /\ straight = FALSE
    /\ got = <<>>
    /\ glen = 0
    /\ pushRes = <<"none">>
    /\ getRes = <<"none">>
    /\ queue = <<>>

Goto(t, l) == pc' = [pc EXCEPT ![t] = l]

-------------------------------------------------------------------------------
(* push_msg_fifo.                                                          *)

\* pthread_mutex_lock waits; the caller's message is chosen before.
PushCall(t, m) ==
    /\ pc[t] = "idle"
    /\ msg' = [msg EXCEPT ![t] = m]
    /\ Goto(t, "lock")
    /\ UNCHANGED <<wr, rd, depth, buffer, mutex, copyVars, pushRes, getRes, queue>>

\* Mutant: the lock does not exclude.
LockAnyway(t) ==
    /\ pc[t] = "lock"
    /\ mutex' = t
    /\ Goto(t, "check")
    /\ UNCHANGED <<wr, rd, depth, buffer, msg, copyVars, pushRes, getRes, queue>>

Lock(t) ==
    /\ pc[t] = "lock"
    /\ mutex = NoThread
    /\ mutex' = t
    /\ Goto(t, "check")
    /\ UNCHANGED <<wr, rd, depth, buffer, msg, copyVars, pushRes, getRes, queue>>

\* Mutant: the early return forgets to unlock.
PushFullHolding(t) ==
    /\ pc[t] = "check"
    /\ depth < Total(msg[t])
    /\ msg' = [msg EXCEPT ![t] = NoMessage]
    /\ pushRes' = <<"full", msg[t]>>
    /\ Goto(t, "idle")
    /\ UNCHANGED <<wr, rd, depth, buffer, mutex, copyVars, getRes, queue>>

\* The free space check; a refused push unlocks and returns -1.
PushFull(t) ==
    /\ pc[t] = "check"
    /\ depth < Total(msg[t])
    /\ mutex' = NoThread
    /\ msg' = [msg EXCEPT ![t] = NoMessage]
    /\ pushRes' = <<"full", msg[t]>>
    /\ Goto(t, "idle")
    /\ UNCHANGED <<wr, rd, depth, buffer, copyVars, getRes, queue>>

PushCheck(t) ==
    /\ pc[t] = "check"
    /\ depth >= Total(msg[t])
    /\ straight' = (wr < rd)
    /\ Goto(t, "head")
    /\ UNCHANGED <<wr, rd, depth, buffer, mutex, msg, got, glen, pushRes, getRes, queue>>

\* In the split branch pfifo->wr itself follows the copy; in the straight
\* branch it moves once, at the end.
PushHead(t) ==
    /\ pc[t] = "head"
    /\ buffer' = Written(buffer, HeadBytes(msg[t]), wr, straight)
    /\ wr' = IF straight THEN wr ELSE AfterCopy(wr, FALSE, HeadLen)
    /\ Goto(t, "payload")
    /\ UNCHANGED <<rd, depth, mutex, msg, copyVars, pushRes, getRes, queue>>

PushPayload(t) ==
    /\ pc[t] = "payload"
    /\ LET start == IF straight THEN wr + HeadLen ELSE wr
       IN  /\ buffer' = Written(buffer, PayloadBytes(msg[t]), start, straight)
           /\ wr' = AfterCopy(start, straight, msg[t].len)
    /\ Goto(t, "finish")
    /\ UNCHANGED <<rd, depth, mutex, msg, copyVars, pushRes, getRes, queue>>

\* depth -= msg_total_len; wr %= depth_max; unlock.
PushFinish(t) ==
    /\ pc[t] = "finish"
    /\ depth' = depth - Total(msg[t])
    /\ wr' = wr % Size
    /\ mutex' = NoThread
    /\ queue' = Append(queue, msg[t])
    /\ pushRes' = <<"ok">>
    /\ msg' = [msg EXCEPT ![t] = NoMessage]
    /\ straight' = FALSE
    /\ Goto(t, "idle")
    /\ UNCHANGED <<rd, buffer, got, glen, getRes>>

Produce(t) ==
    \/ \E m \in Message : PushCall(t, m)
    \/ Lock(t)
    \/ PushFull(t)
    \/ PushCheck(t)
    \/ PushHead(t)
    \/ PushPayload(t)
    \/ PushFinish(t)

-------------------------------------------------------------------------------
(* get_msg_fifo.                                                           *)

GetCall(t) ==
    /\ pc[t] = "idle"
    /\ Goto(t, "lock")
    /\ UNCHANGED <<wr, rd, depth, buffer, mutex, msg, copyVars, pushRes, getRes, queue>>

GetEmpty(t) ==
    /\ pc[t] = "check"
    /\ depth = Size
    /\ mutex' = NoThread
    /\ getRes' = <<"empty">>
    /\ Goto(t, "idle")
    /\ UNCHANGED <<wr, rd, depth, buffer, msg, copyVars, pushRes, queue>>

GetCheck(t) ==
    /\ pc[t] = "check"
    /\ depth # Size
    /\ straight' = (rd < wr)
    /\ Goto(t, "head")
    /\ UNCHANGED <<wr, rd, depth, buffer, mutex, msg, got, glen, pushRes, getRes, queue>>

GetHead(t) ==
    /\ pc[t] = "head"
    /\ got' = ReadOut(buffer, rd, straight, HeadLen)
    /\ glen' \in LengthsIn(got')
    /\ rd' = IF straight THEN rd ELSE AfterCopy(rd, FALSE, HeadLen)
    /\ Goto(t, "payload")
    /\ UNCHANGED <<wr, depth, buffer, mutex, msg, straight, pushRes, getRes, queue>>

GetPayload(t) ==
    /\ pc[t] = "payload"
    /\ LET start == IF straight THEN rd + HeadLen ELSE rd
       IN  /\ got' = got \o ReadOut(buffer, start, straight, glen)
           /\ rd' = AfterCopy(start, straight, glen)
    /\ Goto(t, "finish")
    /\ UNCHANGED <<wr, depth, buffer, mutex, msg, straight, glen, pushRes, getRes, queue>>

\* depth += sizeof(head) + head.len; rd %= depth_max; unlock.
GetFinish(t) ==
    /\ pc[t] = "finish"
    /\ depth' = depth + HeadLen + glen
    /\ rd' = rd % Size
    /\ mutex' = NoThread
    /\ queue' = SubSeq(queue, 2, Len(queue))
    /\ getRes' = Decoded(got)
    /\ straight' = FALSE
    /\ got' = <<>>
    /\ glen' = 0
    /\ Goto(t, "idle")
    /\ UNCHANGED <<wr, buffer, msg, pushRes>>

Consume(t) ==
    \/ GetCall(t)
    \/ Lock(t)
    \/ GetEmpty(t)
    \/ GetCheck(t)
    \/ GetHead(t)
    \/ GetPayload(t)
    \/ GetFinish(t)

-------------------------------------------------------------------------------
Next ==
    \/ \E t \in Producers : Produce(t)
    \/ \E t \in Consumers : Consume(t)

Spec == Init /\ [][Next]_vars

-------------------------------------------------------------------------------
(* Properties.                                                             *)

\* The types; inside a call an index may be one past the end.
TypeOK ==
    /\ wr \in 0 .. Size
    /\ rd \in 0 .. Size
    /\ depth \in 0 .. Size
    /\ buffer \in [Slot -> Cell]
    /\ mutex \in Threads \cup {NoThread}
    /\ pc \in [Threads -> {"idle", "lock", "check", "head", "payload", "finish"}]
    /\ msg \in [Threads -> Message \cup {NoMessage}]
    /\ straight \in BOOLEAN
    /\ got \in Seq(Cell)
    /\ glen \in Lens \cup {0}
    /\ pushRes \in {<<"none">>, <<"ok">>} \cup ({"full"} \X Message)
    /\ getRes \in {<<"none">>, <<"empty">>, <<"garbage">>} \cup ({"got"} \X Message)
    /\ queue \in Seq(Message)

\* The mutex is held by exactly the thread that is between its lock and its
\* return: no way out of a call, early or late, leaves it locked, which would
\* stop every thread, and no two calls are inside at once.
Inside(t) == pc[t] \notin {"idle", "lock"}
LockEndsWithCall ==
    /\ TypeOK
    /\ \A t \in Threads : Inside(t) <=> mutex = t

\* While nobody holds the mutex the two indices and the counter of free bytes
\* tell the same story: wr is rd plus the bytes in use, around the ring, and
\* equal indices mean full or empty as depth says.
IndicesMatchDepth ==
    mutex = NoThread =>
        /\ wr \in Slot /\ rd \in Slot
        /\ (rd + (Size - depth)) % Size = wr

\* Every copy of the call in progress stays inside the buffer.
CopiesInBounds ==
    \A t \in Threads :
        LET at  == IF t \in Producers THEN wr ELSE rd
            len == IF t \in Producers THEN msg[t].len ELSE glen
        IN  /\ pc[t] = "head" => CopySlots(at, straight, HeadLen) \subseteq Slot
            /\ pc[t] = "payload" =>
                 CopySlots(IF straight THEN at + HeadLen ELSE at, straight, len) \subseteq Slot

\* The inductive invariant behind the properties above.  r and w are where
\* the bytes in use begin and end while no call moves an index, and message i
\* lies off[i] bytes behind r; On(i, n) is the slot n bytes on from i, around
\* the ring.
On(i, n) == AfterCopy(i, FALSE, n)
Used == Size - depth

Layout(off) ==
    /\ off \in [1 .. Len(queue) + 1 -> 0 .. Used]
    /\ off[1] = 0
    /\ off[Len(queue) + 1] = Used
    /\ \A i \in 1 .. Len(queue) : off[i + 1] = off[i] + Total(queue[i])
    /\ \A i, j \in 1 .. Len(queue) : i < j => off[i + 1] <= off[j]

\* The first n bytes of m lie from o bytes behind r on.
Holds(r, o, m, n) == \A k \in 0 .. n - 1 : buffer[On(r, o + k)] = <<m, k>>

Contents(r, off) ==
    \A i \in 1 .. Len(queue) : Holds(r, off[i], queue[i], Total(queue[i]))

\* Where a call that began at i has moved its index, with n bytes copied.
Moved(i, n) == IF straight THEN i + n ELSE On(i, n)

Copying == {"head", "payload", "finish"}

\* What the producers have done of their pushes, and that a straight copy fits.
Pushing(r, w) ==
    /\ (\A t \in Producers : pc[t] \notin {"payload", "finish"}) => wr = w
    /\ \A t \in Producers :
         /\ pc[t] # "idle" => msg[t] \in Message
         /\ pc[t] \in Copying =>
              /\ Used + Total(msg[t]) <= Size
              /\ straight => w + Total(msg[t]) <= Size
         /\ pc[t] = "payload" => /\ wr = IF straight THEN w ELSE On(w, HeadLen)
                                 /\ Holds(r, Used, msg[t], HeadLen)
         /\ pc[t] = "finish" => /\ wr = Moved(w, Total(msg[t]))
                                /\ Holds(r, Used, msg[t], Total(msg[t]))

\* What the consumers have done of their gets, which take the first message.
Getting(r) ==
    /\ (\A t \in Consumers : pc[t] \notin {"payload", "finish"}) => rd = r
    /\ \A t \in Consumers :
         /\ pc[t] \in Copying => /\ queue # <<>>
                                 /\ straight => r + Total(queue[1]) <= Size
         /\ pc[t] \in {"payload", "finish"} => glen = queue[1].len
         /\ pc[t] = "payload" => /\ rd = IF straight THEN r ELSE On(r, HeadLen)
                                 /\ got = HeadBytes(queue[1])
         /\ pc[t] = "finish" => /\ rd = Moved(r, Total(queue[1]))
                                /\ got = MessageBytes(queue[1])

Consistent(r, off) ==
    /\ Layout(off)
    /\ Contents(r, off)
    /\ Pushing(r, On(r, Used))
    /\ Getting(r)

IInv ==
    /\ LockEndsWithCall
    /\ \E r \in Slot, off \in [1 .. Len(queue) + 1 -> 0 .. Used] : Consistent(r, off)

\* What the FIFO promises its producers and consumers, whatever order they
\* come in: MsgFifo, with the messages ordered by the unlock of their push.
Abstract == INSTANCE MsgFifo WITH
    q    <- queue,
    used <- Size - depth

ImplementsMsgFifo == Abstract!Spec
===============================================================================
