------------------------------- MODULE MsgFifo -------------------------------
(***************************************************************************)
(* What a message FIFO of socket_tcp_pthread promises its callers, whether *)
(* it is the lock-free one or the one under a mutex: messages come out     *)
(* whole, once, in the order they went in; a push is refused exactly when  *)
(* its head and payload do not fit in the free bytes; a get is refused     *)
(* exactly when nothing is queued.  The FIFO holds at most Size bytes.     *)
(***************************************************************************)
EXTENDS Integers, Sequences

CONSTANTS
    Size,      \* bytes in the buffer
    HeadLen,   \* sizeof(msg_head)
    Ids,       \* what tells two messages of the same length apart
    Lens       \* the payload lengths callers use

Message == [id : Ids, len : Lens]

\* msg_total_len = sizeof(pmsg->head) + pmsg->head.len
Total(m) == HeadLen + m.len

VARIABLES
    q,         \* the messages pushed and not yet got, oldest first
    used,      \* the bytes they take
    pushRes,   \* what the last push returned: <<"none">>, <<"ok">> or <<"full", message>>
    getRes     \* what the last get returned: <<"none">>, <<"empty">> or <<"got", message>>

vars == <<q, used, pushRes, getRes>>

Init ==
    /\ q = <<>>
    /\ used = 0
    /\ pushRes = <<"none">>
    /\ getRes = <<"none">>

Push(m) ==
    /\ used + Total(m) <= Size
    /\ q' = Append(q, m)
    /\ used' = used + Total(m)
    /\ pushRes' = <<"ok">>
    /\ UNCHANGED getRes

PushFull(m) ==
    /\ used + Total(m) > Size
    /\ pushRes' = <<"full", m>>
    /\ UNCHANGED <<q, used, getRes>>

Get ==
    /\ q # <<>>
    /\ getRes' = <<"got", Head(q)>>
    /\ q' = Tail(q)
    /\ used' = used - Total(Head(q))
    /\ UNCHANGED pushRes

GetEmpty ==
    /\ q = <<>>
    /\ getRes' = <<"empty">>
    /\ UNCHANGED <<q, used, pushRes>>

Next ==
    \/ \E m \in Message : Push(m) \/ PushFull(m)
    \/ Get
    \/ GetEmpty

Spec == Init /\ [][Next]_vars
==============================================================================
