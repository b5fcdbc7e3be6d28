------------------------------ MODULE TcpFraming ------------------------------
(***************************************************************************)
(* Messages over one direction of the TCP connection: send_single_message  *)
(* at one end and recv_single_message, as socket_recv_task calls it, at    *)
(* the other.  A message is a head (its type and its length) and a payload *)
(* of that length.  TCP carries a stream of bytes, in order, cut into      *)
(* segments as it likes, and the sockets have timeouts: SO_SNDTIMEO of two *)
(* seconds and SO_RCVTIMEO of 500 microseconds, with MSG_WAITALL.  A call  *)
(* that times out with part of its bytes moved returns their number, which *)
(* is not an error to either function, and so does a receive at the end of *)
(* the stream, where the number may be zero.                               *)
(*                                                                         *)
(* The head is two bytes here, one for the type and one for the length,    *)
(* zeroed before it is received into.                                      *)
(***************************************************************************)
EXTENDS Integers, Sequences, SequencesExt

CONSTANTS
    Types,      \* MSG_TYPE
    ZeroType,   \* the type a zeroed head has: SYNC_MSG_START
    Lens,       \* payload lengths
    Capacity,   \* bytes the connection holds between the two programs
    MaxSent,    \* bound: messages sent
    MaxTaken,   \* bound: messages received
    Late,       \* bytes may be later than the timeouts
    Closes      \* the sender may close the connection

ASSUME FramingAssumption ==
    /\ ZeroType \in Types
    /\ Lens \subseteq Nat
    /\ Capacity \in Nat /\ MaxSent \in Nat /\ MaxTaken \in Nat
    /\ Late \in BOOLEAN /\ Closes \in BOOLEAN

HeadLen == 2
Message == [type : Types, len : Lens]
Total(m) == HeadLen + m.len
Bytes(m) == [k \in 1 .. Total(m) |-> <<m, k - 1>>]

VARIABLES
    outbox,    \* what the sendmsg in progress has still to hand to the socket
    wire,      \* bytes on their way
    ready,     \* bytes in the receiver's socket
    closed,    \* the sender has closed the connection
    pc,        \* which recvmsg the receiver is in: "head" or "payload"
    head,      \* the head it has received
    sent,      \* history: the messages that entered the stream
    taken,     \* history: what recv_single_message returned 0 for
    torn       \* history: a call has ended inside a message, or at the end

vars == <<outbox, wire, ready, closed, pc, head, sent, taken, torn>>

ZeroHead == [type |-> ZeroType, len |-> 0]

Init ==
    /\ outbox = <<>>
    /\ wire = <<>>
    /\ ready = <<>>
    /\ closed = FALSE
    /\ pc = "head"
    /\ head = ZeroHead
    /\ sent = <<>>
    /\ taken = <<>>
    /\ torn = FALSE

receiverVars == <<pc, head, taken>>

-------------------------------------------------------------------------------
(* send_single_message.                                                    *)

Send(m) ==
    /\ ~closed
    /\ outbox = <<>>
    /\ Len(sent) < MaxSent
    /\ outbox' = Bytes(m)
    /\ sent' = Append(sent, m)
    /\ UNCHANGED <<wire, ready, closed, receiverVars, torn>>

HasRoom == Len(wire) + Len(ready) < Capacity

\* The socket takes bytes as it has room; the call returns with the last one.
Accept ==
    /\ outbox # <<>>
    /\ HasRoom
    /\ wire' = Append(wire, outbox[1])
    /\ outbox' = Tail(outbox)
    /\ UNCHANGED <<ready, closed, receiverVars, sent, torn>>

\* SO_SNDTIMEO: the rest of the message is never sent.  The call has failed
\* only if no byte was taken.
SendTimeout ==
    /\ Late
    /\ outbox # <<>>
    /\ LET m == Last(sent)
       IN  IF Len(outbox) = Total(m)
           THEN /\ sent' = Front(sent)
                /\ UNCHANGED torn
           ELSE /\ torn' = TRUE
                /\ UNCHANGED sent
    /\ outbox' = <<>>
    /\ UNCHANGED <<wire, ready, closed, receiverVars>>

Close ==
    /\ Closes
    /\ outbox = <<>>
    /\ ~closed
    /\ closed' = TRUE
    /\ UNCHANGED <<outbox, wire, ready, receiverVars, sent, torn>>

\* TCP brings the next byte to the receiver.
Arrive ==
    /\ wire # <<>>
    /\ ready' = Append(ready, wire[1])
    /\ wire' = Tail(wire)
    /\ UNCHANGED <<outbox, closed, receiverVars, sent, torn>>

-------------------------------------------------------------------------------
(* recv_single_message.  A recvmsg for n bytes ends in one of three ways.  *)

\* Mutants: a call that wants one byte more, and one that takes all there is.
WholeAndMore(n) == Len(ready) > n
RestDropped(n)  == <<>>

Whole(n) == Len(ready) >= n
TimedOut(n) == Late /\ Len(ready) < n
AtEnd(n) == closed /\ wire = <<>> /\ Len(ready) < n

\* It takes n bytes, or what there is.
Take(n) == SubSeq(ready, 1, n)
Rest(n) == SubSeq(ready, n + 1, Len(ready))
Least(a, b) == IF a < b THEN a ELSE b

\* The heads some bytes may make, the missing ones being zero: bytes that do
\* not start a message make any head.
HeadsOf(bytes) ==
    CASE bytes = <<>> -> {ZeroHead}
      [] Len(bytes) = 1 /\ bytes[1][2] = 0 -> {[type |-> bytes[1][1].type, len |-> 0]}
      [] Len(bytes) = 2 /\ bytes[1][2] = 0 /\ bytes[2] = <<bytes[1][1], 1>> -> {bytes[1][1]}
      [] OTHER -> [type : Types, len : Lens \cup {0}]

\* The first recvmsg.  With nothing there it fails when it times out, and the
\* function returns -1; a part of a head is taken for a head.
RecvHead ==
    /\ pc = "head"
    /\ Len(taken) < MaxTaken
    /\ \/ Whole(HeadLen)
       \/ TimedOut(HeadLen) /\ ready # <<>>
       \/ AtEnd(HeadLen)
    /\ LET n == Least(HeadLen, Len(ready))
       IN  /\ head' \in HeadsOf(Take(n))
           /\ ready' = Rest(n)
           /\ torn' = (torn \/ n < HeadLen)
    /\ pc' = "payload"
    /\ UNCHANGED <<outbox, wire, closed, sent, taken>>

\* The second recvmsg: what it returns that is no error makes a message.
RecvPayload ==
    /\ pc = "payload"
    /\ \/ Whole(head.len)
       \/ TimedOut(head.len) /\ ready # <<>>
       \/ AtEnd(head.len)
    /\ LET n     == Least(head.len, Len(ready))
           whole == Take(n) = SubSeq(Bytes(head), HeadLen + 1, Total(head))
       IN  /\ taken' = Append(taken, [type |-> head.type, len |-> head.len, whole |-> whole])
           /\ ready' = Rest(n)
           /\ torn' = (torn \/ n < head.len)
    /\ pc' = "head"
    /\ head' = ZeroHead
    /\ UNCHANGED <<outbox, wire, closed, sent>>

\* No byte of the payload in time: -1, and the head is gone.
RecvPayloadFails ==
    /\ pc = "payload"
    /\ TimedOut(head.len)
    /\ ready = <<>>
    /\ pc' = "head"
    /\ head' = ZeroHead
    /\ torn' = TRUE
    /\ UNCHANGED <<outbox, wire, ready, closed, sent, taken>>

Sender   == (\E m \in Message : Send(m)) \/ SendTimeout \/ Close
Network  == Accept \/ Arrive
Receiver == RecvHead \/ RecvPayload \/ RecvPayloadFails

Next == Sender \/ Network \/ Receiver

Spec == Init /\ [][Next]_vars

\* TCP moves the bytes it has room for, and the receive task keeps calling.
FairSpec == Spec /\ WF_vars(Accept) /\ WF_vars(Arrive) /\ WF_vars(Receiver)

-------------------------------------------------------------------------------
(* Properties.                                                             *)

\* The types, and the socket buffers within their size.
TypeOK ==
    /\ outbox \in Seq(Message \X Nat)
    /\ wire \in Seq(Message \X Nat)
    /\ ready \in Seq(Message \X Nat)
    /\ Len(wire) + Len(ready) <= Capacity
    /\ closed \in BOOLEAN
    /\ pc \in {"head", "payload"}
    /\ head \in [type : Types, len : Lens \cup {0}]
    /\ sent \in Seq(Message)
    /\ taken \in Seq([type : Types, len : Lens \cup {0}, whole : BOOLEAN])
    /\ torn \in BOOLEAN

\* What the comment over recv_single_message says: reading a head and then as
\* many bytes as it says reads one complete message after the other, however
\* the stream is cut.
CompletePackets ==
    /\ Len(taken) <= Len(sent)
    /\ \A i \in DOMAIN taken :
         taken[i] = [type |-> sent[i].type, len |-> sent[i].len, whole |-> TRUE]

\* It is true as long as no call has ended inside a message or at the end of
\* the stream: the cuts TCP makes, full buffers, and timeouts between
\* messages do no harm.
CompleteUntilTorn == ~torn => CompletePackets

\* And then every message that entered the stream is received.
EverythingArrives ==
    \A n \in 1 .. Least(MaxSent, MaxTaken) :
        (Len(sent) >= n) ~> (Len(taken) >= n \/ Len(sent) < n \/ torn)
===============================================================================
