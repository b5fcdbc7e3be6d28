------------------------------ MODULE SyncChannel ------------------------------
(***************************************************************************)
(* The channel synchronisation of socket_tcp_pthread: a client and a       *)
(* server process, joined by a TCP connection, that run the same state     *)
(* machine (sync_fsm_translation) and step each other through the rounds   *)
(* START, HIGH, LOW, TASKING.  In each exchange a peer sends its message   *)
(* and then waits for the other's.  In every process three threads share   *)
(* socket_dev:                                                             *)
(*   - the entry thread (client_entry, server_entry) makes the connection, *)
(*     and makes another when it is lost;                                  *)
(*   - the receive task (socket_recv_task) takes messages off the socket   *)
(*     and pushes them into the lock-free FIFO;                            *)
(*   - the state machine sends on the socket and gets from the FIFO.       *)
(*                                                                         *)
(* The FIFO is the one MsgFifo specifies and LockFreeFifo implements: a    *)
(* push or a get is one step.  A connection delivers whole messages in     *)
(* order (TcpFraming looks inside them), and either end may break at any   *)
(* time: what was on its way to it may be lost, the other end may learn of *)
(* it late or never.  The state machine is not told: it reads the link     *)
(* status only in SETUP.  What the socket calls then return is what Linux  *)
(* does: data that has arrived is read first, then one call fails with the *)
(* error, then receives return 0, which the receive task takes for a       *)
(* message of length 0 and type 0, START, and a send kills the process     *)
(* with SIGPIPE, which no code here handles.                               *)
(*                                                                         *)
(* A send may also fail and leave the connection up (no buffer space), and *)
(* a peer may poll its FIFO any number of times before a message arrives.  *)
(* A process that was killed is not started again.                         *)
(***************************************************************************)
EXTENDS Integers, Sequences

CONSTANTS
    Client, Server,
    FifoSize,  \* bytes of each FIFO: MSG_FIFO_LEN, or what the build makes of it
    HeadLen,   \* sizeof(msg_head)
    Lens,      \* payload lengths: rand()%20 * 5
    ErrMax,    \* ERROR_MAX_CNT
    Rounds,    \* task_count is kept modulo this bound
    MaxConn    \* bound: connections made

ASSUME SyncAssumption ==
    /\ Client # Server
    /\ FifoSize \in Nat /\ HeadLen \in Nat /\ ErrMax \in Nat
    /\ Lens \subseteq Nat /\ Lens # {}
    /\ Rounds \in Nat /\ Rounds >= 2
    /\ MaxConn \in Nat \ {0}

Peer == {Client, Server}
Other(p) == IF p = Client THEN Server ELSE Client

TxState == {"START_TX", "HIGH_TX", "LOW_TX"}
RxState == {"START_RX", "HIGH_RX", "LOW_RX"}
Fsm     == {"SETUP", "TASKING", "STOP"} \cup TxState \cup RxState

\* A message carries, as history, the exchange it was sent for.
MsgType  == {"START", "HIGH", "LOW"}
Nowhere  == 3 * Rounds
Msg      == [type : MsgType, len : Lens, xchg : 0 .. Nowhere]
NoMsg    == <<>>

\* What a receive makes of the end of the stream: nobody sent it.
Phantom  == [type |-> "START", len |-> 0, xchg |-> Nowhere]

\* What socket_dev.conn_fd is: no open socket, one that is not connected, or
\* an end of a connection.
Conn     == 1 .. MaxConn
NoSocket == 0
Unconnected == MaxConn + 1

\* The ends of a connection.  A broken one first reports its error.
SockEnd  == {"closed", "up", "error", "ended", "broken"}

VARIABLES
    fsm,      \* link_fsm
    err,      \* err_count
    task,     \* task_count, modulo Rounds
    snapshot, \* snapshot.last_fsm
    alive,    \* the process runs
    status,   \* socket_dev.link_status: connected or not
    fd,       \* socket_dev.conn_fd
    backlog,  \* the connections that wait for accept
    made,     \* the connections made so far are 1 .. made
    sock,     \* sock[p][c]: p's end of connection c
    wire,     \* wire[p][c]: the messages in connection c on their way to p
    hand,     \* the message the receive task has read and not yet pushed
    fifo,     \* the contents of socket_dev.fifo_without_lock
    ended     \* history: an end of stream was taken for a message

fsmVars == <<fsm, err, task, snapshot>>
netVars == <<status, fd, backlog, made>>
vars    == <<fsmVars, alive, netVars, sock, wire, hand, fifo, ended>>

Init ==
    /\ fsm = [p \in Peer |-> "SETUP"]
    /\ err = [p \in Peer |-> 0]
    /\ task = [p \in Peer |-> 0]
    /\ snapshot = [p \in Peer |-> "SETUP"]
    /\ alive = [p \in Peer |-> TRUE]
    /\ status = [p \in Peer |-> "disconnected"]
    /\ fd = [p \in Peer |-> NoSocket]
    /\ backlog = <<>>
    /\ made = 0
    /\ sock = [p \in Peer |-> [c \in Conn |-> "closed"]]
    /\ wire = [p \in Peer |-> [c \in Conn |-> <<>>]]
    /\ hand = [p \in Peer |-> NoMsg]
    /\ fifo = [p \in Peer |-> <<>>]
    /\ ended = FALSE

-------------------------------------------------------------------------------
(* The connections.                                                        *)

\* close() of p's end of c, if c is a connection: what was not read is gone.
Close(p, c) ==
    IF c \in Conn
    THEN /\ sock' = [sock EXCEPT ![p][c] = "closed"]
         /\ wire' = [wire EXCEPT ![p][c] = <<>>]
    ELSE UNCHANGED <<sock, wire>>

\* A reset, a lost route: p's end of c fails, with any part of what was on its
\* way to it.  The other end fails in a step of its own, if ever.  The last
\* connection of the bound does not break, so there is always a next one.
Break(p, c) ==
    /\ c < MaxConn
    /\ sock[p][c] = "up"
    /\ sock' = [sock EXCEPT ![p][c] = "error"]
    /\ \E n \in 0 .. Len(wire[p][c]) : wire' = [wire EXCEPT ![p][c] = SubSeq(@, 1, n)]
    /\ UNCHANGED <<fsmVars, alive, netVars, hand, fifo, ended>>

\* The other end's close arrives, behind all the data.
Finish(p, c) ==
    /\ sock[p][c] = "up"
    /\ sock[Other(p)][c] = "closed"
    /\ sock' = [sock EXCEPT ![p][c] = "ended"]
    /\ UNCHANGED <<fsmVars, alive, netVars, wire, hand, fifo, ended>>

-------------------------------------------------------------------------------
(* The entry threads.                                                      *)

\* socket(), at the top of client_entry's loop.
NewSocket ==
    /\ alive[Client]
    /\ fd[Client] = NoSocket
    /\ fd' = [fd EXCEPT ![Client] = Unconnected]
    /\ UNCHANGED <<fsmVars, alive, status, backlog, made, sock, wire, hand, fifo, ended>>

\* connect() succeeds while the server listens, before the server accepts.
Connect ==
    /\ alive[Client] /\ alive[Server]
    /\ fd[Client] = Unconnected
    /\ made < MaxConn
    /\ made' = made + 1
    /\ fd' = [fd EXCEPT ![Client] = made']
    /\ sock' = [p \in Peer |-> [sock[p] EXCEPT ![made'] = "up"]]
    /\ backlog' = Append(backlog, made')
    /\ status' = [status EXCEPT ![Client] = "connected"]
    /\ UNCHANGED <<fsmVars, alive, wire, hand, fifo, ended>>

ConnectFails ==
    /\ alive[Client]
    /\ fd[Client] = Unconnected
    /\ fd' = [fd EXCEPT ![Client] = NoSocket]
    /\ UNCHANGED <<fsmVars, alive, status, backlog, made, sock, wire, hand, fifo, ended>>

\* The client finds its connection no longer established, and closes it.
ClientLost ==
    /\ alive[Client]
    /\ fd[Client] \in Conn
    /\ sock[Client][fd[Client]] # "up"
    /\ status' = [status EXCEPT ![Client] = "disconnected"]
    /\ Close(Client, fd[Client])
    /\ fd' = [fd EXCEPT ![Client] = NoSocket]
    /\ UNCHANGED <<fsmVars, alive, backlog, made, hand, fifo, ended>>

ClientEntry == NewSocket \/ Connect \/ ConnectFails \/ ClientLost

\* The server changes to every new connection, and never says disconnected.
Accept ==
    /\ alive[Server]
    /\ backlog # <<>>
    /\ Close(Server, fd[Server])
    /\ fd' = [fd EXCEPT ![Server] = Head(backlog)]
    /\ backlog' = Tail(backlog)
    /\ status' = [status EXCEPT ![Server] = "connected"]
    /\ UNCHANGED <<fsmVars, alive, made, hand, fifo, ended>>

-------------------------------------------------------------------------------
(* The FIFO between the receive task and the state machine.                *)

Total(m) == HeadLen + m.len

\* The bytes the messages of s take.
Bytes(s) ==
    LET sum[i \in 0 .. Len(s)] == IF i = 0 THEN 0 ELSE sum[i - 1] + Total(s[i])
    IN  sum[Len(s)]

Fits(p, m) == Bytes(fifo[p]) + Total(m) <= FifoSize

\* The connection p reads from and sends to, and p's end of it.
EndOf(p) == IF fd[p] \in Conn THEN sock[p][fd[p]] ELSE "none"

\* recv_single_message_for_task, once the entry thread has set CONNECTED.
RecvTask(p) ==
    /\ alive[p]
    /\ status[p] = "connected"
    /\ hand[p] = NoMsg
    /\ fd[p] \in Conn
    /\ wire[p][fd[p]] # <<>>
    /\ hand' = [hand EXCEPT ![p] = Head(wire[p][fd[p]])]
    /\ wire' = [wire EXCEPT ![p][fd[p]] = Tail(@)]
    /\ UNCHANGED <<fsmVars, alive, netVars, sock, fifo, ended>>

\* Nothing left in a broken connection: the call fails, once.
RecvError(p) ==
    /\ alive[p]
    /\ status[p] = "connected"
    /\ hand[p] = NoMsg
    /\ EndOf(p) = "error"
    /\ wire[p][fd[p]] = <<>>
    /\ sock' = [sock EXCEPT ![p][fd[p]] = "broken"]
    /\ UNCHANGED <<fsmVars, alive, netVars, wire, hand, fifo, ended>>

\* At the end of the stream recvmsg returns 0, and so does the function.
RecvEnd(p) ==
    /\ alive[p]
    /\ status[p] = "connected"
    /\ hand[p] = NoMsg
    /\ EndOf(p) \in {"ended", "broken"}
    /\ wire[p][fd[p]] = <<>>
    /\ hand' = [hand EXCEPT ![p] = Phantom]
    /\ ended' = TRUE
    /\ UNCHANGED <<fsmVars, alive, netVars, sock, wire, fifo>>

\* push_msg_fifo_without_lock; a message that does not fit is dropped.
PushHand(p) ==
    /\ alive[p]
    /\ hand[p] # NoMsg
    /\ fifo' = IF Fits(p, hand[p]) THEN [fifo EXCEPT ![p] = Append(@, hand[p])] ELSE fifo
    /\ hand' = [hand EXCEPT ![p] = NoMsg]
    /\ UNCHANGED <<fsmVars, alive, netVars, sock, wire, ended>>

Receiver(p) == RecvTask(p) \/ RecvError(p) \/ RecvEnd(p) \/ PushHand(p)

-------------------------------------------------------------------------------
(* The state machine: one action is one turn of its loop.                  *)

After == [SETUP    |-> "START_TX",
          START_TX |-> "START_RX", START_RX |-> "HIGH_TX",
          HIGH_TX  |-> "HIGH_RX",  HIGH_RX  |-> "LOW_TX",
          LOW_TX   |-> "LOW_RX",   LOW_RX   |-> "TASKING",
          TASKING  |-> "START_TX"]

\* What a TX state sends and what an RX state waits for.
TypeAt == [START_TX |-> "START", START_RX |-> "START",
           HIGH_TX  |-> "HIGH",  HIGH_RX  |-> "HIGH",
           LOW_TX   |-> "LOW",   LOW_RX   |-> "LOW"]

\* A turn that passes: the next state, and no errors in a row.
Pass(p) ==
    /\ fsm' = [fsm EXCEPT ![p] = After[@]]
    /\ err' = [err EXCEPT ![p] = 0]
    /\ UNCHANGED snapshot

\* err_count++ goes past ERROR_MAX_CNT.
Exhausted(p) == err[p] + 1 > ErrMax

\* Mutant: the next state whether it passes or not.
PassAnyway(p) ==
    /\ fsm' = [fsm EXCEPT ![p] = After[@]]
    /\ UNCHANGED <<err, snapshot>>

\* Mutant: past the limit, another try at the whole round.
TryRoundAgain(p) ==
    /\ IF Exhausted(p)
       THEN /\ fsm' = [fsm EXCEPT ![p] = "START_TX"]
            /\ err' = [err EXCEPT ![p] = 0]
       ELSE /\ err' = [err EXCEPT ![p] = @ + 1]
            /\ UNCHANGED fsm
    /\ UNCHANGED snapshot

\* A turn that does not: one more error, and past the limit a snapshot and STOP.
NoPass(p) ==
    IF Exhausted(p)
    THEN /\ snapshot' = [snapshot EXCEPT ![p] = fsm[p]]
         /\ fsm' = [fsm EXCEPT ![p] = "STOP"]
         /\ err' = [err EXCEPT ![p] = 0]
    ELSE /\ err' = [err EXCEPT ![p] = @ + 1]
         /\ UNCHANGED <<fsm, snapshot>>

\* Neither the connections nor the receive task have a part in this turn.
NetUnchanged == UNCHANGED <<netVars, sock, wire, hand, fifo, ended>>

\* The only look at the link status.
Setup(p) ==
    /\ fsm[p] = "SETUP"
    /\ status[p] = "connected"
    /\ fsm' = [fsm EXCEPT ![p] = After[@]]
    /\ UNCHANGED <<err, task, snapshot, alive>>
    /\ NetUnchanged

\* The number of exchanges a peer has completed, modulo the exchanges of
\* Rounds rounds.  A peer that stopped is where it was then.
ExchangesIn == [SETUP |-> 0, START_TX |-> 0, START_RX |-> 0, HIGH_TX |-> 1,
                HIGH_RX |-> 1, LOW_TX |-> 2, LOW_RX |-> 2, TASKING |-> 3]
At(p) == IF fsm[p] = "STOP" THEN snapshot[p] ELSE fsm[p]
Exchanges(p) == (3 * task[p] + ExchangesIn[At(p)]) % (3 * Rounds)

\* sendmsg hands the message to the socket: it arrives unless the other end is
\* gone, which an end that has seen the other's close is told by a reset.
Send(p) ==
    /\ fsm[p] \in TxState
    /\ EndOf(p) \in {"up", "ended"}
    /\ \E n \in Lens :
         LET m == [type |-> TypeAt[fsm[p]], len |-> n, xchg |-> Exchanges(p)]
         IN  wire' = IF EndOf(p) = "up" /\ sock[Other(p)][fd[p]] = "up"
                     THEN [wire EXCEPT ![Other(p)][fd[p]] = Append(@, m)]
                     ELSE wire
    /\ \E e \in {EndOf(p)} \cup (IF EndOf(p) = "ended" THEN {"broken"} ELSE {}) :
         sock' = [sock EXCEPT ![p][fd[p]] = e]
    /\ Pass(p)
    /\ UNCHANGED <<task, alive, netVars, hand, fifo, ended>>

\* No room or no time, or the call reports what broke the connection, or
\* conn_fd is closed.  A broken end fails once this way.
SendFails(p) ==
    /\ fsm[p] \in TxState
    /\ fd[p] # Unconnected
    /\ EndOf(p) # "broken"
    /\ sock' = IF EndOf(p) = "error" THEN [sock EXCEPT ![p][fd[p]] = "broken"] ELSE sock
    /\ NoPass(p)
    /\ UNCHANGED <<task, alive, netVars, wire, hand, fifo, ended>>

\* SIGPIPE: a send on a socket that is not, or no longer, connected ends the
\* process and closes everything it had open.
SendKills(p) ==
    /\ fsm[p] \in TxState
    /\ fd[p] = Unconnected \/ EndOf(p) = "broken"
    /\ alive' = [alive EXCEPT ![p] = FALSE]
    /\ sock' = [sock EXCEPT ![p] = [c \in Conn |-> "closed"]]
    /\ wire' = [wire EXCEPT ![p] = [c \in Conn |-> <<>>]]
    /\ fd' = [fd EXCEPT ![p] = NoSocket]
    /\ status' = [status EXCEPT ![p] = "disconnected"]
    /\ hand' = [hand EXCEPT ![p] = NoMsg]
    /\ fifo' = [fifo EXCEPT ![p] = <<>>]
    /\ backlog' = IF p = Server THEN <<>> ELSE backlog
    /\ UNCHANGED <<fsmVars, made, ended>>

\* Mutant: waiting costs no error.
RecvWaits(p) ==
    /\ fsm[p] \in RxState
    /\ fifo[p] = <<>>
    /\ UNCHANGED vars

\* The FIFO is empty.
RecvFails(p) ==
    /\ fsm[p] \in RxState
    /\ fifo[p] = <<>>
    /\ NoPass(p)
    /\ UNCHANGED <<task, alive>>
    /\ NetUnchanged

\* A message is taken, whatever its type.
Recv(p) ==
    /\ fsm[p] \in RxState
    /\ fifo[p] # <<>>
    /\ fifo' = [fifo EXCEPT ![p] = Tail(@)]
    /\ IF Head(fifo[p]).type = TypeAt[fsm[p]] THEN Pass(p) ELSE NoPass(p)
    /\ UNCHANGED <<task, alive, netVars, sock, wire, hand, ended>>

Tasking(p) ==
    /\ fsm[p] = "TASKING"
    /\ Pass(p)
    /\ task' = [task EXCEPT ![p] = (@ + 1) % Rounds]
    /\ UNCHANGED alive
    /\ NetUnchanged

FsmTurn(p) ==
    /\ alive[p]
    /\ \/ Setup(p)
       \/ Send(p)
       \/ SendFails(p)
       \/ SendKills(p)
       \/ RecvFails(p)
       \/ Recv(p)
       \/ Tasking(p)

Next ==
    \/ ClientEntry
    \/ Accept
    \/ \E p \in Peer :
         \/ FsmTurn(p)
         \/ Receiver(p)
         \/ \E c \in Conn : Break(p, c) \/ Finish(p, c)

Spec == Init /\ [][Next]_vars

\* Every thread is scheduled again and again.  Nothing is assumed of how fast
\* the threads are to each other, so an error limit may be reached any time,
\* and nothing of the network: a lost connection may never be noticed.
FairSpec ==
    /\ Spec
    /\ WF_vars(ClientEntry)
    /\ WF_vars(Accept)
    /\ \A p \in Peer : WF_vars(FsmTurn(p)) /\ WF_vars(Receiver(p))

-------------------------------------------------------------------------------
(* Properties.                                                             *)

\* The types; in particular err_count never gets past its limit.
TypeOK ==
    /\ fsm \in [Peer -> Fsm]
    /\ err \in [Peer -> 0 .. ErrMax]
    /\ task \in [Peer -> 0 .. Rounds - 1]
    /\ snapshot \in [Peer -> Fsm]
    /\ alive \in [Peer -> BOOLEAN]
    /\ status \in [Peer -> {"disconnected", "connected"}]
    /\ fd \in [Peer -> Conn \cup {NoSocket, Unconnected}]
    /\ backlog \in Seq(Conn)
    /\ made \in 0 .. MaxConn
    /\ sock \in [Peer -> [Conn -> SockEnd]]
    /\ wire \in [Peer -> [Conn -> Seq(Msg)]]
    /\ hand \in [Peer -> Msg \cup {Phantom, NoMsg}]
    /\ fifo \in [Peer -> Seq(Msg \cup {Phantom})]
    /\ ended \in BOOLEAN

\* The peers step each other: neither ever completes an exchange the other
\* has not sent its part of, so one is at most one exchange ahead, and then
\* the other waits for a message it sent.  In particular both run the same
\* task at the same time or one of them waits in LOW_RX for it.  A stopped or
\* killed peer counts where it stopped.  Connections lost and made again do
\* not break this as long as no end of a stream was taken for a message.
Lockstep ==
    ended \/ \A p \in Peer :
        \/ Exchanges(p) = Exchanges(Other(p))
        \/ /\ Exchanges(p) = (Exchanges(Other(p)) + 1) % (3 * Rounds)
           /\ At(Other(p)) \in RxState
        \/ /\ Exchanges(Other(p)) = (Exchanges(p) + 1) % (3 * Rounds)
           /\ At(p) \in RxState

\* A peer never takes a message left over from an earlier exchange for the
\* one it waits for, whatever connections were lost in between: a message
\* that passes was sent for this exchange of this round, or was not sent at
\* all.
TakesCurrentOnly ==
    \A p \in Peer :
        alive[p] /\ fsm[p] \in RxState /\ fifo[p] # <<>> =>
            LET m == Head(fifo[p])
            IN  m.type = TypeAt[fsm[p]] => m.xchg \in {Exchanges(p), Nowhere}

\* The receive task has room for what it has read, so it drops no message
\* sent to it: the exchanges bound what can be outstanding.  Ends of streams
\* taken for messages are the exception: they fill any FIFO.
NothingDropped ==
    ended \/ \A p \in Peer : hand[p] # NoMsg => Fits(p, hand[p])

\* The peers live and die together, also over lost connections: either both
\* go through the task over and over, or neither does and each ends in STOP,
\* killed, or still in SETUP.  None waits in a round for ever, and none runs
\* on without the other.
Halted(p) == ~alive[p] \/ fsm[p] \in {"STOP", "SETUP"}
RunTogetherOrStop ==
    \/ \A p \in Peer : []<>(fsm[p] = "TASKING")
    \/ \A p \in Peer : <>[]Halted(p)

-------------------------------------------------------------------------------
(* The inductive invariant behind the three safety properties.             *)

\* How many exchanges y is after x, around the bound of the count; exact from
\* two before to three after.
Ahead(x, y) ==
    IF y - x > 3 THEN y - x - 3 * Rounds
    ELSE IF y - x < -2 THEN y - x + 3 * Rounds
    ELSE y - x

Lead(p) == Ahead(Exchanges(Other(p)), Exchanges(p))
InHigh(p) == ExchangesIn[At(p)] = 1

\* A peer gets ahead by a message of the exchange it completes, which the other
\* one has sent before it waits.  An end of stream taken for a START lets it
\* complete that exchange alone, and then it needs a HIGH.
LeadBounded(p) ==
    /\ Lead(p) \in -2 .. 2
    /\ Lead(p) = 1 => At(Other(p)) \in RxState \/ (ended /\ InHigh(p))
    /\ Lead(p) = 2 => At(Other(p)) \in RxState /\ ended /\ InHigh(p)

\* What is on its way to p, in the order in which p gets it: in its FIFO, in
\* the hands of its receive task, and in its connections, one after the other.
Places == 0 .. MaxConn + 1
Stream(p, a) ==
    IF a = 0 THEN fifo[p]
    ELSE IF a = 1 THEN IF hand[p] = NoMsg THEN <<>> ELSE <<hand[p]>>
    ELSE wire[p][a - 1]

Pos(p, m) == Ahead(Exchanges(p), m.xchg)

PhaseOf == [START |-> 0, HIGH |-> 1, LOW |-> 2]

\* A message to p is of the exchange p is in or of one the other peer is ahead,
\* and was sent.  Only one of a START that p has completed alone may be older.
Fresh(p, m) ==
    /\ m \in Msg
    /\ \E k \in 0 .. Rounds - 1 : m.xchg = 3 * k + PhaseOf[m.type]
    /\ Pos(p, m) >= IF ended /\ InHigh(p) THEN -1 ELSE 0
    /\ Pos(p, m) <= Lead(Other(p)) - (IF At(Other(p)) \in RxState THEN 0 ELSE 1)

Sound(p) ==
    \A a \in Places : \A i \in 1 .. Len(Stream(p, a)) :
        Fresh(p, Stream(p, a)[i]) \/ (Stream(p, a)[i] = Phantom /\ ended)

\* The messages to p are of later and later exchanges.
Ordered(p) ==
    \A a, b \in Places :
        \A i \in 1 .. Len(Stream(p, a)), j \in 1 .. Len(Stream(p, b)) :
            /\ a < b \/ (a = b /\ i < j)
            /\ Stream(p, a)[i] # Phantom
            /\ Stream(p, b)[j] # Phantom
            => Pos(p, Stream(p, a)[i]) < Pos(p, Stream(p, b)[j])

\* The client's connection is the newest one, the server's is followed by those
\* that wait for accept, and no other end is open.
ConnectionsOrdered ==
    /\ made \in 0 .. MaxConn
    /\ fd[Client] \in {NoSocket, Unconnected, made}
    /\ \A c \in Conn : c # fd[Client] => sock[Client][c] = "closed"
    /\ \A c \in Conn : c < fd[Server] \/ c > made => sock[Server][c] = "closed"
    /\ fd[Server] \in 0 .. made
    /\ backlog \in Seq(Conn)
    /\ alive[Server] => /\ fd[Server] + Len(backlog) = made
                        /\ \A i \in 1 .. Len(backlog) : backlog[i] = fd[Server] + i
    /\ ~alive[Server] => backlog = <<>>
    /\ \A p \in Peer, c \in Conn : sock[p][c] = "closed" => wire[p][c] = <<>>

FsmShape ==
    /\ fsm \in [Peer -> Fsm]
    /\ snapshot \in [Peer -> Fsm]
    /\ \A p \in Peer : At(p) # "STOP"
    /\ task \in [Peer -> 0 .. Rounds - 1]

NetShape ==
    /\ alive \in [Peer -> BOOLEAN]
    /\ fd \in [Peer -> Conn \cup {NoSocket, Unconnected}]
    /\ sock \in [Peer -> [Conn -> SockEnd]]
    /\ wire \in [Peer -> [Conn -> Seq(Msg)]]
    /\ hand \in [Peer -> Msg \cup {Phantom, NoMsg}]
    /\ fifo \in [Peer -> Seq(Msg \cup {Phantom})]
    /\ ended \in BOOLEAN

IInv ==
    /\ FsmShape
    /\ NetShape
    /\ ConnectionsOrdered
    /\ \A p \in Peer : LeadBounded(p) /\ Sound(p) /\ Ordered(p)
===============================================================================
