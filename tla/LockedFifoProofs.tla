--------------------------- MODULE LockedFifoProofs ---------------------------
(***************************************************************************)
(* The FIFO under a mutex is safe for every size of the ring, every head   *)
(* length, every set of payload lengths that fit, and any sets of          *)
(* producers and consumers: the inductive invariant IInv of LockedFifo and *)
(* what follows from it.                                                   *)
(*                                                                         *)
(* The argument: the thread inside is the holder of the mutex, so there is *)
(* one call at a time, and its locals are what IInv says.  Seen from r,    *)
(* the bytes in use have the distances 0 .. Used - 1 and those of a push   *)
(* the distances from Used to at most Size - 1; distances below Size that  *)
(* differ have slots that differ (OnDistinct).  So a push overwrites       *)
(* nothing in use although it moves wr before it is done, and a get, which *)
(* moves rd before it is done, gives back exactly the first message.       *)
(***************************************************************************)
EXTENDS LockedFifo, ByteRingProofs

-------------------------------------------------------------------------------
(* Slots on around the ring.                                               *)

\* Going on around the ring stays in it, adds up, and is what a remainder by
\* the size makes of the sum.
LEMMA OnAddsUp ==
    ASSUME NEW i \in Slot, NEW a \in 0 .. Size
    PROVE  /\ On(i, a) \in Slot
           /\ On(i, 0) = i
           /\ \A b \in 0 .. Size : a + b <= Size => On(On(i, a), b) = On(i, a + b)
           /\ (i + a) % Size = On(i, a)
<1>1. On(i, a) \in Slot /\ On(i, 0) = i
  BY LenAssumption DEF On, AfterCopy, Slot
<1>2. \A b \in 0 .. Size : a + b <= Size => On(On(i, a), b) = On(i, a + b)
  BY LenAssumption DEF On, AfterCopy, Slot
<1>3. (i + a) % Size = On(i, a)
  <2>1. i + a \in Nat /\ (i + a = Size * 0 + On(i, a) \/ i + a = Size * 1 + On(i, a))
    BY LenAssumption DEF On, AfterCopy, Slot
  <2> QED BY <1>1, <2>1, RemainderUnique
<1> QED BY <1>1, <1>2, <1>3

\* Different distances below Size have different slots.
LEMMA OnDistinct ==
    ASSUME NEW i \in Slot, NEW a \in 0 .. Size - 1, NEW b \in 0 .. Size - 1,
           On(i, a) = On(i, b)
    PROVE  a = b
BY LenAssumption DEF On, AfterCopy, Slot

\* The two copies of a call that starts at slot i, of h bytes and of n bytes
\* more, fit, go to the slots on from i, and move the index past all of them.
LEMMA CallCopies ==
    ASSUME NEW i \in Slot, NEW h \in 0 .. Size, NEW n \in 0 .. Size, h + n <= Size,
           straight \in BOOLEAN, straight => i + (h + n) <= Size
    PROVE  LET j == IF straight THEN i + h ELSE On(i, h)
           IN  /\ CopyFits(i, straight, h)
               /\ \A k \in 0 .. h - 1 : CopySlot(i, straight, k) = On(i, k)
               /\ CopyFits(j, straight, n)
               /\ \A k \in 0 .. n - 1 : CopySlot(j, straight, k) = On(i, h + k)
               /\ AfterCopy(j, straight, n) = Moved(i, h + n)
               /\ AfterCopy(j, straight, n) \in 0 .. Size
               /\ Moved(i, h + n) % Size = On(i, h + n)
<1> DEFINE j == IF straight THEN i + h ELSE On(i, h)
           m == AfterCopy(j, straight, n)
<1>1. CopyFits(i, straight, h) /\ CopyFits(j, straight, n)
  BY LenAssumption DEF CopyFits, On, AfterCopy, Slot
<1>2. \A k \in 0 .. h - 1 : CopySlot(i, straight, k) = On(i, k)
  BY LenAssumption DEF CopySlot, On, AfterCopy, Slot
<1>3. \A k \in 0 .. n - 1 : CopySlot(j, straight, k) = On(i, h + k)
  BY LenAssumption DEF CopySlot, On, AfterCopy, Slot
<1>4. m = Moved(i, h + n) /\ m \in 0 .. Size
  BY LenAssumption DEF Moved, On, AfterCopy, Slot
<1>5. m % Size = On(i, h + n)
  <2>1. m \in Nat /\ (m = Size * 0 + On(i, h + n) \/ m = Size * 1 + On(i, h + n))
    BY LenAssumption DEF On, AfterCopy, Slot
  <2>2. On(i, h + n) \in Slot BY OnAddsUp, LenAssumption
  <2> HIDE DEF m
  <2> QED BY <2>1, <2>2, RemainderUnique
<1> QED BY <1>1, <1>2, <1>3, <1>4, <1>5

-------------------------------------------------------------------------------
(* The mutex.                                                              *)

\* While a thread is inside a call, every other thread is outside, and stays
\* there when the first one goes on.
LEMMA OneInside ==
    ASSUME LockEndsWithCall, NEW t \in Threads, Inside(t), NEW l, Goto(t, l)
    PROVE  /\ mutex = t
           /\ pc'[t] = l
           /\ \A x \in Threads : x # t => pc[x] \in {"idle", "lock"} /\ pc'[x] = pc[x]
BY DEF LockEndsWithCall, TypeOK, Inside, Goto

\* A step inside a call that keeps the mutex.
LEMMA InsideKeepsLock ==
    ASSUME LockEndsWithCall, NEW t \in Threads, Inside(t),
           NEW l \in Copying, Goto(t, l), mutex' = mutex, TypeOK'
    PROVE  LockEndsWithCall'
BY OneInside DEF LockEndsWithCall, Inside, Copying

\* A step that ends a call and gives the mutex back.
LEMMA ReturnUnlocks ==
    ASSUME LockEndsWithCall, NEW t \in Threads, Inside(t),
           Goto(t, "idle"), mutex' = NoThread, TypeOK'
    PROVE  LockEndsWithCall'
BY OneInside, ThreadAssumption DEF LockEndsWithCall, Inside

\* What a call that is let in finds: no other call is inside, and the indices
\* are where the bytes in use begin and end.
LEMMA InsideAtRest ==
    ASSUME LockEndsWithCall, NEW r \in Slot, NEW off, Consistent(r, off),
           \A t \in Threads : pc[t] \notin Copying
    PROVE  rd = r /\ wr = On(r, Used)
BY DEF Consistent, Pushing, Getting, Threads, Copying

\* The layout of the ring as numbers.
LEMMA LayoutNumbers ==
    ASSUME TypeOK, NEW off, Layout(off)
    PROVE  /\ Used \in 0 .. Size
           /\ queue \in Seq(Message) /\ Len(queue) \in Nat
           /\ \A i \in 1 .. Len(queue) :
                /\ queue[i] \in Message /\ Total(queue[i]) \in 1 .. Size
                /\ off[i] \in 0 .. Used /\ off[i + 1] \in 0 .. Used
                /\ off[i] + Total(queue[i]) <= Used
           /\ queue = <<>> <=> Used = 0
           /\ queue # <<>> => 1 \in 1 .. Len(queue)
<1>1. Used \in 0 .. Size BY LenAssumption DEF TypeOK, Used
<1>2. queue \in Seq(Message) /\ Len(queue) \in Nat BY LenProperties DEF TypeOK
<1>3. ASSUME NEW i \in 1 .. Len(queue)
      PROVE  /\ queue[i] \in Message /\ Total(queue[i]) \in 1 .. Size
             /\ off[i] \in 0 .. Used /\ off[i + 1] \in 0 .. Used
             /\ off[i] + Total(queue[i]) <= Used
  <2>1. queue[i] \in Message BY <1>2, ElementOfSeq
  <2>2. Total(queue[i]) \in 1 .. Size BY <2>1, MessageIsBytes, LenAssumption
  <2>3. i \in 1 .. Len(queue) + 1 /\ i + 1 \in 1 .. Len(queue) + 1 BY <1>2
  <2>4. off[i] \in 0 .. Used /\ off[i + 1] \in 0 .. Used /\ off[i + 1] = off[i] + Total(queue[i])
    BY <2>3 DEF Layout
  <2> QED BY <2>1, <2>2, <2>4, <1>1
<1>4. queue # <<>> => 1 \in 1 .. Len(queue)
  <2>1. queue # <<>> => Len(queue) # 0 BY <1>2, EmptySeq
  <2> QED BY <2>1, <1>2
<1>5. queue = <<>> => Used = 0
  <2>1. queue = <<>> => Len(queue) + 1 = 1 OBVIOUS
  <2> QED BY <2>1 DEF Layout
<1>6. Used = 0 => queue = <<>> BY <1>1, <1>3, <1>4, LenAssumption
<1> QED BY <1>1, <1>2, <1>3, <1>4, <1>5, <1>6

-------------------------------------------------------------------------------
(* The invariant holds initially, and outside of the mutex.                *)

\* A FIFO that was just created satisfies the invariant.
LEMMA InitInvariant == Init => IInv
<1> SUFFICES ASSUME Init PROVE IInv OBVIOUS
<1> DEFINE off == [i \in {1} |-> 0]
<1>1. TypeOK
  <2>1. <<>> \in Seq(Cell) /\ <<>> \in Seq(Message) BY EmptySeq
  <2>2. [s \in Slot |-> NoByte] \in [Slot -> Cell] BY DEF Cell
  <2>3. 0 \in 0 .. Size /\ Size \in 0 .. Size BY LenAssumption
  <2> QED BY <2>1, <2>2, <2>3 DEF Init, TypeOK
<1>2. LockEndsWithCall
  BY <1>1, ThreadAssumption DEF Init, LockEndsWithCall, Inside
<1>3. 0 \in Slot BY LenAssumption DEF Slot
<1>4. Used = 0 /\ Len(queue) = 0 /\ Len(queue) + 1 = 1
  BY LenAssumption DEF Init, Used
<1>5. 1 .. Len(queue) = {} /\ 1 .. Len(queue) + 1 = {1} /\ 0 .. Used = {0}
  BY <1>4
<1>6. Consistent(0, off)
  <2>1. Layout(off) BY <1>4, <1>5 DEF Layout
  <2>2. Contents(0, off) BY <1>5 DEF Contents
  <2>3. Pushing(0, On(0, Used)) /\ Getting(0)
    BY <1>3, <1>4, OnAddsUp, LenAssumption DEF Init, Pushing, Getting, Threads, Copying
  <2> QED BY <2>1, <2>2, <2>3 DEF Consistent
<1>7. off \in [1 .. Len(queue) + 1 -> 0 .. Used] BY <1>5
<1> QED BY <1>2, <1>3, <1>6, <1>7 DEF IInv

\* A step that leaves the FIFO alone and moves a thread between two places
\* where it copies nothing.
LEMMA OutsideKeeps ==
    ASSUME TypeOK, NEW r \in Slot, NEW off, Consistent(r, off),
           UNCHANGED <<wr, rd, depth, buffer, queue, straight, got, glen>>,
           NEW t \in Threads, NEW l \in {"idle", "lock", "check"},
           pc[t] \notin Copying, Goto(t, l),
           t \in Producers /\ l # "idle" => msg'[t] \in Message,
           \A x \in Threads : x # t => msg'[x] = msg[x]
    PROVE  Consistent(r, off)'
<1>1. Layout(off)' /\ Contents(r, off)'
  BY DEF Consistent, Layout, Contents, Holds, Used
<1>2. \A x \in Threads : pc'[x] = IF x = t THEN l ELSE pc[x]
  BY DEF TypeOK, Goto
<1>3. \A x \in Threads : /\ pc'[x] \in Copying => x # t /\ pc'[x] = pc[x]
                         /\ pc[x] \in Copying => pc'[x] = pc[x]
  BY <1>2 DEF Copying
<1>4. Used' = Used BY DEF Used
<1>5. Pushing(r, On(r, Used))'
  BY <1>2, <1>3, <1>4 DEF Consistent, Pushing, Holds, Moved, Copying, Threads
<1>6. Getting(r)'
  BY <1>2, <1>3 DEF Consistent, Getting, Moved, Copying, Threads
<1> QED BY <1>1, <1>5, <1>6 DEF Consistent

\* The same layout serves as a witness after a step that keeps it.
LEMMA SameLayout ==
    ASSUME NEW r \in Slot, NEW off \in [1 .. Len(queue) + 1 -> 0 .. Used],
           queue' = queue, depth' = depth,
           LockEndsWithCall', Consistent(r, off)'
    PROVE  IInv'
<1>1. off \in [1 .. Len(queue') + 1 -> 0 .. Used'] BY DEF Used
<1> QED BY <1>1 DEF IInv

\* A producer that calls push_msg_to_msg_fifo has not touched the FIFO.
LEMMA PushCallKeeps ==
    ASSUME IInv, NEW t \in Producers, NEW m \in Message, PushCall(t, m)
    PROVE  IInv'
<1>1. PICK r \in Slot, off \in [1 .. Len(queue) + 1 -> 0 .. Used] : Consistent(r, off)
  BY DEF IInv
<1>2. TypeOK /\ t \in Threads BY DEF IInv, LockEndsWithCall, Threads
<1>3. msg'[t] = m /\ \A x \in Threads : x # t => msg'[x] = msg[x]
  BY <1>2 DEF PushCall, TypeOK
<1>4. Consistent(r, off)'
  BY <1>1, <1>2, <1>3, OutsideKeeps DEF PushCall, copyVars, Copying
<1>5. TypeOK'
  BY <1>2 DEF TypeOK, PushCall, Goto, copyVars
<1>6. LockEndsWithCall'
  BY <1>2, <1>5 DEF IInv, LockEndsWithCall, TypeOK, Inside, PushCall, Goto
<1> QED BY <1>1, <1>4, <1>6, SameLayout DEF PushCall

\* The mutex was free, so whoever gets it is alone inside.
LEMMA LockKeeps ==
    ASSUME IInv, NEW t \in Threads, Lock(t)
    PROVE  IInv'
<1>1. PICK r \in Slot, off \in [1 .. Len(queue) + 1 -> 0 .. Used] : Consistent(r, off)
  BY DEF IInv
<1>2. TypeOK BY DEF IInv, LockEndsWithCall
<1>3. t \in Producers => msg'[t] \in Message
  BY <1>1, <1>2 DEF Consistent, Pushing, Lock
<1>4. Consistent(r, off)'
  BY <1>1, <1>2, <1>3, OutsideKeeps DEF Lock, copyVars, Copying
<1>5. TypeOK'
  BY <1>2 DEF TypeOK, Lock, Goto, copyVars
<1>6. LockEndsWithCall'
  BY <1>2, <1>5, ThreadAssumption DEF IInv, LockEndsWithCall, TypeOK, Inside, Lock, Goto
<1> QED BY <1>1, <1>4, <1>6, SameLayout DEF Lock

\* A push that finds no room for head and payload writes nothing.
LEMMA PushFullKeeps ==
    ASSUME IInv, NEW t \in Producers, PushFull(t)
    PROVE  IInv'
<1>1. PICK r \in Slot, off \in [1 .. Len(queue) + 1 -> 0 .. Used] : Consistent(r, off)
  BY DEF IInv
<1>2. LockEndsWithCall /\ TypeOK /\ t \in Threads /\ Inside(t)
  BY DEF IInv, LockEndsWithCall, Threads, PushFull, Inside
<1>3. msg[t] \in Message BY <1>1 DEF Consistent, Pushing, PushFull
<1>4. \A x \in Threads : x # t => msg'[x] = msg[x]
  BY <1>2 DEF PushFull, TypeOK
<1>5. Consistent(r, off)'
  BY <1>1, <1>2, <1>4, OutsideKeeps DEF PushFull, copyVars, Copying
<1>6. TypeOK'
  BY <1>2, <1>3 DEF TypeOK, PushFull, Goto, copyVars
<1>7. LockEndsWithCall'
  BY <1>2, <1>6, ReturnUnlocks DEF PushFull
<1> QED BY <1>1, <1>5, <1>7, SameLayout DEF PushFull

\* A consumer that calls get_msg_from_msg_fifo has not touched the FIFO.
LEMMA GetCallKeeps ==
    ASSUME IInv, NEW t \in Consumers, GetCall(t)
    PROVE  IInv'
<1>1. PICK r \in Slot, off \in [1 .. Len(queue) + 1 -> 0 .. Used] : Consistent(r, off)
  BY DEF IInv
<1>2. TypeOK /\ t \in Threads /\ t \notin Producers
  BY ThreadAssumption DEF IInv, LockEndsWithCall, Threads
<1>3. Consistent(r, off)'
  BY <1>1, <1>2, OutsideKeeps DEF GetCall, copyVars, Copying
<1>4. TypeOK'
  BY <1>2 DEF TypeOK, GetCall, Goto, copyVars
<1>5. LockEndsWithCall'
  BY <1>2, <1>4 DEF IInv, LockEndsWithCall, TypeOK, Inside, GetCall, Goto
<1> QED BY <1>1, <1>3, <1>5, SameLayout DEF GetCall

\* A get from an empty FIFO reads nothing.
LEMMA GetEmptyKeeps ==
    ASSUME IInv, NEW t \in Consumers, GetEmpty(t)
    PROVE  IInv'
<1>1. PICK r \in Slot, off \in [1 .. Len(queue) + 1 -> 0 .. Used] : Consistent(r, off)
  BY DEF IInv
<1>2. LockEndsWithCall /\ TypeOK /\ t \in Threads /\ t \notin Producers /\ Inside(t)
  BY ThreadAssumption DEF IInv, LockEndsWithCall, Threads, GetEmpty, Inside
<1>3. Consistent(r, off)'
  BY <1>1, <1>2, OutsideKeeps DEF GetEmpty, copyVars, Copying
<1>4. TypeOK'
  BY <1>2 DEF TypeOK, GetEmpty, Goto, copyVars
<1>5. LockEndsWithCall'
  BY <1>2, <1>4, ReturnUnlocks DEF GetEmpty
<1> QED BY <1>1, <1>3, <1>5, SameLayout DEF GetEmpty

-------------------------------------------------------------------------------
(* push_msg_fifo keeps the invariant.                                      *)

\* A push in progress is the only call inside: no consumer copies, and what is
\* said of the producers is said of this one.
LEMMA PushAlone ==
    ASSUME LockEndsWithCall, NEW r \in Slot, NEW off, Consistent(r, off),
           NEW t \in Producers, pc[t] \in {"check"} \cup Copying,
           NEW l, Goto(t, l), rd' = rd
    PROVE  /\ TypeOK /\ t \in Threads /\ Inside(t) /\ msg[t] \in Message
           /\ Total(msg[t]) = HeadLen + msg[t].len /\ Total(msg[t]) \in 1 .. Size
           /\ HeadLen \in 1 .. Size /\ msg[t].len \in 0 .. Size
           /\ Getting(r)'
           /\ pc'[t] = l
           /\ \A x \in Producers : x # t => /\ pc[x] \in {"idle", "lock"}
                                            /\ pc'[x] = pc[x]
                                            /\ pc[x] # "idle" => msg[x] \in Message
<1>1. TypeOK /\ t \in Threads /\ Inside(t)
  BY DEF LockEndsWithCall, Threads, Inside, Copying
<1>2. msg[t] \in Message BY DEF Consistent, Pushing, Copying
<1>3. msg[t].len \in Nat /\ Total(msg[t]) \in HeadLen .. Size BY <1>2, MessageIsBytes
<1>4. \A x \in Threads : x # t => pc[x] \in {"idle", "lock"} /\ pc'[x] = pc[x]
  BY <1>1, OneInside
<1>5. Getting(r)'
  BY <1>4, ThreadAssumption DEF Consistent, Getting, Threads, Copying
<1>6. \A x \in Producers : pc[x] # "idle" => msg[x] \in Message
  BY DEF Consistent, Pushing
<1>7. pc'[t] = l BY <1>1, OneInside
<1> QED BY <1>1, <1>2, <1>3, <1>4, <1>5, <1>6, <1>7, LenAssumption DEF Total, Threads

\* The branch that never wraps is taken when the free bytes are in one piece.
LEMMA PushCheckKeeps ==
    ASSUME IInv, NEW t \in Producers, PushCheck(t)
    PROVE  IInv'
<1>1. PICK r \in Slot, off \in [1 .. Len(queue) + 1 -> 0 .. Used] : Consistent(r, off)
  BY DEF IInv
<1>2. LockEndsWithCall /\ Goto(t, "head") /\ rd' = rd /\ pc[t] = "check"
  BY DEF IInv, PushCheck
<1>3. /\ TypeOK /\ t \in Threads /\ Inside(t) /\ msg[t] \in Message
      /\ Total(msg[t]) \in 1 .. Size
      /\ Getting(r)' /\ pc'[t] = "head"
      /\ \A x \in Producers : x # t => /\ pc[x] \in {"idle", "lock"}
                                       /\ pc'[x] = pc[x]
                                       /\ pc[x] # "idle" => msg[x] \in Message
  BY <1>1, <1>2, PushAlone
<1>4. rd = r /\ wr = On(r, Used)
  <2>1. \A x \in Threads : pc[x] \notin Copying
    BY <1>2, <1>3, OneInside DEF Copying
  <2> QED BY <1>1, <1>2, <2>1, InsideAtRest
<1>5. Used + Total(msg[t]) <= Size
  BY <1>3, LenAssumption DEF PushCheck, Used, TypeOK
<1>6. straight' => On(r, Used) + Total(msg[t]) <= Size
  <2> DEFINE n == Total(msg[t])
             u == Used
  <2>1. u \in 0 .. Size BY <1>1, <1>3, LayoutNumbers DEF Consistent
  <2>2. n \in 1 .. Size /\ u + n <= Size BY <1>3, <1>5
  <2>3. straight' => On(r, u) < r BY <1>4 DEF PushCheck
  <2> HIDE DEF n, u
  <2>4. straight' => On(r, u) + n <= Size
    BY <2>1, <2>2, <2>3, LenAssumption DEF On, AfterCopy, Slot
  <2> QED BY <2>4 DEF n, u
<1>7. UNCHANGED <<wr, rd, depth, buffer, mutex, msg, got, glen, pushRes, getRes, queue>>
  BY DEF PushCheck
<1>8. Pushing(r, On(r, Used))'
  <2>1. Used' = Used BY <1>7 DEF Used
  <2> QED BY <2>1, <1>3, <1>4, <1>5, <1>6, <1>7 DEF Pushing, Copying
<1>9. Layout(off)' /\ Contents(r, off)'
  BY <1>1, <1>7 DEF Consistent, Layout, Contents, Holds, Used
<1>10. TypeOK'
  BY <1>3, <1>7 DEF TypeOK, PushCheck, Goto
<1>11. LockEndsWithCall'
  BY <1>2, <1>3, <1>7, <1>10, InsideKeepsLock DEF Copying
<1> QED BY <1>1, <1>3, <1>7, <1>8, <1>9, <1>11, SameLayout DEF Consistent

\* The slot of the byte at distance d.
LEMMA ByteAt ==
    ASSUME NEW r \in Slot, NEW u \in 0 .. Size, NEW d \in 0 .. Size, u + d <= Size
    PROVE  On(On(r, u), d) = On(r, u + d) /\ On(r, u) \in Slot /\ On(r, u + d) \in Slot
<1>1. u + d \in 0 .. Size BY LenAssumption
<1> QED BY <1>1, OnAddsUp

\* A copy of a push, which goes to the slots that follow the bytes in use and
\* the a bytes copied before, changes none of these.
LEMMA PushCopy ==
    ASSUME TypeOK, NEW r \in Slot, NEW off, Layout(off), Contents(r, off), queue' = queue,
           NEW a \in 0 .. Size, NEW n \in 0 .. Size, Used + (a + n) <= Size,
           \A s \in Slot : buffer'[s] # buffer[s] =>
                              \E k \in 0 .. n - 1 : s = On(r, Used + (a + k))
    PROVE  /\ Contents(r, off)'
           /\ \A k \in 0 .. a - 1 : buffer'[On(r, Used + k)] = buffer[On(r, Used + k)]
<1> DEFINE u == Used
<1>1. u \in 0 .. Size BY LayoutNumbers
<1>2. \A s \in Slot : buffer'[s] # buffer[s] => \E k \in 0 .. n - 1 : s = On(r, u + (a + k))
  OBVIOUS
<1>3. u + (a + n) <= Size OBVIOUS
<1> HIDE DEF u
<1>4. ASSUME NEW d \in 0 .. Size - 1, d < u + a
      PROVE  buffer'[On(r, d)] = buffer[On(r, d)]
  <2> SUFFICES ASSUME NEW k \in 0 .. n - 1, On(r, d) = On(r, u + (a + k)) PROVE FALSE
    <3>1. On(r, d) \in Slot BY OnAddsUp, LenAssumption
    <3> QED BY <3>1, <1>2
  <2> DEFINE e == u + (a + k)
  <2>1. e \in 0 .. Size - 1 /\ d # e BY <1>1, <1>3, <1>4, LenAssumption
  <2>2. On(r, d) = On(r, e) OBVIOUS
  <2> HIDE DEF e
  <2> QED BY <2>1, <2>2, OnDistinct
<1>5. Contents(r, off)'
  <2> SUFFICES ASSUME NEW j \in 1 .. Len(queue), NEW k \in 0 .. Total(queue[j]) - 1
               PROVE  buffer'[On(r, off[j] + k)] = <<queue[j], k>>
    BY DEF Contents, Holds
  <2> DEFINE d == off[j] + k
  <2>1. off[j] \in 0 .. u /\ Total(queue[j]) \in 1 .. Size /\ off[j] + Total(queue[j]) <= u
    BY LayoutNumbers DEF u
  <2>2. d \in 0 .. Size - 1 /\ d < u + a BY <2>1, <1>1, LenAssumption
  <2>3. buffer[On(r, d)] = <<queue[j], k>> BY DEF Contents, Holds
  <2> HIDE DEF d
  <2>4. buffer'[On(r, d)] = <<queue[j], k>> BY <2>2, <2>3, <1>4
  <2> QED BY <2>4 DEF d
<1>6. ASSUME NEW k \in 0 .. a - 1
      PROVE  buffer'[On(r, u + k)] = buffer[On(r, u + k)]
  <2> DEFINE d == u + k
  <2>1. d \in 0 .. Size - 1 /\ d < u + a
    <3>1. k < a /\ u + a <= Size BY <1>1, <1>3, LenAssumption
    <3> QED BY <3>1, <1>1, LenAssumption
  <2> HIDE DEF d
  <2>2. buffer'[On(r, d)] = buffer[On(r, d)] BY <2>1, <1>4
  <2> QED BY <2>2 DEF d
<1> QED BY <1>5, <1>6 DEF u

\* The head goes into free bytes, under the lock.
LEMMA PushHeadKeeps ==
    ASSUME IInv, NEW t \in Producers, PushHead(t)
    PROVE  IInv'
<1>1. PICK r \in Slot, off \in [1 .. Len(queue) + 1 -> 0 .. Used] : Consistent(r, off)
  BY DEF IInv
<1> DEFINE h == HeadLen
           n == msg[t].len
           u == Used
           w == On(r, u)
<1>2. LockEndsWithCall /\ Goto(t, "payload") /\ rd' = rd /\ pc[t] = "head"
  BY DEF IInv, PushHead
<1>3. /\ TypeOK /\ t \in Threads /\ Inside(t) /\ msg[t] \in Message
      /\ Total(msg[t]) = h + n /\ h \in 1 .. Size /\ n \in 0 .. Size
      /\ Getting(r)' /\ pc'[t] = "payload"
      /\ \A x \in Producers : x # t => /\ pc[x] \in {"idle", "lock"}
                                       /\ pc'[x] = pc[x]
                                       /\ pc[x] # "idle" => msg[x] \in Message
  BY <1>1, <1>2, PushAlone DEF Copying
<1>4. UNCHANGED <<rd, depth, mutex, msg, straight, got, glen, pushRes, getRes, queue>>
  BY DEF PushHead, copyVars
<1>5. u \in 0 .. Size /\ w \in Slot
  BY <1>1, <1>3, LayoutNumbers, OnAddsUp DEF Consistent
<1>6. u + (h + n) <= Size /\ (straight => w + (h + n) <= Size) /\ wr = w
  BY <1>1, <1>2, <1>3 DEF Consistent, Pushing, Copying
<1>7. h + n <= Size /\ straight \in BOOLEAN
  BY <1>3, <1>5, <1>6, LenAssumption DEF TypeOK
<1> HIDE DEF h, n, u, w
<1>8. /\ CopyFits(w, straight, h)
      /\ \A k \in 0 .. h - 1 : CopySlot(w, straight, k) = On(w, k)
  <2>1. h \in 0 .. Size BY <1>3, LenAssumption
  <2> QED BY ONLY <2>1, <1>3, <1>5, <1>6, <1>7, CallCopies
<1>9. \A k \in 0 .. h - 1 : CopySlot(w, straight, k) = On(r, u + (0 + k))
  <2> TAKE k \in 0 .. h - 1
  <2>1. k \in 0 .. Size /\ u + k <= Size /\ 0 + k = k BY <1>3, <1>5, <1>6, LenAssumption
  <2>2. On(w, k) = On(r, u + k) BY <1>5, <2>1, ByteAt DEF w
  <2> QED BY <1>8, <2>1, <2>2
<1>10. HeadBytes(msg[t]) \in Seq(Cell) /\ Len(HeadBytes(msg[t])) = h
       /\ \A k \in 0 .. h - 1 : HeadBytes(msg[t])[k + 1] = <<msg[t], k>>
  BY <1>3, MessageIsBytes, LenAssumption DEF HeadBytes, h
<1>11. /\ buffer' \in [Slot -> Cell]
       /\ \A k \in 0 .. h - 1 : buffer'[On(r, u + k)] = <<msg[t], k>>
       /\ Contents(r, off)'
  <2>1. buffer \in [Slot -> Cell] /\ buffer' = Written(buffer, HeadBytes(msg[t]), w, straight)
    BY <1>3, <1>6 DEF PushHead, TypeOK
  <2>2. /\ buffer' \in [Slot -> Cell]
        /\ \A k \in 0 .. h - 1 : buffer'[CopySlot(w, straight, k)] = HeadBytes(msg[t])[k + 1]
        /\ \A s \in Slot : s \notin CopySlots(w, straight, h) => buffer'[s] = buffer[s]
    BY ONLY <2>1, <1>8, <1>10, WrittenBytes
  <2>3. \A s \in Slot : buffer'[s] # buffer[s] => \E k \in 0 .. h - 1 : s = On(r, u + (0 + k))
    BY <2>2, <1>9 DEF CopySlots
  <2>4. 0 \in 0 .. Size /\ u + (0 + h) <= Size /\ h \in 0 .. Size
    BY <1>3, <1>5, <1>6, LenAssumption
  <2>5. Layout(off) /\ Contents(r, off) BY <1>1 DEF Consistent
  <2>6. Contents(r, off)'
    BY ONLY r \in Slot, <1>3, <1>4, <2>3, <2>4, <2>5, PushCopy DEF u
  <2>7. ASSUME NEW k \in 0 .. h - 1 PROVE buffer'[On(r, u + k)] = <<msg[t], k>>
    <3>1. buffer'[CopySlot(w, straight, k)] = <<msg[t], k>> BY <2>2, <1>10
    <3>2. CopySlot(w, straight, k) = On(r, u + (0 + k)) BY <1>9
    <3>3. 0 + k = k OBVIOUS
    <3> QED BY <3>1, <3>2, <3>3
  <2> QED BY <2>2, <2>6, <2>7
<1>12. Holds(r, Used, msg[t], HeadLen)'
  <2>1. Used' = u BY <1>4 DEF Used, u
  <2> QED BY <1>4, <1>11, <2>1 DEF Holds, h
<1>13. wr' = (IF straight' THEN w ELSE On(w, HeadLen)) /\ wr' \in 0 .. Size
  <2>1. wr' = IF straight THEN w ELSE On(w, HeadLen) BY <1>6 DEF PushHead, On
  <2>2. On(w, h) \in Slot
    <3>1. h \in 0 .. Size BY <1>3, LenAssumption
    <3> QED BY ONLY <3>1, <1>5, OnAddsUp
  <2> QED BY <1>4, <1>5, <2>1, <2>2, LenAssumption DEF h, Slot
<1>14. Pushing(r, On(r, Used))'
  <2>1. On(r, Used') = w BY <1>4 DEF Used, u, w
  <2>2. Used' + Total(msg'[t]) <= Size /\ (straight' => w + Total(msg'[t]) <= Size)
    BY <1>3, <1>4, <1>6 DEF Used, u
  <2> QED BY <2>1, <2>2, <1>3, <1>4, <1>12, <1>13 DEF Pushing, Copying
<1>15. Layout(off)' BY <1>1, <1>4 DEF Consistent, Layout, Used
<1>16. TypeOK'
  BY <1>3, <1>4, <1>11, <1>13 DEF TypeOK, PushHead, Goto
<1>17. LockEndsWithCall'
  BY <1>2, <1>3, <1>4, <1>16, InsideKeepsLock DEF Copying
<1>18. Consistent(r, off)' BY <1>3, <1>11, <1>14, <1>15 DEF Consistent
<1> QED BY <1>1, <1>4, <1>17, <1>18, SameLayout

\* So does the payload, behind the head.
LEMMA PushPayloadKeeps ==
    ASSUME IInv, NEW t \in Producers, PushPayload(t)
    PROVE  IInv'
<1>1. PICK r \in Slot, off \in [1 .. Len(queue) + 1 -> 0 .. Used] : Consistent(r, off)
  BY DEF IInv
<1> DEFINE h == HeadLen
           n == msg[t].len
           u == Used
           w == On(r, u)
           j == IF straight THEN w + h ELSE On(w, h)
<1>2. LockEndsWithCall /\ Goto(t, "finish") /\ rd' = rd /\ pc[t] = "payload"
  BY DEF IInv, PushPayload
<1>3. /\ TypeOK /\ t \in Threads /\ Inside(t) /\ msg[t] \in Message
      /\ Total(msg[t]) = h + n /\ h \in 1 .. Size /\ n \in 0 .. Size
      /\ Getting(r)' /\ pc'[t] = "finish"
      /\ \A x \in Producers : x # t => /\ pc[x] \in {"idle", "lock"}
                                       /\ pc'[x] = pc[x]
                                       /\ pc[x] # "idle" => msg[x] \in Message
  BY <1>1, <1>2, PushAlone DEF Copying
<1>4. UNCHANGED <<rd, depth, mutex, msg, straight, got, glen, pushRes, getRes, queue>>
  BY DEF PushPayload, copyVars
<1>5. u \in 0 .. Size /\ w \in Slot
  BY <1>1, <1>3, LayoutNumbers, OnAddsUp DEF Consistent
<1>6. /\ u + (h + n) <= Size /\ (straight => w + (h + n) <= Size)
      /\ wr = (IF straight THEN w ELSE On(w, h))
      /\ Holds(r, u, msg[t], h)
  BY <1>1, <1>2, <1>3 DEF Consistent, Pushing, Copying
<1>7. /\ buffer' = Written(buffer, PayloadBytes(msg[t]), j, straight)
      /\ wr' = AfterCopy(j, straight, n)
  BY <1>6 DEF PushPayload
<1> HIDE DEF h, n, u, w, j
<1>8. /\ CopyFits(j, straight, n)
      /\ \A k \in 0 .. n - 1 : CopySlot(j, straight, k) = On(w, h + k)
      /\ wr' = Moved(w, h + n)
      /\ wr' \in 0 .. Size
  <2>1. h + n <= Size /\ straight \in BOOLEAN /\ h \in 0 .. Size
    BY <1>3, <1>5, <1>6, LenAssumption DEF TypeOK
  <2>2. LET i == IF straight THEN w + h ELSE On(w, h)
        IN  /\ CopyFits(i, straight, n)
            /\ \A k \in 0 .. n - 1 : CopySlot(i, straight, k) = On(w, h + k)
            /\ AfterCopy(i, straight, n) = Moved(w, h + n)
            /\ AfterCopy(i, straight, n) \in 0 .. Size
    BY ONLY <2>1, <1>3, <1>5, <1>6, CallCopies
  <2> QED BY <2>2, <1>7 DEF j
<1>9. \A k \in 0 .. n - 1 : CopySlot(j, straight, k) = On(r, u + (h + k))
  <2> TAKE k \in 0 .. n - 1
  <2>1. h + k \in 0 .. Size /\ u + (h + k) <= Size BY <1>3, <1>5, <1>6, LenAssumption
  <2>2. On(w, h + k) = On(r, u + (h + k)) BY <1>5, <2>1, ByteAt DEF w
  <2> QED BY <1>8, <2>2
<1>10. PayloadBytes(msg[t]) \in Seq(Cell) /\ Len(PayloadBytes(msg[t])) = n
       /\ \A k \in 0 .. n - 1 : PayloadBytes(msg[t])[k + 1] = <<msg[t], h + k>>
  <2>1. PayloadBytes(msg[t]) \in Seq(Cell) /\ Len(PayloadBytes(msg[t])) = n
    BY <1>3, MessageIsBytes DEF n
  <2>2. ASSUME NEW k \in 0 .. n - 1 PROVE PayloadBytes(msg[t])[k + 1] = <<msg[t], h + k>>
    <3>1. k + 1 \in 1 .. n /\ h + (k + 1) - 1 = h + k BY <1>3
    <3>2. PayloadBytes(msg[t])[k + 1] = <<msg[t], h + (k + 1) - 1>>
      BY <3>1 DEF PayloadBytes, n, h
    <3> QED BY <3>1, <3>2
  <2> QED BY <2>1, <2>2
<1>11. /\ buffer' \in [Slot -> Cell]
       /\ \A k \in 0 .. h - 1 : buffer'[On(r, u + k)] = buffer[On(r, u + k)]
       /\ \A k \in 0 .. n - 1 : buffer'[On(r, u + (h + k))] = PayloadBytes(msg[t])[k + 1]
       /\ Contents(r, off)'
  <2>1. buffer \in [Slot -> Cell] /\ buffer' = Written(buffer, PayloadBytes(msg[t]), j, straight)
    BY <1>3, <1>7 DEF TypeOK
  <2>2. /\ buffer' \in [Slot -> Cell]
        /\ \A k \in 0 .. n - 1 : buffer'[CopySlot(j, straight, k)] = PayloadBytes(msg[t])[k + 1]
        /\ \A s \in Slot : s \notin CopySlots(j, straight, n) => buffer'[s] = buffer[s]
    BY ONLY <2>1, <1>8, <1>10, WrittenBytes
  <2>3. \A s \in Slot : buffer'[s] # buffer[s] => \E k \in 0 .. n - 1 : s = On(r, u + (h + k))
    BY <2>2, <1>9 DEF CopySlots
  <2>4. u + (h + n) <= Size /\ h \in 0 .. Size /\ n \in 0 .. Size
    BY <1>3, <1>6, LenAssumption
  <2>5. Layout(off) /\ Contents(r, off) BY <1>1 DEF Consistent
  <2>6. /\ Contents(r, off)'
        /\ \A k \in 0 .. h - 1 : buffer'[On(r, u + k)] = buffer[On(r, u + k)]
    BY ONLY r \in Slot, <1>3, <1>4, <2>3, <2>4, <2>5, PushCopy DEF u
  <2> QED BY <2>2, <2>6, <1>9
<1>12. Holds(r, Used, msg[t], Total(msg[t]))'
  <2>1. ASSUME NEW k \in 0 .. h + n - 1 PROVE buffer'[On(r, u + k)] = <<msg[t], k>>
    <3>1. CASE k < h
      <4>1. k \in 0 .. h - 1 BY <3>1, <1>3
      <4>2. buffer[On(r, u + k)] = <<msg[t], k>> BY <4>1, <1>6 DEF Holds
      <4> QED BY <4>1, <4>2, <1>11
    <3>2. CASE k >= h
      <4> DEFINE d == k - h
      <4>1. d \in 0 .. n - 1 /\ h + d = k BY <3>2, <1>3
      <4> HIDE DEF d
      <4>2. buffer'[On(r, u + (h + d))] = <<msg[t], h + d>> BY <4>1, <1>10, <1>11
      <4> QED BY <4>1, <4>2
    <3> QED BY <3>1, <3>2, <1>3
  <2>2. Used' = u /\ msg' = msg BY <1>4 DEF Used, u
  <2>3. Total(msg'[t]) = h + n BY <2>2, <1>3
  <2>4. \A k \in 0 .. Total(msg'[t]) - 1 : buffer'[On(r, Used' + k)] = <<msg'[t], k>>
    <3> TAKE k \in 0 .. Total(msg'[t]) - 1
    <3>1. k \in 0 .. h + n - 1 BY <2>3, <1>3
    <3>2. buffer'[On(r, u + k)] = <<msg[t], k>> BY <2>1, <3>1
    <3> QED BY <2>2, <3>2
  <2> QED BY <2>4 DEF Holds
<1>13. Pushing(r, On(r, Used))'
  <2>1. On(r, Used') = w /\ Used' = u BY <1>4 DEF Used, u, w
  <2>2. u + Total(msg'[t]) <= Size /\ (straight' => w + Total(msg'[t]) <= Size)
    BY <1>3, <1>4, <1>6
  <2>3. wr' = IF straight' THEN w + Total(msg'[t]) ELSE On(w, Total(msg'[t]))
    BY <1>3, <1>4, <1>8 DEF Moved
  <2> QED BY <2>1, <2>2, <2>3, <1>3, <1>4, <1>12 DEF Pushing, Copying, Moved
<1>14. Layout(off)' BY <1>1, <1>4 DEF Consistent, Layout, Used
<1>15. TypeOK'
  BY <1>3, <1>4, <1>8, <1>11 DEF TypeOK, PushPayload, Goto
<1>16. LockEndsWithCall'
  BY <1>2, <1>3, <1>4, <1>15, InsideKeepsLock DEF Copying
<1>17. Consistent(r, off)' BY <1>3, <1>11, <1>13, <1>14 DEF Consistent
<1> QED BY <1>1, <1>4, <1>16, <1>17, SameLayout

\* The pushed bytes become the last message of the layout.
LEMMA PushFinishKeeps ==
    ASSUME IInv, NEW t \in Producers, PushFinish(t)
    PROVE  IInv'
<1>1. PICK r \in Slot, off \in [1 .. Len(queue) + 1 -> 0 .. Used] : Consistent(r, off)
  BY DEF IInv
<1> DEFINE m == msg[t]
           n == Total(msg[t])
           u == Used
           L == Len(queue)
<1>2. LockEndsWithCall /\ Goto(t, "idle") /\ rd' = rd /\ pc[t] = "finish"
  BY DEF IInv, PushFinish
<1>3. /\ TypeOK /\ t \in Threads /\ Inside(t) /\ m \in Message
      /\ n \in 1 .. Size
      /\ Getting(r)' /\ pc'[t] = "idle"
      /\ \A x \in Producers : x # t => /\ pc[x] \in {"idle", "lock"}
                                       /\ pc'[x] = pc[x]
                                       /\ pc[x] # "idle" => msg[x] \in Message
  BY <1>1, <1>2, PushAlone DEF Copying
<1>4. /\ depth' = depth - n /\ wr' = wr % Size /\ mutex' = NoThread
      /\ queue' = Append(queue, m) /\ pushRes' = <<"ok">> /\ straight' = FALSE
      /\ msg' = [msg EXCEPT ![t] = NoMessage]
      /\ UNCHANGED <<rd, buffer, got, glen, getRes>>
  BY DEF PushFinish
<1>5. /\ u \in 0 .. Size /\ u + n <= Size
      /\ wr = Moved(On(r, u), n) /\ (straight => On(r, u) + n <= Size)
      /\ Holds(r, u, m, n)
  BY <1>1, <1>2, <1>3, LayoutNumbers DEF Consistent, Pushing, Copying
<1>6. wr' = On(r, u + n) /\ wr' \in Slot
  <2>1. On(r, u) \in Slot /\ On(On(r, u), n) = On(r, u + n) /\ On(r, u + n) \in Slot
    BY <1>3, <1>5, ByteAt
  <2>2. Moved(On(r, u), n) % Size = On(On(r, u), n)
    <3> HIDE DEF n, u
    <3>1. 0 \in 0 .. Size /\ n \in 0 .. Size /\ 0 + n = n BY <1>3, LenAssumption
    <3>2. straight \in BOOLEAN BY <1>3 DEF TypeOK
    <3> QED BY ONLY <2>1, <3>1, <3>2, <1>3, <1>5, CallCopies
  <2> QED BY <2>1, <2>2, <1>4, <1>5
<1>7. Used' = u + n /\ depth' \in 0 .. Size
  <2>1. depth \in 0 .. Size /\ Size \in Nat BY <1>3, LenAssumption DEF TypeOK
  <2> HIDE DEF n
  <2>2. depth' = depth - n /\ n \in 1 .. Size /\ Size - depth + n <= Size
    BY <1>3, <1>4, <1>5 DEF Used
  <2> QED BY <2>1, <2>2 DEF Used
<1>8. /\ L \in Nat /\ queue' \in Seq(Message) /\ Len(queue') = L + 1
      /\ \A i \in 1 .. L : queue'[i] = queue[i]
      /\ queue'[L + 1] = m
  <2> HIDE DEF m
  <2>1. queue \in Seq(Message) BY <1>3 DEF TypeOK
  <2> QED BY <2>1, <1>3, <1>4, LenProperties, AppendProperties
<1>9. /\ \A i \in 1 .. L + 1 : off[i] \in 0 .. u
      /\ off[1] = 0 /\ off[L + 1] = u
      /\ \A i \in 1 .. L : off[i + 1] = off[i] + Total(queue[i])
      /\ \A i, k \in 1 .. L : i < k => off[i + 1] <= off[k]
      /\ \A i \in 1 .. L : \A k \in 0 .. Total(queue[i]) - 1 :
            buffer[On(r, off[i] + k)] = <<queue[i], k>>
  BY <1>1 DEF Consistent, Layout, Contents, Holds
<1> HIDE DEF m, n, u, L
<1>10. PICK new \in [1 .. L + 2 -> 0 .. u + n] :
         /\ \A i \in 1 .. L + 1 : new[i] = off[i]
         /\ new[L + 2] = u + n
  <2> DEFINE f == [i \in 1 .. L + 2 |-> IF i <= L + 1 THEN off[i] ELSE u + n]
  <2>1. f \in [1 .. L + 2 -> 0 .. u + n] BY <1>3, <1>5, <1>8, <1>9
  <2>2. \A i \in 1 .. L + 1 : f[i] = off[i] BY <1>8
  <2>3. f[L + 2] = u + n BY <1>8
  <2> HIDE DEF f
  <2> QED BY <2>1, <2>2, <2>3
<1>11. Layout(new)'
  <2>1. \A i \in 1 .. L + 1 : new[i + 1] = new[i] + Total(queue'[i])
    <3> TAKE i \in 1 .. L + 1
    <3>1. CASE i = L + 1
      <4>1. new[i] = u /\ new[i + 1] = u + n /\ queue'[i] = m BY <3>1, <1>8, <1>9, <1>10
      <4> QED BY <4>1 DEF m, n
    <3>2. CASE i # L + 1
      <4>1. i \in 1 .. L /\ i + 1 \in 1 .. L + 1 BY <3>2, <1>8
      <4> QED BY <4>1, <1>8, <1>9, <1>10
    <3> QED BY <3>1, <3>2
  <2>2. \A i, k \in 1 .. L + 1 : i < k => new[i + 1] <= new[k]
    <3> TAKE i, k \in 1 .. L + 1
    <3> HAVE i < k
    <3>1. i \in 1 .. L /\ i + 1 \in 1 .. L + 1 BY <1>8
    <3>2. new[i + 1] = off[i + 1] /\ new[k] = off[k] BY <3>1, <1>10
    <3>3. CASE k = L + 1 BY <3>1, <3>2, <3>3, <1>5, <1>9
    <3>4. CASE k # L + 1
      <4>1. k \in 1 .. L BY <3>4, <1>8
      <4> QED BY <4>1, <3>1, <3>2, <1>9
    <3> QED BY <3>3, <3>4
  <2>3. new[1] = 0 /\ new[L + 1 + 1] = u + n /\ L + 1 + 1 = L + 2
    <3>1. 1 \in 1 .. L + 1 /\ L + 1 + 1 = L + 2 BY <1>8
    <3> QED BY <3>1, <1>9, <1>10
  <2>4. new \in [1 .. Len(queue') + 1 -> 0 .. Used'] BY <2>3, <1>7, <1>8, <1>10
  <2>5. new[Len(queue') + 1] = Used' BY <2>3, <1>7, <1>8
  <2>6. \A i \in 1 .. Len(queue') : new[i + 1] = new[i] + Total(queue'[i]) BY <2>1, <1>8
  <2>7. \A i, k \in 1 .. Len(queue') : i < k => new[i + 1] <= new[k] BY <2>2, <1>8
  <2> QED BY <2>3, <2>4, <2>5, <2>6, <2>7 DEF Layout
<1>12. Contents(r, new)'
  <2> SUFFICES ASSUME NEW i \in 1 .. Len(queue'), NEW k \in 0 .. Total(queue'[i]) - 1
               PROVE  buffer'[On(r, new[i] + k)] = <<queue'[i], k>>
    BY DEF Contents, Holds
  <2>1. i \in 1 .. L + 1 /\ buffer' = buffer BY <1>4, <1>8
  <2>2. CASE i = L + 1
    <3>1. new[i] = u /\ queue'[i] = m /\ Total(m) = n BY <2>2, <1>8, <1>9, <1>10 DEF m, n
    <3> QED BY <3>1, <2>1, <1>5 DEF Holds
  <2>3. CASE i # L + 1
    <3>1. i \in 1 .. L BY <2>1, <2>3, <1>8
    <3>2. new[i] = off[i] /\ queue'[i] = queue[i] BY <3>1, <1>8, <1>10
    <3> QED BY <3>1, <3>2, <2>1, <1>9
  <2> QED BY <2>2, <2>3
<1>13. Pushing(r, On(r, Used))'
  <2>1. wr' = On(r, Used') BY <1>6, <1>7
  <2>2. \A x \in Producers : pc'[x] \in {"idle", "lock"} /\ (pc'[x] # "idle" => msg'[x] \in Message)
    BY <1>3, <1>4 DEF TypeOK, Threads
  <2> QED BY <2>1, <2>2 DEF Pushing, Copying
<1>14. TypeOK'
  <2>1. wr' \in 0 .. Size BY <1>6, LenAssumption DEF Slot
  <2> QED BY <2>1, <1>3, <1>4, <1>7, <1>8 DEF TypeOK, PushFinish, Goto
<1>15. LockEndsWithCall'
  BY <1>2, <1>3, <1>4, <1>14, ReturnUnlocks
<1>16. Consistent(r, new)' BY <1>3, <1>11, <1>12, <1>13 DEF Consistent
<1>17. new \in [1 .. Len(queue') + 1 -> 0 .. Used']
  <2>1. Len(queue') + 1 = L + 2 BY <1>8
  <2>2. L + 2 = L + 1 + 1 BY <1>8
  <2> QED BY <2>1, <2>2, <1>7, <1>10
<1> QED BY <1>15, <1>16, <1>17 DEF IInv

-------------------------------------------------------------------------------
(* get_msg_fifo keeps the invariant.                                       *)

\* The first message lies at r.
LEMMA FirstMessage ==
    ASSUME TypeOK, NEW r \in Slot, NEW off, Layout(off), Contents(r, off), queue # <<>>
    PROVE  /\ queue[1] \in Message
           /\ Total(queue[1]) = HeadLen + queue[1].len
           /\ Total(queue[1]) \in 1 .. Size /\ Total(queue[1]) <= Used
           /\ HeadLen \in 1 .. Size /\ queue[1].len \in 0 .. Size
           /\ \A k \in 0 .. Total(queue[1]) - 1 : buffer[On(r, k)] = <<queue[1], k>>
<1>1. /\ 1 \in 1 .. Len(queue) /\ queue[1] \in Message /\ Total(queue[1]) \in 1 .. Size
      /\ off[1] = 0 /\ off[1] + Total(queue[1]) <= Used
  BY LayoutNumbers DEF Layout
<1>2. queue[1].len \in Nat /\ Total(queue[1]) \in HeadLen .. Size BY <1>1, MessageIsBytes
<1>3. ASSUME NEW k \in 0 .. Total(queue[1]) - 1 PROVE buffer[On(r, k)] = <<queue[1], k>>
  <2>1. buffer[On(r, off[1] + k)] = <<queue[1], k>> BY <1>1 DEF Contents, Holds
  <2> QED BY <2>1, <1>1
<1>4. Total(queue[1]) <= Used BY <1>1
<1> QED BY <1>1, <1>2, <1>3, <1>4, LenAssumption DEF Total

\* A get in progress is the only call inside, and no producer copies.
LEMMA GetAlone ==
    ASSUME LockEndsWithCall, NEW r \in Slot, NEW off, Consistent(r, off),
           NEW t \in Consumers, pc[t] \in {"check"} \cup Copying, NEW l, Goto(t, l)
    PROVE  /\ TypeOK /\ t \in Threads /\ Inside(t) /\ pc'[t] = l
           /\ wr = On(r, Used)
           /\ \A x \in Producers : /\ pc[x] \in {"idle", "lock"}
                                   /\ pc'[x] = pc[x]
                                   /\ pc[x] # "idle" => msg[x] \in Message
           /\ \A x \in Consumers : x # t => pc[x] \in {"idle", "lock"} /\ pc'[x] = pc[x]
<1>1. TypeOK /\ t \in Threads /\ Inside(t) /\ t \notin Producers
  BY ThreadAssumption DEF LockEndsWithCall, Threads, Inside, Copying
<1>2. pc'[t] = l /\ \A x \in Threads : x # t => pc[x] \in {"idle", "lock"} /\ pc'[x] = pc[x]
  BY <1>1, OneInside
<1>3. \A x \in Producers : pc[x] \in {"idle", "lock"} /\ pc'[x] = pc[x]
  BY <1>1, <1>2 DEF Threads
<1>4. wr = On(r, Used) /\ \A x \in Producers : pc[x] # "idle" => msg[x] \in Message
  BY <1>3 DEF Consistent, Pushing
<1> QED BY <1>1, <1>2, <1>3, <1>4 DEF Threads

\* What is not touched by a get that has not finished.
LEMMA GetKeepsRest ==
    ASSUME NEW r \in Slot, NEW off, Consistent(r, off),
           UNCHANGED <<wr, depth, buffer, msg, queue>>,
           \A x \in Producers : /\ pc[x] \in {"idle", "lock"}
                                /\ pc'[x] = pc[x]
                                /\ pc[x] # "idle" => msg[x] \in Message,
           Getting(r)'
    PROVE  Consistent(r, off)'
<1>1. Layout(off)' /\ Contents(r, off)'
  BY DEF Consistent, Layout, Contents, Holds, Used
<1>2. Used' = Used BY DEF Used
<1>3. wr = On(r, Used) BY DEF Consistent, Pushing
<1>4. Pushing(r, On(r, Used))'
  BY <1>2, <1>3 DEF Pushing, Copying
<1> QED BY <1>1, <1>4 DEF Consistent

\* The branch that never wraps is taken when the bytes in use are in one piece.
LEMMA GetCheckKeeps ==
    ASSUME IInv, NEW t \in Consumers, GetCheck(t)
    PROVE  IInv'
<1>1. PICK r \in Slot, off \in [1 .. Len(queue) + 1 -> 0 .. Used] : Consistent(r, off)
  BY DEF IInv
<1>2. LockEndsWithCall /\ Goto(t, "head") /\ pc[t] = "check"
  BY DEF IInv, GetCheck
<1>3. /\ TypeOK /\ t \in Threads /\ Inside(t) /\ pc'[t] = "head"
      /\ wr = On(r, Used)
      /\ \A x \in Producers : /\ pc[x] \in {"idle", "lock"}
                              /\ pc'[x] = pc[x]
                              /\ pc[x] # "idle" => msg[x] \in Message
      /\ \A x \in Consumers : x # t => pc[x] \in {"idle", "lock"} /\ pc'[x] = pc[x]
  BY <1>1, <1>2, GetAlone
<1>4. UNCHANGED <<wr, rd, depth, buffer, mutex, msg, got, glen, pushRes, getRes, queue>>
  BY DEF GetCheck
<1>5. rd = r BY <1>1, <1>2, <1>3 DEF Consistent, Getting
<1>6. queue # <<>>
  <2>1. Used # 0 BY <1>3, LenAssumption DEF GetCheck, Used, TypeOK
  <2> QED BY <2>1, <1>1, <1>3, LayoutNumbers DEF Consistent
<1>7. straight' => r + Total(queue[1]) <= Size
  <2> DEFINE n == Total(queue[1])
             u == Used
  <2>1. n \in 1 .. Size /\ n <= u /\ u \in 0 .. Size
    BY <1>1, <1>3, <1>6, FirstMessage, LayoutNumbers DEF Consistent
  <2>2. straight' => r < On(r, u) BY <1>3, <1>5 DEF GetCheck
  <2> HIDE DEF n, u
  <2>3. straight' => r + n <= Size
    BY <2>1, <2>2, LenAssumption DEF On, AfterCopy, Slot
  <2> QED BY <2>3 DEF n
<1>8. Getting(r)'
  BY <1>3, <1>4, <1>5, <1>6, <1>7 DEF Getting, Copying
<1>9. Consistent(r, off)' BY <1>1, <1>3, <1>4, <1>8, GetKeepsRest
<1>10. TypeOK'
  BY <1>3, <1>4 DEF TypeOK, GetCheck, Goto
<1>11. LockEndsWithCall'
  BY <1>2, <1>3, <1>4, <1>10, InsideKeepsLock DEF Copying
<1> QED BY <1>1, <1>4, <1>9, <1>11, SameLayout

\* The bytes read at r are the head of the first message, and so its length is
\* what the head says.
LEMMA GetHeadKeeps ==
    ASSUME IInv, NEW t \in Consumers, GetHead(t)
    PROVE  IInv'
<1>1. PICK r \in Slot, off \in [1 .. Len(queue) + 1 -> 0 .. Used] : Consistent(r, off)
  BY DEF IInv
<1> DEFINE m == queue[1]
           h == HeadLen
           n == m.len
<1>2. LockEndsWithCall /\ Goto(t, "payload") /\ pc[t] = "head"
  BY DEF IInv, GetHead
<1>3. /\ TypeOK /\ t \in Threads /\ Inside(t) /\ pc'[t] = "payload"
      /\ wr = On(r, Used)
      /\ \A x \in Producers : /\ pc[x] \in {"idle", "lock"}
                              /\ pc'[x] = pc[x]
                              /\ pc[x] # "idle" => msg[x] \in Message
      /\ \A x \in Consumers : x # t => pc[x] \in {"idle", "lock"} /\ pc'[x] = pc[x]
  BY <1>1, <1>2, GetAlone DEF Copying
<1>4. UNCHANGED <<wr, depth, buffer, mutex, msg, straight, pushRes, getRes, queue>>
  BY DEF GetHead
<1>5. rd = r /\ queue # <<>> /\ (straight => r + Total(m) <= Size)
  BY <1>1, <1>2, <1>3 DEF Consistent, Getting, Copying
<1>6. /\ m \in Message /\ Total(m) = h + n /\ h + n <= Size
      /\ h \in 1 .. Size /\ n \in 0 .. Size
      /\ \A k \in 0 .. h + n - 1 : buffer[On(r, k)] = <<m, k>>
  BY <1>1, <1>3, <1>5, FirstMessage DEF Consistent
<1> HIDE DEF m, h, n
<1>7. CopyFits(r, straight, h) /\ \A k \in 0 .. h - 1 : CopySlot(r, straight, k) = On(r, k)
  <2>1. straight \in BOOLEAN /\ h \in 0 .. Size /\ (straight => r + (h + n) <= Size)
    BY <1>3, <1>5, <1>6, LenAssumption DEF TypeOK
  <2> QED BY ONLY r \in Slot, <2>1, <1>6, CallCopies
<1>8. HeadBytes(m) \in Seq(Cell) /\ Len(HeadBytes(m)) = h
      /\ \A k \in 0 .. h - 1 : HeadBytes(m)[k + 1] = <<m, k>>
  BY <1>6, MessageIsBytes DEF HeadBytes, h
<1>9. ReadOut(buffer, r, straight, h) = HeadBytes(m)
  <2>1. buffer \in [Slot -> Cell] BY <1>3 DEF TypeOK
  <2>2. ASSUME NEW k \in 0 .. h - 1
        PROVE  buffer[CopySlot(r, straight, k)] = HeadBytes(m)[k + 1]
    <3>1. k \in 0 .. h + n - 1 BY <1>6
    <3> QED BY <3>1, <1>6, <1>7, <1>8
  <2> QED BY ONLY <2>1, <2>2, <1>7, <1>8, ReadOutIs
<1>10. got' = HeadBytes(m) /\ glen' = n /\ rd' = IF straight THEN r ELSE On(r, h)
  <2>1. got' = HeadBytes(m) BY <1>5, <1>9 DEF GetHead, h
  <2>2. glen' \in LengthsIn(HeadBytes(m)) BY <2>1 DEF GetHead
  <2>3. rd' = IF straight THEN r ELSE On(r, h) BY <1>5 DEF GetHead, On, h
  <2> QED BY <2>1, <2>2, <2>3, <1>6, HeadTellsLength DEF n
<1>11. Getting(r)'
  <2>1. queue' = queue /\ straight' = straight BY <1>4
  <2> QED BY <2>1, <1>3, <1>5, <1>10 DEF Getting, Copying, m, n, h
<1>12. Consistent(r, off)' BY <1>1, <1>3, <1>4, <1>11, GetKeepsRest
<1>13. TypeOK'
  <2>1. rd' \in 0 .. Size
    <3>1. On(r, h) \in Slot BY <1>6, OnAddsUp, LenAssumption
    <3> QED BY <3>1, <1>10, LenAssumption DEF Slot
  <2>2. glen' \in Lens BY <1>6, <1>10 DEF Message, n
  <2> QED BY <2>1, <2>2, <1>3, <1>4, <1>8, <1>10 DEF TypeOK, GetHead, Goto
<1>14. LockEndsWithCall'
  BY <1>2, <1>3, <1>4, <1>13, InsideKeepsLock DEF Copying
<1> QED BY <1>1, <1>4, <1>12, <1>14, SameLayout

\* The bytes read after the head are the payload of the same message.
LEMMA GetPayloadKeeps ==
    ASSUME IInv, NEW t \in Consumers, GetPayload(t)
    PROVE  IInv'
<1>1. PICK r \in Slot, off \in [1 .. Len(queue) + 1 -> 0 .. Used] : Consistent(r, off)
  BY DEF IInv
<1> DEFINE m == queue[1]
           h == HeadLen
           n == m.len
           j == IF straight THEN r + h ELSE On(r, h)
<1>2. LockEndsWithCall /\ Goto(t, "finish") /\ pc[t] = "payload"
  BY DEF IInv, GetPayload
<1>3. /\ TypeOK /\ t \in Threads /\ Inside(t) /\ pc'[t] = "finish"
      /\ wr = On(r, Used)
      /\ \A x \in Producers : /\ pc[x] \in {"idle", "lock"}
                              /\ pc'[x] = pc[x]
                              /\ pc[x] # "idle" => msg[x] \in Message
      /\ \A x \in Consumers : x # t => pc[x] \in {"idle", "lock"} /\ pc'[x] = pc[x]
  BY <1>1, <1>2, GetAlone DEF Copying
<1>4. UNCHANGED <<wr, depth, buffer, mutex, msg, straight, glen, pushRes, getRes, queue>>
  BY DEF GetPayload
<1>5. /\ queue # <<>> /\ (straight => r + Total(m) <= Size)
      /\ glen = n /\ got = HeadBytes(m)
      /\ rd = IF straight THEN r ELSE On(r, h)
  BY <1>1, <1>2, <1>3 DEF Consistent, Getting, Copying
<1>6. /\ m \in Message /\ Total(m) = h + n /\ h + n <= Size
      /\ h \in 1 .. Size /\ n \in 0 .. Size
      /\ \A k \in 0 .. h + n - 1 : buffer[On(r, k)] = <<m, k>>
  BY <1>1, <1>3, <1>5, FirstMessage DEF Consistent
<1>7. /\ got' = got \o ReadOut(buffer, j, straight, glen)
      /\ rd' = AfterCopy(j, straight, glen)
  BY <1>5 DEF GetPayload
<1> HIDE DEF m, h, n, j
<1>8. /\ CopyFits(j, straight, n)
      /\ \A k \in 0 .. n - 1 : CopySlot(j, straight, k) = On(r, h + k)
      /\ rd' = Moved(r, h + n)
      /\ rd' \in 0 .. Size
  <2>1. straight \in BOOLEAN /\ h \in 0 .. Size /\ (straight => r + (h + n) <= Size)
    BY <1>3, <1>5, <1>6, LenAssumption DEF TypeOK
  <2>2. LET i == IF straight THEN r + h ELSE On(r, h)
        IN  /\ CopyFits(i, straight, n)
            /\ \A k \in 0 .. n - 1 : CopySlot(i, straight, k) = On(r, h + k)
            /\ AfterCopy(i, straight, n) = Moved(r, h + n)
            /\ AfterCopy(i, straight, n) \in 0 .. Size
    BY ONLY r \in Slot, <2>1, <1>6, CallCopies
  <2> QED BY <2>2, <1>5, <1>7 DEF j
<1>9. /\ PayloadBytes(m) \in Seq(Cell) /\ Len(PayloadBytes(m)) = n
      /\ \A k \in 0 .. n - 1 : PayloadBytes(m)[k + 1] = <<m, h + k>>
  <2>1. PayloadBytes(m) \in Seq(Cell) /\ Len(PayloadBytes(m)) = n
    BY <1>6, MessageIsBytes DEF n
  <2>2. ASSUME NEW k \in 0 .. n - 1 PROVE PayloadBytes(m)[k + 1] = <<m, h + k>>
    <3>1. k + 1 \in 1 .. n /\ h + (k + 1) - 1 = h + k BY <1>6
    <3>2. PayloadBytes(m)[k + 1] = <<m, h + (k + 1) - 1>>
      BY <3>1 DEF PayloadBytes, n, h
    <3> QED BY <3>1, <3>2
  <2> QED BY <2>1, <2>2
<1>10. ReadOut(buffer, j, straight, n) = PayloadBytes(m)
  <2>1. buffer \in [Slot -> Cell] BY <1>3 DEF TypeOK
  <2>2. ASSUME NEW k \in 0 .. n - 1
        PROVE  buffer[CopySlot(j, straight, k)] = PayloadBytes(m)[k + 1]
    <3> DEFINE d == h + k
    <3>1. d \in 0 .. h + n - 1 BY <1>6
    <3>2. CopySlot(j, straight, k) = On(r, d) BY <1>8
    <3> HIDE DEF d
    <3>3. buffer[On(r, d)] = <<m, d>> BY <3>1, <1>6
    <3> QED BY <3>2, <3>3, <1>9 DEF d
  <2>3. CopyFits(j, straight, n) BY <1>8
  <2>4. PayloadBytes(m) \in Seq(Cell) /\ Len(PayloadBytes(m)) = n BY <1>9
  <2> QED BY ONLY <2>1, <2>2, <2>3, <2>4, ReadOutIs
<1>11. got' = MessageBytes(m)
  BY <1>5, <1>6, <1>7, <1>10, MessageIsBytes
<1>12. Getting(r)'
  <2>1. queue' = queue /\ straight' = straight /\ glen' = n BY <1>4, <1>5
  <2>2. rd' = IF straight' THEN r + Total(m) ELSE On(r, Total(m))
    BY <2>1, <1>6, <1>8 DEF Moved
  <2> QED BY <2>1, <2>2, <1>3, <1>5, <1>11 DEF Getting, Copying, Moved, m, n
<1>13. Consistent(r, off)' BY <1>1, <1>3, <1>4, <1>12, GetKeepsRest
<1>14. TypeOK'
  <2>1. MessageBytes(m) \in Seq(Cell) BY <1>6, MessageIsBytes
  <2> QED BY <2>1, <1>3, <1>4, <1>8, <1>11 DEF TypeOK, GetPayload, Goto
<1>15. LockEndsWithCall'
  BY <1>2, <1>3, <1>4, <1>14, InsideKeepsLock DEF Copying
<1> QED BY <1>1, <1>4, <1>13, <1>15, SameLayout

\* What a finished get gives back: exactly the first message.
LEMMA GetFinishGives ==
    ASSUME LockEndsWithCall, NEW r \in Slot, NEW off, Consistent(r, off),
           NEW t \in Consumers, GetFinish(t)
    PROVE  /\ queue # <<>> /\ queue[1] \in Message
           /\ Total(queue[1]) \in 1 .. Size /\ Total(queue[1]) <= Used
           /\ depth' = depth + Total(queue[1])
           /\ rd' = On(r, Total(queue[1]))
           /\ getRes' = <<"got", queue[1]>>
<1> DEFINE m == queue[1]
<1>1. TypeOK /\ pc[t] = "finish" BY DEF LockEndsWithCall, GetFinish
<1>2. /\ queue # <<>> /\ (straight => r + Total(m) <= Size)
      /\ glen = m.len /\ got = MessageBytes(m) /\ rd = Moved(r, Total(m))
  BY <1>1 DEF Consistent, Getting, Copying
<1>3. /\ m \in Message /\ Total(m) = HeadLen + m.len
      /\ Total(m) \in 1 .. Size /\ Total(m) <= Used
      /\ HeadLen \in 1 .. Size /\ m.len \in 0 .. Size
  BY <1>1, <1>2, FirstMessage DEF Consistent
<1>4. Moved(r, Total(m)) % Size = On(r, Total(m))
  <2> HIDE DEF m
  <2>1. /\ straight \in BOOLEAN /\ 0 \in 0 .. Size /\ Total(m) \in 0 .. Size
        /\ 0 + Total(m) = Total(m)
    BY <1>1, <1>3, LenAssumption DEF TypeOK
  <2> QED BY ONLY r \in Slot, <2>1, <1>2, <1>3, CallCopies
<1>5. depth' = depth + Total(m)
  <2>1. depth \in Nat BY <1>1, LenAssumption DEF TypeOK
  <2> QED BY <2>1, <1>2, <1>3, LenAssumption DEF GetFinish
<1>6. rd' = On(r, Total(m)) BY <1>2, <1>4 DEF GetFinish
<1>7. getRes' = <<"got", m>> BY <1>2, <1>3, MessageDecoded DEF GetFinish
<1> QED BY <1>2, <1>3, <1>5, <1>6, <1>7

\* The bytes of the first message are given back, and the layout begins at the
\* second one.
LEMMA GetFinishKeeps ==
    ASSUME IInv, NEW t \in Consumers, GetFinish(t)
    PROVE  IInv'
<1>1. PICK r \in Slot, off \in [1 .. Len(queue) + 1 -> 0 .. Used] : Consistent(r, off)
  BY DEF IInv
<1> DEFINE n == Total(queue[1])
           u == Used
           L == Len(queue)
<1>2. LockEndsWithCall /\ Goto(t, "idle") /\ pc[t] = "finish"
  BY DEF IInv, GetFinish
<1>3. /\ TypeOK /\ t \in Threads /\ Inside(t) /\ pc'[t] = "idle"
      /\ wr = On(r, u)
      /\ \A x \in Producers : /\ pc[x] \in {"idle", "lock"}
                              /\ pc'[x] = pc[x]
                              /\ pc[x] # "idle" => msg[x] \in Message
      /\ \A x \in Consumers : x # t => pc[x] \in {"idle", "lock"} /\ pc'[x] = pc[x]
  BY <1>1, <1>2, GetAlone DEF Copying
<1>4. /\ mutex' = NoThread /\ queue' = SubSeq(queue, 2, Len(queue)) /\ straight' = FALSE
      /\ got' = <<>> /\ glen' = 0
      /\ UNCHANGED <<wr, buffer, msg, pushRes>>
  BY DEF GetFinish
<1>5. /\ queue # <<>> /\ queue[1] \in Message /\ n \in 1 .. Size /\ n <= u
      /\ depth' = depth + n /\ rd' = On(r, n) /\ getRes' = <<"got", queue[1]>>
  BY <1>1, <1>2, GetFinishGives
<1>6. u \in 0 .. Size /\ queue \in Seq(Message) /\ L \in Nat /\ L >= 1
  <2>1. u \in 0 .. Size /\ queue \in Seq(Message) /\ L \in Nat /\ 1 \in 1 .. L
    BY <1>1, <1>3, <1>5, LayoutNumbers DEF Consistent
  <2> QED BY <2>1
<1>7. Used' = u - n /\ depth' \in 0 .. Size
  <2>1. depth \in 0 .. Size /\ Size \in Nat BY <1>3, LenAssumption DEF TypeOK
  <2> HIDE DEF n
  <2>2. depth' = depth + n /\ n \in 1 .. Size /\ n <= Size - depth BY <1>5 DEF Used
  <2> QED BY <2>1, <2>2 DEF Used
<1>8. /\ \A i \in 1 .. L + 1 : off[i] \in 0 .. u
      /\ off[1] = 0 /\ off[L + 1] = u
      /\ \A i \in 1 .. L : off[i + 1] = off[i] + Total(queue[i])
      /\ \A i, k \in 1 .. L : i < k => off[i + 1] <= off[k]
      /\ \A i \in 1 .. L : \A k \in 0 .. Total(queue[i]) - 1 :
            buffer[On(r, off[i] + k)] = <<queue[i], k>>
      /\ \A i \in 1 .. L : Total(queue[i]) \in 1 .. Size /\ off[i] + Total(queue[i]) <= u
  BY <1>1, <1>3, LayoutNumbers DEF Consistent, Layout, Contents, Holds
<1>9. /\ queue' \in Seq(Message) /\ Len(queue') = L - 1
      /\ \A i \in 1 .. L - 1 : queue'[i] = queue[i + 1]
  <2> HIDE DEF L
  <2>1. \A i \in 2 .. L : queue[i] \in Message
    <3> TAKE i \in 2 .. L
    <3>1. i \in 1 .. Len(queue) BY <1>6 DEF L
    <3> QED BY <3>1, <1>6, ElementOfSeq
  <2>2. queue' = SubSeq(queue, 2, L) BY <1>4 DEF L
  <2>3. /\ queue' \in Seq(Message) /\ Len(queue') = IF 2 <= L THEN L - 2 + 1 ELSE 0
        /\ \A i \in 1 .. L - 2 + 1 : queue'[i] = queue[2 + i - 1]
    BY <2>1, <2>2, <1>6, SubSeqProperties
  <2>4. Len(queue') = L - 1 BY <2>3, <1>6
  <2>5. ASSUME NEW i \in 1 .. L - 1 PROVE queue'[i] = queue[i + 1]
    <3>1. i \in 1 .. L - 2 + 1 /\ 2 + i - 1 = i + 1 BY <1>6
    <3>2. queue'[i] = queue[2 + i - 1] BY <3>1, <2>3
    <3> QED BY <3>1, <3>2
  <2> QED BY <2>3, <2>4, <2>5
<1> HIDE DEF n, u, L
<1>10. ASSUME NEW i \in 1 .. L PROVE off[i + 1] \in n .. u /\ i + 1 \in 1 .. L + 1
  <2>1. i + 1 \in 1 .. L + 1 /\ 1 \in 1 .. L BY <1>6
  <2>2. off[1 + 1] = n
    <3>1. off[1 + 1] = off[1] + Total(queue[1]) BY <2>1, <1>8
    <3> QED BY <3>1, <1>5, <1>8 DEF n
  <2>3. CASE i = 1 BY <2>1, <2>2, <2>3, <1>5, <1>6
  <2>4. CASE i # 1
    <3>1. off[1 + 1] <= off[i] /\ off[i + 1] = off[i] + Total(queue[i])
          /\ Total(queue[i]) \in 1 .. Size /\ off[i] \in 0 .. u /\ off[i + 1] \in 0 .. u
      <4>1. 1 < i /\ i \in 1 .. L + 1 BY <2>4, <1>6
      <4> QED BY <4>1, <2>1, <1>8
    <3> QED BY <3>1, <2>1, <2>2, <1>5, <1>6, LenAssumption
  <2> QED BY <2>3, <2>4
<1>11. PICK new \in [1 .. L -> 0 .. u - n] : \A i \in 1 .. L : new[i] = off[i + 1] - n
  <2> DEFINE f == [i \in 1 .. L |-> off[i + 1] - n]
  <2>1. f \in [1 .. L -> 0 .. u - n] BY <1>5, <1>6, <1>10
  <2>2. \A i \in 1 .. L : f[i] = off[i + 1] - n OBVIOUS
  <2> HIDE DEF f
  <2> QED BY <2>1, <2>2
<1>12. PICK s \in Slot : s = On(r, n)
  BY <1>5, OnAddsUp, LenAssumption
<1>13. \A d \in 0 .. u - n : On(s, d) = On(r, n + d)
  <2> TAKE d \in 0 .. u - n
  <2>1. n \in 0 .. Size /\ d \in 0 .. Size /\ n + d <= Size BY <1>5, <1>6, LenAssumption
  <2> QED BY <2>1, <1>12, ByteAt
<1>14. Layout(new)'
  <2>1. L - 1 + 1 = L /\ 1 \in 1 .. L /\ L \in 1 .. L BY <1>6
  <2>2. new[1] = 0
    <3>1. off[1 + 1] = off[1] + Total(queue[1]) BY <2>1, <1>8
    <3>2. off[1 + 1] = n BY <3>1, <1>5, <1>8 DEF n
    <3> QED BY <2>1, <3>2, <1>5, <1>11
  <2>3. new[L] = u - n BY <2>1, <1>8, <1>11
  <2>4. \A i \in 1 .. L - 1 : new[i + 1] = new[i] + Total(queue'[i])
    <3> TAKE i \in 1 .. L - 1
    <3>1. i \in 1 .. L /\ i + 1 \in 1 .. L BY <1>6
    <3>2. off[i + 1 + 1] = off[i + 1] + Total(queue[i + 1]) BY <3>1, <1>8
    <3>3. off[i + 1] \in n .. u /\ Total(queue[i + 1]) \in 1 .. Size BY <3>1, <1>8, <1>10
    <3>4. new[i + 1] = off[i + 1 + 1] - n /\ new[i] = off[i + 1] - n BY <3>1, <1>11
    <3>5. queue'[i] = queue[i + 1] BY <1>9
    <3>6. off[i + 1] \in Int /\ Total(queue[i + 1]) \in Int /\ n \in Int
      <4>1. n \in Int /\ u \in Int /\ Size \in Int BY <1>5, <1>6, LenAssumption
      <4> QED BY ONLY <3>3, <4>1
    <3>7. \A a, b, c \in Int : (a + b) - c = (a - c) + b OBVIOUS
    <3>8. (off[i + 1] + Total(queue[i + 1])) - n = (off[i + 1] - n) + Total(queue[i + 1])
      BY ONLY <3>6, <3>7
    <3> QED BY ONLY <3>2, <3>4, <3>5, <3>8
  <2>5. \A i, k \in 1 .. L - 1 : i < k => new[i + 1] <= new[k]
    <3> TAKE i, k \in 1 .. L - 1
    <3> HAVE i < k
    <3>1. i + 1 \in 1 .. L /\ k + 1 \in 1 .. L /\ k \in 1 .. L /\ i + 1 < k + 1 BY <1>6
    <3>2. off[i + 1 + 1] <= off[k + 1] BY <3>1, <1>8
    <3>3. off[i + 1 + 1] \in n .. u /\ off[k + 1] \in n .. u BY <3>1, <1>10
    <3>4. new[i + 1] = off[i + 1 + 1] - n /\ new[k] = off[k + 1] - n BY <3>1, <1>11
    <3>5. off[i + 1 + 1] \in Int /\ off[k + 1] \in Int /\ n \in Int
      <4>1. n \in Int /\ u \in Int BY <1>5, <1>6, LenAssumption
      <4> QED BY ONLY <3>3, <4>1
    <3>6. \A a, b, c \in Int : a <= b => a - c <= b - c OBVIOUS
    <3>7. off[i + 1 + 1] - n <= off[k + 1] - n BY ONLY <3>2, <3>5, <3>6
    <3> QED BY ONLY <3>4, <3>7
  <2>6. Len(queue') + 1 = L BY <2>1, <1>9
  <2>7. new \in [1 .. Len(queue') + 1 -> 0 .. Used'] BY <2>6, <1>7, <1>11
  <2>8. new[Len(queue') + 1] = Used' BY <2>3, <2>6, <1>7
  <2>9. \A i \in 1 .. Len(queue') : new[i + 1] = new[i] + Total(queue'[i]) BY <2>4, <1>9
  <2>10. \A i, k \in 1 .. Len(queue') : i < k => new[i + 1] <= new[k] BY <2>5, <1>9
  <2> QED BY <2>2, <2>7, <2>8, <2>9, <2>10 DEF Layout
<1>15. Contents(s, new)'
  <2> SUFFICES ASSUME NEW i \in 1 .. Len(queue'), NEW k \in 0 .. Total(queue'[i]) - 1
               PROVE  buffer'[On(s, new[i] + k)] = <<queue'[i], k>>
    BY DEF Contents, Holds
  <2>1. i \in 1 .. L - 1 /\ i \in 1 .. L /\ i + 1 \in 1 .. L BY <1>6, <1>9
  <2>2. queue'[i] = queue[i + 1] BY <2>1, <1>9
  <2>3. k \in 0 .. Total(queue[i + 1]) - 1 BY <2>2
  <2>4. buffer[On(r, off[i + 1] + k)] = <<queue[i + 1], k>> BY <2>1, <2>3, <1>8
  <2>5. /\ off[i + 1] \in n .. u /\ Total(queue[i + 1]) \in 1 .. Size
        /\ off[i + 1] + Total(queue[i + 1]) <= u
    BY <2>1, <1>8, <1>10
  <2>6. new[i] = off[i + 1] - n BY <2>1, <1>11
  <2>7. new[i] + k \in 0 .. u - n /\ n + (new[i] + k) = off[i + 1] + k
    <3>1. /\ off[i + 1] \in Int /\ k \in Int /\ n \in Int /\ u \in Int
          /\ Total(queue[i + 1]) \in Int
      <4>1. Size \in Int /\ n \in Int /\ u \in Int BY ONLY <1>5, <1>6, LenAssumption
      <4>2. Total(queue[i + 1]) \in Int BY ONLY <4>1, <2>5
      <4>3. off[i + 1] \in Int BY ONLY <4>1, <2>5
      <4>4. k \in Int BY ONLY <4>2, <2>3
      <4> QED BY <4>1, <4>2, <4>3, <4>4
    <3>2. n <= off[i + 1] /\ 0 <= k /\ k <= Total(queue[i + 1]) - 1
      BY ONLY <3>1, <2>3, <2>5
    <3>3. \A a, b, c, d, e \in Int :
             /\ c <= a /\ 0 <= b /\ b <= e - 1 /\ a + e <= d
             => /\ (a - c) + b \in 0 .. d - c
                /\ c + ((a - c) + b) = a + b
      OBVIOUS
    <3>4. /\ (off[i + 1] - n) + k \in 0 .. u - n
          /\ n + ((off[i + 1] - n) + k) = off[i + 1] + k
      BY ONLY <3>1, <3>2, <3>3, <2>5
    <3> QED BY ONLY <3>4, <2>6
  <2>8. On(s, new[i] + k) = On(r, off[i + 1] + k) BY <2>7, <1>13
  <2> QED BY <2>2, <2>4, <2>8, <1>4
<1>16. Pushing(s, On(s, Used))'
  <2>1. wr' = On(s, Used')
    <3>1. u - n \in 0 .. u - n /\ n + (u - n) = u BY <1>5, <1>6
    <3> QED BY <3>1, <1>3, <1>4, <1>7, <1>13
  <2> QED BY <2>1, <1>3, <1>4 DEF Pushing, Copying
<1>17. Getting(s)'
  <2>1. \A x \in Consumers : pc'[x] \in {"idle", "lock"} BY <1>3
  <2> QED BY <2>1, <1>5, <1>12 DEF Getting, Copying
<1>18. TypeOK'
  <2>1. rd' \in 0 .. Size BY <1>5, <1>12, LenAssumption DEF Slot
  <2>2. <<>> \in Seq(Cell) BY EmptySeq
  <2>3. /\ wr' \in 0 .. Size /\ buffer' \in [Slot -> Cell]
        /\ msg' \in [Threads -> Message \cup {NoMessage}]
        /\ pushRes' \in {<<"none">>, <<"ok">>} \cup ({"full"} \X Message)
    BY <1>3, <1>4 DEF TypeOK
  <2>4. mutex' \in Threads \cup {NoThread} BY <1>4
  <2>5. pc' \in [Threads -> {"idle", "lock", "check", "head", "payload", "finish"}]
    <3>1. pc \in [Threads -> {"idle", "lock", "check", "head", "payload", "finish"}]
      BY <1>3 DEF TypeOK
    <3> QED BY <3>1, <1>2 DEF Goto
  <2>6. straight' \in BOOLEAN /\ got' \in Seq(Cell) /\ glen' \in Lens \cup {0}
    BY <2>2, <1>4
  <2>7. getRes' \in {<<"none">>, <<"empty">>, <<"garbage">>} \cup ({"got"} \X Message)
    BY <1>5
  <2> QED BY ONLY <2>1, <2>3, <2>4, <2>5, <2>6, <2>7, <1>7, <1>9 DEF TypeOK
<1>19. LockEndsWithCall'
  BY <1>2, <1>3, <1>4, <1>18, ReturnUnlocks
<1>20. Consistent(s, new)' BY <1>14, <1>15, <1>16, <1>17 DEF Consistent
<1>21. new \in [1 .. Len(queue') + 1 -> 0 .. Used']
  <2>1. Len(queue') + 1 = L BY <1>6, <1>9
  <2> QED BY <2>1, <1>7, <1>11
<1> QED BY <1>19, <1>20, <1>21 DEF IInv

-------------------------------------------------------------------------------
(* The invariant, and the properties that follow from it.                  *)

\* A step that changes nothing.
LEMMA StutterKeeps ==
    ASSUME IInv, UNCHANGED vars
    PROVE  IInv'
<1>1. LockEndsWithCall'
  BY DEF IInv, LockEndsWithCall, TypeOK, Inside, vars, copyVars
<1>2. PICK r \in Slot, off \in [1 .. Len(queue) + 1 -> 0 .. Used] : Consistent(r, off)
  BY DEF IInv
<1>3. Layout(off)' /\ Contents(r, off)'
  BY <1>2 DEF Consistent, Layout, Contents, Holds, Used, vars
<1>4. Pushing(r, On(r, Used))'
  BY <1>2 DEF Consistent, Pushing, Holds, Moved, Used, vars, copyVars
<1>5. Getting(r)'
  BY <1>2 DEF Consistent, Getting, Moved, vars, copyVars
<1>6. Consistent(r, off)' BY <1>3, <1>4, <1>5 DEF Consistent
<1> QED BY <1>1, <1>6, SameLayout DEF vars

\* Every step of every producer and consumer keeps the inductive invariant.
LEMMA NextKeeps ==
    ASSUME IInv, [Next]_vars
    PROVE  IInv'
<1>1. ASSUME NEW t \in Producers, Produce(t) PROVE IInv'
  <2>1. t \in Threads BY DEF Threads
  <2>2. ASSUME NEW m \in Message, PushCall(t, m) PROVE IInv' BY <2>2, PushCallKeeps
  <2>3. CASE Lock(t) BY <2>1, <2>3, LockKeeps
  <2>4. CASE PushFull(t) BY <2>4, PushFullKeeps
  <2>5. CASE PushCheck(t) BY <2>5, PushCheckKeeps
  <2>6. CASE PushHead(t) BY <2>6, PushHeadKeeps
  <2>7. CASE PushPayload(t) BY <2>7, PushPayloadKeeps
  <2>8. CASE PushFinish(t) BY <2>8, PushFinishKeeps
  <2> QED BY <1>1, <2>2, <2>3, <2>4, <2>5, <2>6, <2>7, <2>8 DEF Produce
<1>2. ASSUME NEW t \in Consumers, Consume(t) PROVE IInv'
  <2>1. t \in Threads BY DEF Threads
  <2>2. CASE GetCall(t) BY <2>2, GetCallKeeps
  <2>3. CASE Lock(t) BY <2>1, <2>3, LockKeeps
  <2>4. CASE GetEmpty(t) BY <2>4, GetEmptyKeeps
  <2>5. CASE GetCheck(t) BY <2>5, GetCheckKeeps
  <2>6. CASE GetHead(t) BY <2>6, GetHeadKeeps
  <2>7. CASE GetPayload(t) BY <2>7, GetPayloadKeeps
  <2>8. CASE GetFinish(t) BY <2>8, GetFinishKeeps
  <2> QED BY <1>2, <2>2, <2>3, <2>4, <2>5, <2>6, <2>7, <2>8 DEF Consume
<1>3. CASE UNCHANGED vars BY <1>3, StutterKeeps
<1> QED BY <1>1, <1>2, <1>3 DEF Next

\* The inductive invariant holds in every reachable state, for any number of
\* producers and consumers.
THEOREM Invariant == Spec => []IInv
<1>1. Init => IInv BY InitInvariant
<1>2. IInv /\ [Next]_vars => IInv' BY NextKeeps
<1> QED BY <1>1, <1>2, PTL DEF Spec

\* Type correctness of the mutex FIFO.
THEOREM TypeCorrect == Spec => []TypeOK
<1>1. IInv => TypeOK BY DEF IInv, LockEndsWithCall
<1> QED BY <1>1, Invariant, PTL

\* The mutex is held by exactly the thread inside a call: every way out of
\* push_msg_fifo and get_msg_fifo unlocks it, and no two calls overlap.
THEOREM LockAlwaysEnds == Spec => []LockEndsWithCall
<1>1. IInv => LockEndsWithCall BY DEF IInv
<1> QED BY <1>1, Invariant, PTL

\* Between calls the indices and the counter of free bytes agree.
THEOREM IndicesAlwaysMatch == Spec => []IndicesMatchDepth
<1>1. IInv => IndicesMatchDepth
  <2> SUFFICES ASSUME IInv, mutex = NoThread
               PROVE  wr \in Slot /\ rd \in Slot /\ (rd + Used) % Size = wr
    BY DEF IndicesMatchDepth, Used
  <2>1. PICK r \in Slot, off \in [1 .. Len(queue) + 1 -> 0 .. Used] : Consistent(r, off)
    BY DEF IInv
  <2>2. \A t \in Threads : pc[t] \notin Copying
    BY ThreadAssumption DEF IInv, LockEndsWithCall, Inside, Copying
  <2>3. rd = r /\ wr = On(r, Used) BY <2>1, <2>2, InsideAtRest DEF IInv
  <2>4. Used \in 0 .. Size
    <3>1. depth \in 0 .. Size /\ Size \in Nat
      BY LenAssumption DEF IInv, LockEndsWithCall, TypeOK
    <3> QED BY <3>1 DEF Used
  <2>5. On(r, Used) \in Slot /\ (r + Used) % Size = On(r, Used) BY <2>4, OnAddsUp
  <2> QED BY <2>3, <2>5
<1> QED BY <1>1, Invariant, PTL

\* The copies of a push stay inside the buffer.
LEMMA PushInBounds ==
    ASSUME IInv, NEW t \in Producers
    PROVE  /\ pc[t] = "head" => CopySlots(wr, straight, HeadLen) \subseteq Slot
           /\ pc[t] = "payload" =>
                CopySlots(IF straight THEN wr + HeadLen ELSE wr, straight, msg[t].len)
                    \subseteq Slot
<1>1. PICK r \in Slot, off \in [1 .. Len(queue) + 1 -> 0 .. Used] : Consistent(r, off)
  BY DEF IInv
<1> DEFINE w == On(r, Used)
<1> SUFFICES ASSUME pc[t] \in {"head", "payload"}
             PROVE  /\ pc[t] = "head" => CopySlots(wr, straight, HeadLen) \subseteq Slot
                    /\ pc[t] = "payload" =>
                         CopySlots(IF straight THEN wr + HeadLen ELSE wr, straight, msg[t].len)
                             \subseteq Slot
  OBVIOUS
<1>2. LockEndsWithCall /\ TypeOK /\ t \in Threads /\ Inside(t)
  BY DEF IInv, LockEndsWithCall, Inside, Threads
<1>3. \A x \in Threads : x # t => pc[x] \in {"idle", "lock"}
  BY <1>2 DEF LockEndsWithCall, Inside
<1>4. /\ Used + Total(msg[t]) <= Size /\ (straight => w + Total(msg[t]) <= Size)
      /\ msg[t] \in Message
      /\ pc[t] = "head" => wr = w
      /\ pc[t] = "payload" => wr = IF straight THEN w ELSE On(w, HeadLen)
  BY <1>1, <1>3 DEF Consistent, Pushing, Copying, Threads
<1>5. w \in Slot
  <2>1. depth \in 0 .. Size /\ Size \in Nat BY <1>2, LenAssumption DEF TypeOK
  <2>2. Used \in 0 .. Size BY <2>1 DEF Used
  <2> QED BY <2>2, OnAddsUp
<1>6. /\ HeadLen \in 0 .. Size /\ msg[t].len \in 0 .. Size
      /\ Total(msg[t]) = HeadLen + msg[t].len /\ HeadLen + msg[t].len <= Size
  <2>1. Total(msg[t]) \in HeadLen .. Size /\ msg[t].len \in Nat
        /\ Total(msg[t]) = HeadLen + msg[t].len
    BY <1>4, MessageIsBytes DEF Total
  <2> QED BY <2>1, LenAssumption
<1>7. straight => w + (HeadLen + msg[t].len) <= Size BY <1>4, <1>6
<1>8. straight \in BOOLEAN BY <1>2 DEF TypeOK
<1> DEFINE j == IF straight THEN w + HeadLen ELSE On(w, HeadLen)
<1>9. CopyFits(w, straight, HeadLen) /\ CopyFits(j, straight, msg[t].len)
  <2> HIDE DEF w
  <2> QED BY ONLY <1>5, <1>6, <1>7, <1>8, CallCopies
<1> HIDE DEF w
<1>10. CASE pc[t] = "head"
  BY <1>4, <1>9, <1>10, CopySlotsDistinct
<1>11. CASE pc[t] = "payload"
  <2>1. (IF straight THEN wr + HeadLen ELSE wr) = j BY <1>4, <1>11
  <2>2. CopySlots(j, straight, msg[t].len) \subseteq Slot BY <1>9, CopySlotsDistinct
  <2> QED BY <1>11, <2>1, <2>2
<1> QED BY <1>10, <1>11

\* The copies of a get stay inside the buffer.
LEMMA GetInBounds ==
    ASSUME IInv, NEW t \in Consumers
    PROVE  /\ pc[t] = "head" => CopySlots(rd, straight, HeadLen) \subseteq Slot
           /\ pc[t] = "payload" =>
                CopySlots(IF straight THEN rd + HeadLen ELSE rd, straight, glen) \subseteq Slot
<1>1. PICK r \in Slot, off \in [1 .. Len(queue) + 1 -> 0 .. Used] : Consistent(r, off)
  BY DEF IInv
<1> DEFINE m == queue[1]
<1> SUFFICES ASSUME pc[t] \in {"head", "payload"}
             PROVE  /\ pc[t] = "head" => CopySlots(rd, straight, HeadLen) \subseteq Slot
                    /\ pc[t] = "payload" =>
                         CopySlots(IF straight THEN rd + HeadLen ELSE rd, straight, glen)
                             \subseteq Slot
  OBVIOUS
<1>2. LockEndsWithCall /\ TypeOK /\ t \in Threads /\ Inside(t)
  BY DEF IInv, LockEndsWithCall, Inside, Threads
<1>3. \A x \in Threads : x # t => pc[x] \in {"idle", "lock"}
  BY <1>2 DEF LockEndsWithCall, Inside
<1>4. /\ queue # <<>> /\ (straight => r + Total(m) <= Size)
      /\ pc[t] = "payload" => glen = m.len
      /\ pc[t] = "head" => rd = r
      /\ pc[t] = "payload" => rd = IF straight THEN r ELSE On(r, HeadLen)
  BY <1>1, <1>3 DEF Consistent, Getting, Copying, Threads
<1>5. /\ Total(m) = HeadLen + m.len /\ Total(m) \in 1 .. Size
      /\ HeadLen \in 1 .. Size /\ m.len \in 0 .. Size
  BY <1>1, <1>2, <1>4, FirstMessage DEF Consistent
<1> HIDE DEF m
<1>6. HeadLen \in 0 .. Size /\ HeadLen + m.len <= Size BY <1>5
<1>7. straight => r + (HeadLen + m.len) <= Size BY <1>4, <1>5
<1>8. straight \in BOOLEAN BY <1>2 DEF TypeOK
<1> DEFINE j == IF straight THEN r + HeadLen ELSE On(r, HeadLen)
<1>9. CopyFits(r, straight, HeadLen) /\ CopyFits(j, straight, m.len)
  BY ONLY r \in Slot, <1>5, <1>6, <1>7, <1>8, CallCopies
<1>10. CASE pc[t] = "head"
  BY <1>4, <1>9, <1>10, CopySlotsDistinct
<1>11. CASE pc[t] = "payload"
  <2>1. (IF straight THEN rd + HeadLen ELSE rd) = j /\ glen = m.len BY <1>4, <1>11
  <2>2. CopySlots(j, straight, m.len) \subseteq Slot BY <1>9, CopySlotsDistinct
  <2> QED BY <1>11, <2>1, <2>2
<1> QED BY <1>10, <1>11

\* No memcpy of push_msg_fifo or get_msg_fifo leaves the buffer, whichever
\* branch the call took.
THEOREM CopiesAlwaysInBounds == Spec => []CopiesInBounds
<1>1. IInv => CopiesInBounds
  <2> SUFFICES ASSUME IInv, NEW t \in Threads
               PROVE  LET at  == IF t \in Producers THEN wr ELSE rd
                          len == IF t \in Producers THEN msg[t].len ELSE glen
                      IN  /\ pc[t] = "head" => CopySlots(at, straight, HeadLen) \subseteq Slot
                          /\ pc[t] = "payload" =>
                               CopySlots(IF straight THEN at + HeadLen ELSE at, straight, len)
                                   \subseteq Slot
    BY DEF CopiesInBounds
  <2>1. CASE t \in Producers BY <2>1, PushInBounds
  <2>2. CASE t \in Consumers /\ t \notin Producers BY <2>2, GetInBounds
  <2> QED BY <2>1, <2>2 DEF Threads
<1> QED BY <1>1, Invariant, PTL

-------------------------------------------------------------------------------
(* The mutex FIFO implements MsgFifo.                                      *)

\* The unlock of a get is the abstract Get.
LEMMA FinishIsGet ==
    ASSUME IInv, NEW t \in Consumers, GetFinish(t)
    PROVE  Abstract!Get
<1>1. PICK r \in Slot, off \in [1 .. Len(queue) + 1 -> 0 .. Used] : Consistent(r, off)
  BY DEF IInv
<1>2. /\ queue # <<>> /\ queue[1] \in Message /\ Total(queue[1]) \in 1 .. Size
      /\ depth' = depth + Total(queue[1]) /\ getRes' = <<"got", queue[1]>>
  BY <1>1, GetFinishGives DEF IInv
<1>3. queue \in Seq(Message) /\ depth \in Nat /\ Size \in Nat
  BY LenAssumption DEF IInv, LockEndsWithCall, TypeOK
<1>4. Head(queue) = queue[1] /\ queue' = Tail(queue)
  BY <1>2, <1>3 DEF GetFinish
<1>5. Size - depth' = (Size - depth) - Total(queue[1])
  BY <1>2, <1>3
<1>6. Abstract!Total(Head(queue)) = Total(queue[1])
  BY <1>4 DEF Abstract!Total, Total
<1>7. pushRes' = pushRes BY DEF GetFinish
<1> QED BY <1>2, <1>4, <1>5, <1>6, <1>7 DEF Abstract!Get

\* Every step of the FIFO is a step of MsgFifo or leaves its variables alone: a
\* push and a get take effect at their unlock.
LEMMA StepImplements ==
    ASSUME IInv, [Next]_vars
    PROVE  [Abstract!Next]_Abstract!vars
<1>1. depth \in Nat /\ Size \in Nat /\ depth \in 0 .. Size /\ TypeOK
  BY LenAssumption DEF IInv, LockEndsWithCall, TypeOK
<1>2. PICK r \in Slot, off \in [1 .. Len(queue) + 1 -> 0 .. Used] : Consistent(r, off)
  BY DEF IInv
<1>3. ASSUME NEW t \in Producers, pc[t] \notin {"idle"}
      PROVE  msg[t] \in Message /\ msg[t] \in Abstract!Message
             /\ Abstract!Total(msg[t]) = Total(msg[t]) /\ Total(msg[t]) \in Nat
  <2>1. msg[t] \in Message BY <1>2, <1>3 DEF Consistent, Pushing
  <2>2. Total(msg[t]) \in Nat
    <3>1. Total(msg[t]) \in HeadLen .. Size BY <2>1, MessageIsBytes
    <3> QED BY <3>1, LenAssumption
  <2> QED BY <2>1, <2>2 DEF Message, Abstract!Message, Abstract!Total, Total
<1>4. ASSUME NEW t \in Producers, PushFull(t) PROVE Abstract!Next
  <2>1. pc[t] \notin {"idle"} /\ depth < Total(msg[t]) BY <1>4 DEF PushFull
  <2>2. (Size - depth) + Total(msg[t]) > Size BY <1>1, <1>3, <2>1
  <2>3. Abstract!PushFull(msg[t])
    BY <1>3, <1>4, <2>1, <2>2 DEF PushFull, Abstract!PushFull
  <2> QED BY <1>3, <2>1, <2>3 DEF Abstract!Next
<1>5. ASSUME NEW t \in Producers, PushFinish(t) PROVE Abstract!Next
  <2>1. pc[t] \notin {"idle"} /\ pc[t] \in Copying BY <1>5 DEF PushFinish, Copying
  <2>2. (Size - depth) + Total(msg[t]) <= Size
    BY <1>2, <2>1 DEF Consistent, Pushing, Used
  <2>3. Size - depth' = (Size - depth) + Total(msg[t])
    <3>1. depth' = depth - Total(msg[t]) BY <1>5 DEF PushFinish
    <3> QED BY <3>1, <1>1, <1>3, <2>1
  <2>4. Abstract!Push(msg[t])
    BY <1>3, <1>5, <2>1, <2>2, <2>3 DEF PushFinish, Abstract!Push
  <2> QED BY <1>3, <2>1, <2>4 DEF Abstract!Next
<1>6. ASSUME NEW t \in Consumers, GetFinish(t) PROVE Abstract!Next
  BY <1>6, FinishIsGet DEF Abstract!Next
<1>7. ASSUME NEW t \in Consumers, GetEmpty(t) PROVE Abstract!Next
  <2>1. Used = 0 BY <1>1, <1>7 DEF GetEmpty, Used
  <2>2. queue = <<>> BY <1>1, <1>2, <2>1, LayoutNumbers DEF Consistent
  <2>3. Abstract!GetEmpty BY <1>7, <2>2 DEF GetEmpty, Abstract!GetEmpty
  <2> QED BY <2>3 DEF Abstract!Next
<1>8. ASSUME NEW t \in Producers,
             \/ \E m \in Message : PushCall(t, m)
             \/ Lock(t) \/ PushCheck(t) \/ PushHead(t) \/ PushPayload(t)
      PROVE  UNCHANGED Abstract!vars
  BY <1>8 DEF PushCall, Lock, PushCheck, PushHead, PushPayload, Abstract!vars
<1>9. ASSUME NEW t \in Consumers,
             GetCall(t) \/ Lock(t) \/ GetCheck(t) \/ GetHead(t) \/ GetPayload(t)
      PROVE  UNCHANGED Abstract!vars
  BY <1>9 DEF GetCall, Lock, GetCheck, GetHead, GetPayload, Abstract!vars
<1>10. CASE UNCHANGED vars BY <1>10 DEF vars, Abstract!vars
<1>11. ASSUME NEW t \in Producers, Produce(t) PROVE [Abstract!Next]_Abstract!vars
  BY <1>4, <1>5, <1>8, <1>11 DEF Produce
<1>12. ASSUME NEW t \in Consumers, Consume(t) PROVE [Abstract!Next]_Abstract!vars
  BY <1>6, <1>7, <1>9, <1>12 DEF Consume
<1> QED BY <1>10, <1>11, <1>12 DEF Next

\* The mutex FIFO is a message FIFO for any number of threads on either side:
\* whole messages, each got once, in the order their pushes unlocked.
THEOREM Refinement == Spec => ImplementsMsgFifo
<1>1. Init => Abstract!Init
  <2> SUFFICES ASSUME Init PROVE Abstract!Init OBVIOUS
  <2>1. Size - depth = 0 BY LenAssumption DEF Init
  <2> QED BY <2>1 DEF Init, Abstract!Init
<1>2. IInv /\ [Next]_vars => [Abstract!Next]_Abstract!vars BY StepImplements
<1> QED BY <1>1, <1>2, Invariant, PTL DEF Spec, ImplementsMsgFifo, Abstract!Spec
===============================================================================
