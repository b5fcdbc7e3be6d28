--------------------------- MODULE SyncChannelProofs ---------------------------
(***************************************************************************)
(* The safety properties of the channel synchronisation, for every FIFO    *)
(* size, error limit, number of connections and set of payload lengths:    *)
(* the peers step each other, a message that passes is one of the current  *)
(* exchange, and a FIFO that holds two messages never drops one.           *)
(***************************************************************************)
EXTENDS SyncChannel, SequenceTheorems, TLAPS

-------------------------------------------------------------------------------
(* Peers.                                                                  *)

\* There are two peers, each the other's other.
LEMMA Peers ==
    ASSUME NEW p \in Peer
    PROVE  /\ Other(p) \in Peer
           /\ Other(p) # p
           /\ Other(Other(p)) = p
           /\ Peer = {p, Other(p)}
BY SyncAssumption DEF Peer, Other

-------------------------------------------------------------------------------
(* Counting exchanges around the bound.                                    *)

Xchg == 0 .. 3 * Rounds - 1

\* The exchange after x.
Succ(x) == IF x + 1 = 3 * Rounds THEN 0 ELSE x + 1

\* The bound of the count as a number.
LEMMA XchgBound ==
    3 * Rounds \in Nat /\ 3 * Rounds >= 6
BY SyncAssumption

\* Ahead is zero only between equals, changes its sign with its arguments, and
\* follows each of them by one.
LEMMA AheadFacts ==
    ASSUME NEW x \in Xchg, NEW y \in Xchg
    PROVE  /\ Ahead(x, y) \in Int
           /\ Ahead(x, y) = 0 <=> x = y
           /\ Ahead(x, y) \in -2 .. 2 => Ahead(y, x) = -Ahead(x, y)
           /\ Ahead(x, y) = 1 <=> y = Succ(x)
           /\ Succ(x) \in Xchg
           /\ Ahead(x, y) \in -1 .. 2 => Ahead(Succ(x), y) = Ahead(x, y) - 1
           /\ Ahead(x, y) \in -2 .. 1 => Ahead(x, Succ(y)) = Ahead(x, y) + 1
<1> DEFINE n == 3 * Rounds
<1>1. n \in Nat /\ n >= 6 BY XchgBound
<1>2. \A a, b \in 0 .. n - 1 :
        LET ahead(c, d) == IF d - c > 3 THEN d - c - n ELSE IF d - c < -2 THEN d - c + n ELSE d - c
            succ(c) == IF c + 1 = n THEN 0 ELSE c + 1
        IN  /\ ahead(a, b) \in Int
            /\ ahead(a, b) = 0 <=> a = b
            /\ ahead(a, b) \in -2 .. 2 => ahead(b, a) = -ahead(a, b)
            /\ ahead(a, b) = 1 <=> b = succ(a)
            /\ succ(a) \in 0 .. n - 1
            /\ ahead(a, b) \in -1 .. 2 => ahead(succ(a), b) = ahead(a, b) - 1
            /\ ahead(a, b) \in -2 .. 1 => ahead(a, succ(b)) = ahead(a, b) + 1
  <2> HIDE DEF n
  <2> QED BY <1>1
<1> QED BY <1>2 DEF Ahead, Succ, Xchg

\* The remainder by the bound, as far as the count goes.
LEMMA XchgRemainder ==
    ASSUME NEW x \in 0 .. 3 * Rounds
    PROVE  /\ x < 3 * Rounds => x % (3 * Rounds) = x
           /\ x = 3 * Rounds => x % (3 * Rounds) = 0
<1> DEFINE n == 3 * Rounds
<1>1. n \in Nat /\ n >= 6 BY XchgBound
<1> HIDE DEF n
<1>2. \A a \in 0 .. n : (a < n => a % n = a) /\ (a = n => a % n = 0) BY <1>1
<1> QED BY <1>2 DEF n

\* The count of a peer in round t that is e exchanges into it.
Count(t, e) == (3 * t + e) % (3 * Rounds)

\* It is one more after each exchange, and goes on from round to round.
LEMMA CountFacts ==
    ASSUME NEW t \in 0 .. Rounds - 1
    PROVE  /\ \A e \in 0 .. 3 : Count(t, e) \in Xchg
           /\ \A e \in 0 .. 2 : Count(t, e) = 3 * t + e
           /\ \A e \in 0 .. 2 : Count(t, e + 1) = Succ(Count(t, e))
           /\ (t + 1) % Rounds \in 0 .. Rounds - 1
           /\ Count((t + 1) % Rounds, 0) = Count(t, 3)
<1>1. Rounds \in Nat /\ Rounds >= 2 BY SyncAssumption
<1>2. \A e \in 0 .. 2 : Count(t, e) = 3 * t + e
  <2> TAKE e \in 0 .. 2
  <2>1. 3 * t + e \in 0 .. 3 * Rounds /\ 3 * t + e < 3 * Rounds BY <1>1
  <2> QED BY <2>1, XchgRemainder DEF Count
<1>3. Count(t, 3) = IF t + 1 = Rounds THEN 0 ELSE 3 * t + 3
  <2>1. 3 * t + 3 \in 0 .. 3 * Rounds BY <1>1
  <2>2. 3 * t + 3 = 3 * Rounds <=> t + 1 = Rounds BY <1>1
  <2>3. 3 * t + 3 < 3 * Rounds <=> t + 1 # Rounds BY <1>1
  <2> QED BY <2>1, <2>2, <2>3, XchgRemainder DEF Count
<1>4. (t + 1) % Rounds = IF t + 1 = Rounds THEN 0 ELSE t + 1
  <2>1. \A a \in 0 .. Rounds : a < Rounds => a % Rounds = a BY <1>1
  <2>2. Rounds % Rounds = 0 BY <1>1
  <2>3. t + 1 \in 0 .. Rounds BY <1>1
  <2> QED BY <2>1, <2>2, <2>3, <1>1
<1>5. \A e \in 0 .. 3 : Count(t, e) \in Xchg BY <1>1, <1>2, <1>3 DEF Xchg
<1>6. \A e \in 0 .. 2 : Count(t, e + 1) = Succ(Count(t, e))
  BY <1>1, <1>2, <1>3 DEF Succ
<1>7. (t + 1) % Rounds \in 0 .. Rounds - 1 BY <1>1, <1>4
<1>8. Count((t + 1) % Rounds, 0) = Count(t, 3)
  <2>1. Count(0, 0) = 0
    <3>1. 3 * 0 + 0 \in 0 .. 3 * Rounds /\ 3 * 0 + 0 < 3 * Rounds /\ 3 * 0 + 0 = 0 BY <1>1
    <3> QED BY <3>1, XchgRemainder DEF Count
  <2>2. CASE t + 1 = Rounds BY <2>1, <2>2, <1>3, <1>4
  <2>3. CASE t + 1 # Rounds
    <3>1. 3 * (t + 1) + 0 \in 0 .. 3 * Rounds /\ 3 * (t + 1) + 0 < 3 * Rounds BY <1>1, <2>3
    <3>2. 3 * (t + 1) + 0 = 3 * t + 3 BY <1>1
    <3> QED BY <3>1, <3>2, <2>3, <1>3, <1>4, XchgRemainder DEF Count
  <2> QED BY <2>2, <2>3
<1> QED BY <1>2, <1>5, <1>6, <1>7, <1>8

-------------------------------------------------------------------------------
(* Where a peer is, and what a turn makes of it.                           *)

\* The states a peer can be at, and the exchanges completed in each.
Place == Fsm \ {"STOP"}
\* Where each place of the exchange lies, and what the next one is.
LEMMA ExchangesInFacts ==
    ASSUME NEW s \in Place
    PROVE  /\ ExchangesIn[s] \in 0 .. 3
           /\ After[s] \in Place
           /\ s \in TxState => After[s] \in RxState /\ ExchangesIn[After[s]] = ExchangesIn[s]
           /\ s \in RxState => /\ After[s] \notin RxState
                               /\ ExchangesIn[s] \in 0 .. 2
                               /\ ExchangesIn[After[s]] = ExchangesIn[s] + 1
           /\ s \in TxState \cup RxState => ExchangesIn[s] = PhaseOf[TypeAt[s]]
           /\ s \in TxState \cup RxState => TypeAt[s] \in MsgType
           /\ s \in TxState => s \notin RxState
BY DEF Place, Fsm, TxState, RxState, ExchangesIn, After, PhaseOf, TypeAt, MsgType

\* The count of a peer lies in its range, and says how far into its round it is.
LEMMA ExchangesIs ==
    ASSUME FsmShape, NEW p \in Peer
    PROVE  /\ At(p) \in Place
           /\ task[p] \in 0 .. Rounds - 1
           /\ Exchanges(p) = Count(task[p], ExchangesIn[At(p)])
           /\ Exchanges(p) \in Xchg
           /\ ExchangesIn[At(p)] < 3 => Exchanges(p) = 3 * task[p] + ExchangesIn[At(p)]
<1>1. At(p) \in Place BY DEF FsmShape, At, Place
<1>2. task[p] \in 0 .. Rounds - 1 BY DEF FsmShape
<1>3. Exchanges(p) = Count(task[p], ExchangesIn[At(p)]) BY DEF Exchanges, Count
<1>4. ExchangesIn[At(p)] \in 0 .. 3 BY <1>1, ExchangesInFacts
<1>5. Exchanges(p) \in Xchg BY <1>2, <1>3, <1>4, CountFacts
<1>6. ExchangesIn[At(p)] < 3 => Exchanges(p) = 3 * task[p] + ExchangesIn[At(p)]
  <2>1. ExchangesIn[At(p)] < 3 => ExchangesIn[At(p)] \in 0 .. 2 BY <1>4
  <2> QED BY <2>1, <1>2, <1>3, CountFacts
<1> QED BY <1>1, <1>2, <1>3, <1>5, <1>6

\* A peer stays where it is.
Stays(p) ==
    /\ At(p)' = At(p)
    /\ Exchanges(p)' = Exchanges(p)

\* A peer goes on without completing an exchange.
Enters(p) ==
    /\ At(p) \notin RxState
    /\ Exchanges(p)' = Exchanges(p)
    /\ InHigh(p)' = InHigh(p)

\* A peer completes an exchange.
Completes(p) ==
    /\ At(p) \in RxState
    /\ At(p)' \notin RxState
    /\ Exchanges(p)' = Succ(Exchanges(p))
    /\ InHigh(p)' <=> At(p) = "START_RX"

\* A turn that does not pass leaves both peers where they are.
LEMMA NoPassStays ==
    ASSUME FsmShape, NEW p \in Peer, fsm[p] \in TxState \cup RxState,
           NoPass(p), task' = task
    PROVE  FsmShape' /\ \A q \in Peer : Stays(q)
<1>1. fsm[p] # "STOP" /\ fsm[p] \in Fsm BY DEF TxState, RxState, Fsm
<1>2. At(p) = fsm[p] BY <1>1 DEF At
<1>3. At(p)' = At(p) /\ fsm' \in [Peer -> Fsm] /\ snapshot' \in [Peer -> Fsm]
  <2>1. CASE Exhausted(p)
    BY <1>1, <1>2, <2>1 DEF NoPass, FsmShape, At, Fsm
  <2>2. CASE ~Exhausted(p)
    BY <1>1, <1>2, <2>2 DEF NoPass, FsmShape, At
  <2> QED BY <2>1, <2>2
<1>4. Stays(p) BY <1>3 DEF Stays, Exchanges
<1>5. Stays(Other(p))
  <2>1. fsm' = [fsm EXCEPT ![p] = "STOP"] \/ fsm' = fsm BY DEF NoPass
  <2>2. snapshot' = [snapshot EXCEPT ![p] = fsm[p]] \/ snapshot' = snapshot BY DEF NoPass
  <2> QED BY <2>1, <2>2, Peers DEF Stays, At, Exchanges, FsmShape
<1>6. \A q \in Peer : Stays(q) BY <1>4, <1>5, Peers
<1>7. \A q \in Peer : At(q)' # "STOP" BY <1>6 DEF Stays, FsmShape
<1>8. task' \in [Peer -> 0 .. Rounds - 1] BY DEF FsmShape
<1> QED BY <1>3, <1>6, <1>7, <1>8 DEF FsmShape

\* The state machine of p goes on to the next state.
LEMMA PassIs ==
    ASSUME FsmShape, NEW p \in Peer, fsm[p] # "STOP",
           fsm' = [fsm EXCEPT ![p] = After[fsm[p]]], snapshot' = snapshot,
           task' = task \/ task' = [task EXCEPT ![p] = (task[p] + 1) % Rounds]
    PROVE  /\ FsmShape'
           /\ Stays(Other(p))
           /\ At(p) = fsm[p]
           /\ At(p)' = After[At(p)]
           /\ Exchanges(p)' = Count(task'[p], ExchangesIn[After[At(p)]])
<1>1. At(p) = fsm[p] /\ At(p) \in Place BY DEF At, FsmShape, Place
<1>2. After[At(p)] \in Place BY <1>1, ExchangesInFacts
<1>3. At(p)' = After[At(p)] BY <1>1, <1>2 DEF At, FsmShape, Place
<1>4. Stays(Other(p)) BY Peers DEF Stays, At, Exchanges, FsmShape
<1>5. \A q \in Peer : At(q)' # "STOP"
  <2>1. At(Other(p))' # "STOP" BY <1>4, Peers DEF Stays, FsmShape
  <2>2. At(p)' # "STOP" BY <1>2, <1>3 DEF Place
  <2> QED BY <2>1, <2>2, Peers
<1>6. task' \in [Peer -> 0 .. Rounds - 1]
  <2>1. (task[p] + 1) % Rounds \in 0 .. Rounds - 1 BY CountFacts DEF FsmShape
  <2> QED BY <2>1 DEF FsmShape
<1>7. FsmShape' BY <1>1, <1>2, <1>5, <1>6 DEF FsmShape, Place
<1>8. Exchanges(p)' = Count(task'[p], ExchangesIn[After[At(p)]])
  BY <1>3 DEF Exchanges, Count
<1> QED BY <1>1, <1>3, <1>4, <1>7, <1>8

\* A turn that passes without a receive goes on in the same exchange.
LEMMA PassEnters ==
    ASSUME FsmShape, NEW p \in Peer,
           fsm' = [fsm EXCEPT ![p] = After[fsm[p]]], snapshot' = snapshot,
           \/ fsm[p] \in TxState \cup {"SETUP"} /\ task' = task
           \/ fsm[p] = "TASKING" /\ task' = [task EXCEPT ![p] = (task[p] + 1) % Rounds]
    PROVE  FsmShape' /\ Enters(p) /\ Stays(Other(p))
<1>1. fsm[p] # "STOP" BY DEF TxState
<1>2. /\ FsmShape'
      /\ Stays(Other(p))
      /\ At(p) = fsm[p]
      /\ At(p)' = After[At(p)]
      /\ Exchanges(p)' = Count(task'[p], ExchangesIn[After[At(p)]])
  BY <1>1, PassIs
<1>3. At(p) \notin RxState BY <1>2 DEF TxState, RxState
<1>4. Exchanges(p) = Count(task[p], ExchangesIn[At(p)]) /\ task[p] \in 0 .. Rounds - 1
  BY ExchangesIs
<1>5. Exchanges(p)' = Exchanges(p) /\ InHigh(p)' = InHigh(p)
  <2>1. CASE fsm[p] \in TxState \cup {"SETUP"} /\ task' = task
    <3>1. ExchangesIn[After[At(p)]] = ExchangesIn[At(p)]
      BY <2>1, <1>2 DEF TxState, ExchangesIn, After
    <3> QED BY <3>1, <2>1, <1>2, <1>4 DEF InHigh
  <2>2. CASE fsm[p] = "TASKING" /\ task' = [task EXCEPT ![p] = (task[p] + 1) % Rounds]
    <3>1. ExchangesIn[After[At(p)]] = 0 /\ ExchangesIn[At(p)] = 3
      BY <2>2, <1>2 DEF ExchangesIn, After
    <3>2. task'[p] = (task[p] + 1) % Rounds BY <2>2 DEF FsmShape
    <3> QED BY <3>1, <3>2, <1>2, <1>4, CountFacts DEF InHigh
  <2> QED BY <2>1, <2>2
<1> QED BY <1>2, <1>3, <1>5 DEF Enters

\* A turn that passes with a receive completes the exchange.
LEMMA PassCompletes ==
    ASSUME FsmShape, NEW p \in Peer, fsm[p] \in RxState, Pass(p), task' = task
    PROVE  FsmShape' /\ Completes(p) /\ Stays(Other(p)) /\ At(p) = fsm[p]
<1>1. fsm[p] # "STOP" BY DEF RxState
<1>2. /\ FsmShape'
      /\ Stays(Other(p))
      /\ At(p) = fsm[p]
      /\ At(p)' = After[At(p)]
      /\ Exchanges(p)' = Count(task'[p], ExchangesIn[After[At(p)]])
  BY <1>1, PassIs DEF Pass
<1>3. Exchanges(p) = Count(task[p], ExchangesIn[At(p)]) /\ task[p] \in 0 .. Rounds - 1
  BY ExchangesIs
<1>4. At(p) \in Place BY ExchangesIs
<1>5. /\ After[At(p)] \notin RxState
      /\ ExchangesIn[At(p)] \in 0 .. 2
      /\ ExchangesIn[After[At(p)]] = ExchangesIn[At(p)] + 1
  BY <1>2, <1>4, ExchangesInFacts
<1>6. Exchanges(p)' = Succ(Exchanges(p)) BY <1>2, <1>3, <1>5, CountFacts
<1>7. InHigh(p)' <=> At(p) = "START_RX"
  <2>1. At(p) \in RxState BY <1>2
  <2>2. ExchangesIn[At(p)] = 0 <=> At(p) = "START_RX" BY <2>1 DEF RxState, ExchangesIn
  <2> QED BY <2>2, <1>2, <1>5 DEF InHigh
<1> QED BY <1>2, <1>5, <1>6, <1>7 DEF Completes

-------------------------------------------------------------------------------
(* The leads of the peers.                                                 *)

\* The leads are opposite, and follow the peers.
LEMMA LeadFacts ==
    ASSUME FsmShape, NEW p \in Peer, LeadBounded(p)
    PROVE  /\ Lead(p) \in -2 .. 2
           /\ Lead(Other(p)) = -Lead(p)
           /\ Lead(p) = 0 <=> Exchanges(p) = Exchanges(Other(p))
           /\ Lead(p) = 1 <=> Exchanges(p) = Succ(Exchanges(Other(p)))
<1>1. Exchanges(p) \in Xchg /\ Exchanges(Other(p)) \in Xchg BY ExchangesIs, Peers
<1>2. Lead(p) = Ahead(Exchanges(Other(p)), Exchanges(p)) BY DEF Lead
<1>3. Lead(Other(p)) = Ahead(Exchanges(p), Exchanges(Other(p))) BY Peers DEF Lead
<1>4. Lead(p) \in -2 .. 2 BY DEF LeadBounded
<1>5. Lead(Other(p)) = -Lead(p)
  <2>1. Ahead(Exchanges(Other(p)), Exchanges(p)) \in -2 .. 2 BY <1>2, <1>4
  <2>2. Ahead(Exchanges(p), Exchanges(Other(p))) = -Ahead(Exchanges(Other(p)), Exchanges(p))
    BY ONLY <2>1, <1>1, AheadFacts
  <2> QED BY <2>2, <1>2, <1>3
<1>6. Lead(p) = 0 <=> Exchanges(p) = Exchanges(Other(p))
  <2>1. Ahead(Exchanges(Other(p)), Exchanges(p)) = 0 <=> Exchanges(Other(p)) = Exchanges(p)
    BY ONLY <1>1, AheadFacts
  <2> QED BY <2>1, <1>2
<1>7. Lead(p) = 1 <=> Exchanges(p) = Succ(Exchanges(Other(p)))
  <2>1. Ahead(Exchanges(Other(p)), Exchanges(p)) = 1 <=> Exchanges(p) = Succ(Exchanges(Other(p)))
    BY ONLY <1>1, AheadFacts
  <2> QED BY <2>1, <1>2
<1> QED BY <1>4, <1>5, <1>6, <1>7

\* A turn that completes no exchange keeps the leads and their bounds.
LEMMA LeadKept ==
    ASSUME NEW p \in Peer, LeadBounded(p),
           Stays(p) \/ Enters(p), Stays(Other(p)) \/ Enters(Other(p)),
           ended => ended'
    PROVE  LeadBounded(p)' /\ Lead(p)' = Lead(p)
<1>1. Exchanges(p)' = Exchanges(p) /\ InHigh(p)' = InHigh(p) BY DEF Stays, Enters, InHigh
<1>2. Exchanges(Other(p))' = Exchanges(Other(p)) BY DEF Stays, Enters
<1>3. Lead(p)' = Lead(p) BY <1>1, <1>2 DEF Lead
<1>4. At(Other(p)) \in RxState => At(Other(p))' \in RxState BY DEF Stays, Enters
<1>5. Lead(p)' \in -2 .. 2 BY <1>3 DEF LeadBounded
<1>6. Lead(p)' = 1 => At(Other(p))' \in RxState \/ (ended' /\ InHigh(p)')
  BY <1>1, <1>3, <1>4 DEF LeadBounded
<1>7. Lead(p)' = 2 => At(Other(p))' \in RxState /\ ended' /\ InHigh(p)'
  BY <1>1, <1>3, <1>4 DEF LeadBounded
<1> QED BY <1>3, <1>5, <1>6, <1>7 DEF LeadBounded

\* An exchange is completed by a message that the other peer has sent, or by an
\* end of stream taken for its START.
MayComplete(p) ==
    \/ Lead(p) <= 0 /\ (Lead(p) = 0 => At(Other(p)) \in RxState)
    \/ ended /\ At(p) = "START_RX"

\* Then the lead grows by one, and stays in its bounds.
LEMMA LeadGrows ==
    ASSUME FsmShape, NEW p \in Peer, LeadBounded(p), LeadBounded(Other(p)),
           MayComplete(p), Completes(p), Stays(Other(p)), ended' = ended
    PROVE  /\ Lead(p) \in -2 .. 1
           /\ Lead(p)' = Lead(p) + 1
           /\ Lead(Other(p))' = Lead(Other(p)) - 1
           /\ LeadBounded(p)'
           /\ LeadBounded(Other(p))'
<1> DEFINE q == Other(p)
<1>1. q \in Peer /\ Other(q) = p BY Peers
<1>2. Exchanges(p) \in Xchg /\ Exchanges(q) \in Xchg BY ExchangesIs, <1>1
<1>3. Lead(p) \in -2 .. 2 /\ Lead(q) = -Lead(p) BY LeadFacts
<1>4. ~InHigh(p) \/ Lead(p) \in -2 .. 0
  <2>1. CASE ended /\ At(p) = "START_RX" BY <2>1 DEF InHigh, ExchangesIn
  <2>2. CASE Lead(p) <= 0 BY <2>2, <1>3
  <2> QED BY <2>1, <2>2 DEF MayComplete
<1>5. Lead(p) # 2 BY <1>4 DEF LeadBounded
<1>6. Lead(p) \in -2 .. 1 BY <1>3, <1>5
<1>7. /\ Exchanges(q)' = Exchanges(q) /\ At(q)' = At(q)
      /\ Exchanges(p)' = Succ(Exchanges(p))
  BY DEF Stays, Completes
<1>8. Lead(p)' = Lead(p) + 1
  <2>1. Lead(p) = Ahead(Exchanges(q), Exchanges(p)) BY DEF Lead
  <2>2. Lead(p)' = Ahead(Exchanges(q), Succ(Exchanges(p))) BY <1>7 DEF Lead
  <2>3. Ahead(Exchanges(q), Exchanges(p)) \in -2 .. 1 BY <2>1, <1>6
  <2>4. Ahead(Exchanges(q), Succ(Exchanges(p))) = Ahead(Exchanges(q), Exchanges(p)) + 1
    BY ONLY <2>3, <1>2, AheadFacts
  <2> QED BY <2>1, <2>2, <2>4
<1>9. Lead(q)' = Lead(q) - 1
  <2>1. Lead(q) = Ahead(Exchanges(p), Exchanges(q)) BY <1>1 DEF Lead
  <2>2. Lead(q)' = Ahead(Succ(Exchanges(p)), Exchanges(q)) BY <1>1, <1>7 DEF Lead
  <2>3. Lead(q) \in -1 .. 2 BY <1>3, <1>6
  <2> QED BY <2>1, <2>2, <2>3, <1>2, AheadFacts
<1>10. InHigh(p)' <=> At(p) = "START_RX" BY DEF Completes
<1>11. InHigh(q)' = InHigh(q) BY <1>7 DEF InHigh
<1>12. LeadBounded(p)'
  <2>1. Lead(p)' \in -2 .. 2 BY <1>6, <1>8
  <2>2. Lead(p)' = 1 => At(q)' \in RxState \/ (ended' /\ InHigh(p)')
    <3> SUFFICES ASSUME Lead(p)' = 1 PROVE At(q)' \in RxState \/ (ended' /\ InHigh(p)')
      OBVIOUS
    <3>1. Lead(p) = 0 BY <1>6, <1>8
    <3> QED BY <3>1, <1>7, <1>10 DEF MayComplete
  <2>3. Lead(p)' = 2 => At(q)' \in RxState /\ ended' /\ InHigh(p)'
    <3> SUFFICES ASSUME Lead(p)' = 2 PROVE At(q)' \in RxState /\ ended' /\ InHigh(p)'
      OBVIOUS
    <3>1. Lead(p) = 1 BY <1>6, <1>8
    <3>2. ended /\ At(p) = "START_RX" BY <3>1 DEF MayComplete
    <3>3. ~InHigh(p) BY <3>2 DEF InHigh, ExchangesIn
    <3>4. At(q) \in RxState BY <3>1, <3>3 DEF LeadBounded
    <3> QED BY <3>2, <3>4, <1>7, <1>10
  <2> QED BY <2>1, <2>2, <2>3 DEF LeadBounded
<1>13. LeadBounded(q)'
  <2>1. Lead(q)' \in -2 .. 1 BY <1>3, <1>6, <1>9
  <2>2. Lead(q)' = 1 => ended' /\ InHigh(q)'
    <3>1. Lead(q)' = 1 => Lead(q) = 2 BY <1>3, <1>9
    <3> QED BY <3>1, <1>11 DEF LeadBounded
  <2> QED BY <2>1, <2>2, <1>1 DEF LeadBounded
<1> QED BY <1>6, <1>8, <1>9, <1>12, <1>13

-------------------------------------------------------------------------------
(* The messages on their way.                                              *)

\* A fresh message is of an exchange near that of its receiver.
LEMMA FreshPos ==
    ASSUME FsmShape, NEW p \in Peer, NEW m, Fresh(p, m), LeadBounded(Other(p))
    PROVE  /\ m.xchg \in Xchg
           /\ Pos(p, m) \in -1 .. 2
           /\ Pos(p, m) <= Lead(Other(p))
<1>1. Exchanges(p) \in Xchg BY ExchangesIs
<1>2. m.xchg \in Xchg
  <2>1. PICK k \in 0 .. Rounds - 1 : m.xchg = 3 * k + PhaseOf[m.type] BY DEF Fresh
  <2>2. PhaseOf[m.type] \in 0 .. 2 BY DEF Fresh, Msg, MsgType, PhaseOf
  <2>3. Rounds \in Nat BY SyncAssumption
  <2> QED BY <2>1, <2>2, <2>3 DEF Xchg
<1>3. Pos(p, m) \in Int BY <1>1, <1>2, AheadFacts DEF Pos
<1>4. Lead(Other(p)) \in -2 .. 2 BY DEF LeadBounded
<1>5. Pos(p, m) <= Lead(Other(p)) BY <1>3, <1>4 DEF Fresh
<1>6. Pos(p, m) >= -1 BY <1>3 DEF Fresh
<1> QED BY <1>2, <1>3, <1>4, <1>5, <1>6

\* A fresh message of the type its receiver waits for is of the exchange the
\* receiver is in.
LEMMA MatchIsCurrent ==
    ASSUME FsmShape, NEW p \in Peer, NEW m, Fresh(p, m), LeadBounded(Other(p)),
           fsm[p] \in RxState, m.type = TypeAt[fsm[p]]
    PROVE  Pos(p, m) = 0 /\ m.xchg = Exchanges(p)
<1>1. PICK k \in 0 .. Rounds - 1 : m.xchg = 3 * k + PhaseOf[m.type] BY DEF Fresh
<1>2. At(p) = fsm[p] /\ fsm[p] \in Place BY DEF At, RxState, Place, Fsm
<1>3. ExchangesIn[fsm[p]] \in 0 .. 2 /\ ExchangesIn[fsm[p]] = PhaseOf[m.type]
  BY <1>2, ExchangesInFacts
<1>4. PICK t \in 0 .. Rounds - 1 : Exchanges(p) = 3 * t + PhaseOf[m.type]
  BY <1>2, <1>3, ExchangesIs
<1>5. m.xchg - Exchanges(p) = 3 * (k - t) BY <1>1, <1>3, <1>4
<1>6. m.xchg \in Xchg /\ Exchanges(p) \in Xchg /\ Pos(p, m) \in -1 .. 2 BY FreshPos, ExchangesIs
<1>7. Pos(p, m) \in {3 * (k - t), 3 * (k - t - Rounds), 3 * (k - t + Rounds)}
  BY <1>5, <1>6, SyncAssumption DEF Pos, Ahead, Xchg
<1>8. Pos(p, m) = 0 BY <1>6, <1>7, SyncAssumption
<1> QED BY <1>6, <1>8, AheadFacts DEF Pos

\* Messages stay fresh while nobody completes an exchange.
LEMMA FreshKept ==
    ASSUME NEW p \in Peer, NEW m, Fresh(p, m),
           Stays(p) \/ Enters(p), Stays(Other(p)) \/ Enters(Other(p)),
           ended => ended',
           Lead(Other(p)) \in Int, Pos(p, m) \in Int
    PROVE  Fresh(p, m)' /\ Pos(p, m)' = Pos(p, m)
<1>1. Exchanges(p)' = Exchanges(p) /\ InHigh(p)' = InHigh(p) BY DEF Stays, Enters, InHigh
<1>2. Exchanges(Other(p))' = Exchanges(Other(p)) BY DEF Stays, Enters
<1>3. Lead(Other(p))' = Lead(Other(p)) BY <1>1, <1>2, Peers DEF Lead
<1>4. Pos(p, m)' = Pos(p, m) BY <1>1 DEF Pos
<1>5. Pos(p, m) >= IF ended' /\ InHigh(p)' THEN -1 ELSE 0 BY <1>1 DEF Fresh
<1>6. At(Other(p)) \in RxState => At(Other(p))' \in RxState BY DEF Stays, Enters
<1>7. Pos(p, m) <= Lead(Other(p)) - (IF At(Other(p))' \in RxState THEN 0 ELSE 1)
  BY <1>6 DEF Fresh
<1> QED BY <1>3, <1>4, <1>5, <1>7 DEF Fresh

\* Messages to a peer stay fresh when the other one completes an exchange.
LEMMA FreshOtherCompletes ==
    ASSUME NEW p \in Peer, NEW m, Fresh(p, m),
           Stays(p), Completes(Other(p)), ended' = ended,
           Lead(Other(p)) \in Int, Lead(Other(p))' = Lead(Other(p)) + 1
    PROVE  Fresh(p, m)' /\ Pos(p, m)' = Pos(p, m)
<1>1. Exchanges(p)' = Exchanges(p) /\ InHigh(p)' = InHigh(p) BY DEF Stays, InHigh
<1>2. Pos(p, m)' = Pos(p, m) BY <1>1 DEF Pos
<1>3. Lead(Other(p))' - (IF At(Other(p))' \in RxState THEN 0 ELSE 1) = Lead(Other(p))
  BY DEF Completes
<1>4. Pos(p, m) <= Lead(Other(p)) BY DEF Fresh, Completes
<1> QED BY <1>1, <1>2, <1>3, <1>4 DEF Fresh

\* A message that comes after the one that completes an exchange stays fresh,
\* and so does every one after an end of stream taken for a START.
LEMMA FreshCompletes ==
    ASSUME FsmShape, NEW p \in Peer, NEW m, Fresh(p, m), LeadBounded(Other(p)),
           Completes(p), Stays(Other(p)), ended' = ended,
           Lead(Other(p))' = Lead(Other(p)) - 1,
           Pos(p, m) > 0 \/ (ended /\ At(p) = "START_RX")
    PROVE  Fresh(p, m)' /\ Pos(p, m)' = Pos(p, m) - 1
<1>1. m.xchg \in Xchg /\ Exchanges(p) \in Xchg /\ Pos(p, m) \in -1 .. 2 BY FreshPos, ExchangesIs
<1>2. Pos(p, m)' = Pos(p, m) - 1
  <2>1. Pos(p, m)' = Ahead(Succ(Exchanges(p)), m.xchg) BY DEF Pos, Completes
  <2> QED BY <2>1, <1>1, AheadFacts DEF Pos
<1>3. At(Other(p))' = At(Other(p)) BY DEF Stays
<1>4. Lead(Other(p)) \in Int BY DEF LeadBounded
<1>5. Pos(p, m)' <= Lead(Other(p))' - (IF At(Other(p))' \in RxState THEN 0 ELSE 1)
  BY <1>1, <1>2, <1>3, <1>4 DEF Fresh
<1>6. Pos(p, m)' >= IF ended' /\ InHigh(p)' THEN -1 ELSE 0
  <2>1. CASE Pos(p, m) > 0 BY <2>1, <1>1, <1>2
  <2>2. CASE ended /\ At(p) = "START_RX"
    <3>1. ~InHigh(p) BY <2>2 DEF InHigh, ExchangesIn
    <3>2. Pos(p, m) >= 0 BY <3>1 DEF Fresh
    <3>3. ended' /\ InHigh(p)' BY <2>2 DEF Completes
    <3> QED BY <3>2, <3>3, <1>1, <1>2
  <2> QED BY <2>1, <2>2
<1> QED BY <1>2, <1>5, <1>6 DEF Fresh

-------------------------------------------------------------------------------
(* The streams of messages.                                                *)

\* Entry i of place a is received before entry j of place b.
Before(a, i, b, j) == a < b \/ (a = b /\ i < j)

\* Message m to p stays fresh, and d exchanges nearer.
Carried(p, m, d) == Fresh(p, m) => Fresh(p, m)' /\ Pos(p, m)' = Pos(p, m) - d

\* A stream stays sound and ordered if each entry of it is an end of stream or
\* was entry ix[a][i] of place pl[a][i] before the step, in the same order, and
\* the messages in it are carried alike.
LEMMA StreamKept ==
    ASSUME FsmShape, NEW p \in Peer, LeadBounded(Other(p)), Sound(p), Ordered(p),
           ended => ended',
           NEW d \in Int, NEW pl, NEW ix,
           \A a \in Places : \A i \in 1 .. Len(Stream(p, a)') :
              \/ Stream(p, a)'[i] = Phantom /\ ended'
              \/ /\ pl[a][i] \in Places
                 /\ ix[a][i] \in 1 .. Len(Stream(p, pl[a][i]))
                 /\ Stream(p, a)'[i] = Stream(p, pl[a][i])[ix[a][i]]
                 /\ \A m : m = Stream(p, a)'[i] => Carried(p, m, d),
           \A a, b \in Places :
              \A i \in 1 .. Len(Stream(p, a)'), j \in 1 .. Len(Stream(p, b)') :
                 Before(a, i, b, j) => Before(pl[a][i], ix[a][i], pl[b][j], ix[b][j])
    PROVE  Sound(p)' /\ Ordered(p)'
<1>1. ASSUME NEW a \in Places, NEW i \in 1 .. Len(Stream(p, a)')
      PROVE  \/ Stream(p, a)'[i] = Phantom /\ ended'
             \/ /\ pl[a][i] \in Places
                /\ ix[a][i] \in 1 .. Len(Stream(p, pl[a][i]))
                /\ Stream(p, a)'[i] = Stream(p, pl[a][i])[ix[a][i]]
                /\ \A m : m = Stream(p, a)'[i] =>
                      Fresh(p, m) /\ Fresh(p, m)' /\ Pos(p, m) \in Int /\ Pos(p, m)' = Pos(p, m) - d
  <2>1. PICK m : m = Stream(p, a)'[i] OBVIOUS
  <2>2. CASE m = Phantom /\ ended' BY <2>1, <2>2
  <2>3. CASE ~(m = Phantom /\ ended')
    <3>1. /\ pl[a][i] \in Places
          /\ ix[a][i] \in 1 .. Len(Stream(p, pl[a][i]))
          /\ m = Stream(p, pl[a][i])[ix[a][i]]
          /\ Carried(p, m, d)
      BY <2>1, <2>3
    <3>2. Fresh(p, m)
      <4>1. Fresh(p, m) \/ (m = Phantom /\ ended) BY <3>1 DEF Sound
      <4> QED BY <4>1, <2>3
    <3>3. Pos(p, m) \in Int
      <4>1. Pos(p, m) \in -1 .. 2 BY <3>2, FreshPos
      <4> QED BY <4>1
    <3> QED BY <2>1, <3>1, <3>2, <3>3 DEF Carried
  <2> QED BY <2>2, <2>3
<1>2. Sound(p)'
  <2>1. ASSUME NEW a \in Places, NEW i \in 1 .. Len(Stream(p, a)')
        PROVE  (Fresh(p, Stream(p, a)[i]) \/ (Stream(p, a)[i] = Phantom /\ ended))'
    <3>1. PICK m : m = Stream(p, a)'[i] OBVIOUS
    <3>2. Fresh(p, m)' \/ (m = Phantom /\ ended') BY <3>1, <1>1
    <3> QED BY <3>1, <3>2
  <2> QED BY <2>1 DEF Sound
<1>3. Ordered(p)'
  <2>1. ASSUME NEW a \in Places, NEW b \in Places,
               NEW i \in 1 .. Len(Stream(p, a)'), NEW j \in 1 .. Len(Stream(p, b)'),
               a < b \/ (a = b /\ i < j),
               Stream(p, a)'[i] # Phantom, Stream(p, b)'[j] # Phantom
        PROVE  (Pos(p, Stream(p, a)[i]) < Pos(p, Stream(p, b)[j]))'
    <3>1. PICK m : m = Stream(p, a)'[i] OBVIOUS
    <3>2. PICK n : n = Stream(p, b)'[j] OBVIOUS
    <3>3. /\ pl[a][i] \in Places
          /\ ix[a][i] \in 1 .. Len(Stream(p, pl[a][i]))
          /\ m = Stream(p, pl[a][i])[ix[a][i]]
          /\ Pos(p, m) \in Int /\ Pos(p, m)' = Pos(p, m) - d
      <4>1. Stream(p, a)'[i] # Phantom BY <2>1
      <4> QED BY ONLY <4>1, a \in Places, i \in 1 .. Len(Stream(p, a)'), <3>1, <1>1
    <3>4. /\ pl[b][j] \in Places
          /\ ix[b][j] \in 1 .. Len(Stream(p, pl[b][j]))
          /\ n = Stream(p, pl[b][j])[ix[b][j]]
          /\ Pos(p, n) \in Int /\ Pos(p, n)' = Pos(p, n) - d
      <4>1. Stream(p, b)'[j] # Phantom BY <2>1
      <4> QED BY ONLY <4>1, b \in Places, j \in 1 .. Len(Stream(p, b)'), <3>2, <1>1
    <3>5. Before(pl[a][i], ix[a][i], pl[b][j], ix[b][j]) BY <2>1 DEF Before
    <3>6. m # Phantom /\ n # Phantom BY <2>1, <3>1, <3>2
    <3>7. Pos(p, m) < Pos(p, n) BY <3>3, <3>4, <3>5, <3>6 DEF Ordered, Before
    <3>8. Pos(p, m)' < Pos(p, n)' BY <3>3, <3>4, <3>7
    <3> QED BY <3>1, <3>2, <3>8
  <2> QED BY <2>1 DEF Ordered
<1> QED BY <1>2, <1>3

\* A stream stays sound and ordered if every place keeps a part of what is in
\* it, from some entry on, and the messages in it are carried alike.
LEMMA StreamShrinks ==
    ASSUME FsmShape, NEW p \in Peer, LeadBounded(Other(p)), Sound(p), Ordered(p),
           ended => ended',
           NEW d \in Int, NEW off,
           \A a \in Places :
              /\ off[a] \in Nat
              /\ Len(Stream(p, a)') \in Nat
              /\ \A i \in 1 .. Len(Stream(p, a)') :
                   /\ i + off[a] \in 1 .. Len(Stream(p, a))
                   /\ Stream(p, a)'[i] = Stream(p, a)[i + off[a]]
                   /\ \A m : m = Stream(p, a)'[i] => Carried(p, m, d)
    PROVE  Sound(p)' /\ Ordered(p)'
<1>1. PICK pl : pl = [a \in Places |-> [i \in Nat |-> a]] OBVIOUS
<1>2. PICK ix : ix = [a \in Places |-> [i \in Nat |-> i + off[a]]] OBVIOUS
<1>3. ASSUME NEW a \in Places, NEW i \in 1 .. Len(Stream(p, a)')
      PROVE  /\ pl[a][i] = a
             /\ ix[a][i] = i + off[a]
             /\ i \in Nat
  <2>1. i \in Nat OBVIOUS
  <2> QED BY <2>1, <1>1, <1>2
<1>4. \A a \in Places : \A i \in 1 .. Len(Stream(p, a)') :
         \/ Stream(p, a)'[i] = Phantom /\ ended'
         \/ /\ pl[a][i] \in Places
            /\ ix[a][i] \in 1 .. Len(Stream(p, pl[a][i]))
            /\ Stream(p, a)'[i] = Stream(p, pl[a][i])[ix[a][i]]
            /\ \A m : m = Stream(p, a)'[i] => Carried(p, m, d)
  BY <1>3
<1>5. \A a, b \in Places :
         \A i \in 1 .. Len(Stream(p, a)'), j \in 1 .. Len(Stream(p, b)') :
            Before(a, i, b, j) => Before(pl[a][i], ix[a][i], pl[b][j], ix[b][j])
  <2> TAKE a, b \in Places
  <2> TAKE i \in 1 .. Len(Stream(p, a)'), j \in 1 .. Len(Stream(p, b)')
  <2>1. i \in Nat /\ j \in Nat /\ off[a] \in Nat BY <1>3
  <2>2. pl[a][i] = a /\ pl[b][j] = b BY <1>3
  <2>3. ix[a][i] = i + off[a] /\ ix[b][j] = j + off[b] BY <1>3
  <2> QED BY <2>1, <2>2, <2>3 DEF Before
<1> QED BY <1>4, <1>5, StreamKept

\* The streams are sequences.
LEMMA StreamSeq ==
    ASSUME NetShape, NEW p \in Peer, NEW a \in Places
    PROVE  /\ Stream(p, a) \in Seq(Msg \cup {Phantom})
           /\ Len(Stream(p, a)) \in Nat
<1>1. MaxConn \in Nat \ {0} BY SyncAssumption
<1>2. CASE a = 0 BY <1>2 DEF Stream, NetShape
<1>3. CASE a = 1
  <2>1. Stream(p, a) = <<>> \/ (Stream(p, a) = <<hand[p]>> /\ hand[p] \in Msg \cup {Phantom})
    BY <1>3 DEF Stream, NetShape
  <2>2. CASE Stream(p, a) = <<>>
    <3>1. <<>> \in Seq(Msg \cup {Phantom}) /\ Len(<<>>) = 0 OBVIOUS
    <3> QED BY <3>1, <2>2
  <2>3. CASE Stream(p, a) = <<hand[p]>> /\ hand[p] \in Msg \cup {Phantom}
    <3>1. \A S : \A h \in S : <<h>> \in Seq(S) /\ Len(<<h>>) = 1 OBVIOUS
    <3> QED BY <3>1, <2>3
  <2> QED BY <2>1, <2>2, <2>3
<1>4. CASE a \notin {0, 1}
  <2>1. a - 1 \in Conn BY <1>1, <1>4 DEF Places, Conn
  <2>2. wire[p][a - 1] \in Seq(Msg) BY <2>1 DEF NetShape
  <2>3. Stream(p, a) = wire[p][a - 1] BY <1>4 DEF Stream
  <2>4. Stream(p, a) \in Seq(Msg \cup {Phantom}) BY <2>2, <2>3
  <2> QED BY <2>4
<1> QED BY <1>2, <1>3, <1>4

-------------------------------------------------------------------------------
(* The types of the network's part of the state.                           *)

\* What is kept for each end of each connection, after a change of one.
LEMMA PairUpdate ==
    ASSUME NEW S, NEW f \in [Peer -> [Conn -> S]],
           NEW p \in Peer, NEW c \in Conn, NEW s \in S
    PROVE  /\ [f EXCEPT ![p][c] = s] \in [Peer -> [Conn -> S]]
           /\ [f EXCEPT ![p][c] = s][p][c] = s
           /\ \A q \in Peer, d \in Conn :
                 q # p \/ d # c => [f EXCEPT ![p][c] = s][q][d] = f[q][d]
OBVIOUS

\* The message that p sends.
LEMMA SentIsMsg ==
    ASSUME FsmShape, NEW p \in Peer, fsm[p] \in TxState, NEW n \in Lens
    PROVE  [type |-> TypeAt[fsm[p]], len |-> n, xchg |-> Exchanges(p)] \in Msg
<1>1. fsm[p] \in Place BY DEF Place, Fsm, TxState
<1>2. TypeAt[fsm[p]] \in MsgType BY <1>1, ExchangesInFacts
<1>3. Exchanges(p) \in 0 .. Nowhere
  <2>1. Exchanges(p) \in Xchg BY ExchangesIs
  <2> QED BY <2>1, XchgBound DEF Xchg, Nowhere
<1> QED BY <1>2, <1>3 DEF Msg

\* The actions of the connections and the entry threads keep the types.
LEMMA NetActionsShape ==
    ASSUME NetShape, ConnectionsOrdered,
           \/ ClientEntry
           \/ Accept
           \/ \E p \in Peer, c \in Conn : Break(p, c) \/ Finish(p, c)
    PROVE  NetShape'
<1>1. MaxConn \in Nat \ {0} /\ Client \in Peer /\ Server \in Peer BY SyncAssumption DEF Peer
<1>2. ASSUME NEW p \in Peer, NEW c, Close(p, c)
      PROVE  sock' \in [Peer -> [Conn -> SockEnd]] /\ wire' \in [Peer -> [Conn -> Seq(Msg)]]
  <2>1. CASE c \in Conn
    <3>1. "closed" \in SockEnd BY DEF SockEnd
    <3>2. <<>> \in Seq(Msg) OBVIOUS
    <3>3. sock' = [sock EXCEPT ![p][c] = "closed"] /\ wire' = [wire EXCEPT ![p][c] = <<>>]
      BY <2>1, <1>2 DEF Close
    <3>4. sock \in [Peer -> [Conn -> SockEnd]] /\ wire \in [Peer -> [Conn -> Seq(Msg)]]
      BY DEF NetShape
    <3>5. p \in Peer OBVIOUS
    <3>6. [sock EXCEPT ![p][c] = "closed"] \in [Peer -> [Conn -> SockEnd]]
      BY ONLY <3>1, <3>4, <3>5, <2>1, PairUpdate
    <3>7. [wire EXCEPT ![p][c] = <<>>] \in [Peer -> [Conn -> Seq(Msg)]]
      BY ONLY <3>2, <3>4, <3>5, <2>1, PairUpdate
    <3> QED BY <3>3, <3>6, <3>7
  <2>2. CASE c \notin Conn BY <2>2, <1>2 DEF Close, NetShape
  <2> QED BY <2>1, <2>2
<1>3. CASE NewSocket
  BY <1>3, <1>1 DEF NewSocket, NetShape, netVars, fsmVars
<1>4. CASE Connect
  <2>1. made' \in Conn BY <1>4, <1>1 DEF Connect, ConnectionsOrdered, Conn
  <2>2. fd' \in [Peer -> Conn \cup {NoSocket, Unconnected}]
    BY <2>1, <1>4 DEF Connect, NetShape
  <2>3. sock' \in [Peer -> [Conn -> SockEnd]]
    <3>1. "up" \in SockEnd BY DEF SockEnd
    <3> QED BY <3>1, <2>1, <1>4 DEF Connect, NetShape
  <2> QED BY <2>2, <2>3, <1>4 DEF Connect, NetShape
<1>5. CASE ConnectFails
  BY <1>5, <1>1 DEF ConnectFails, NetShape
<1>6. CASE ClientLost
  <2>1. sock' \in [Peer -> [Conn -> SockEnd]] /\ wire' \in [Peer -> [Conn -> Seq(Msg)]]
    BY <1>1, <1>2, <1>6 DEF ClientLost
  <2> QED BY <2>1, <1>6 DEF ClientLost, NetShape
<1>7. CASE Accept
  <2>1. sock' \in [Peer -> [Conn -> SockEnd]] /\ wire' \in [Peer -> [Conn -> Seq(Msg)]]
    BY <1>1, <1>2, <1>7 DEF Accept
  <2>2. Head(backlog) \in Conn BY <1>7 DEF Accept, ConnectionsOrdered
  <2> QED BY <2>1, <2>2, <1>7 DEF Accept, NetShape
<1>8. ASSUME NEW p \in Peer, NEW c \in Conn, Break(p, c)
      PROVE  NetShape'
  <2>1. sock' \in [Peer -> [Conn -> SockEnd]]
    <3>1. "error" \in SockEnd BY DEF SockEnd
    <3> QED BY <3>1, <1>8 DEF Break, NetShape
  <2>2. wire' \in [Peer -> [Conn -> Seq(Msg)]]
    <3>1. PICK n \in 0 .. Len(wire[p][c]) : wire' = [wire EXCEPT ![p][c] = SubSeq(@, 1, n)]
      BY <1>8 DEF Break
    <3>2. wire[p][c] \in Seq(Msg) BY DEF NetShape
    <3>3. SubSeq(wire[p][c], 1, n) \in Seq(Msg) BY <3>2, SubSeqProperties
    <3> QED BY <3>1, <3>3 DEF NetShape
  <2> QED BY <2>1, <2>2, <1>8 DEF Break, NetShape, netVars
<1>9. ASSUME NEW p \in Peer, NEW c \in Conn, Finish(p, c)
      PROVE  NetShape'
  <2>1. "ended" \in SockEnd BY DEF SockEnd
  <2> QED BY <2>1, <1>9 DEF Finish, NetShape, netVars
<1> QED BY <1>3, <1>4, <1>5, <1>6, <1>7, <1>8, <1>9 DEF ClientEntry

\* So do those of the receive task.
LEMMA ReceiverShape ==
    ASSUME NetShape, NEW p \in Peer, Receiver(p)
    PROVE  NetShape'
<1>1. CASE RecvTask(p)
  <2>1. wire[p][fd[p]] \in Seq(Msg) /\ wire[p][fd[p]] # <<>> /\ fd[p] \in Conn
    BY <1>1 DEF RecvTask, NetShape
  <2>2. Head(wire[p][fd[p]]) \in Msg /\ Tail(wire[p][fd[p]]) \in Seq(Msg) BY <2>1
  <2> QED BY <2>1, <2>2, <1>1 DEF RecvTask, NetShape, netVars
<1>2. CASE RecvError(p)
  <2>1. "broken" \in SockEnd BY DEF SockEnd
  <2>2. sock' \in [Peer -> [Conn -> SockEnd]] BY <2>1, <1>2 DEF RecvError, NetShape
  <2> QED BY <2>2, <1>2 DEF RecvError, NetShape, netVars
<1>3. CASE RecvEnd(p)
  BY <1>3 DEF RecvEnd, NetShape, netVars
<1>4. CASE PushHand(p)
  <2>1. hand[p] \in Msg \cup {Phantom} /\ fifo[p] \in Seq(Msg \cup {Phantom})
    BY <1>4 DEF PushHand, NetShape
  <2>2. Append(fifo[p], hand[p]) \in Seq(Msg \cup {Phantom}) BY <2>1
  <2>3. fifo' \in [Peer -> Seq(Msg \cup {Phantom})] BY <2>2, <1>4 DEF PushHand, NetShape
  <2>4. hand' \in [Peer -> Msg \cup {Phantom, NoMsg}] BY <1>4 DEF PushHand, NetShape
  <2> QED BY <2>3, <2>4, <1>4 DEF PushHand, NetShape, netVars
<1> QED BY <1>1, <1>2, <1>3, <1>4 DEF Receiver

\* So do the turns of the state machine.
LEMMA TurnShape ==
    ASSUME FsmShape, NetShape, NEW p \in Peer, FsmTurn(p)
    PROVE  NetShape'
<1>1. CASE Setup(p) \/ RecvFails(p) \/ Tasking(p)
  BY <1>1 DEF Setup, RecvFails, Tasking, NetUnchanged, NetShape, netVars
<1>2. CASE Send(p)
  <2>1. fd[p] \in Conn BY <1>2 DEF Send, EndOf
  <2>2. wire' \in [Peer -> [Conn -> Seq(Msg)]]
    <3>1. PICK n \in Lens :
            LET m == [type |-> TypeAt[fsm[p]], len |-> n, xchg |-> Exchanges(p)]
            IN  wire' = IF EndOf(p) = "up" /\ sock[Other(p)][fd[p]] = "up"
                        THEN [wire EXCEPT ![Other(p)][fd[p]] = Append(@, m)]
                        ELSE wire
      BY <1>2 DEF Send
    <3>2. PICK m : m = [type |-> TypeAt[fsm[p]], len |-> n, xchg |-> Exchanges(p)] OBVIOUS
    <3>3. m \in Msg BY <3>2, <1>2, SentIsMsg DEF Send
    <3>4. wire' = [wire EXCEPT ![Other(p)][fd[p]] = Append(@, m)] \/ wire' = wire BY <3>1, <3>2
    <3>5. wire[Other(p)][fd[p]] \in Seq(Msg) BY <2>1, Peers DEF NetShape
    <3>6. Append(wire[Other(p)][fd[p]], m) \in Seq(Msg) BY <3>3, <3>5
    <3>7. Other(p) \in Peer /\ wire \in [Peer -> [Conn -> Seq(Msg)]] BY Peers DEF NetShape
    <3>8. [wire EXCEPT ![Other(p)][fd[p]] = Append(wire[Other(p)][fd[p]], m)]
            \in [Peer -> [Conn -> Seq(Msg)]]
      BY ONLY <3>6, <3>7, <2>1, PairUpdate
    <3> QED BY <3>4, <3>7, <3>8
  <2>3. sock' \in [Peer -> [Conn -> SockEnd]]
    <3>1. PICK e \in {EndOf(p), "broken"} : sock' = [sock EXCEPT ![p][fd[p]] = e]
      BY <1>2 DEF Send
    <3>2. EndOf(p) \in SockEnd /\ "broken" \in SockEnd BY <2>1 DEF EndOf, NetShape, SockEnd
    <3> QED BY <3>1, <3>2, <2>1 DEF NetShape
  <2> QED BY <2>2, <2>3, <1>2 DEF Send, NetShape, netVars
<1>3. CASE SendFails(p)
  <2>1. "broken" \in SockEnd BY DEF SockEnd
  <2>2. sock' \in [Peer -> [Conn -> SockEnd]] BY <2>1, <1>3 DEF SendFails, NetShape
  <2> QED BY <2>2, <1>3 DEF SendFails, NetShape, netVars
<1>4. CASE SendKills(p)
  <2>1. "closed" \in SockEnd BY DEF SockEnd
  <2>2. <<>> \in Seq(Msg) /\ <<>> \in Seq(Msg \cup {Phantom}) OBVIOUS
  <2>3. fd' \in [Peer -> Conn \cup {NoSocket, Unconnected}] BY <1>4 DEF SendKills, NetShape
  <2>4. alive' \in [Peer -> BOOLEAN] BY <1>4 DEF SendKills, NetShape
  <2>5. sock' \in [Peer -> [Conn -> SockEnd]] BY <2>1, <1>4 DEF SendKills, NetShape
  <2>6. wire' \in [Peer -> [Conn -> Seq(Msg)]] BY <2>2, <1>4 DEF SendKills, NetShape
  <2>7. fifo' \in [Peer -> Seq(Msg \cup {Phantom})] BY <2>2, <1>4 DEF SendKills, NetShape
  <2>8. hand' \in [Peer -> Msg \cup {Phantom, NoMsg}] BY <1>4 DEF SendKills, NetShape
  <2> QED BY <2>3, <2>4, <2>5, <2>6, <2>7, <2>8, <1>4 DEF SendKills, NetShape
<1>5. CASE Recv(p)
  <2>1. Tail(fifo[p]) \in Seq(Msg \cup {Phantom}) BY <1>5 DEF Recv, NetShape
  <2> QED BY <2>1, <1>5 DEF Recv, NetShape, netVars
<1> QED BY <1>1, <1>2, <1>3, <1>4, <1>5 DEF FsmTurn

-------------------------------------------------------------------------------
(* The order of the connections.                                           *)

\* It does not change while the same ends are open, and nothing comes to a
\* closed one.
LEMMA OrderKept ==
    ASSUME ConnectionsOrdered, UNCHANGED <<alive, fd, backlog, made>>,
           \A p \in Peer, c \in Conn :
              /\ sock'[p][c] = "closed" <=> sock[p][c] = "closed"
              /\ sock[p][c] = "closed" => wire'[p][c] = wire[p][c]
    PROVE  ConnectionsOrdered'
<1>1. Client \in Peer /\ Server \in Peer BY DEF Peer
<1>2. /\ \A c \in Conn : c # fd'[Client] => sock'[Client][c] = "closed"
      /\ \A c \in Conn : c < fd'[Server] \/ c > made' => sock'[Server][c] = "closed"
      /\ \A p \in Peer, c \in Conn : sock'[p][c] = "closed" => wire'[p][c] = <<>>
  BY <1>1 DEF ConnectionsOrdered
<1> QED BY <1>2 DEF ConnectionsOrdered

\* The entry threads keep it.
LEMMA EntryOrder ==
    ASSUME NetShape, ConnectionsOrdered, ClientEntry \/ Accept
    PROVE  ConnectionsOrdered'
<1>1. MaxConn \in Nat \ {0} /\ Client \in Peer /\ Server \in Peer /\ Client # Server
  BY SyncAssumption DEF Peer
<1>2. fd \in [Peer -> Conn \cup {NoSocket, Unconnected}] BY DEF NetShape
<1>3. NoSocket = 0 /\ Unconnected = MaxConn + 1 /\ Conn = 1 .. MaxConn
  BY DEF NoSocket, Unconnected, Conn
<1>4. /\ made \in 0 .. MaxConn
      /\ fd[Client] \in {NoSocket, Unconnected, made}
      /\ \A c \in Conn : c # fd[Client] => sock[Client][c] = "closed"
      /\ \A c \in Conn : c < fd[Server] \/ c > made => sock[Server][c] = "closed"
      /\ fd[Server] \in 0 .. made
      /\ backlog \in Seq(Conn)
      /\ alive[Server] => /\ fd[Server] + Len(backlog) = made
                          /\ \A i \in 1 .. Len(backlog) : backlog[i] = fd[Server] + i
      /\ ~alive[Server] => backlog = <<>>
      /\ \A p \in Peer, c \in Conn : sock[p][c] = "closed" => wire[p][c] = <<>>
  BY DEF ConnectionsOrdered
<1>5. CASE NewSocket \/ ConnectFails
  <2>1. UNCHANGED <<alive, backlog, made, sock, wire>>
    BY <1>5 DEF NewSocket, ConnectFails
  <2>2. fd[Client] \in {NoSocket, Unconnected} /\ fd'[Client] \in {NoSocket, Unconnected}
    BY <1>1, <1>2, <1>5 DEF NewSocket, ConnectFails
  <2>3. fd'[Server] = fd[Server] BY <1>1, <1>2, <1>5 DEF NewSocket, ConnectFails
  <2>4. \A c \in Conn : sock'[Client][c] = "closed" BY <2>1, <2>2, <1>1, <1>3, <1>4
  <2>5. sock'[Server] = sock[Server] /\ made' = made /\ alive'[Server] = alive[Server]
    BY <2>1
  <2>6. backlog' = backlog BY <2>1
  <2>7. \A p \in Peer, c \in Conn : sock'[p][c] = "closed" => wire'[p][c] = <<>>
    BY <2>1, <1>4
  <2> QED BY <2>2, <2>3, <2>4, <2>5, <2>6, <2>7, <1>4 DEF ConnectionsOrdered
<1>6. CASE Connect
  <2>1. made' = made + 1 /\ made' \in Conn /\ fd[Client] = Unconnected
    <3>1. made' = made + 1 /\ made < MaxConn /\ fd[Client] = Unconnected
      BY <1>6 DEF Connect
    <3>2. made + 1 \in 1 .. MaxConn BY <3>1, <1>1, <1>4
    <3> QED BY <3>1, <3>2, <1>3
  <2>2. fd'[Client] = made' /\ fd'[Server] = fd[Server] /\ alive' = alive /\ alive[Server]
    BY <1>6, <1>1, <1>2 DEF Connect
  <2>3. wire' = wire /\ backlog' = Append(backlog, made') BY <1>6 DEF Connect
  <2>4. \A p \in Peer, c \in Conn :
           /\ c # made' => sock'[p][c] = sock[p][c]
           /\ sock'[p][c] = "closed" => sock[p][c] = "closed"
    <3> TAKE p \in Peer, c \in Conn
    <3>1. sock' = [q \in Peer |-> [sock[q] EXCEPT ![made'] = "up"]] BY <1>6 DEF Connect
    <3>2. sock[p] \in [Conn -> SockEnd] BY DEF NetShape
    <3>3. sock'[p] = [sock[p] EXCEPT ![made'] = "up"] BY <3>1
    <3>4. sock'[p][c] = IF c = made' THEN "up" ELSE sock[p][c] BY <3>2, <3>3
    <3> QED BY <3>4
  <2>5. \A c \in Conn : c # fd'[Client] => sock'[Client][c] = "closed"
    <3> TAKE c \in Conn
    <3>1. c # fd[Client] BY <2>1, <1>1, <1>3
    <3>2. sock[Client][c] = "closed" BY <3>1, <1>4
    <3> QED BY <3>2, <2>2, <2>4, <1>1
  <2>6. \A c \in Conn : c < fd'[Server] \/ c > made' => sock'[Server][c] = "closed"
    <3> TAKE c \in Conn
    <3>1. c < fd[Server] \/ c > made + 1 => c # made' /\ (c < fd[Server] \/ c > made)
      BY <2>1, <1>3, <1>4
    <3> QED BY <3>1, <2>1, <2>2, <2>4, <1>1, <1>4
  <2>7. /\ backlog' \in Seq(Conn)
        /\ Len(backlog') = Len(backlog) + 1
        /\ \A i \in 1 .. Len(backlog) : backlog'[i] = backlog[i]
        /\ backlog'[Len(backlog) + 1] = made'
        /\ Len(backlog) \in Nat
    BY <2>1, <2>3, <1>4
  <2>8. fd[Server] + Len(backlog') = made' /\ fd[Server] \in 0 .. made'
    BY <2>1, <2>2, <2>7, <1>4
  <2>9. \A i \in 1 .. Len(backlog') : backlog'[i] = fd[Server] + i
    <3> TAKE i \in 1 .. Len(backlog')
    <3>1. CASE i \in 1 .. Len(backlog) BY <3>1, <2>2, <2>7, <1>4
    <3>2. CASE i = Len(backlog) + 1 BY <3>2, <2>1, <2>2, <2>7, <1>4
    <3> QED BY <3>1, <3>2, <2>7
  <2>10. \A p \in Peer, c \in Conn : sock'[p][c] = "closed" => wire'[p][c] = <<>>
    BY <2>3, <2>4, <1>4
  <2>11. made' \in 0 .. MaxConn BY <2>1, <1>3
  <2> QED BY <2>2, <2>5, <2>6, <2>7, <2>8, <2>9, <2>10, <2>11 DEF ConnectionsOrdered
<1>7. CASE ClientLost
  <2>1. UNCHANGED <<alive, backlog, made>> /\ fd[Client] \in Conn
    BY <1>7 DEF ClientLost
  <2>2. fd'[Client] = NoSocket /\ fd'[Server] = fd[Server]
    BY <1>1, <1>2, <1>7 DEF ClientLost
  <2>3. \A p \in Peer, c \in Conn :
           IF p = Client /\ c = fd[Client]
           THEN sock'[p][c] = "closed" /\ wire'[p][c] = <<>>
           ELSE sock'[p][c] = sock[p][c] /\ wire'[p][c] = wire[p][c]
    <3>1. /\ sock' = [sock EXCEPT ![Client][fd[Client]] = "closed"]
          /\ wire' = [wire EXCEPT ![Client][fd[Client]] = <<>>]
      BY <1>7 DEF ClientLost, Close
    <3>2. sock \in [Peer -> [Conn -> SockEnd]] /\ wire \in [Peer -> [Conn -> Seq(Msg)]]
      BY DEF NetShape
    <3> QED BY <3>1, <3>2, <1>1, <2>1
  <2>4. \A c \in Conn : sock'[Client][c] = "closed" BY <2>3, <1>1, <1>4
  <2>5. \A c \in Conn : sock'[Server][c] = sock[Server][c] BY <2>3, <1>1
  <2>6. \A p \in Peer, c \in Conn : sock'[p][c] = "closed" => wire'[p][c] = <<>>
    BY <2>3, <1>4
  <2> QED BY <2>1, <2>2, <2>4, <2>5, <2>6, <1>4 DEF ConnectionsOrdered
<1>8. CASE Accept
  <2>1. /\ UNCHANGED <<alive, made>> /\ alive[Server]
        /\ backlog # <<>>
        /\ backlog' = Tail(backlog)
        /\ Close(Server, fd[Server])
    BY <1>8 DEF Accept
  <2>2. fd'[Server] = Head(backlog) /\ fd'[Client] = fd[Client]
    BY <1>1, <1>2, <1>8 DEF Accept
  <2>3. /\ backlog' \in Seq(Conn)
        /\ Len(backlog) \in Nat /\ Len(backlog) > 0
        /\ Len(backlog') = Len(backlog) - 1
        /\ \A i \in 1 .. Len(backlog') : backlog'[i] = backlog[i + 1]
        /\ Head(backlog) = backlog[1]
    BY <2>1, <1>4
  <2>4. fd'[Server] = fd[Server] + 1 /\ fd[Server] \in Nat BY <2>1, <2>2, <2>3, <1>4
  <2>5. \A p \in Peer, c \in Conn :
           IF p = Server /\ c = fd[Server]
           THEN sock'[p][c] = "closed" /\ wire'[p][c] = <<>>
           ELSE sock'[p][c] = sock[p][c] /\ wire'[p][c] = wire[p][c]
    <3>1. CASE fd[Server] \in Conn
      <4>1. /\ sock' = [sock EXCEPT ![Server][fd[Server]] = "closed"]
            /\ wire' = [wire EXCEPT ![Server][fd[Server]] = <<>>]
        BY <2>1, <3>1 DEF Close
      <4>2. sock \in [Peer -> [Conn -> SockEnd]] /\ wire \in [Peer -> [Conn -> Seq(Msg)]]
        BY DEF NetShape
      <4> QED BY <4>1, <4>2, <1>1, <3>1
    <3>2. CASE fd[Server] \notin Conn
      BY <3>2, <2>1 DEF Close
    <3> QED BY <3>1, <3>2
  <2>6. \A c \in Conn : c < fd'[Server] \/ c > made' => sock'[Server][c] = "closed"
    <3> TAKE c \in Conn
    <3>1. c < fd[Server] + 1 \/ c > made => c = fd[Server] \/ c < fd[Server] \/ c > made
      BY <2>4, <1>3
    <3> QED BY <3>1, <2>1, <2>4, <2>5, <1>1, <1>4
  <2>7. \A c \in Conn : sock'[Client][c] = sock[Client][c] BY <2>5, <1>1
  <2>8. \A p \in Peer, c \in Conn : sock'[p][c] = "closed" => wire'[p][c] = <<>>
    BY <2>5, <1>4
  <2>9. fd'[Server] \in 0 .. made' /\ fd'[Server] + Len(backlog') = made'
    BY <2>1, <2>3, <2>4, <1>4
  <2>10. \A i \in 1 .. Len(backlog') : backlog'[i] = fd'[Server] + i
    <3> TAKE i \in 1 .. Len(backlog')
    <3>1. i \in Nat /\ i + 1 \in 1 .. Len(backlog) BY <2>3
    <3>2. backlog[i + 1] = fd[Server] + (i + 1) BY <3>1, <2>1, <1>4
    <3>3. backlog'[i] = backlog[i + 1] BY <2>3
    <3>4. fd[Server] + (i + 1) = (fd[Server] + 1) + i BY <3>1, <2>4
    <3> QED BY <3>2, <3>3, <3>4, <2>4
  <2> QED BY <2>1, <2>2, <2>3, <2>6, <2>7, <2>8, <2>9, <2>10, <1>4 DEF ConnectionsOrdered
<1> QED BY <1>5, <1>6, <1>7, <1>8 DEF ClientEntry

\* A killed process leaves no open end.
LEMMA KillOrder ==
    ASSUME NetShape, ConnectionsOrdered, NEW p \in Peer, SendKills(p)
    PROVE  ConnectionsOrdered'
<1>1. MaxConn \in Nat \ {0} /\ Client \in Peer /\ Server \in Peer /\ Client # Server
  BY SyncAssumption DEF Peer
<1>2. made' = made /\ made \in 0 .. MaxConn BY DEF SendKills, ConnectionsOrdered
<1>3. /\ fd' = [fd EXCEPT ![p] = 0]
      /\ alive' = [alive EXCEPT ![p] = FALSE]
      /\ backlog' = IF p = Server THEN <<>> ELSE backlog
  BY DEF SendKills, NoSocket
<1>4. \A q \in Peer, c \in Conn :
         IF q = p THEN sock'[q][c] = "closed" /\ wire'[q][c] = <<>>
         ELSE sock'[q][c] = sock[q][c] /\ wire'[q][c] = wire[q][c]
  BY DEF SendKills, NetShape
<1>5. \A q \in Peer, c \in Conn : sock'[q][c] = "closed" => wire'[q][c] = <<>>
  BY <1>4 DEF ConnectionsOrdered
<1>6. fd \in [Peer -> Conn \cup {NoSocket, Unconnected}] /\ alive \in [Peer -> BOOLEAN]
  BY DEF NetShape
<1>7. CASE p = Client
  <2>1. fd'[Client] = 0 /\ fd'[Server] = fd[Server] /\ alive'[Server] = alive[Server]
    BY <1>1, <1>3, <1>6, <1>7
  <2>2. \A c \in Conn : sock'[Client][c] = "closed" /\ sock'[Server][c] = sock[Server][c]
    BY <1>1, <1>4, <1>7
  <2>3. backlog' = backlog BY <1>1, <1>3, <1>7
  <2> QED BY <2>1, <2>2, <2>3, <1>2, <1>5 DEF ConnectionsOrdered, NoSocket
<1>8. CASE p = Server
  <2>1. fd'[Server] = 0 /\ fd'[Client] = fd[Client] /\ ~alive'[Server]
    BY <1>1, <1>3, <1>6, <1>8
  <2>2. \A c \in Conn : sock'[Server][c] = "closed" /\ sock'[Client][c] = sock[Client][c]
    BY <1>1, <1>4, <1>8
  <2>3. backlog' = <<>> /\ <<>> \in Seq(Conn) BY <1>3, <1>8
  <2>4. 0 \in 0 .. made' BY <1>2
  <2> QED BY <2>1, <2>2, <2>3, <2>4, <1>2, <1>5 DEF ConnectionsOrdered
<1> QED BY <1>7, <1>8 DEF Peer

\* The network, the receive task and the other turns keep it.
LEMMA OtherOrder ==
    ASSUME FsmShape, NetShape, ConnectionsOrdered, NEW p \in Peer,
           \/ \E c \in Conn : Break(p, c) \/ Finish(p, c)
           \/ Receiver(p)
           \/ Setup(p) \/ Send(p) \/ SendFails(p) \/ RecvFails(p) \/ Recv(p) \/ Tasking(p)
    PROVE  ConnectionsOrdered'
<1>1. sock \in [Peer -> [Conn -> SockEnd]] /\ wire \in [Peer -> [Conn -> Seq(Msg)]]
  BY DEF NetShape
<1>2. \A q \in Peer, c \in Conn : sock[q][c] = "closed" => wire[q][c] = <<>>
  BY DEF ConnectionsOrdered
<1>3. ASSUME UNCHANGED <<alive, fd, backlog, made, sock, wire>> PROVE ConnectionsOrdered'
  BY <1>3, OrderKept
<1>4. ASSUME NEW c \in Conn, NEW e \in SockEnd \ {"closed"},
             UNCHANGED <<alive, fd, backlog, made>>,
             sock[p][c] # "closed", sock' = [sock EXCEPT ![p][c] = e] \/ sock' = sock,
             \A q \in Peer, d \in Conn : sock[q][d] = "closed" => wire'[q][d] = wire[q][d]
      PROVE  ConnectionsOrdered'
  <2>1. \A q \in Peer, d \in Conn : sock'[q][d] = "closed" <=> sock[q][d] = "closed"
    <3>1. CASE sock' = sock BY <3>1
    <3>2. CASE sock' = [sock EXCEPT ![p][c] = e]
      <4> TAKE q \in Peer, d \in Conn
      <4>1. sock'[q][d] = IF q = p /\ d = c THEN e ELSE sock[q][d] BY <3>2, <1>1
      <4> QED BY <4>1, <1>4
    <3> QED BY <3>1, <3>2, <1>4
  <2> QED BY <2>1, <1>4, OrderKept
<1>5. ASSUME NEW c \in Conn, Break(p, c) PROVE ConnectionsOrdered'
  <2>1. UNCHANGED <<alive, fd, backlog, made>> /\ sock[p][c] = "up"
    BY <1>5 DEF Break, netVars
  <2>2. sock' = [sock EXCEPT ![p][c] = "error"] BY <1>5 DEF Break
  <2>3. \A q \in Peer, d \in Conn : sock[q][d] = "closed" => wire'[q][d] = wire[q][d]
    <3>1. PICK n \in 0 .. Len(wire[p][c]) : wire' = [wire EXCEPT ![p][c] = SubSeq(@, 1, n)]
      BY <1>5 DEF Break
    <3> QED BY <3>1, <2>1, <1>1
  <2>4. "error" \in SockEnd \ {"closed"} BY DEF SockEnd
  <2> QED BY <2>1, <2>2, <2>3, <2>4, <1>4
<1>6. ASSUME NEW c \in Conn, Finish(p, c) PROVE ConnectionsOrdered'
  <2>1. UNCHANGED <<alive, fd, backlog, made, wire>> /\ sock[p][c] = "up"
    BY <1>6 DEF Finish, netVars
  <2>2. sock' = [sock EXCEPT ![p][c] = "ended"] BY <1>6 DEF Finish
  <2>3. "ended" \in SockEnd \ {"closed"} BY DEF SockEnd
  <2> QED BY <2>1, <2>2, <2>3, <1>4
<1>7. CASE Receiver(p)
  <2>1. CASE RecvTask(p)
    <3>1. UNCHANGED <<alive, fd, backlog, made, sock>> BY <2>1 DEF RecvTask, netVars
    <3>2. fd[p] \in Conn /\ wire[p][fd[p]] # <<>> BY <2>1 DEF RecvTask
    <3>3. wire' = [wire EXCEPT ![p][fd[p]] = Tail(@)] BY <2>1 DEF RecvTask
    <3>4. \A q \in Peer, d \in Conn : sock[q][d] = "closed" => wire'[q][d] = wire[q][d]
      BY <3>2, <3>3, <1>1, <1>2
    <3> QED BY <3>1, <3>4, OrderKept
  <2>2. CASE RecvError(p)
    <3>1. UNCHANGED <<alive, fd, backlog, made, wire>> BY <2>2 DEF RecvError, netVars
    <3>2. fd[p] \in Conn /\ sock[p][fd[p]] = "error" BY <2>2 DEF RecvError, EndOf
    <3>3. sock' = [sock EXCEPT ![p][fd[p]] = "broken"] BY <2>2 DEF RecvError
    <3>4. "broken" \in SockEnd \ {"closed"} BY DEF SockEnd
    <3> QED BY <3>1, <3>2, <3>3, <3>4, <1>4
  <2>3. CASE RecvEnd(p) BY <2>3, <1>3 DEF RecvEnd, netVars
  <2>4. CASE PushHand(p) BY <2>4, <1>3 DEF PushHand, netVars
  <2> QED BY <2>1, <2>2, <2>3, <2>4, <1>7 DEF Receiver
<1>8. CASE Setup(p) \/ RecvFails(p) \/ Recv(p) \/ Tasking(p)
  <2>1. UNCHANGED <<alive, fd, backlog, made, sock, wire>>
    BY <1>8 DEF Setup, RecvFails, Recv, Tasking, NetUnchanged, netVars
  <2> QED BY <2>1, <1>3
<1>9. CASE Send(p)
  <2>1. UNCHANGED <<alive, fd, backlog, made>> BY <1>9 DEF Send, netVars
  <2>2. fd[p] \in Conn /\ sock[p][fd[p]] \in {"up", "ended"} /\ EndOf(p) = sock[p][fd[p]]
    BY <1>9 DEF Send, EndOf
  <2>3. PICK e \in {EndOf(p), "broken"} : sock' = [sock EXCEPT ![p][fd[p]] = e]
    BY <1>9 DEF Send
  <2>4. e \in SockEnd \ {"closed"} BY <2>2 DEF SockEnd
  <2>5. \A q \in Peer, d \in Conn : sock[q][d] = "closed" => wire'[q][d] = wire[q][d]
    <3>1. PICK m : \/ wire' = wire
                   \/ /\ sock[Other(p)][fd[p]] = "up"
                      /\ wire' = [wire EXCEPT ![Other(p)][fd[p]] = Append(@, m)]
      BY <1>9 DEF Send
    <3>2. CASE wire' = wire BY <3>2
    <3>3. CASE /\ sock[Other(p)][fd[p]] = "up"
               /\ wire' = [wire EXCEPT ![Other(p)][fd[p]] = Append(@, m)]
      <4> TAKE q \in Peer, d \in Conn
      <4>1. q # Other(p) \/ d # fd[p] => wire'[q][d] = wire[q][d] BY <3>3, <1>1
      <4> QED BY <4>1, <3>3
    <3> QED BY <3>1, <3>2, <3>3
  <2> QED BY <2>1, <2>2, <2>3, <2>4, <2>5, <1>4
<1>10. CASE SendFails(p)
  <2>1. UNCHANGED <<alive, fd, backlog, made, wire>> BY <1>10 DEF SendFails, netVars
  <2>2. CASE EndOf(p) = "error"
    <3>1. fd[p] \in Conn /\ sock[p][fd[p]] = "error" BY <2>2 DEF EndOf
    <3>2. sock' = [sock EXCEPT ![p][fd[p]] = "broken"] BY <2>2, <1>10 DEF SendFails
    <3>3. "broken" \in SockEnd \ {"closed"} BY DEF SockEnd
    <3> QED BY <3>1, <3>2, <3>3, <2>1, <1>4
  <2>3. CASE EndOf(p) # "error" BY <2>1, <2>3, <1>3, <1>10 DEF SendFails
  <2> QED BY <2>2, <2>3
<1> QED BY <1>5, <1>6, <1>7, <1>8, <1>9, <1>10

-------------------------------------------------------------------------------
(* What each kind of step does to a stream.                                *)

\* A step that completes no exchange keeps the bounds, and the messages fresh.
LEMMA CarriedKept ==
    ASSUME FsmShape, NEW p \in Peer, LeadBounded(p), LeadBounded(Other(p)),
           Stays(p) \/ Enters(p), Stays(Other(p)) \/ Enters(Other(p)),
           ended => ended'
    PROVE  LeadBounded(p)' /\ \A m : Carried(p, m, 0)
<1>1. LeadBounded(p)' BY LeadKept
<1>2. ASSUME NEW m, Fresh(p, m)
      PROVE  Fresh(p, m)' /\ Pos(p, m)' = Pos(p, m) - 0
  <2>1. Lead(Other(p)) \in Int BY DEF LeadBounded
  <2>2. Pos(p, m) \in -1 .. 2 BY <1>2, FreshPos
  <2>3. Pos(p, m) \in Int /\ Pos(p, m) - 0 = Pos(p, m) BY <2>2
  <2>4. Fresh(p, m)' /\ Pos(p, m)' = Pos(p, m) BY <1>2, <2>1, <2>3, FreshKept
  <2> QED BY <2>3, <2>4
<1> QED BY <1>1, <1>2 DEF Carried

\* What is where in a stream.
LEMMA StreamAt ==
    ASSUME NEW p \in Peer
    PROVE  /\ 0 \in Places /\ 1 \in Places
           /\ \A c \in Conn : c + 1 \in Places /\ Stream(p, c + 1) = wire[p][c]
           /\ \A c \in Conn : c + 1 \notin {0, 1}
           /\ \A a \in Places : a \in {0, 1} \/ a - 1 \in Conn
           /\ Stream(p, 0) = fifo[p]
           /\ Stream(p, 1) = IF hand[p] = NoMsg THEN <<>> ELSE <<hand[p]>>
           /\ \A a \in Places : a \notin {0, 1} => Stream(p, a) = wire[p][a - 1]
<1>1. MaxConn \in Nat \ {0} BY SyncAssumption
<1>2. \A c \in Conn : c + 1 \in Places /\ c + 1 \notin {0, 1} /\ (c + 1) - 1 = c
  BY <1>1 DEF Conn, Places
<1>3. \A a \in Places : a \in {0, 1} \/ a - 1 \in Conn BY <1>1 DEF Conn, Places
<1>4. 0 \in Places /\ 1 \in Places BY <1>1 DEF Places
<1>5. ASSUME NEW c \in Conn PROVE Stream(p, c + 1) = wire[p][c]
  <2>1. c + 1 # 0 /\ c + 1 # 1 /\ (c + 1) - 1 = c BY <1>2
  <2>2. PICK a : a = c + 1 OBVIOUS
  <2>3. Stream(p, a) = wire[p][a - 1] BY <2>1, <2>2 DEF Stream
  <2> QED BY <2>1, <2>2, <2>3
<1>6. /\ Stream(p, 0) = fifo[p]
      /\ Stream(p, 1) = IF hand[p] = NoMsg THEN <<>> ELSE <<hand[p]>>
      /\ \A a \in Places : a \notin {0, 1} => Stream(p, a) = wire[p][a - 1]
  BY DEF Stream
<1> QED BY <1>2, <1>3, <1>4, <1>5, <1>6

\* The end of any connection may be lost, and all that is in the FIFO or in the
\* hands of the receive task.
LEMMA StreamCut ==
    ASSUME FsmShape, NetShape, NEW p \in Peer, LeadBounded(Other(p)), Sound(p), Ordered(p),
           ended => ended', \A m : Carried(p, m, 0),
           fifo'[p] = fifo[p] \/ fifo'[p] = <<>>,
           hand'[p] = hand[p] \/ hand'[p] = NoMsg,
           \A c \in Conn :
              /\ Len(wire'[p][c]) \in 0 .. Len(wire[p][c])
              /\ \A i \in 1 .. Len(wire'[p][c]) : wire'[p][c][i] = wire[p][c][i]
    PROVE  Sound(p)' /\ Ordered(p)'
<1>1. PICK off : off = [a \in Places |-> 0] OBVIOUS
<1>2. ASSUME NEW a \in Places
      PROVE  /\ Len(Stream(p, a)') \in 0 .. Len(Stream(p, a))
             /\ \A i \in 1 .. Len(Stream(p, a)') : Stream(p, a)'[i] = Stream(p, a)[i]
  <2>1. Len(Stream(p, a)) \in Nat /\ 0 \in 0 .. Len(Stream(p, a)) BY StreamSeq
  <2>2. CASE a = 0
    <3>1. Stream(p, a)' = fifo'[p] /\ Stream(p, a) = fifo[p] BY <2>2 DEF Stream
    <3>2. CASE fifo'[p] = fifo[p] BY <3>1, <3>2, <2>1
    <3>3. CASE fifo'[p] = <<>> BY <3>1, <3>3, <2>1
    <3> QED BY <3>2, <3>3
  <2>3. CASE a = 1
    <3>1. CASE hand'[p] = hand[p]
      <4>1. Stream(p, a)' = Stream(p, a) BY <2>3, <3>1 DEF Stream
      <4> QED BY <4>1, <2>1
    <3>2. CASE hand'[p] = NoMsg
      <4>1. Stream(p, a)' = <<>> BY <2>3, <3>2 DEF Stream
      <4> QED BY <4>1, <2>1
    <3> QED BY <3>1, <3>2
  <2>4. CASE a \notin {0, 1}
    <3>1. a - 1 \in Conn BY <2>4, StreamAt
    <3>2. Stream(p, a)' = wire'[p][a - 1] /\ Stream(p, a) = wire[p][a - 1]
      BY <2>4 DEF Stream
    <3> QED BY <3>1, <3>2
  <2> QED BY <2>2, <2>3, <2>4
<1>3. ASSUME NEW a \in Places
      PROVE  /\ off[a] \in Nat
             /\ Len(Stream(p, a)') \in Nat
             /\ \A i \in 1 .. Len(Stream(p, a)') :
                  /\ i + off[a] \in 1 .. Len(Stream(p, a))
                  /\ Stream(p, a)'[i] = Stream(p, a)[i + off[a]]
                  /\ \A m : m = Stream(p, a)'[i] => Carried(p, m, 0)
  <2>1. off[a] = 0 BY <1>1
  <2>2. Len(Stream(p, a)) \in Nat BY StreamSeq
  <2>3. Len(Stream(p, a)') \in Nat BY <1>2, <2>2
  <2>4. ASSUME NEW i \in 1 .. Len(Stream(p, a)')
        PROVE  i + 0 = i /\ i \in 1 .. Len(Stream(p, a))
    BY <1>2, <2>2, <2>3
  <2> QED BY <2>1, <2>3, <2>4, <1>2
<1>4. 0 \in Int OBVIOUS
<1> QED BY <1>3, <1>4, StreamShrinks

\* The state machine gets the first message of the FIFO.
LEMMA StreamGets ==
    ASSUME FsmShape, NetShape, NEW p \in Peer, LeadBounded(Other(p)), Sound(p), Ordered(p),
           ended' = ended, NEW d \in Int,
           fifo[p] # <<>>, fifo'[p] = Tail(fifo[p]), hand' = hand, wire' = wire,
           \A a \in Places : \A i \in 1 .. Len(Stream(p, a)) :
              a # 0 \/ i # 1 => \A m : m = Stream(p, a)[i] => Carried(p, m, d)
    PROVE  Sound(p)' /\ Ordered(p)'
<1>1. PICK off : off = [a \in Places |-> IF a = 0 THEN 1 ELSE 0] OBVIOUS
<1>2. ASSUME NEW a \in Places
      PROVE  /\ off[a] \in Nat
             /\ Len(Stream(p, a)') \in Nat
             /\ \A i \in 1 .. Len(Stream(p, a)') :
                  /\ i + off[a] \in 1 .. Len(Stream(p, a))
                  /\ Stream(p, a)'[i] = Stream(p, a)[i + off[a]]
                  /\ \A m : m = Stream(p, a)'[i] => Carried(p, m, d)
  <2>1. off[a] = IF a = 0 THEN 1 ELSE 0 BY <1>1
  <2>2. CASE a = 0
    <3>1. Stream(p, a)' = Tail(Stream(p, a)) /\ Stream(p, a) # <<>> BY <2>2 DEF Stream
    <3>2. Stream(p, a) \in Seq(Msg \cup {Phantom}) BY StreamSeq
    <3>3. /\ Len(Stream(p, a)') \in Nat
          /\ Len(Stream(p, a)) = Len(Stream(p, a)') + 1
          /\ \A i \in 1 .. Len(Stream(p, a)') : Stream(p, a)'[i] = Stream(p, a)[i + 1]
      BY <3>1, <3>2
    <3>4. ASSUME NEW i \in 1 .. Len(Stream(p, a)')
          PROVE  /\ i + 1 \in 1 .. Len(Stream(p, a)) /\ i + 1 # 1
                 /\ \A m : m = Stream(p, a)'[i] => Carried(p, m, d)
      <4>1. i + 1 \in 1 .. Len(Stream(p, a)) /\ i + 1 # 1 BY <3>3
      <4>2. \A m : m = Stream(p, a)[i + 1] => Carried(p, m, d) BY <4>1
      <4> QED BY <4>1, <4>2, <3>3
    <3> QED BY <2>1, <2>2, <3>3, <3>4
  <2>3. CASE a # 0
    <3>1. Stream(p, a)' = Stream(p, a) BY <2>3 DEF Stream
    <3>2. Len(Stream(p, a)) \in Nat BY StreamSeq
    <3>3. \A i \in 1 .. Len(Stream(p, a)) : i + 0 = i BY <3>2
    <3> QED BY <2>1, <2>3, <3>1, <3>2, <3>3
  <2> QED BY <2>2, <2>3
<1> QED BY <1>2, StreamShrinks

\* A message is not nothing.
LEMMA MsgIsSome ==
    ASSUME NEW m \in Msg \cup {Phantom}
    PROVE  m # NoMsg
<1>1. DOMAIN m = {"type", "len", "xchg"} BY DEF Msg, Phantom
<1>2. DOMAIN NoMsg = {} BY DEF NoMsg
<1> QED BY <1>1, <1>2

\* The receive task reads the first message of the first connection that has
\* any, with nothing in its hands.
LEMMA StreamTaken ==
    ASSUME FsmShape, NetShape, NEW p \in Peer, LeadBounded(Other(p)), Sound(p), Ordered(p),
           ended' = ended, \A m : Carried(p, m, 0), NEW c \in Conn,
           hand[p] = NoMsg, wire[p][c] # <<>>, fifo' = fifo,
           hand'[p] = Head(wire[p][c]),
           wire' = [wire EXCEPT ![p][c] = Tail(wire[p][c])],
           \A b \in Conn : b < c => wire[p][b] = <<>>
    PROVE  Sound(p)' /\ Ordered(p)'
<1> DEFINE Pl == [a \in Places |-> [i \in Nat |-> IF a = 1 THEN c + 1 ELSE a]]
           Ix == [a \in Places |-> [i \in Nat |-> IF a = 1 THEN 1 ELSE IF a = c + 1 THEN i + 1 ELSE i]]
<1>1. PICK pl : pl = Pl OBVIOUS
<1>2. PICK ix : ix = Ix OBVIOUS
<1>3. wire[p][c] \in Seq(Msg) /\ wire \in [Peer -> [Conn -> Seq(Msg)]] BY DEF NetShape
<1>4. c \in Nat /\ c >= 1 /\ MaxConn \in Nat BY SyncAssumption DEF Conn
<1>5. hand'[p] = wire[p][c][1] /\ hand'[p] # NoMsg
  <2>1. Head(wire[p][c]) \in Msg /\ Head(wire[p][c]) = wire[p][c][1] BY <1>3
  <2> QED BY <2>1, MsgIsSome
<1>6. Stream(p, c + 1) = wire[p][c] /\ c + 1 \in Places /\ c + 1 # 1 /\ c + 1 # 0
  BY StreamAt, <1>4
<1>7. ASSUME NEW a \in Places, NEW i \in 1 .. Len(Stream(p, a)')
      PROVE  /\ a \in Nat /\ i \in Nat /\ i >= 1
             /\ pl[a][i] = IF a = 1 THEN c + 1 ELSE a
             /\ ix[a][i] = IF a = 1 THEN 1 ELSE IF a = c + 1 THEN i + 1 ELSE i
  <2>1. i \in Nat /\ i >= 1 /\ a \in Nat BY <1>4 DEF Places
  <2>2. pl[a][i] = IF a = 1 THEN c + 1 ELSE a BY <2>1, <1>1
  <2>3. ix[a][i] = IF a = 1 THEN 1 ELSE IF a = c + 1 THEN i + 1 ELSE i BY <2>1, <1>2
  <2> QED BY <2>1, <2>2, <2>3
<1>8. Stream(p, 1)' = <<hand'[p]>> BY <1>5 DEF Stream
<1>9. /\ Len(Stream(p, c + 1)') \in Nat
      /\ Len(Stream(p, c + 1)) = Len(Stream(p, c + 1)') + 1
      /\ \A i \in 1 .. Len(Stream(p, c + 1)') : Stream(p, c + 1)'[i] = Stream(p, c + 1)[i + 1]
  <2>1. wire'[p][c] = Tail(wire[p][c]) BY <1>3
  <2>2. \A n : n = c + 1 => Stream(p, n)' = wire'[p][n - 1] BY <1>6 DEF Stream
  <2>3. (c + 1) - 1 = c BY <1>4
  <2>4. Stream(p, c + 1)' = Tail(wire[p][c]) BY <2>1, <2>2, <2>3
  <2>5. PICK w : w = wire[p][c] OBVIOUS
  <2>6. w \in Seq(Msg) /\ w # <<>> BY <2>5, <1>3
  <2>7. /\ Len(Tail(w)) \in Nat
        /\ Len(w) = Len(Tail(w)) + 1
        /\ \A i \in 1 .. Len(Tail(w)) : Tail(w)[i] = w[i + 1]
    BY <2>6
  <2> QED BY <2>4, <2>5, <2>7, <1>6
<1>10. ASSUME NEW a \in Places, a # 1, a # c + 1
       PROVE  Stream(p, a)' = Stream(p, a)
  <2>1. CASE a = 0 BY <2>1 DEF Stream
  <2>2. CASE a # 0
    <3>1. a - 1 \in Conn /\ a - 1 # c BY <2>2, <1>10, <1>4, StreamAt DEF Places
    <3>2. wire'[p][a - 1] = wire[p][a - 1] BY <3>1, <1>3
    <3> QED BY <3>2, <2>2, <1>10 DEF Stream
  <2> QED BY <2>1, <2>2
<1>11. ASSUME NEW a \in Places, NEW i \in 1 .. Len(Stream(p, a)')
       PROVE  /\ pl[a][i] \in Places
              /\ ix[a][i] \in 1 .. Len(Stream(p, pl[a][i]))
              /\ Stream(p, a)'[i] = Stream(p, pl[a][i])[ix[a][i]]
  <2>1. CASE a = 1
    <3>1. pl[a][i] = c + 1 /\ ix[a][i] = 1 BY <2>1, <1>7
    <3>2. i = 1 BY <2>1, <1>8
    <3>3. 1 \in 1 .. Len(Stream(p, c + 1)) BY <1>9
    <3>4. Stream(p, a)'[i] = hand'[p] BY <2>1, <3>2, <1>8
    <3> QED BY <3>1, <3>3, <3>4, <1>5, <1>6
  <2>2. CASE a = c + 1
    <3>1. pl[a][i] = c + 1 /\ ix[a][i] = i + 1 BY <2>2, <1>6, <1>7
    <3>2. i + 1 \in 1 .. Len(Stream(p, c + 1)) BY <2>2, <1>9
    <3>3. Stream(p, a)'[i] = Stream(p, c + 1)[i + 1] BY <2>2, <1>9
    <3> QED BY <3>1, <3>2, <3>3, <1>6
  <2>3. CASE a # 1 /\ a # c + 1
    <3>1. pl[a][i] = a /\ ix[a][i] = i BY <2>3, <1>7
    <3> QED BY <3>1, <2>3, <1>10
  <2> QED BY <2>1, <2>2, <2>3
<1>12. ASSUME NEW a \in Places, NEW b \in Places,
              NEW i \in 1 .. Len(Stream(p, a)'), NEW j \in 1 .. Len(Stream(p, b)'),
              Before(a, i, b, j)
       PROVE  Before(pl[a][i], ix[a][i], pl[b][j], ix[b][j])
  <2>1. /\ a \in Nat /\ i \in Nat /\ i >= 1
        /\ pl[a][i] = IF a = 1 THEN c + 1 ELSE a
        /\ ix[a][i] = IF a = 1 THEN 1 ELSE IF a = c + 1 THEN i + 1 ELSE i
    BY <1>7
  <2>2. /\ b \in Nat /\ j \in Nat /\ j >= 1
        /\ pl[b][j] = IF b = 1 THEN c + 1 ELSE b
        /\ ix[b][j] = IF b = 1 THEN 1 ELSE IF b = c + 1 THEN j + 1 ELSE j
    BY <1>7
  <2>3. ~(b > 1 /\ b < c + 1)
    <3> SUFFICES ASSUME b > 1, b < c + 1 PROVE FALSE OBVIOUS
    <3>1. b - 1 \in Conn /\ b - 1 < c /\ b # 1 /\ b # c + 1 /\ b \notin {0, 1}
      BY <2>2, <1>4, StreamAt
    <3>2. Stream(p, b)' = Stream(p, b) BY <3>1, <1>10
    <3>3. Stream(p, b) = wire[p][b - 1] BY <3>1, StreamAt
    <3>4. Stream(p, b)' = <<>> BY <3>1, <3>2, <3>3
    <3> QED BY <3>4
  <2>4. a = 1 /\ b = 1 => i = 1 /\ j = 1
    <3>1. Len(<<hand'[p]>>) = 1 OBVIOUS
    <3>2. a = 1 => i \in 1 .. 1 BY <3>1, <1>8
    <3>3. b = 1 => j \in 1 .. 1 BY <3>1, <1>8
    <3> QED BY <3>2, <3>3
  <2>5. a < b \/ (a = b /\ i < j) BY <1>12 DEF Before
  <2> QED BY <2>1, <2>2, <2>3, <2>4, <2>5, <1>4 DEF Before
<1>13. 0 \in Int OBVIOUS
<1> HIDE DEF Pl, Ix
<1>14. \A a \in Places : \A i \in 1 .. Len(Stream(p, a)') :
         \/ Stream(p, a)'[i] = Phantom /\ ended'
         \/ /\ pl[a][i] \in Places
            /\ ix[a][i] \in 1 .. Len(Stream(p, pl[a][i]))
            /\ Stream(p, a)'[i] = Stream(p, pl[a][i])[ix[a][i]]
            /\ \A m : m = Stream(p, a)'[i] => Carried(p, m, 0)
  BY <1>11
<1>15. \A a, b \in Places :
         \A i \in 1 .. Len(Stream(p, a)'), j \in 1 .. Len(Stream(p, b)') :
            Before(a, i, b, j) => Before(pl[a][i], ix[a][i], pl[b][j], ix[b][j])
  BY <1>12
<1>16. ended => ended' OBVIOUS
<1> QED BY <1>13, <1>14, <1>15, <1>16, StreamKept

\* The receive task pushes what it has in its hands.
LEMMA StreamPushed ==
    ASSUME FsmShape, NetShape, NEW p \in Peer, LeadBounded(Other(p)), Sound(p), Ordered(p),
           ended' = ended, \A m : Carried(p, m, 0),
           hand[p] # NoMsg, hand'[p] = NoMsg, wire' = wire,
           fifo'[p] = Append(fifo[p], hand[p])
    PROVE  Sound(p)' /\ Ordered(p)'
<1> DEFINE n == Len(fifo[p]) + 1
           Pl == [a \in Places |-> [i \in Nat |-> IF a = 0 /\ i = n THEN 1 ELSE a]]
           Ix == [a \in Places |-> [i \in Nat |-> IF a = 0 /\ i = n THEN 1 ELSE i]]
<1>1. PICK pl : pl = Pl OBVIOUS
<1>2. PICK ix : ix = Ix OBVIOUS
<1>3. fifo[p] \in Seq(Msg \cup {Phantom}) /\ n \in Nat BY DEF NetShape
<1>4. Stream(p, 0) = fifo[p] /\ Stream(p, 1) = <<hand[p]>> BY StreamAt
<1>5. Stream(p, 1)' = <<>> BY DEF Stream
<1>6. Stream(p, 0)' = Append(fifo[p], hand[p]) BY DEF Stream
<1>7. ASSUME NEW a \in Places, NEW i \in 1 .. Len(Stream(p, a)')
      PROVE  /\ a \in Nat /\ i \in Nat /\ i >= 1 /\ a # 1
             /\ pl[a][i] = IF a = 0 /\ i = n THEN 1 ELSE a
             /\ ix[a][i] = IF a = 0 /\ i = n THEN 1 ELSE i
             /\ a = 0 => i \in 1 .. n
  <2>1. i \in Nat /\ i >= 1 BY SyncAssumption
  <2>2. a \in Nat BY SyncAssumption DEF Places
  <2>3. a # 1 BY <1>5
  <2>4. pl[a][i] = IF a = 0 /\ i = n THEN 1 ELSE a BY <2>1, <1>1
  <2>5. ix[a][i] = IF a = 0 /\ i = n THEN 1 ELSE i BY <2>1, <1>2
  <2>6. Len(Append(fifo[p], hand[p])) = n BY <1>3
  <2>7. a = 0 => i \in 1 .. n BY <2>6, <1>6
  <2> HIDE DEF n
  <2> QED BY <2>1, <2>2, <2>3, <2>4, <2>5, <2>7
<1>8. ASSUME NEW a \in Places, NEW i \in 1 .. Len(Stream(p, a)')
      PROVE  /\ pl[a][i] \in Places
             /\ ix[a][i] \in 1 .. Len(Stream(p, pl[a][i]))
             /\ Stream(p, a)'[i] = Stream(p, pl[a][i])[ix[a][i]]
  <2>1. CASE a = 0 /\ i = n
    <3>1. pl[a][i] = 1 /\ ix[a][i] = 1 BY <2>1, <1>7
    <3>2. Stream(p, a)'[i] = hand[p] BY <2>1, <1>3, <1>6
    <3>3. 1 \in 1 .. Len(<<hand[p]>>) /\ <<hand[p]>>[1] = hand[p] OBVIOUS
    <3>4. 1 \in Places BY StreamAt
    <3> QED BY <3>1, <3>2, <3>3, <3>4, <1>4
  <2>2. CASE a = 0 /\ i # n
    <3>1. pl[a][i] = a /\ ix[a][i] = i BY <2>2, <1>7
    <3>2. i \in 1 .. Len(fifo[p]) BY <2>2, <1>3, <1>7
    <3>3. Stream(p, a)'[i] = fifo[p][i] BY <2>2, <3>2, <1>3, <1>6
    <3> QED BY <2>2, <3>1, <3>2, <3>3, <1>4
  <2>3. CASE a # 0
    <3>1. pl[a][i] = a /\ ix[a][i] = i BY <2>3, <1>7
    <3>2. Stream(p, a)' = Stream(p, a) BY <2>3, <1>7 DEF Stream
    <3> QED BY <3>1, <3>2
  <2> QED BY <2>1, <2>2, <2>3
<1>9. ASSUME NEW a \in Places, NEW b \in Places,
             NEW i \in 1 .. Len(Stream(p, a)'), NEW j \in 1 .. Len(Stream(p, b)'),
             Before(a, i, b, j)
      PROVE  Before(pl[a][i], ix[a][i], pl[b][j], ix[b][j])
  <2>1. /\ a \in Nat /\ i \in Nat /\ i >= 1 /\ a # 1
        /\ pl[a][i] = IF a = 0 /\ i = n THEN 1 ELSE a
        /\ ix[a][i] = IF a = 0 /\ i = n THEN 1 ELSE i
        /\ a = 0 => i \in 1 .. n
    BY <1>7
  <2>2. /\ b \in Nat /\ j \in Nat /\ j >= 1 /\ b # 1
        /\ pl[b][j] = IF b = 0 /\ j = n THEN 1 ELSE b
        /\ ix[b][j] = IF b = 0 /\ j = n THEN 1 ELSE j
        /\ b = 0 => j \in 1 .. n
    BY <1>7
  <2>3. a < b \/ (a = b /\ i < j) BY <1>9 DEF Before
  <2> HIDE DEF n
  <2> QED BY <2>1, <2>2, <2>3, <1>3 DEF Before
<1>10. 0 \in Int OBVIOUS
<1> HIDE DEF Pl, Ix, n
<1>11. \A a \in Places : \A i \in 1 .. Len(Stream(p, a)') :
         \/ Stream(p, a)'[i] = Phantom /\ ended'
         \/ /\ pl[a][i] \in Places
            /\ ix[a][i] \in 1 .. Len(Stream(p, pl[a][i]))
            /\ Stream(p, a)'[i] = Stream(p, pl[a][i])[ix[a][i]]
            /\ \A m : m = Stream(p, a)'[i] => Carried(p, m, 0)
  BY <1>8
<1>12. \A a, b \in Places :
         \A i \in 1 .. Len(Stream(p, a)'), j \in 1 .. Len(Stream(p, b)') :
            Before(a, i, b, j) => Before(pl[a][i], ix[a][i], pl[b][j], ix[b][j])
  BY <1>9
<1>13. ended => ended' OBVIOUS
<1> QED BY <1>10, <1>11, <1>12, <1>13, StreamKept

\* The receive task takes an end of stream for a message.
LEMMA StreamEnds ==
    ASSUME FsmShape, NetShape, NEW p \in Peer, LeadBounded(Other(p)), Sound(p), Ordered(p),
           ended', \A m : Carried(p, m, 0),
           hand'[p] = Phantom, wire' = wire, fifo' = fifo
    PROVE  Sound(p)' /\ Ordered(p)'
<1>1. PICK pl : pl = [a \in Places |-> [i \in Nat |-> a]] OBVIOUS
<1>2. PICK ix : ix = [a \in Places |-> [i \in Nat |-> i]] OBVIOUS
<1>3. ASSUME NEW a \in Places, NEW i \in 1 .. Len(Stream(p, a)')
      PROVE  pl[a][i] = a /\ ix[a][i] = i
  <2>1. i \in Nat OBVIOUS
  <2> QED BY <2>1, <1>1, <1>2
<1>4. ASSUME NEW a \in Places, NEW i \in 1 .. Len(Stream(p, a)')
      PROVE  \/ Stream(p, a)'[i] = Phantom /\ ended'
             \/ /\ pl[a][i] \in Places
                /\ ix[a][i] \in 1 .. Len(Stream(p, pl[a][i]))
                /\ Stream(p, a)'[i] = Stream(p, pl[a][i])[ix[a][i]]
  <2>1. CASE a = 1
    <3>1. Phantom # NoMsg BY MsgIsSome
    <3>2. Stream(p, a)' = <<Phantom>> BY <2>1, <3>1 DEF Stream
    <3>3. \A k \in 1 .. Len(<<Phantom>>) : <<Phantom>>[k] = Phantom OBVIOUS
    <3>4. Stream(p, a)'[i] = Phantom BY <3>2, <3>3
    <3> QED BY <3>4
  <2>2. CASE a # 1
    <3>1. Stream(p, a)' = Stream(p, a) BY <2>2 DEF Stream
    <3> QED BY <3>1, <1>3
  <2> QED BY <2>1, <2>2
<1>5. ASSUME NEW a \in Places, NEW b \in Places,
             NEW i \in 1 .. Len(Stream(p, a)'), NEW j \in 1 .. Len(Stream(p, b)'),
             Before(a, i, b, j)
      PROVE  Before(pl[a][i], ix[a][i], pl[b][j], ix[b][j])
  <2>1. pl[a][i] = a /\ ix[a][i] = i BY <1>3
  <2>2. pl[b][j] = b /\ ix[b][j] = j BY <1>3
  <2> QED BY <2>1, <2>2, <1>5
<1>6. 0 \in Int OBVIOUS
<1>7. \A a \in Places : \A i \in 1 .. Len(Stream(p, a)') :
         \/ Stream(p, a)'[i] = Phantom /\ ended'
         \/ /\ pl[a][i] \in Places
            /\ ix[a][i] \in 1 .. Len(Stream(p, pl[a][i]))
            /\ Stream(p, a)'[i] = Stream(p, pl[a][i])[ix[a][i]]
            /\ \A m : m = Stream(p, a)'[i] => Carried(p, m, 0)
  BY <1>4
<1>8. \A a, b \in Places :
         \A i \in 1 .. Len(Stream(p, a)'), j \in 1 .. Len(Stream(p, b)') :
            Before(a, i, b, j) => Before(pl[a][i], ix[a][i], pl[b][j], ix[b][j])
  BY <1>5
<1>9. ended => ended' OBVIOUS
<1> QED BY <1>6, <1>7, <1>8, <1>9, StreamKept

\* The other peer sends a message of a later exchange than all that are on
\* their way, in the last connection that has any.
LEMMA StreamSent ==
    ASSUME FsmShape, NetShape, NEW p \in Peer, LeadBounded(Other(p)), Sound(p), Ordered(p),
           ended' = ended, \A x : Carried(p, x, 0), NEW c \in Conn, NEW m,
           Fresh(p, m)', Pos(p, m)' = Pos(p, m), Pos(p, m) \in Int,
           \A x : Fresh(p, x) => Pos(p, x) < Pos(p, m),
           fifo' = fifo, hand' = hand,
           wire' = [wire EXCEPT ![p][c] = Append(wire[p][c], m)],
           \A b \in Conn : b > c => wire[p][b] = <<>>
    PROVE  Sound(p)' /\ Ordered(p)'
<1> DEFINE n == Len(wire[p][c]) + 1
<1>1. wire \in [Peer -> [Conn -> Seq(Msg)]] /\ wire[p][c] \in Seq(Msg) BY DEF NetShape
<1>2. c \in Nat /\ c >= 1 /\ MaxConn \in Nat /\ n \in Nat BY <1>1, SyncAssumption DEF Conn
<1>3. Stream(p, c + 1) = wire[p][c] /\ c + 1 \in Places /\ c + 1 # 1 /\ c + 1 # 0
  BY StreamAt, <1>2
<1>4. \A a \in Places : a # c + 1 => Stream(p, a)' = Stream(p, a)
  <2> SUFFICES ASSUME NEW a \in Places, a # c + 1 PROVE Stream(p, a)' = Stream(p, a)
    OBVIOUS
  <2>1. CASE a \in {0, 1} BY <2>1 DEF Stream
  <2>2. CASE a \notin {0, 1}
    <3>1. a - 1 \in Conn /\ a - 1 # c BY <2>2, <1>2, StreamAt DEF Places
    <3>2. wire'[p][a - 1] = wire[p][a - 1] BY <3>1, <1>1
    <3> QED BY <3>2, <2>2 DEF Stream
  <2> QED BY <2>1, <2>2
<1>5. /\ Len(Stream(p, c + 1)') = n
      /\ Stream(p, c + 1)'[n] = m
      /\ \A i \in 1 .. n : i # n => i \in 1 .. Len(wire[p][c]) /\ Stream(p, c + 1)'[i] = wire[p][c][i]
  <2>1. wire'[p][c] = Append(wire[p][c], m) BY <1>1
  <2>2. \A k : k = c + 1 => Stream(p, k)' = wire'[p][k - 1] BY <1>3 DEF Stream
  <2>3. (c + 1) - 1 = c BY <1>2
  <2>4. Stream(p, c + 1)' = Append(wire[p][c], m) BY <2>1, <2>2, <2>3
  <2>5. PICK w : w = wire[p][c] OBVIOUS
  <2>6. w \in Seq(Msg) BY <2>5, <1>1
  <2>7. /\ Len(Append(w, m)) = Len(w) + 1
        /\ Append(w, m)[Len(w) + 1] = m
        /\ \A i \in 1 .. Len(w) + 1 : i # Len(w) + 1 => i \in 1 .. Len(w) /\ Append(w, m)[i] = w[i]
    BY <2>6
  <2> QED BY <2>4, <2>5, <2>7
<1> HIDE DEF n
<1>6. ASSUME NEW a \in Places, NEW i \in 1 .. Len(Stream(p, a)')
      PROVE  \/ a = c + 1 /\ i = n /\ Stream(p, a)'[i] = m
             \/ /\ i \in 1 .. Len(Stream(p, a))
                /\ a = c + 1 => i < n
                /\ Stream(p, a)'[i] = Stream(p, a)[i]
  <2>1. CASE a # c + 1 BY <2>1, <1>4
  <2>2. CASE a = c + 1
    <3>1. i \in 1 .. n BY <2>2, <1>5
    <3>2. i = n \/ i < n BY <3>1, <1>2
    <3> QED BY <3>1, <3>2, <2>2, <1>2, <1>3, <1>5
  <2> QED BY <2>1, <2>2
<1>7. ASSUME NEW a \in Places, NEW i \in 1 .. Len(Stream(p, a)), NEW x, x = Stream(p, a)[i]
      PROVE  \/ x = Phantom /\ ended'
             \/ Fresh(p, x) /\ Fresh(p, x)' /\ Pos(p, x) \in Int /\ Pos(p, x)' = Pos(p, x)
  <2>1. Fresh(p, x) \/ (x = Phantom /\ ended) BY <1>7 DEF Sound
  <2>2. CASE Fresh(p, x)
    <3>1. Fresh(p, x)' /\ Pos(p, x)' = Pos(p, x) - 0 BY <2>2 DEF Carried
    <3>2. Pos(p, x) \in -1 .. 2 BY <2>2, FreshPos
    <3>3. Pos(p, x) \in Int /\ Pos(p, x) - 0 = Pos(p, x) BY <3>2
    <3> QED BY <2>2, <3>1, <3>3
  <2> QED BY <2>1, <2>2
<1>8. Sound(p)'
  <2>1. ASSUME NEW a \in Places, NEW i \in 1 .. Len(Stream(p, a)')
        PROVE  (Fresh(p, Stream(p, a)[i]) \/ (Stream(p, a)[i] = Phantom /\ ended))'
    <3>1. PICK x : x = Stream(p, a)'[i] OBVIOUS
    <3>2. Fresh(p, x)' \/ (x = Phantom /\ ended')
      <4>1. CASE x = m BY <4>1
      <4>2. CASE i \in 1 .. Len(Stream(p, a)) /\ x = Stream(p, a)[i] BY <4>2, <1>7
      <4> QED BY <4>1, <4>2, <3>1, <1>6
    <3> QED BY <3>1, <3>2
  <2> QED BY <2>1 DEF Sound
<1>9. Ordered(p)'
  <2>1. ASSUME NEW a \in Places, NEW b \in Places,
               NEW i \in 1 .. Len(Stream(p, a)'), NEW j \in 1 .. Len(Stream(p, b)'),
               a < b \/ (a = b /\ i < j),
               Stream(p, a)'[i] # Phantom, Stream(p, b)'[j] # Phantom
        PROVE  (Pos(p, Stream(p, a)[i]) < Pos(p, Stream(p, b)[j]))'
    <3>1. PICK x : x = Stream(p, a)'[i] OBVIOUS
    <3>2. PICK y : y = Stream(p, b)'[j] OBVIOUS
    <3>3. i \in Nat /\ j \in Nat /\ a \in Nat /\ b \in Nat BY <1>2 DEF Places
    <3>4. /\ i \in 1 .. Len(Stream(p, a))
          /\ x = Stream(p, a)[i]
      <4>1. SUFFICES ASSUME a = c + 1, i = n PROVE FALSE BY <3>1, <1>6
      <4>2. CASE b = c + 1
        <5>1. j \in 1 .. n BY <4>2, <1>5
        <5> QED BY <5>1, <4>1, <4>2, <2>1, <3>3, <1>2
      <4>3. CASE b > c + 1
        <5>1. b - 1 \in Conn /\ b - 1 > c /\ b \notin {0, 1} /\ b # c + 1
          BY <4>3, <3>3, <1>2, StreamAt
        <5>2. Stream(p, b)' = wire[p][b - 1] BY <5>1, <1>4, StreamAt
        <5>3. Stream(p, b)' = <<>> BY <5>1, <5>2
        <5> QED BY <5>3
      <4> QED BY <4>1, <4>2, <4>3, <2>1, <3>3, <1>2
    <3>5. Fresh(p, x) /\ Pos(p, x) \in Int /\ Pos(p, x)' = Pos(p, x)
      BY <2>1, <3>1, <3>4, <1>7
    <3>6. CASE y = m
      <4>1. Pos(p, x) < Pos(p, m) BY <3>5
      <4> QED BY <4>1, <3>1, <3>2, <3>5, <3>6
    <3>7. CASE j \in 1 .. Len(Stream(p, b)) /\ y = Stream(p, b)[j]
      <4>1. Pos(p, y) \in Int /\ Pos(p, y)' = Pos(p, y) BY <2>1, <3>2, <3>7, <1>7
      <4>2. x # Phantom /\ y # Phantom BY <2>1, <3>1, <3>2
      <4>3. Pos(p, x) < Pos(p, y) BY <2>1, <3>4, <3>7, <4>2 DEF Ordered
      <4> QED BY <4>1, <4>3, <3>1, <3>2, <3>5
    <3> QED BY <3>2, <3>6, <3>7, <1>6
  <2> QED BY <2>1 DEF Ordered
<1> QED BY <1>8, <1>9

-------------------------------------------------------------------------------
(* The steps keep the invariant.                                           *)

\* Nobody completes an exchange.
LEMMA TurnKept ==
    ASSUME FsmShape, \A r \in Peer : LeadBounded(r), NEW p \in Peer,
           Stays(p) \/ Enters(p), Stays(Other(p)), ended => ended'
    PROVE  \A r \in Peer : LeadBounded(r)' /\ \A m : Carried(r, m, 0)
<1>1. Other(p) \in Peer /\ Other(Other(p)) = p /\ Peer = {p, Other(p)} BY Peers
<1>2. LeadBounded(p)' /\ \A m : Carried(p, m, 0) BY <1>1, CarriedKept
<1>3. LeadBounded(Other(p))' /\ \A m : Carried(Other(p), m, 0)
  <2>1. PICK q \in Peer : q = Other(p) BY <1>1
  <2>2. /\ Stays(q) \/ Enters(q)
        /\ Stays(Other(q)) \/ Enters(Other(q))
        /\ LeadBounded(q) /\ LeadBounded(Other(q))
    BY <1>1, <2>1
  <2>3. LeadBounded(q)' /\ \A m : Carried(q, m, 0) BY <2>2, CarriedKept
  <2> QED BY <2>1, <2>3
<1> QED BY <1>1, <1>2, <1>3

\* The state machines take no part.
LEMMA MachinesKept ==
    ASSUME IInv, UNCHANGED fsmVars, ended => ended'
    PROVE  /\ FsmShape'
           /\ \A r \in Peer : LeadBounded(r)' /\ \A m : Carried(r, m, 0)
<1>1. fsm' = fsm /\ task' = task /\ snapshot' = snapshot BY DEF fsmVars
<1>2. \A r \in Peer : Stays(r) BY <1>1 DEF Stays, At, Exchanges
<1>3. FsmShape' BY <1>1 DEF IInv, FsmShape, At
<1>4. Client \in Peer /\ FsmShape /\ \A r \in Peer : LeadBounded(r) BY DEF IInv, Peer
<1>5. Stays(Client) /\ Stays(Other(Client)) BY <1>2, <1>4, Peers
<1>6. \A r \in Peer : LeadBounded(r)' /\ \A m : Carried(r, m, 0) BY <1>4, <1>5, TurnKept
<1> QED BY <1>3, <1>6

\* The connections and the entry threads lose messages at most.
LEMMA NetStep ==
    ASSUME IInv,
           \/ ClientEntry
           \/ Accept
           \/ \E p \in Peer, c \in Conn : Break(p, c) \/ Finish(p, c)
    PROVE  IInv'
<1>1. /\ FsmShape /\ NetShape /\ ConnectionsOrdered
      /\ \A p \in Peer : LeadBounded(p) /\ Sound(p) /\ Ordered(p)
  BY DEF IInv
<1>2. NetShape' BY <1>1, NetActionsShape
<1>3. ConnectionsOrdered' BY <1>1, EntryOrder, OtherOrder
<1>4. UNCHANGED fsmVars /\ UNCHANGED <<ended, hand, fifo>>
  BY DEF ClientEntry, NewSocket, Connect, ConnectFails, ClientLost, Accept, Break, Finish
<1>5. /\ FsmShape'
      /\ \A r \in Peer : LeadBounded(r)' /\ \A m : Carried(r, m, 0)
  BY <1>4, MachinesKept
<1>6. wire \in [Peer -> [Conn -> Seq(Msg)]] BY <1>1 DEF NetShape
<1>7. \A q \in Peer, c \in Conn : Len(wire[q][c]) \in Nat /\ 0 \in 0 .. Len(wire[q][c])
  <2> TAKE q \in Peer, c \in Conn
  <2>1. wire[q][c] \in Seq(Msg) BY <1>6
  <2> QED BY <2>1
<1>8. ASSUME NEW q \in Peer, NEW c \in Conn
      PROVE  /\ Len(wire'[q][c]) \in 0 .. Len(wire[q][c])
             /\ \A i \in 1 .. Len(wire'[q][c]) : wire'[q][c][i] = wire[q][c][i]
  <2>1. CASE wire'[q][c] = wire[q][c] BY <2>1, <1>7
  <2>2. CASE wire'[q][c] = <<>> BY <2>2, <1>7
  <2>3. CASE \E n \in 0 .. Len(wire[q][c]) : wire'[q][c] = SubSeq(wire[q][c], 1, n)
    <3>1. PICK n \in 0 .. Len(wire[q][c]) : wire'[q][c] = SubSeq(wire[q][c], 1, n) BY <2>3
    <3>2. wire[q][c] \in Seq(Msg) BY <1>6
    <3> QED BY <3>1, <3>2, <1>7
  <2>4. ASSUME NEW p \in Peer, NEW d, Close(p, d)
        PROVE  wire'[q][c] = wire[q][c] \/ wire'[q][c] = <<>>
    <3>1. CASE d \in Conn
      <4>1. wire' = [wire EXCEPT ![p][d] = <<>>] BY <2>4, <3>1 DEF Close
      <4> QED BY <4>1, <3>1, <1>6
    <3>2. CASE d \notin Conn BY <2>4, <3>2 DEF Close
    <3> QED BY <3>1, <3>2
  <2>5. CASE ClientEntry
    <3>1. CASE ClientLost
      <4>1. Close(Client, fd[Client]) /\ Client \in Peer BY <3>1 DEF ClientLost, Peer
      <4> QED BY <4>1, <2>1, <2>2, <2>4
    <3>2. CASE NewSocket \/ Connect \/ ConnectFails
      <4>1. wire' = wire BY <3>2 DEF NewSocket, Connect, ConnectFails
      <4> QED BY <4>1, <2>1
    <3> QED BY <3>1, <3>2, <2>5 DEF ClientEntry
  <2>6. CASE Accept
    <3>1. Close(Server, fd[Server]) /\ Server \in Peer BY <2>6 DEF Accept, Peer
    <3> QED BY <3>1, <2>1, <2>2, <2>4
  <2>7. ASSUME NEW p \in Peer, NEW d \in Conn, Break(p, d)
        PROVE  \/ wire'[q][c] = wire[q][c]
               \/ \E n \in 0 .. Len(wire[q][c]) : wire'[q][c] = SubSeq(wire[q][c], 1, n)
    <3>1. PICK n \in 0 .. Len(wire[p][d]) :
             wire' = [wire EXCEPT ![p][d] = SubSeq(wire[p][d], 1, n)]
      BY <2>7 DEF Break
    <3> QED BY <3>1, <1>6
  <2>8. ASSUME NEW p \in Peer, NEW d \in Conn, Finish(p, d)
        PROVE  wire'[q][c] = wire[q][c]
    BY <2>8 DEF Finish
  <2> QED BY <2>1, <2>3, <2>5, <2>6, <2>7, <2>8
<1>9. \A p \in Peer : Sound(p)' /\ Ordered(p)'
  <2> SUFFICES ASSUME NEW p \in Peer PROVE Sound(p)' /\ Ordered(p)'
    OBVIOUS
  <2>1. LeadBounded(Other(p)) /\ Sound(p) /\ Ordered(p) BY <1>1, Peers
  <2>2. \A m : Carried(p, m, 0) BY <1>5
  <2>3. (ended => ended') /\ fifo'[p] = fifo[p] /\ hand'[p] = hand[p] BY <1>4
  <2> QED BY <1>1, <1>8, <2>1, <2>2, <2>3, StreamCut
<1> QED BY <1>2, <1>3, <1>5, <1>9 DEF IInv

\* A step that leaves the messages to p where they are.
LEMMA StreamSame ==
    ASSUME IInv, NEW p \in Peer, \A m : Carried(p, m, 0), ended => ended',
           fifo'[p] = fifo[p], hand'[p] = hand[p], wire'[p] = wire[p]
    PROVE  Sound(p)' /\ Ordered(p)'
<1>1. FsmShape /\ NetShape /\ LeadBounded(Other(p)) /\ Sound(p) /\ Ordered(p)
  BY Peers DEF IInv
<1>2. ASSUME NEW c \in Conn
      PROVE  /\ Len(wire'[p][c]) \in 0 .. Len(wire[p][c])
             /\ \A i \in 1 .. Len(wire'[p][c]) : wire'[p][c][i] = wire[p][c][i]
  <2>1. wire[p][c] \in Seq(Msg) BY <1>1 DEF NetShape
  <2>2. Len(wire[p][c]) \in 0 .. Len(wire[p][c]) BY <2>1
  <2> QED BY <2>2
<1> QED BY <1>1, <1>2, StreamCut

\* The receive task moves messages towards the state machine.
LEMMA ReceiverStep ==
    ASSUME IInv, NEW p \in Peer, alive[p], Receiver(p)
    PROVE  IInv'
<1> DEFINE q == Other(p)
<1>1. /\ FsmShape /\ NetShape /\ ConnectionsOrdered
      /\ \A r \in Peer : LeadBounded(r) /\ Sound(r) /\ Ordered(r)
  BY DEF IInv
<1>2. q \in Peer /\ q # p /\ Peer = {p, q} /\ LeadBounded(q) BY <1>1, Peers
<1>3. NetShape' /\ ConnectionsOrdered' BY <1>1, ReceiverShape, OtherOrder
<1>4. UNCHANGED fsmVars /\ (ended => ended')
  BY DEF Receiver, RecvTask, RecvError, RecvEnd, PushHand
<1>5. /\ FsmShape'
      /\ \A r \in Peer : LeadBounded(r)' /\ \A m : Carried(r, m, 0)
  BY <1>4, MachinesKept
<1>6. wire \in [Peer -> [Conn -> Seq(Msg)]] /\ fd[p] \in Conn \cup {NoSocket, Unconnected}
  BY <1>1 DEF NetShape
<1>7. fifo'[q] = fifo[q] /\ hand'[q] = hand[q] /\ wire'[q] = wire[q]
  <2>1. CASE RecvTask(p) BY <2>1, <1>1, <1>2, <1>6 DEF RecvTask, NetShape
  <2>2. CASE RecvError(p) BY <2>2 DEF RecvError
  <2>3. CASE RecvEnd(p) BY <2>3, <1>1, <1>2 DEF RecvEnd, NetShape
  <2>4. CASE PushHand(p) BY <2>4, <1>1, <1>2 DEF PushHand, NetShape
  <2> QED BY <2>1, <2>2, <2>3, <2>4 DEF Receiver
<1>8. Sound(q)' /\ Ordered(q)' BY <1>2, <1>4, <1>5, <1>7, StreamSame
<1>9. Sound(p)' /\ Ordered(p)'
  <2>1. CASE RecvTask(p)
    <3>1. /\ hand[p] = NoMsg /\ fd[p] \in Conn /\ wire[p][fd[p]] # <<>>
          /\ fifo' = fifo /\ ended' = ended
          /\ hand' = [hand EXCEPT ![p] = Head(wire[p][fd[p]])]
          /\ wire' = [wire EXCEPT ![p][fd[p]] = Tail(@)]
      BY <2>1 DEF RecvTask
    <3>2. PICK c \in Conn : c = fd[p] BY <3>1
    <3>3. hand'[p] = Head(wire[p][c]) BY <3>1, <3>2, <1>1 DEF NetShape
    <3>4. wire' = [wire EXCEPT ![p][c] = Tail(wire[p][c])] BY <3>1, <3>2, <1>6
    <3>5. \A b \in Conn : b < c => wire[p][b] = <<>>
      <4> SUFFICES ASSUME NEW b \in Conn, b < c PROVE wire[p][b] = <<>>
        OBVIOUS
      <4>1. b # c BY SyncAssumption DEF Conn
      <4>2. sock[p][b] = "closed"
        <5>1. CASE p = Client BY <5>1, <4>1, <3>2, <1>1 DEF ConnectionsOrdered
        <5>2. CASE p = Server BY <5>2, <3>2, <1>1 DEF ConnectionsOrdered
        <5> QED BY <5>1, <5>2 DEF Peer
      <4> QED BY <4>2, <1>1 DEF ConnectionsOrdered
    <3>6. LeadBounded(Other(p)) /\ Sound(p) /\ Ordered(p) /\ \A m : Carried(p, m, 0)
      BY <1>1, <1>2, <1>5
    <3>7. wire[p][c] # <<>> /\ hand[p] = NoMsg /\ fifo' = fifo /\ ended' = ended BY <3>1, <3>2
    <3> QED BY <1>1, <3>3, <3>4, <3>5, <3>6, <3>7, StreamTaken
  <2>2. CASE RecvError(p)
    <3>1. fifo'[p] = fifo[p] /\ hand'[p] = hand[p] /\ wire'[p] = wire[p]
      BY <2>2 DEF RecvError
    <3> QED BY <3>1, <1>4, <1>5, StreamSame
  <2>3. CASE RecvEnd(p)
    <3>1. ended' /\ hand'[p] = Phantom /\ wire' = wire /\ fifo' = fifo
      BY <2>3, <1>1 DEF RecvEnd, NetShape
    <3>2. LeadBounded(Other(p)) /\ Sound(p) /\ Ordered(p) /\ \A m : Carried(p, m, 0)
      BY <1>1, <1>2, <1>5
    <3> QED BY <3>1, <3>2, <1>1, StreamEnds
  <2>4. CASE PushHand(p)
    <3>1. /\ hand[p] # NoMsg /\ hand'[p] = NoMsg /\ wire' = wire /\ ended' = ended
          /\ fifo' = IF Fits(p, hand[p]) THEN [fifo EXCEPT ![p] = Append(@, hand[p])] ELSE fifo
      BY <2>4, <1>1 DEF PushHand, NetShape
    <3>2. LeadBounded(Other(p)) /\ Sound(p) /\ Ordered(p) /\ \A m : Carried(p, m, 0)
      BY <1>1, <1>2, <1>5
    <3>3. CASE Fits(p, hand[p])
      <4>1. fifo'[p] = Append(fifo[p], hand[p]) BY <3>1, <3>3, <1>1 DEF NetShape
      <4> QED BY <4>1, <3>1, <3>2, <1>1, StreamPushed
    <3>4. CASE ~Fits(p, hand[p])
      <4>1. fifo'[p] = fifo[p] BY <3>1, <3>4
      <4>2. ASSUME NEW c \in Conn
            PROVE  /\ Len(wire'[p][c]) \in 0 .. Len(wire[p][c])
                   /\ \A i \in 1 .. Len(wire'[p][c]) : wire'[p][c][i] = wire[p][c][i]
        <5>1. wire[p][c] \in Seq(Msg) BY <1>6
        <5>2. Len(wire[p][c]) \in 0 .. Len(wire[p][c]) BY <5>1
        <5> QED BY <5>2, <3>1
      <4> QED BY <4>1, <4>2, <3>1, <3>2, <1>1, StreamCut
    <3> QED BY <3>3, <3>4
  <2> QED BY <2>1, <2>2, <2>3, <2>4 DEF Receiver
<1>10. \A r \in Peer : Sound(r)' /\ Ordered(r)' BY <1>2, <1>8, <1>9
<1> QED BY <1>3, <1>5, <1>10 DEF IInv

\* Turns without a message: the streams stay where they are.
LEMMA TurnWithoutMessage ==
    ASSUME IInv, NEW p \in Peer,
           Setup(p) \/ SendFails(p) \/ RecvFails(p) \/ Tasking(p)
    PROVE  /\ FsmShape'
           /\ \A r \in Peer : LeadBounded(r)' /\ Sound(r)' /\ Ordered(r)'
<1>1. FsmShape /\ (\A r \in Peer : LeadBounded(r)) BY DEF IInv
<1>2. UNCHANGED <<wire, hand, fifo, ended>>
  BY DEF Setup, SendFails, RecvFails, Tasking, NetUnchanged
<1>3. FsmShape' /\ (Stays(p) \/ Enters(p)) /\ Stays(Other(p))
  <2>1. CASE Setup(p)
    <3>1. /\ fsm' = [fsm EXCEPT ![p] = After[fsm[p]]] /\ snapshot' = snapshot
          /\ fsm[p] \in TxState \cup {"SETUP"} /\ task' = task
      BY <2>1 DEF Setup
    <3> QED BY <3>1, <1>1, PassEnters
  <2>2. CASE SendFails(p) \/ RecvFails(p)
    <3>1. fsm[p] \in TxState \cup RxState /\ NoPass(p) /\ task' = task
      BY <2>2 DEF SendFails, RecvFails
    <3> QED BY <3>1, <1>1, NoPassStays, Peers
  <2>3. CASE Tasking(p)
    <3>1. /\ fsm' = [fsm EXCEPT ![p] = After[fsm[p]]] /\ snapshot' = snapshot
          /\ fsm[p] = "TASKING" /\ task' = [task EXCEPT ![p] = (task[p] + 1) % Rounds]
      BY <2>3 DEF Tasking, Pass
    <3> QED BY <3>1, <1>1, PassEnters
  <2> QED BY <2>1, <2>2, <2>3
<1>4. \A r \in Peer : LeadBounded(r)' /\ \A m : Carried(r, m, 0)
  BY <1>1, <1>2, <1>3, TurnKept
<1>5. \A r \in Peer : Sound(r)' /\ Ordered(r)'
  <2> TAKE r \in Peer
  <2>1. /\ \A m : Carried(r, m, 0)
        /\ ended => ended'
        /\ fifo'[r] = fifo[r] /\ hand'[r] = hand[r] /\ wire'[r] = wire[r]
    BY <1>2, <1>4
  <2> QED BY <2>1, StreamSame
<1> QED BY <1>3, <1>4, <1>5

\* A killed process gets no more messages.
LEMMA TurnKills ==
    ASSUME IInv, NEW p \in Peer, SendKills(p)
    PROVE  /\ FsmShape'
           /\ \A r \in Peer : LeadBounded(r)' /\ Sound(r)' /\ Ordered(r)'
<1>1. FsmShape /\ NetShape /\ \A r \in Peer : LeadBounded(r) /\ Sound(r) /\ Ordered(r)
  BY DEF IInv
<1>2. UNCHANGED fsmVars /\ ended' = ended BY DEF SendKills
<1>3. FsmShape' /\ \A r \in Peer : LeadBounded(r)' /\ \A m : Carried(r, m, 0)
  BY <1>2, MachinesKept
<1>4. /\ fifo' = [fifo EXCEPT ![p] = <<>>]
      /\ hand' = [hand EXCEPT ![p] = NoMsg]
      /\ wire' = [wire EXCEPT ![p] = [c \in Conn |-> <<>>]]
  BY DEF SendKills
<1>5. Sound(p)' /\ Ordered(p)'
  <2>1. fifo'[p] = <<>> /\ hand'[p] = NoMsg BY <1>1, <1>4 DEF NetShape
  <2>2. ASSUME NEW c \in Conn
        PROVE  /\ Len(wire'[p][c]) \in 0 .. Len(wire[p][c])
               /\ \A i \in 1 .. Len(wire'[p][c]) : wire'[p][c][i] = wire[p][c][i]
    <3>1. wire'[p][c] = <<>> BY <1>1, <1>4 DEF NetShape
    <3>2. wire[p][c] \in Seq(Msg) BY <1>1 DEF NetShape
    <3>3. 0 \in 0 .. Len(wire[p][c]) BY <3>2
    <3> QED BY <3>1, <3>3
  <2>3. LeadBounded(Other(p)) /\ Sound(p) /\ Ordered(p) BY <1>1, Peers
  <2>4. (\A m : Carried(p, m, 0)) /\ (ended => ended') BY <1>2, <1>3
  <2> QED BY <1>1, <2>1, <2>2, <2>3, <2>4, StreamCut
<1>6. Sound(Other(p))' /\ Ordered(Other(p))'
  <2>1. PICK q \in Peer : q = Other(p) /\ q # p BY Peers
  <2>2. fifo'[q] = fifo[q] /\ hand'[q] = hand[q] /\ wire'[q] = wire[q]
    BY <1>1, <1>4, <2>1 DEF NetShape
  <2>3. (\A m : Carried(q, m, 0)) /\ (ended => ended') BY <1>2, <1>3
  <2>4. Sound(q)' /\ Ordered(q)' BY <2>2, <2>3, StreamSame
  <2> QED BY <2>1, <2>4
<1> QED BY <1>3, <1>5, <1>6, Peers

\* A message is sent for the exchange of its sender, which its receiver is not
\* past, and which no message before it is of.
LEMMA TurnSends ==
    ASSUME IInv, NEW p \in Peer, Send(p)
    PROVE  /\ FsmShape'
           /\ \A r \in Peer : LeadBounded(r)' /\ Sound(r)' /\ Ordered(r)'
<1>1. /\ FsmShape /\ NetShape /\ ConnectionsOrdered
      /\ \A r \in Peer : LeadBounded(r) /\ Sound(r) /\ Ordered(r)
  BY DEF IInv
<1>2. PICK q \in Peer : q = Other(p) /\ q # p /\ Other(q) = p BY Peers
<1>3. /\ fsm[p] \in TxState /\ EndOf(p) \in {"up", "ended"}
      /\ Pass(p) /\ task' = task /\ UNCHANGED <<hand, fifo, ended>>
  BY DEF Send
<1>4. FsmShape' /\ Enters(p) /\ Stays(q)
  <2>1. /\ fsm' = [fsm EXCEPT ![p] = After[fsm[p]]] /\ snapshot' = snapshot
        /\ fsm[p] \in TxState \cup {"SETUP"} /\ task' = task
    BY <1>3 DEF Pass
  <2> QED BY <2>1, <1>1, <1>2, PassEnters
<1>5. \A r \in Peer : LeadBounded(r)' /\ \A m : Carried(r, m, 0)
  BY <1>1, <1>2, <1>3, <1>4, TurnKept
<1>6. PICK n \in Lens :
         LET m == [type |-> TypeAt[fsm[p]], len |-> n, xchg |-> Exchanges(p)]
         IN  wire' = IF EndOf(p) = "up" /\ sock[Other(p)][fd[p]] = "up"
                     THEN [wire EXCEPT ![Other(p)][fd[p]] = Append(@, m)]
                     ELSE wire
  BY DEF Send
<1>7. PICK m : m = [type |-> TypeAt[fsm[p]], len |-> n, xchg |-> Exchanges(p)] OBVIOUS
<1>8. PICK c \in Conn : c = fd[p] BY <1>3 DEF EndOf
<1>9. \/ wire' = wire
      \/ /\ EndOf(p) = "up" /\ sock[q][c] = "up"
         /\ wire' = [wire EXCEPT ![q][c] = Append(wire[q][c], m)]
  BY <1>2, <1>6, <1>7, <1>8
<1>10. wire \in [Peer -> [Conn -> Seq(Msg)]] BY <1>1 DEF NetShape
<1>11. Sound(p)' /\ Ordered(p)'
  <2>1. fifo'[p] = fifo[p] /\ hand'[p] = hand[p] /\ wire'[p] = wire[p]
    BY <1>2, <1>3, <1>9, <1>10
  <2>2. (\A x : Carried(p, x, 0)) /\ (ended => ended') BY <1>3, <1>5
  <2> QED BY <2>1, <2>2, StreamSame
<1>12. Sound(q)' /\ Ordered(q)'
  <2>1. CASE wire' = wire
    <3>1. fifo'[q] = fifo[q] /\ hand'[q] = hand[q] /\ wire'[q] = wire[q] BY <1>3, <2>1
    <3>2. (\A x : Carried(q, x, 0)) /\ (ended => ended') BY <1>3, <1>5
    <3> QED BY <3>1, <3>2, StreamSame
  <2>2. CASE /\ EndOf(p) = "up" /\ sock[q][c] = "up"
             /\ wire' = [wire EXCEPT ![q][c] = Append(wire[q][c], m)]
    <3>1. At(p) = fsm[p] /\ At(p) \in Place /\ At(p) \notin RxState /\ At(p)' \in RxState
      <4>1. At(p) = fsm[p] BY <1>3 DEF At, TxState
      <4>2. At(p) \in Place BY <1>1, ExchangesIs
      <4>3. At(p) \notin RxState /\ After[At(p)] \in RxState
        BY <1>3, <4>1, <4>2, ExchangesInFacts
      <4>4. fsm[p] # "STOP" BY <1>3 DEF TxState
      <4>5. At(p)' = After[At(p)] BY <1>1, <1>3, <4>1, <4>4, PassIs DEF Pass
      <4> QED BY <4>1, <4>2, <4>3, <4>5
    <3>2. /\ Lead(q) \in -2 .. 2 /\ Lead(p) = -Lead(q)
          /\ Lead(p)' = Lead(p)
      <4>1. LeadBounded(p) /\ LeadBounded(q) BY <1>1
      <4>2. Lead(q) \in -2 .. 2 /\ Lead(p) = -Lead(q)
        BY <4>1, <1>1, <1>2, LeadFacts
      <4>3. Lead(p)' = Lead(p) BY <4>1, <1>2, <1>3, <1>4, LeadKept
      <4> QED BY <4>2, <4>3
    <3>3. Pos(q, m) = Lead(p) /\ Pos(q, m)' = Pos(q, m) /\ Pos(q, m) \in Int
      <4>1. Pos(q, m) = Lead(p) BY <1>2, <1>7 DEF Pos, Lead
      <4>2. Exchanges(q)' = Exchanges(q) BY <1>4 DEF Stays
      <4>3. Pos(q, m)' = Pos(q, m) BY <4>2 DEF Pos
      <4> QED BY <4>1, <4>3, <3>2
    <3>4. m \in Msg BY <1>1, <1>3, <1>7, SentIsMsg
    <3>5. \E k \in 0 .. Rounds - 1 : m.xchg = 3 * k + PhaseOf[m.type]
      <4>1. fsm[p] \in Place BY <3>1
      <4>2. ExchangesIn[fsm[p]] = PhaseOf[m.type] BY <4>1, <1>3, <1>7, ExchangesInFacts
      <4>3. ExchangesIn[fsm[p]] < 3 BY <1>3 DEF TxState, ExchangesIn
      <4>4. Exchanges(p) = 3 * task[p] + ExchangesIn[fsm[p]] /\ task[p] \in 0 .. Rounds - 1
        BY <4>3, <3>1, <1>1, ExchangesIs
      <4> QED BY <4>2, <4>4, <1>7
    <3>6. Pos(q, m) >= IF ended /\ InHigh(q) THEN -1 ELSE 0
      <4>1. Lead(q) = 1 => ended /\ InHigh(q) BY <3>1, <1>1, <1>2 DEF LeadBounded
      <4>2. Lead(q) # 2 BY <3>1, <1>1, <1>2 DEF LeadBounded
      <4> QED BY <4>1, <4>2, <3>2, <3>3
    <3>7. Fresh(q, m)'
      <4>1. InHigh(q)' = InHigh(q) BY <1>4 DEF Stays, InHigh
      <4>2. Pos(q, m)' >= IF ended' /\ InHigh(q)' THEN -1 ELSE 0 BY <4>1, <3>3, <3>6, <1>3
      <4>3. Pos(q, m)' <= Lead(p)' - 0 BY <3>2, <3>3
      <4> QED BY <4>2, <4>3, <3>1, <3>4, <3>5, <1>2 DEF Fresh
    <3>8. \A x : Fresh(q, x) => Pos(q, x) < Pos(q, m)
      <4> SUFFICES ASSUME NEW x, Fresh(q, x) PROVE Pos(q, x) < Pos(q, m)
        OBVIOUS
      <4>1. Pos(q, x) <= Lead(p) - 1 BY <3>1, <1>2 DEF Fresh
      <4>2. LeadBounded(Other(q)) BY <1>1, <1>2
      <4>3. Pos(q, x) \in -1 .. 2 BY <4>2, <1>1, FreshPos
      <4> QED BY <4>1, <4>3, <3>2, <3>3
    <3>9. \A b \in Conn : b > c => wire[q][b] = <<>>
      <4> SUFFICES ASSUME NEW b \in Conn, b > c PROVE wire[q][b] = <<>>
        OBVIOUS
      <4>1. b # c /\ MaxConn \in Nat /\ c \in Nat /\ c >= 1 /\ b \in Nat BY SyncAssumption DEF Conn
      <4>2. sock[q][b] = "closed"
        <5>1. CASE q = Client
          <6>1. c = fd[Client] BY <5>1, <2>2, <1>1 DEF ConnectionsOrdered
          <6> QED BY <6>1, <5>1, <4>1, <1>1 DEF ConnectionsOrdered
        <5>2. CASE q = Server
          <6>1. p = Client BY <5>2, <1>2 DEF Peer
          <6>2. c \in {NoSocket, Unconnected, made} BY <6>1, <1>1, <1>8 DEF ConnectionsOrdered
          <6>3. c = made BY <6>2, <4>1 DEF NoSocket, Unconnected, Conn
          <6>4. b > made BY <6>3
          <6> QED BY <6>4, <5>2, <1>1 DEF ConnectionsOrdered
        <5> QED BY <5>1, <5>2 DEF Peer
      <4> QED BY <4>2, <1>1 DEF ConnectionsOrdered
    <3>10. /\ LeadBounded(Other(q)) /\ Sound(q) /\ Ordered(q) /\ ended' = ended
           /\ \A x : Carried(q, x, 0)
           /\ fifo' = fifo /\ hand' = hand
      BY <1>1, <1>2, <1>3, <1>5
    <3> QED BY <1>1, <2>2, <3>3, <3>7, <3>8, <3>9, <3>10, StreamSent
  <2> QED BY <2>1, <2>2, <1>9
<1>13. Peer = {p, q} BY <1>2, Peers
<1> QED BY <1>4, <1>5, <1>11, <1>12, <1>13

\* An end of stream is not fresh: nobody sent it.
LEMMA PhantomNotFresh ==
    ASSUME FsmShape, NEW p \in Peer, LeadBounded(Other(p))
    PROVE  ~Fresh(p, Phantom)
<1> SUFFICES ASSUME Fresh(p, Phantom) PROVE FALSE
  OBVIOUS
<1>1. Phantom.xchg \in Xchg BY FreshPos
<1>2. Phantom.xchg = 3 * Rounds BY DEF Phantom, Nowhere
<1> QED BY <1>1, <1>2, XchgBound DEF Xchg

\* A message that passes is of the current exchange, so every one after it is
\* of a later one; an end of stream that passes completes the exchange of START.
LEMMA TurnGets ==
    ASSUME IInv, NEW p \in Peer, Recv(p)
    PROVE  /\ FsmShape'
           /\ \A r \in Peer : LeadBounded(r)' /\ Sound(r)' /\ Ordered(r)'
<1>1. /\ FsmShape /\ NetShape
      /\ \A r \in Peer : LeadBounded(r) /\ Sound(r) /\ Ordered(r)
  BY DEF IInv
<1>2. PICK q \in Peer : q = Other(p) /\ q # p /\ Other(q) = p /\ Peer = {p, q} BY Peers
<1>3. /\ fsm[p] \in RxState /\ fifo[p] # <<>>
      /\ fifo' = [fifo EXCEPT ![p] = Tail(@)]
      /\ IF Head(fifo[p]).type = TypeAt[fsm[p]] THEN Pass(p) ELSE NoPass(p)
      /\ task' = task /\ wire' = wire /\ hand' = hand /\ ended' = ended
  BY DEF Recv
<1>4. /\ fifo'[p] = Tail(fifo[p])
      /\ fifo'[q] = fifo[q] /\ hand'[q] = hand[q] /\ wire'[q] = wire[q]
  BY <1>1, <1>2, <1>3 DEF NetShape
<1>5. LeadBounded(p) /\ LeadBounded(q) /\ LeadBounded(Other(p)) /\ LeadBounded(Other(q))
  BY <1>1, <1>2
<1>6. CASE Head(fifo[p]).type # TypeAt[fsm[p]]
  <2>1. NoPass(p) /\ fsm[p] \in TxState \cup RxState BY <1>3, <1>6
  <2>2. FsmShape' /\ \A r \in Peer : Stays(r) BY <2>1, <1>1, <1>3, NoPassStays
  <2>3. \A r \in Peer : LeadBounded(r)' /\ \A m : Carried(r, m, 0)
    <3>1. Stays(p) /\ Stays(Other(p)) BY <2>2, <1>2
    <3> QED BY <3>1, <1>1, <1>3, TurnKept
  <2>4. Sound(p)' /\ Ordered(p)'
    <3>1. \A a \in Places : \A i \in 1 .. Len(Stream(p, a)) :
             a # 0 \/ i # 1 => \A m : m = Stream(p, a)[i] => Carried(p, m, 0)
      BY <2>3
    <3>2. 0 \in Int OBVIOUS
    <3> QED BY <3>1, <3>2, <1>1, <1>3, <1>4, <1>5, StreamGets
  <2>5. Sound(q)' /\ Ordered(q)'
    <3>1. (\A m : Carried(q, m, 0)) /\ (ended => ended') BY <1>3, <2>3
    <3> QED BY <3>1, <1>4, StreamSame
  <2> QED BY <2>2, <2>3, <2>4, <2>5, <1>2
<1>7. CASE Head(fifo[p]).type = TypeAt[fsm[p]]
  <2> DEFINE h == Head(fifo[p])
  <2>1. FsmShape' /\ Completes(p) /\ Stays(q) /\ At(p) = fsm[p]
    BY <1>1, <1>2, <1>3, <1>7, PassCompletes
  <2>2. /\ Stream(p, 0) = fifo[p] /\ 0 \in Places
        /\ 1 \in 1 .. Len(Stream(p, 0)) /\ Stream(p, 0)[1] = h
    <3>1. fifo[p] \in Seq(Msg \cup {Phantom}) BY <1>1 DEF NetShape
    <3>2. 1 \in 1 .. Len(fifo[p]) /\ fifo[p][1] = h BY <3>1, <1>3
    <3> QED BY <3>2, StreamAt
  <2>3. Fresh(p, h) \/ (h = Phantom /\ ended) BY <2>2, <1>1 DEF Sound
  <2>4. Fresh(p, h) => Pos(p, h) = 0
    BY <1>1, <1>3, <1>5, <1>7, MatchIsCurrent
  <2>5. h = Phantom => fsm[p] = "START_RX"
    <3>1. Phantom.type = "START" BY DEF Phantom
    <3>2. fsm[p] \in RxState /\ TypeAt[fsm[p]] = "START" => fsm[p] = "START_RX"
      BY DEF RxState, TypeAt
    <3> QED BY <3>1, <3>2, <1>3, <1>7
  <2>6. MayComplete(p)
    <3>1. CASE Fresh(p, h)
      <4>1. 0 <= Lead(q) - (IF At(q) \in RxState THEN 0 ELSE 1)
        BY <3>1, <2>4, <1>2 DEF Fresh
      <4>2. Lead(p) \in -2 .. 2 /\ Lead(q) = -Lead(p) BY <1>1, <1>2, <1>5, LeadFacts
      <4>3. Lead(p) <= 0 /\ (Lead(p) = 0 => At(q) \in RxState) BY <4>1, <4>2
      <4> QED BY <4>3, <1>2 DEF MayComplete
    <3>2. CASE h = Phantom /\ ended BY <3>2, <2>1, <2>5 DEF MayComplete
    <3> QED BY <3>1, <3>2, <2>3
  <2>7. /\ Lead(p) \in -2 .. 1
        /\ Lead(p)' = Lead(p) + 1
        /\ Lead(q)' = Lead(q) - 1
        /\ LeadBounded(p)'
        /\ LeadBounded(q)'
    BY <2>1, <2>6, <1>1, <1>2, <1>3, <1>5, LeadGrows
  <2>8. Sound(p)' /\ Ordered(p)'
    <3>1. ASSUME NEW a \in Places, NEW i \in 1 .. Len(Stream(p, a)), a # 0 \/ i # 1,
                 NEW m, m = Stream(p, a)[i]
          PROVE  Carried(p, m, 1)
      <4> SUFFICES ASSUME Fresh(p, m) PROVE Fresh(p, m)' /\ Pos(p, m)' = Pos(p, m) - 1
        BY DEF Carried
      <4>1. Pos(p, m) > 0 \/ (ended /\ At(p) = "START_RX")
        <5>1. CASE Fresh(p, h)
          <6>1. m # Phantom /\ h # Phantom BY <5>1, <1>1, <1>5, PhantomNotFresh
          <6>2. 0 < a \/ (0 = a /\ 1 < i)
            <7>1. a \in Nat /\ i \in Nat /\ i >= 1 BY SyncAssumption DEF Places
            <7> QED BY <7>1, <3>1
          <6>3. Pos(p, h) < Pos(p, m) BY <6>1, <6>2, <3>1, <2>2, <1>1 DEF Ordered
          <6>4. Pos(p, m) \in -1 .. 2 BY <1>1, <1>5, FreshPos
          <6> QED BY <6>3, <6>4, <5>1, <2>4
        <5>2. CASE h = Phantom /\ ended BY <5>2, <2>1, <2>5
        <5> QED BY <5>1, <5>2, <2>3
      <4>2. Stays(Other(p)) /\ Lead(Other(p))' = Lead(Other(p)) - 1
        BY <2>1, <2>7, <1>2
      <4> QED BY <4>1, <4>2, <2>1, <1>1, <1>3, <1>5, FreshCompletes
    <3>2. \A a \in Places : \A i \in 1 .. Len(Stream(p, a)) :
             a # 0 \/ i # 1 => \A m : m = Stream(p, a)[i] => Carried(p, m, 1)
      BY <3>1
    <3>3. 1 \in Int OBVIOUS
    <3> QED BY <3>2, <3>3, <1>1, <1>3, <1>4, <1>5, StreamGets
  <2>9. Sound(q)' /\ Ordered(q)'
    <3>1. \A m : Carried(q, m, 0)
      <4> SUFFICES ASSUME NEW m, Fresh(q, m)
                   PROVE  Fresh(q, m)' /\ Pos(q, m)' = Pos(q, m) - 0
        BY DEF Carried
      <4>1. /\ Completes(Other(q)) /\ Lead(Other(q)) \in Int
            /\ Lead(Other(q))' = Lead(Other(q)) + 1
        BY <2>1, <2>7, <1>2
      <4>2. Fresh(q, m)' /\ Pos(q, m)' = Pos(q, m)
        BY <4>1, <2>1, <1>3, FreshOtherCompletes
      <4>3. Pos(q, m) \in -1 .. 2 BY <1>1, <1>5, FreshPos
      <4>4. Pos(q, m) - 0 = Pos(q, m) BY <4>3
      <4> QED BY <4>2, <4>4
    <3>2. ended => ended' BY <1>3
    <3> QED BY <3>1, <3>2, <1>4, StreamSame
  <2> QED BY <2>1, <2>7, <2>8, <2>9, <1>2
<1> QED BY <1>6, <1>7

\* The turns of the state machine keep the invariant.
LEMMA TurnStep ==
    ASSUME IInv, NEW p \in Peer, FsmTurn(p)
    PROVE  IInv'
<1>1. FsmShape /\ NetShape /\ ConnectionsOrdered BY DEF IInv
<1>2. NetShape' BY <1>1, TurnShape
<1>3. ConnectionsOrdered' BY <1>1, OtherOrder, KillOrder DEF FsmTurn
<1>4. FsmShape' /\ \A r \in Peer : LeadBounded(r)' /\ Sound(r)' /\ Ordered(r)'
  BY TurnWithoutMessage, TurnKills, TurnSends, TurnGets DEF FsmTurn
<1> QED BY <1>2, <1>3, <1>4 DEF IInv

-------------------------------------------------------------------------------
(* The theorems.                                                           *)

\* The invariant holds at the start: both peers are at the same exchange, and
\* nothing is on its way.
LEMMA InitInv ==
    ASSUME Init
    PROVE  IInv
<1>1. MaxConn \in Nat \ {0} /\ Rounds \in Nat /\ Rounds >= 2 BY SyncAssumption
<1>2. FsmShape
  <2>1. 0 \in 0 .. Rounds - 1 BY <1>1
  <2> QED BY <2>1 DEF Init, FsmShape, At, Fsm
<1>3. NetShape
  <2>1. "closed" \in SockEnd BY DEF SockEnd
  <2>2. <<>> \in Seq(Msg) /\ <<>> \in Seq(Msg \cup {Phantom}) OBVIOUS
  <2> QED BY <2>1, <2>2 DEF Init, NetShape
<1>4. ConnectionsOrdered
  <2>1. 0 \in 0 .. MaxConn /\ 0 \in 0 .. 0 BY <1>1
  <2>2. <<>> \in Seq(Conn) /\ Len(<<>>) = 0 OBVIOUS
  <2>3. Client \in Peer /\ Server \in Peer BY DEF Peer
  <2> QED BY <2>1, <2>2, <2>3 DEF Init, ConnectionsOrdered, NoSocket
<1>5. ASSUME NEW p \in Peer PROVE LeadBounded(p)
  <2>1. Exchanges(p) = Exchanges(Other(p)) BY Peers DEF Init, Exchanges, At
  <2>2. Lead(p) = 0
    <3>1. Exchanges(p) \in Xchg BY <1>2, ExchangesIs
    <3> QED BY <3>1, <2>1, AheadFacts DEF Lead
  <2> QED BY <2>2 DEF LeadBounded
<1>6. ASSUME NEW p \in Peer, NEW a \in Places PROVE Len(Stream(p, a)) = 0
  <2>1. CASE a \in {0, 1} BY <2>1 DEF Init, Stream
  <2>2. CASE a \notin {0, 1}
    <3>1. a - 1 \in Conn BY <2>2, StreamAt
    <3> QED BY <3>1, <2>2 DEF Init, Stream
  <2> QED BY <2>1, <2>2
<1>7. ASSUME NEW p \in Peer PROVE Sound(p) /\ Ordered(p)
  <2>1. \A a \in Places : \A i \in 1 .. Len(Stream(p, a)) : FALSE BY <1>6
  <2> QED BY <2>1 DEF Sound, Ordered
<1> QED BY <1>2, <1>3, <1>4, <1>5, <1>7 DEF IInv

\* In every reachable state the peers are at most two exchanges apart, what is
\* on its way to a peer is of this exchange or one the other is ahead, in order,
\* and the connections are in order.
THEOREM Invariant == Spec => []IInv
<1>1. Init => IInv BY InitInv
<1>2. IInv /\ [Next]_vars => IInv'
  <2> SUFFICES ASSUME IInv, [Next]_vars PROVE IInv'
    OBVIOUS
  <2>1. CASE ClientEntry \/ Accept BY <2>1, NetStep
  <2>2. ASSUME NEW p \in Peer, FsmTurn(p) PROVE IInv' BY <2>2, TurnStep
  <2>3. ASSUME NEW p \in Peer, Receiver(p) PROVE IInv'
    <3>1. alive[p] BY <2>3 DEF Receiver, RecvTask, RecvError, RecvEnd, PushHand
    <3> QED BY <3>1, <2>3, ReceiverStep
  <2>4. ASSUME NEW p \in Peer, NEW c \in Conn, Break(p, c) \/ Finish(p, c) PROVE IInv'
    BY <2>4, NetStep
  <2>5. CASE UNCHANGED vars
    <3>1. /\ UNCHANGED fsmVars /\ alive' = alive /\ fd' = fd /\ backlog' = backlog
          /\ made' = made /\ sock' = sock /\ wire' = wire /\ hand' = hand
          /\ fifo' = fifo /\ ended' = ended
      BY <2>5 DEF vars, netVars
    <3>2. /\ FsmShape'
          /\ \A r \in Peer : LeadBounded(r)' /\ \A m : Carried(r, m, 0)
      BY <3>1, MachinesKept
    <3>3. NetShape' BY <3>1 DEF IInv, NetShape
    <3>4. ConnectionsOrdered' BY <3>1, OrderKept DEF IInv
    <3>5. \A p \in Peer : Sound(p)' /\ Ordered(p)' BY <3>1, <3>2, StreamSame
    <3> QED BY <3>2, <3>3, <3>4, <3>5 DEF IInv
  <2> QED BY <2>1, <2>2, <2>3, <2>4, <2>5 DEF Next
<1> QED BY <1>1, <1>2, PTL DEF Spec

\* The peers step each other, for every number of connections made and lost.
THEOREM LockstepAlways == Spec => []Lockstep
<1>1. IInv => Lockstep
  <2> SUFFICES ASSUME IInv, ~ended, NEW p \in Peer
               PROVE  \/ Exchanges(p) = Exchanges(Other(p))
                      \/ /\ Exchanges(p) = (Exchanges(Other(p)) + 1) % (3 * Rounds)
                         /\ At(Other(p)) \in RxState
                      \/ /\ Exchanges(Other(p)) = (Exchanges(p) + 1) % (3 * Rounds)
                         /\ At(p) \in RxState
    BY DEF Lockstep
  <2>1. PICK q \in Peer : q = Other(p) /\ Other(q) = p BY Peers
  <2>2. FsmShape /\ LeadBounded(p) /\ LeadBounded(q) BY <2>1 DEF IInv
  <2>3. Lead(p) \in -2 .. 2 /\ Lead(q) = -Lead(p) BY <2>1, <2>2, LeadFacts
  <2>4. /\ Lead(p) # 2 /\ Lead(q) # 2
        /\ Lead(p) = 1 => At(q) \in RxState
        /\ Lead(q) = 1 => At(p) \in RxState
    BY <2>1, <2>2 DEF LeadBounded
  <2>5. ASSUME NEW x \in Xchg PROVE (x + 1) % (3 * Rounds) = Succ(x)
    <3>1. x + 1 \in 0 .. 3 * Rounds /\ x \in Nat BY XchgBound DEF Xchg
    <3>2. x + 1 < 3 * Rounds \/ x + 1 = 3 * Rounds BY <3>1, XchgBound
    <3> QED BY <3>1, <3>2, XchgBound, XchgRemainder DEF Succ
  <2>6. Exchanges(p) \in Xchg /\ Exchanges(q) \in Xchg BY <2>2, ExchangesIs
  <2>7. CASE Lead(p) = 0
    <3>1. Exchanges(p) = Exchanges(q) BY <2>1, <2>2, <2>7, LeadFacts
    <3> QED BY <3>1, <2>1
  <2>8. CASE Lead(p) = 1
    <3>1. Exchanges(p) = Succ(Exchanges(q)) BY <2>1, <2>2, <2>8, LeadFacts
    <3> QED BY <3>1, <2>1, <2>4, <2>5, <2>6, <2>8
  <2>9. CASE Lead(q) = 1
    <3>1. Exchanges(q) = Succ(Exchanges(p)) BY <2>1, <2>2, <2>9, LeadFacts
    <3> QED BY <3>1, <2>1, <2>4, <2>5, <2>6, <2>9
  <2>10. Lead(p) = 0 \/ Lead(p) = 1 \/ Lead(q) = 1 BY <2>3, <2>4
  <2> QED BY <2>7, <2>8, <2>9, <2>10
<1> QED BY <1>1, Invariant, PTL

\* A message that passes was sent for this exchange of this round.
THEOREM CurrentOnly == Spec => []TakesCurrentOnly
<1>1. IInv => TakesCurrentOnly
  <2> SUFFICES ASSUME IInv, NEW p \in Peer, fsm[p] \in RxState, fifo[p] # <<>>,
                      NEW m, m = Head(fifo[p]), m.type = TypeAt[fsm[p]]
               PROVE  m.xchg \in {Exchanges(p), Nowhere}
    BY DEF TakesCurrentOnly
  <2>1. FsmShape /\ NetShape /\ LeadBounded(Other(p)) /\ Sound(p) BY Peers DEF IInv
  <2>2. /\ Stream(p, 0) = fifo[p] /\ 0 \in Places
        /\ 1 \in 1 .. Len(Stream(p, 0)) /\ Stream(p, 0)[1] = m
    <3>1. fifo[p] \in Seq(Msg \cup {Phantom}) BY <2>1 DEF NetShape
    <3>2. 1 \in 1 .. Len(fifo[p]) /\ fifo[p][1] = m BY <3>1
    <3> QED BY <3>2, StreamAt
  <2>3. Fresh(p, m) \/ m = Phantom BY <2>1, <2>2 DEF Sound
  <2>4. CASE Fresh(p, m) BY <2>1, <2>4, MatchIsCurrent
  <2>5. CASE m = Phantom BY <2>5 DEF Phantom
  <2> QED BY <2>3, <2>4, <2>5
<1> QED BY <1>1, Invariant, PTL

\* The bytes of no message, and of one.
LEMMA BytesOfFew ==
    ASSUME NEW S, NEW s \in Seq(S), Len(s) <= 1, \A x \in S : Total(x) \in Nat
    PROVE  Bytes(s) = IF Len(s) = 0 THEN 0 ELSE Total(s[1])
<1> DEFINE Sums(f) == f = [i \in 0 .. Len(s) |-> IF i = 0 THEN 0 ELSE f[i - 1] + Total(s[i])]
           sums == CHOOSE f : Sums(f)
<1>1. Bytes(s) = sums[Len(s)] BY DEF Bytes
<1>2. Len(s) \in {0, 1}
  <2>1. Len(s) \in Nat OBVIOUS
  <2>2. \A n \in Nat : n <= 1 => n \in {0, 1} OBVIOUS
  <2> QED BY <2>1, <2>2
<1>3. \E f : Sums(f)
  <2> DEFINE G == [i \in 0 .. Len(s) |-> IF i = 0 THEN 0 ELSE Total(s[1])]
  <2>1. \A i \in 0 .. Len(s) : G[i] = IF i = 0 THEN 0 ELSE G[i - 1] + Total(s[i])
    <3> SUFFICES ASSUME NEW i \in 0 .. Len(s), i # 0
                 PROVE  G[i] = G[i - 1] + Total(s[i])
      OBVIOUS
    <3>1. i = 1 /\ Len(s) = 1 /\ i - 1 = 0 BY <1>2
    <3>2. s[1] \in S
      <4>1. \A k \in 1 .. Len(s) : s[k] \in S BY ONLY s \in Seq(S), ElementOfSeq
      <4> QED BY <4>1, <3>1
    <3>3. Total(s[1]) \in Nat BY <3>2
    <3>4. G[0] = 0 /\ G[1] = Total(s[1]) BY <3>1
    <3>5. 0 + Total(s[1]) = Total(s[1]) BY <3>3
    <3> QED BY <3>1, <3>4, <3>5
  <2>2. G = [i \in 0 .. Len(s) |-> G[i]] OBVIOUS
  <2>3. Sums(G)
    <3> HIDE DEF G
    <3> QED BY <2>1, <2>2
  <2> HIDE DEF Sums
  <2> QED BY <2>3
<1>4. Sums(sums)
  <2> HIDE DEF Sums
  <2> QED BY <1>3 DEF sums
<1>5. CASE Len(s) = 0
  <2>1. 0 \in 0 .. Len(s) BY <1>5
  <2> HIDE DEF sums
  <2> QED BY <2>1, <1>1, <1>4, <1>5
<1>6. CASE Len(s) = 1
  <2>1. 0 \in 0 .. Len(s) /\ 1 \in 0 .. Len(s) /\ 1 - 1 = 0 BY <1>6
  <2>2. Total(s[1]) \in Nat BY <1>6
  <2>3. sums[0] = 0 /\ sums[1] = sums[0] + Total(s[1])
    <3> HIDE DEF sums
    <3> QED BY <2>1, <1>4
  <2> HIDE DEF sums
  <2> QED BY <2>2, <2>3, <1>1, <1>6
<1> QED BY <1>2, <1>5, <1>6

\* A FIFO that holds any two messages is never too full for what was sent.
\* There is room in it because a peer never has more than two exchanges
\* outstanding, so the FIFO holds one message at most when another comes.
THEOREM RoomForTwo ==
    ASSUME \A m, n \in Lens : 2 * HeadLen + m + n <= FifoSize
    PROVE  Spec => []NothingDropped
<1>1. IInv => NothingDropped
  <2> SUFFICES ASSUME IInv, ~ended, NEW p \in Peer, hand[p] # NoMsg
               PROVE  Fits(p, hand[p])
    BY DEF NothingDropped
  <2>1. /\ FsmShape /\ NetShape /\ LeadBounded(Other(p)) /\ LeadBounded(p)
        /\ Sound(p) /\ Ordered(p)
    BY Peers DEF IInv
  <2>2. Lead(Other(p)) \in -2 .. 1 BY <2>1 DEF LeadBounded
  <2>3. /\ Stream(p, 0) = fifo[p] /\ Stream(p, 1) = <<hand[p]>>
        /\ 0 \in Places /\ 1 \in Places
    BY StreamAt
  <2>4. PICK h : h = hand[p] OBVIOUS
  <2>5. 1 \in 1 .. Len(Stream(p, 1)) /\ Stream(p, 1)[1] = h BY <2>3, <2>4
  <2>6. ASSUME NEW m, Fresh(p, m) PROVE m \in Msg /\ m # Phantom /\ Pos(p, m) \in 0 .. 1
    <3>1. Pos(p, m) \in -1 .. 2 /\ Pos(p, m) <= Lead(Other(p)) BY <2>1, <2>6, FreshPos
    <3>2. m \in Msg /\ Pos(p, m) >= 0 BY <2>6 DEF Fresh
    <3>3. m # Phantom BY <2>1, <2>6, PhantomNotFresh
    <3> QED BY <3>1, <3>2, <3>3, <2>2
  <2>7. Fresh(p, h) BY <2>1, <2>3, <2>5 DEF Sound
  <2>8. ASSUME NEW i \in 1 .. Len(fifo[p])
        PROVE  /\ Fresh(p, fifo[p][i])
               /\ Pos(p, fifo[p][i]) = 0
    <3>1. Fresh(p, fifo[p][i]) BY <2>1, <2>3 DEF Sound
    <3>2. Pos(p, fifo[p][i]) < Pos(p, h)
      <4>1. fifo[p][i] # Phantom /\ h # Phantom BY <3>1, <2>6, <2>7
      <4> QED BY <4>1, <2>1, <2>3, <2>5 DEF Ordered
    <3>3. Pos(p, fifo[p][i]) \in 0 .. 1 /\ Pos(p, h) \in 0 .. 1 BY <3>1, <2>6, <2>7
    <3> QED BY <3>1, <3>2, <3>3
  <2>9. fifo[p] \in Seq(Msg \cup {Phantom}) /\ Len(fifo[p]) \in Nat BY <2>1 DEF NetShape
  <2>10. Len(fifo[p]) <= 1
    <3> SUFFICES ASSUME Len(fifo[p]) > 1 PROVE FALSE
      BY <2>9
    <3>1. 1 \in 1 .. Len(fifo[p]) /\ 2 \in 1 .. Len(fifo[p]) BY <2>9
    <3>2. Pos(p, fifo[p][1]) = 0 /\ Pos(p, fifo[p][2]) = 0 BY <3>1, <2>8
    <3>3. fifo[p][1] # Phantom /\ fifo[p][2] # Phantom BY <3>1, <2>6, <2>8
    <3>4. Pos(p, fifo[p][1]) < Pos(p, fifo[p][2])
      <4>1. 0 = 0 /\ 1 < 2 OBVIOUS
      <4> QED BY <4>1, <3>1, <3>3, <2>1, <2>3 DEF Ordered
    <3> QED BY <3>2, <3>4
  <2>11. HeadLen \in Nat /\ FifoSize \in Nat /\ Lens \subseteq Nat BY SyncAssumption
  <2>12. \A m \in Msg \cup {Phantom} : Total(m) \in Nat
    <3> TAKE m \in Msg \cup {Phantom}
    <3>1. m.len \in Nat
      <4>1. CASE m \in Msg
        <5>1. m.len \in Lens BY <4>1 DEF Msg
        <5> QED BY <5>1, <2>11
      <4>2. CASE m = Phantom
        <5>1. m.len = 0 BY <4>2 DEF Phantom
        <5> QED BY <5>1
      <4> QED BY <4>1, <4>2
    <3> QED BY <3>1, <2>11 DEF Total
  <2>13. Bytes(fifo[p]) = IF Len(fifo[p]) = 0 THEN 0 ELSE Total(fifo[p][1])
    BY ONLY <2>9, <2>10, <2>12, BytesOfFew
  <2>14. h \in Msg /\ h.len \in Lens /\ Total(h) = HeadLen + h.len
    BY <2>6, <2>7 DEF Msg, Total
  <2>15. CASE Len(fifo[p]) = 0
    <3>1. 2 * HeadLen + h.len + h.len <= FifoSize BY <2>14
    <3>2. \A a, b, c \in Nat : 2 * a + b + b <= c => 0 + (a + b) <= c OBVIOUS
    <3>3. h.len \in Nat BY <2>11, <2>14
    <3>4. 0 + (HeadLen + h.len) <= FifoSize BY ONLY <3>1, <3>2, <3>3, <2>11
    <3> QED BY <3>4, <2>4, <2>13, <2>14, <2>15 DEF Fits
  <2>16. CASE Len(fifo[p]) = 1
    <3>1. PICK m : m = fifo[p][1] OBVIOUS
    <3>2. m \in Msg
      <4>1. 1 \in 1 .. Len(fifo[p]) BY <2>16
      <4> QED BY <4>1, <3>1, <2>6, <2>8
    <3>3. m.len \in Lens /\ Total(m) = HeadLen + m.len BY <3>2 DEF Msg, Total
    <3>4. 2 * HeadLen + m.len + h.len <= FifoSize BY <3>3, <2>14
    <3>5. \A a, b, c, d \in Nat : 2 * a + b + c <= d => (a + b) + (a + c) <= d OBVIOUS
    <3>6. m.len \in Nat /\ h.len \in Nat BY <3>3, <2>11, <2>14
    <3>7. (HeadLen + m.len) + (HeadLen + h.len) <= FifoSize
      BY ONLY <3>4, <3>5, <3>6, <2>11
    <3> QED BY <3>1, <3>3, <3>7, <2>4, <2>13, <2>14, <2>16 DEF Fits
  <2>17. Len(fifo[p]) = 0 \/ Len(fifo[p]) = 1
    <3>1. \A n \in Nat : n <= 1 => n = 0 \/ n = 1 OBVIOUS
    <3> QED BY ONLY <3>1, <2>9, <2>10
  <2> QED BY <2>15, <2>16, <2>17
<1> QED BY <1>1, Invariant, PTL

\* The variables keep their types; in particular the errors in a row never get
\* past their limit.
THEOREM TypeCorrect == Spec => []TypeOK
<1> DEFINE Rest == /\ err \in [Peer -> 0 .. ErrMax]
                   /\ status \in [Peer -> {"disconnected", "connected"}]
<1>1. Init => Rest
  <2>1. 0 \in 0 .. ErrMax BY SyncAssumption
  <2> QED BY <2>1 DEF Init
<1>2. Rest /\ [Next]_vars => Rest'
  <2> SUFFICES ASSUME Rest, [Next]_vars PROVE Rest'
    OBVIOUS
  <2>1. status' \in [Peer -> {"disconnected", "connected"}]
    <3>1. ASSUME NEW p \in Peer, FsmTurn(p) PROVE status' \in [Peer -> {"disconnected", "connected"}]
      BY <3>1 DEF FsmTurn, Setup, Send, SendFails, SendKills, RecvFails, Recv, Tasking,
                  NetUnchanged, netVars
    <3>2. CASE ClientEntry \/ Accept
      BY <3>2 DEF ClientEntry, NewSocket, Connect, ConnectFails, ClientLost, Accept
    <3>3. ASSUME NEW p \in Peer,
                 Receiver(p) \/ \E c \in Conn : Break(p, c) \/ Finish(p, c)
          PROVE  status' = status
      BY <3>3 DEF Receiver, RecvTask, RecvError, RecvEnd, PushHand, Break, Finish, netVars
    <3>4. CASE UNCHANGED vars BY <3>4 DEF vars, netVars
    <3> QED BY <3>1, <3>2, <3>3, <3>4 DEF Next
  <2>2. err' \in [Peer -> 0 .. ErrMax]
    <3>1. 0 \in 0 .. ErrMax /\ ErrMax \in Nat BY SyncAssumption
    <3>2. ASSUME NEW p \in Peer, Pass(p) PROVE err' \in [Peer -> 0 .. ErrMax]
      BY <3>1, <3>2 DEF Pass
    <3>3. ASSUME NEW p \in Peer, NoPass(p) PROVE err' \in [Peer -> 0 .. ErrMax]
      <4>1. CASE Exhausted(p) BY <3>1, <3>3, <4>1 DEF NoPass
      <4>2. CASE ~Exhausted(p)
        <5>1. err[p] + 1 \in 0 .. ErrMax BY <3>1, <4>2 DEF Exhausted
        <5> QED BY <5>1, <3>3, <4>2 DEF NoPass
      <4> QED BY <4>1, <4>2
    <3>4. ASSUME NEW p \in Peer, FsmTurn(p) PROVE err' \in [Peer -> 0 .. ErrMax]
      <4>1. CASE Setup(p) \/ SendKills(p) BY <4>1 DEF Setup, SendKills, fsmVars
      <4>2. CASE Send(p) \/ Tasking(p) BY <3>2, <4>2 DEF Send, Tasking
      <4>3. CASE SendFails(p) \/ RecvFails(p) BY <3>3, <4>3 DEF SendFails, RecvFails
      <4>4. CASE Recv(p) BY <3>2, <3>3, <4>4 DEF Recv
      <4> QED BY <3>4, <4>1, <4>2, <4>3, <4>4 DEF FsmTurn
    <3>5. CASE ClientEntry \/ Accept
      BY <3>5 DEF ClientEntry, NewSocket, Connect, ConnectFails, ClientLost, Accept, fsmVars
    <3>6. ASSUME NEW p \in Peer,
                 Receiver(p) \/ \E c \in Conn : Break(p, c) \/ Finish(p, c)
          PROVE  err' = err
      BY <3>6 DEF Receiver, RecvTask, RecvError, RecvEnd, PushHand, Break, Finish, fsmVars
    <3>7. CASE UNCHANGED vars BY <3>7 DEF vars, fsmVars
    <3> QED BY <3>4, <3>5, <3>6, <3>7 DEF Next
  <2> QED BY <2>1, <2>2
<1>3. IInv /\ Rest => TypeOK
  BY DEF IInv, FsmShape, NetShape, ConnectionsOrdered, TypeOK
<1> QED BY <1>1, <1>2, <1>3, Invariant, PTL DEF Spec
===============================================================================
