------------------------- MODULE DataStructuresProofs -------------------------
(***************************************************************************)
(* The results about the data structures: the doubly linked list           *)
(* implements a sequence of keys and keeps its two chains in step, for     *)
(* every finite heap and every set of keys; the array queues, the circular *)
(* list and the tree of words keep their invariants, for every length of   *)
(* the arrays and words, every set of packets and every alphabet.          *)
(*                                                                         *)
(* The first part is induction.  The induction theorems of the library     *)
(* take an operator as their parameter; SetInduction takes a set instead,  *)
(* and follows from what the library says of cardinalities.  With it the   *)
(* recursive functions of the models can be reasoned about: that they have *)
(* a value at all (WalkExists, FillExists, SumExists), and what it is.     *)
(***************************************************************************)
EXTENDS DataStructures, FiniteSetTheorems, FunctionTheorems, SequenceTheorems, TLAPS

-------------------------------------------------------------------------------
(* Induction.                                                              *)

\* A set with zero and with the successor of each of its numbers has all the
\* numbers.  If m were missing, the missing numbers up to m would all have a
\* missing predecessor, and so be as many as they are without m.
LEMMA SetInduction ==
    ASSUME NEW S, 0 \in S, \A n \in Nat : n \in S => n + 1 \in S
    PROVE  \A n \in Nat : n \in S
<1> SUFFICES ASSUME NEW m \in Nat, m \notin S PROVE FALSE OBVIOUS
<1> DEFINE E == {y \in 1 .. m : y \notin S}
           f == [y \in E |-> y - 1]
<1>1. m \in E OBVIOUS
<1>2. /\ IsFiniteSet(E) /\ IsFiniteSet(E \ {m})
      /\ Cardinality(E \ {m}) = Cardinality(E) - 1
      /\ Cardinality(E) \in Nat
  <2>1. IsFiniteSet(1 .. m) BY FS_Interval
  <2>2. IsFiniteSet(E) BY <2>1, FS_Subset
  <2> HIDE DEF E
  <2> QED BY <1>1, <2>2, FS_RemoveElement, FS_CardinalityType
<1>3. \A y \in E : y - 1 \in E \ {m} OBVIOUS
<1>4. f \in Injection(E, E \ {m})
  <2>1. f \in [E -> E \ {m}] BY <1>3
  <2>2. \A a, b \in E : f[a] = f[b] => a = b OBVIOUS
  <2> HIDE DEF f, E
  <2> QED BY <2>1, <2>2, Fun_IsInj
<1> HIDE DEF f, E
<1>5. Cardinality(E) <= Cardinality(E \ {m}) BY <1>2, <1>4, FS_Injection
<1> QED BY <1>2, <1>5

\* Of a set of numbers that is not empty, Min is the least.
LEMMA MinIsLeast ==
    ASSUME NEW S \in SUBSET Nat, S # {}
    PROVE  Min(S) \in S /\ \A y \in S : Min(S) <= y
<1>1. \E x \in S : \A y \in S : x <= y
  <2> SUFFICES ASSUME \A x \in S : \E y \in S : y < x PROVE FALSE OBVIOUS
  <2> DEFINE G == {n \in Nat : \A m \in 0 .. n : m \notin S}
  <2>1. 0 \in G OBVIOUS
  <2>2. ASSUME NEW n \in Nat, n \in G PROVE n + 1 \in G
    <3>1. n + 1 \notin S
      <4> SUFFICES ASSUME n + 1 \in S PROVE FALSE OBVIOUS
      <4>1. PICK y \in S : y < n + 1 OBVIOUS
      <4>2. y \in 0 .. n BY <4>1
      <4> QED BY <2>2, <4>2
    <3> QED BY <2>2, <3>1
  <2> HIDE DEF G
  <2>3. \A n \in Nat : n \in G BY <2>1, <2>2, SetInduction
  <2>4. PICK x : x \in S OBVIOUS
  <2>5. x \in G BY <2>3, <2>4
  <2>6. x \in 0 .. x BY <2>4
  <2> QED BY <2>4, <2>5, <2>6 DEF G
<1> QED BY <1>1 DEF Min

\* Of a set of places of a sequence that is not empty, Max is the last.
LEMMA MaxIsLast ==
    ASSUME NEW n \in Nat, NEW S \in SUBSET (1 .. n), S # {}
    PROVE  Max(S) \in S /\ \A y \in S : y <= Max(S)
<1> DEFINE R == {n - y : y \in S}
<1>1. R \in SUBSET Nat /\ R # {}
  <2>1. \A y \in S : n - y \in Nat OBVIOUS
  <2>2. PICK y \in S : TRUE OBVIOUS
  <2> QED BY <2>1, <2>2
<1> HIDE DEF R
<1>2. Min(R) \in R /\ \A y \in R : Min(R) <= y BY <1>1, MinIsLeast
<1>3. PICK x \in S : Min(R) = n - x BY <1>2 DEF R
<1>4. \A y \in S : y <= x
  <2> SUFFICES ASSUME NEW y \in S PROVE y <= x OBVIOUS
  <2>1. n - y \in R BY DEF R
  <2>2. n - x <= n - y BY <1>2, <1>3, <2>1
  <2> QED BY <2>2
<1>5. \E x_1 \in S : \A y \in S : x_1 >= y BY <1>3, <1>4
<1> QED BY <1>5 DEF Max

-------------------------------------------------------------------------------
(* The chains: what Path finds.                                            *)

\* One turn of the walk of Path.
Walked(walk, start, link, k) ==
    IF k = 1 THEN start
    ELSE IF walk[k - 1] = Null THEN Null ELSE link[walk[k - 1]]

IsWalk(walk, start, link, n) ==
    walk = [k \in 1 .. n |-> Walked(walk, start, link, k)]

\* There is such a walk, of any length.
LEMMA WalkExists ==
    ASSUME NEW start, NEW link, NEW N \in Nat
    PROVE  \E walk : IsWalk(walk, start, link, N)
<1> DEFINE Walk(f, n) == f = [k \in 1 .. n |-> Walked(f, start, link, k)]
           S == {n \in Nat : \E f : Walk(f, n)}
<1>1. 0 \in S
  <2> DEFINE none == [k \in 1 .. 0 |-> Null]
  <2>1. Walk(none, 0) OBVIOUS
  <2> QED BY <2>1
<1>2. ASSUME NEW n \in Nat, n \in S PROVE n + 1 \in S
  <2>1. PICK f : Walk(f, n) BY <1>2
  <2> DEFINE g == [k \in 1 .. n + 1 |-> Walked(f, start, link, k)]
  <2>2. \A k \in 1 .. n : g[k] = f[k] BY <2>1
  <2>3. Walk(g, n + 1)
    <3> SUFFICES ASSUME NEW k \in 1 .. n + 1
                 PROVE  Walked(f, start, link, k) = Walked(g, start, link, k)
      OBVIOUS
    <3>1. k # 1 => k - 1 \in 1 .. n OBVIOUS
    <3> HIDE DEF g
    <3> QED BY <3>1, <2>2 DEF Walked
  <2> HIDE DEF g, Walk
  <2> QED BY <2>3
<1> HIDE DEF S
<1>3. N \in S BY <1>1, <1>2, SetInduction
<1> QED BY <1>3 DEF S, IsWalk

\* The places of a sequence that is linked from start on, to the end: Path
\* finds just that sequence.
LinkedFrom(start, link, s) ==
    /\ start = IF s = <<>> THEN Null ELSE s[1]
    /\ \A i \in 1 .. Len(s) : link[s[i]] = IF i = Len(s) THEN Null ELSE s[i + 1]

\* There are n numbers up to n.
LEMMA CardinalityUpTo ==
    ASSUME NEW n \in Nat
    PROVE  IsFiniteSet(1 .. n) /\ Cardinality(1 .. n) = n
BY FS_Interval

\* A sequence of different nodes is not longer than the heap.
LEMMA NotLongerThanHeap ==
    ASSUME NEW s \in Seq(Nodes), IsInjective(s)
    PROVE  Len(s) <= Cardinality(Nodes) /\ Cardinality(Nodes) \in Nat
<1>1. IsFiniteSet(Nodes) /\ Cardinality(Nodes) \in Nat
  BY NodesAssumption, FS_CardinalityType
<1>2. Len(s) \in Nat /\ s \in [1 .. Len(s) -> Nodes] /\ DOMAIN s = 1 .. Len(s)
  BY LenProperties
<1>3. s \in Injection(1 .. Len(s), Nodes) BY <1>2, Fun_IsInj DEF IsInjective
<1>4. Cardinality(1 .. Len(s)) <= Cardinality(Nodes) BY <1>1, <1>3, FS_Injection
<1>5. Cardinality(1 .. Len(s)) = Len(s) BY <1>2, FS_Interval
<1> QED BY <1>1, <1>4, <1>5

\* A walk of N places that follows the links inside of D, and stays at last.
Follows(walk, N, D, last, link) ==
    /\ DOMAIN walk = 1 .. N
    /\ \A k \in 1 .. N - 1 : /\ walk[k] \in D => walk[k + 1] = link[walk[k]]
                             /\ walk[k] = last => walk[k + 1] = last

\* The links of the places of s, the last one of which goes to last.
Links(link, s, last) ==
    \A i \in 1 .. Len(s) : link[s[i]] = IF i = Len(s) THEN last ELSE s[i + 1]

\* A walk that follows the links of s from its first place on, and stays where s
\* ends: cut at that end it is s.
LEMMA WalkShows ==
    ASSUME NEW D, NEW last, last \notin D, NEW link, NEW s \in Seq(D), Links(link, s, last),
           NEW N \in Nat, Len(s) < N, NEW walk, Follows(walk, N, D, last, link),
           walk[1] = IF s = <<>> THEN last ELSE s[1]
    PROVE  SubSeq(walk, 1, Cardinality({k \in DOMAIN walk : walk[k] # last})) = s
<1>1. /\ Len(s) \in Nat /\ s \in [1 .. Len(s) -> D]
      /\ \A i \in 1 .. Len(s) : s[i] \in D /\ s[i] # last
  BY LenProperties
<1>2. s = <<>> <=> Len(s) = 0 BY EmptySeq
<1> DEFINE Walks(k) == walk[k] = IF k <= Len(s) THEN s[k] ELSE last
           G == {n \in Nat : n + 1 \in 1 .. N => Walks(n + 1)}
<1>3. 0 \in G BY <1>1, <1>2
<1>4. ASSUME NEW n \in Nat, n \in G PROVE n + 1 \in G
  <2> SUFFICES ASSUME (n + 1) + 1 \in 1 .. N PROVE Walks((n + 1) + 1) OBVIOUS
  <2>1. Walks(n + 1) BY <1>1, <1>4
  <2>2. n + 1 \in 1 .. N - 1 OBVIOUS
  <2>3. CASE n + 1 <= Len(s)
    <3>1. n + 1 \in 1 .. Len(s) /\ walk[n + 1] = s[n + 1] BY <1>1, <2>1, <2>3
    <3>2. walk[(n + 1) + 1] = link[s[n + 1]] BY <1>1, <2>2, <3>1 DEF Follows
    <3>3. link[s[n + 1]] = IF n + 1 = Len(s) THEN last ELSE s[(n + 1) + 1] BY <3>1 DEF Links
    <3> QED BY <1>1, <2>3, <3>2, <3>3
  <2>4. CASE n + 1 > Len(s)
    <3>1. walk[n + 1] = last /\ ~((n + 1) + 1 <= Len(s)) BY <1>1, <2>1, <2>4
    <3> QED BY <2>2, <3>1 DEF Follows
  <2> QED BY <1>1, <2>3, <2>4
<1>5. \A k \in 1 .. N : Walks(k)
  <2> HIDE DEF G
  <2>1. \A n \in Nat : n \in G BY <1>3, <1>4, SetInduction
  <2> SUFFICES ASSUME NEW k \in 1 .. N PROVE Walks(k) OBVIOUS
  <2>2. k - 1 \in Nat /\ (k - 1) + 1 = k OBVIOUS
  <2>3. k - 1 \in G BY <2>1, <2>2
  <2> QED BY <2>2, <2>3 DEF G
<1>6. {k \in DOMAIN walk : walk[k] # last} = 1 .. Len(s) BY <1>1, <1>5 DEF Follows
<1>7. Cardinality(1 .. Len(s)) = Len(s)
  <2>1. Len(s) \in Nat BY <1>1
  <2> QED BY ONLY <2>1, CardinalityUpTo
<1>8. \A i \in 1 .. Len(s) : walk[i] = s[i] BY <1>1, <1>5
<1> HIDE DEF Walks, G
<1>9. /\ SubSeq(walk, 1, Len(s)) \in Seq(D)
      /\ Len(SubSeq(walk, 1, Len(s))) = Len(s)
      /\ \A i \in 1 .. Len(s) : SubSeq(walk, 1, Len(s))[i] = walk[i]
  <2>1. 1 \in Int /\ Len(s) \in Int /\ \A i \in 1 .. Len(s) : walk[i] \in D BY <1>1, <1>8
  <2>2. /\ SubSeq(walk, 1, Len(s)) \in Seq(D)
        /\ Len(SubSeq(walk, 1, Len(s))) = IF 1 <= Len(s) THEN (Len(s) - 1) + 1 ELSE 0
        /\ \A i \in 1 .. (Len(s) - 1) + 1 : SubSeq(walk, 1, Len(s))[i] = walk[(1 + i) - 1]
    BY <2>1, SubSeqProperties
  <2>3. (Len(s) - 1) + 1 = Len(s) /\ \A i \in 1 .. Len(s) : (1 + i) - 1 = i BY <1>1
  <2> QED BY <1>1, <2>2, <2>3
<1>10. SubSeq(walk, 1, Len(s)) = s BY <1>8, <1>9, SeqEqual
<1> QED BY <1>6, <1>7, <1>10

\* Path finds the sequence whose links it follows.
LEMMA PathIs ==
    ASSUME NEW start, NEW link, NEW s \in Seq(Nodes), IsInjective(s),
           LinkedFrom(start, link, s)
    PROVE  Path(start, link) = s
<1> DEFINE N == Cardinality(Nodes) + 1
           walk == CHOOSE w : IsWalk(w, start, link, N)
<1>1. N \in Nat /\ Len(s) < N
  BY LenProperties, NotLongerThanHeap
<1>2. walk = [k \in 1 .. N |-> Walked(walk, start, link, k)]
  <2>1. \E w : IsWalk(w, start, link, N)
    <3> HIDE DEF N
    <3> QED BY <1>1, WalkExists
  <2>2. IsWalk(walk, start, link, N) BY <2>1
  <2> QED BY <2>2 DEF IsWalk
<1>3. Path(start, link) = SubSeq(walk, 1, Cardinality({k \in DOMAIN walk : walk[k] # Null}))
  BY DEF Path, IsWalk, Walked
<1> HIDE DEF walk, N
<1>4. walk[1] = IF s = <<>> THEN Null ELSE s[1]
  <2>1. 1 \in 1 .. N BY <1>1, LenProperties
  <2> QED BY <1>2, <2>1 DEF Walked, LinkedFrom
<1>5. Links(link, s, Null) BY DEF LinkedFrom, Links
<1>6. \A k \in 1 .. N - 1 : /\ walk[k] \in Nodes => walk[k + 1] = link[walk[k]]
                            /\ walk[k] = Null => walk[k + 1] = Null
  <2> SUFFICES ASSUME NEW k \in 1 .. N - 1
               PROVE  walk[k + 1] = IF walk[k] = Null THEN Null ELSE link[walk[k]]
    BY NodesAssumption
  <2>1. k + 1 \in 1 .. N /\ (k + 1) - 1 = k /\ k + 1 # 1 BY <1>1
  <2> QED BY <1>2, <2>1 DEF Walked
<1>7. Follows(walk, N, Nodes, Null, link) BY <1>2, <1>6 DEF Follows
<1>8. s \in Seq(Nodes) /\ Null \notin Nodes BY NodesAssumption
<1>9. SubSeq(walk, 1, Cardinality({k \in DOMAIN walk : walk[k] # Null})) = s
  BY ONLY <1>1, <1>4, <1>5, <1>7, <1>8, WalkShows
<1> QED BY <1>3, <1>9

-------------------------------------------------------------------------------
(* The functions of the list, each as an operation on the sequence of the  *)
(* nodes in it.                                                            *)

IsList(l) ==
    l \in [head : Nodes \cup {Null}, tail : Nodes \cup {Null}, num : Nat,
           prev : [Nodes -> Nodes \cup {Null}], next : [Nodes -> Nodes \cup {Null}]]

\* The list is s from its head and from its tail, and as long; the last node
\* may still have a next one, as the first has while a list is refilled.
Loose(l, s) ==
    /\ s \in Seq(Nodes)
    /\ \A i, j \in 1 .. Len(s) : s[i] = s[j] => i = j
    /\ l.head = IF Len(s) = 0 THEN Null ELSE s[1]
    /\ l.tail = IF Len(s) = 0 THEN Null ELSE s[Len(s)]
    /\ l.num = Len(s)
    /\ \A i \in 1 .. Len(s) :
         /\ i # Len(s) => l.next[s[i]] = s[i + 1]
         /\ l.prev[s[i]] = IF i = 1 THEN Null ELSE s[i - 1]

Linked(l, s) == Loose(l, s) /\ (Len(s) # 0 => l.next[s[Len(s)]] = Null)

\* What either says of the nodes and of the ends.
LEMMA LinkedFacts ==
    ASSUME NEW l, NEW s, Loose(l, s)
    PROVE  /\ Len(s) \in Nat /\ s \in Seq(Nodes)
           /\ s \in [1 .. Len(s) -> Nodes] /\ DOMAIN s = 1 .. Len(s)
           /\ \A i \in 1 .. Len(s) : s[i] \in Nodes /\ s[i] # Null
           /\ s = <<>> <=> Len(s) = 0
           /\ Len(s) # 0 => /\ 1 \in 1 .. Len(s) /\ Len(s) \in 1 .. Len(s)
                           /\ l.head = s[1] /\ l.tail = s[Len(s)]
           /\ l.head = Null <=> Len(s) = 0
           /\ l.tail = Null <=> Len(s) = 0
<1>1. /\ Len(s) \in Nat /\ s \in Seq(Nodes)
      /\ s \in [1 .. Len(s) -> Nodes] /\ DOMAIN s = 1 .. Len(s)
  BY LenProperties DEF Loose
<1>2. \A i \in 1 .. Len(s) : s[i] \in Nodes /\ s[i] # Null BY <1>1, NodesAssumption
<1>3. s = <<>> <=> Len(s) = 0 BY <1>1, EmptySeq
<1>4. Len(s) # 0 => 1 \in 1 .. Len(s) /\ Len(s) \in 1 .. Len(s) BY <1>1
<1>5. /\ l.head = IF Len(s) = 0 THEN Null ELSE s[1]
      /\ l.tail = IF Len(s) = 0 THEN Null ELSE s[Len(s)]
  BY DEF Loose
<1> QED BY <1>1, <1>2, <1>3, <1>4, <1>5

\* The links of a linked list, the last one included.
LEMMA LinksOf ==
    ASSUME NEW l, NEW s, Linked(l, s)
    PROVE  \A i \in 1 .. Len(s) :
             /\ l.next[s[i]] = IF i = Len(s) THEN Null ELSE s[i + 1]
             /\ l.prev[s[i]] = IF i = 1 THEN Null ELSE s[i - 1]
<1> SUFFICES ASSUME NEW i \in 1 .. Len(s)
             PROVE  /\ l.next[s[i]] = IF i = Len(s) THEN Null ELSE s[i + 1]
                    /\ l.prev[s[i]] = IF i = 1 THEN Null ELSE s[i - 1]
  OBVIOUS
<1>1. Len(s) # 0 BY LinkedFacts DEF Linked
<1> QED BY <1>1 DEF Linked, Loose

\* To be linked, from the links.
LEMMA IsLinked ==
    ASSUME NEW l, NEW s \in Seq(Nodes),
           \A i, j \in 1 .. Len(s) : s[i] = s[j] => i = j,
           l.head = IF Len(s) = 0 THEN Null ELSE s[1],
           l.tail = IF Len(s) = 0 THEN Null ELSE s[Len(s)],
           l.num = Len(s),
           \A i \in 1 .. Len(s) :
             /\ l.next[s[i]] = IF i = Len(s) THEN Null ELSE s[i + 1]
             /\ l.prev[s[i]] = IF i = 1 THEN Null ELSE s[i - 1]
    PROVE  Linked(l, s)
<1>1. Len(s) \in Nat BY LenProperties
<1>2. Loose(l, s) BY DEF Loose
<1>3. Len(s) # 0 => Len(s) \in 1 .. Len(s) BY <1>1
<1> QED BY <1>2, <1>3 DEF Linked

\* The place opposite to i, from the end.
LEMMA Opposite ==
    ASSUME NEW n \in Nat, NEW i \in 1 .. n
    PROVE  /\ (n - i) + 1 \in 1 .. n
           /\ (n - i) + 1 = 1 <=> i = n
           /\ i # n => i + 1 \in 1 .. n /\ (n - (i + 1)) + 1 = ((n - i) + 1) - 1
OBVIOUS

\* A linked list is read forwards and backwards as its sequence.
LEMMA ChainIs ==
    ASSUME NEW l, NEW s, Linked(l, s)
    PROVE  /\ Path(l.head, l.next) = s
           /\ Path(l.tail, l.prev) = Reverse(s)
           /\ IsInjective(s)
           /\ Len(s) <= Cardinality(Nodes)
<1>1. /\ Len(s) \in Nat /\ s \in [1 .. Len(s) -> Nodes] /\ s \in Seq(Nodes)
      /\ DOMAIN s = 1 .. Len(s)
      /\ s = <<>> <=> Len(s) = 0
  BY LinkedFacts DEF Linked
<1>2. IsInjective(s) BY <1>1 DEF Linked, Loose, IsInjective
<1>3. LinkedFrom(l.head, l.next, s)
  <2>1. l.head = IF s = <<>> THEN Null ELSE s[1] BY <1>1 DEF Linked, Loose
  <2>2. \A i \in 1 .. Len(s) : l.next[s[i]] = IF i = Len(s) THEN Null ELSE s[i + 1] BY LinksOf
  <2> QED BY <2>1, <2>2 DEF LinkedFrom
<1> DEFINE t == Reverse(s)
<1>4. /\ t \in Seq(Nodes) /\ Len(t) = Len(s) /\ DOMAIN t = 1 .. Len(s)
      /\ \A i \in 1 .. Len(s) : t[i] = s[(Len(s) - i) + 1]
  <2>1. \A i \in 1 .. Len(s) : s[(Len(s) - i) + 1] \in Nodes BY <1>1
  <2>2. t = [i \in 1 .. Len(s) |-> s[(Len(s) - i) + 1]] BY DEF Reverse
  <2>3. t \in [1 .. Len(s) -> Nodes] BY <2>1, <2>2
  <2> HIDE DEF t
  <2>4. t \in Seq(Nodes) /\ Len(t) = Len(s) BY <1>1, <2>3
  <2> QED BY <2>2, <2>3, <2>4
<1> HIDE DEF t
<1>5. IsInjective(t)
  <2> SUFFICES ASSUME NEW a \in 1 .. Len(s), NEW b \in 1 .. Len(s), t[a] = t[b] PROVE a = b
    BY <1>4 DEF IsInjective
  <2>1. (Len(s) - a) + 1 \in 1 .. Len(s) /\ (Len(s) - b) + 1 \in 1 .. Len(s) BY <1>1
  <2>2. (Len(s) - a) + 1 = (Len(s) - b) + 1 BY <1>1, <1>2, <1>4, <2>1 DEF IsInjective
  <2> QED BY <1>1, <2>2
<1>6. LinkedFrom(l.tail, l.prev, t)
  <2>1. t = <<>> <=> Len(s) = 0 BY <1>4, EmptySeq
  <2>2. Len(s) # 0 => t[1] = s[Len(s)]
    <3>1. Len(s) # 0 => 1 \in 1 .. Len(s) /\ (Len(s) - 1) + 1 = Len(s) BY <1>1
    <3> QED BY <1>4, <3>1
  <2>3. l.tail = IF t = <<>> THEN Null ELSE t[1] BY <2>1, <2>2 DEF Linked, Loose
  <2>4. ASSUME NEW i \in 1 .. Len(t)
        PROVE  l.prev[t[i]] = IF i = Len(t) THEN Null ELSE t[i + 1]
    <3> DEFINE j == (Len(s) - i) + 1
    <3>1. Len(s) \in Nat /\ i \in 1 .. Len(s) /\ Len(t) = Len(s) BY <1>1, <1>4
    <3>2. j \in 1 .. Len(s) /\ (j = 1 <=> i = Len(t)) BY ONLY <3>1, Opposite
    <3>3. t[i] = s[j] BY <1>4
    <3>4. i # Len(t) => t[i + 1] = s[j - 1]
      <4>1. i # Len(t) => i + 1 \in 1 .. Len(s) /\ (Len(s) - (i + 1)) + 1 = j - 1
        BY ONLY <3>1, Opposite
      <4> QED BY <1>4, <4>1
    <3> HIDE DEF j
    <3> QED BY <3>2, <3>3, <3>4, LinksOf
  <2> QED BY <2>3, <2>4 DEF LinkedFrom
<1>7. Path(l.head, l.next) = s BY <1>1, <1>2, <1>3, PathIs
<1>8. Path(l.tail, l.prev) = t BY <1>4, <1>5, <1>6, PathIs
<1>9. Len(s) <= Cardinality(Nodes) BY <1>1, <1>2, NotLongerThanHeap
<1> QED BY <1>2, <1>7, <1>8, <1>9 DEF t

\* InsertListNodeToTail appends.  A first node has to come without a previous
\* one, and keeps the next one it comes with.
LEMMA InsertTailLoose ==
    ASSUME NEW l, NEW s, IsList(l), Loose(l, s),
           NEW n \in Nodes, \A i \in 1 .. Len(s) : s[i] # n,
           Len(s) = 0 => l.prev[n] = Null
    PROVE  /\ IsList(InsertListNodeToTail(l, n))
           /\ Loose(InsertListNodeToTail(l, n), Append(s, n))
           /\ InsertListNodeToTail(l, n).next[n] = IF Len(s) = 0 THEN l.next[n] ELSE Null
           /\ \A m \in Nodes : (m # n /\ \A i \in 1 .. Len(s) : s[i] # m) =>
                /\ InsertListNodeToTail(l, n).next[m] = l.next[m]
                /\ InsertListNodeToTail(l, n).prev[m] = l.prev[m]
<1> DEFINE r == InsertListNodeToTail(l, n)
           t == Append(s, n)
<1>1. /\ Len(s) \in Nat /\ s \in Seq(Nodes) /\ s \in [1 .. Len(s) -> Nodes]
      /\ \A i \in 1 .. Len(s) : s[i] \in Nodes /\ s[i] # Null
  BY LinkedFacts
<1>2. n # Null BY NodesAssumption
<1>3. l.tail = Null <=> Len(s) = 0 BY LinkedFacts
<1>4. l.head = Null <=> Len(s) = 0 BY LinkedFacts
<1>5. /\ r.head = IF Len(s) = 0 THEN n ELSE l.head
      /\ r.tail = n
      /\ r.num = l.num + 1
      /\ r.next = IF Len(s) = 0 THEN l.next ELSE [l.next EXCEPT ![n] = Null, ![l.tail] = n]
      /\ r.prev = IF Len(s) = 0 THEN l.prev ELSE [l.prev EXCEPT ![n] = l.tail]
      /\ r = [head |-> r.head, tail |-> r.tail, num |-> r.num, prev |-> r.prev, next |-> r.next]
  BY <1>3, <1>4 DEF InsertListNodeToTail, IsList
<1>6. /\ t \in Seq(Nodes) /\ Len(t) = Len(s) + 1
      /\ \A i \in 1 .. Len(s) : t[i] = s[i]
      /\ t[Len(s) + 1] = n
  BY <1>1, AppendProperties
<1> HIDE DEF r, t
<1>7. IsList(r) BY <1>5 DEF IsList
<1>8. \A m \in Nodes : (m # n /\ \A i \in 1 .. Len(s) : s[i] # m) =>
        r.next[m] = l.next[m] /\ r.prev[m] = l.prev[m]
  <2>1. Len(s) # 0 => Len(s) \in 1 .. Len(s) /\ l.tail = s[Len(s)] BY LinkedFacts
  <2> QED BY <1>5, <2>1 DEF IsList
<1>9. Loose(r, t)
  <2>1. \A i, j \in 1 .. Len(t) : t[i] = t[j] => i = j
    <3>1. \A i, j \in 1 .. Len(s) : s[i] = s[j] => i = j BY DEF Loose
    <3>2. \A i \in 1 .. Len(t) : \/ i \in 1 .. Len(s) /\ t[i] = s[i] /\ t[i] # n
                                 \/ i = Len(t) /\ t[i] = n
      BY <1>1, <1>6
    <3> QED BY <3>1, <3>2
  <2>2. /\ r.head = IF Len(t) = 0 THEN Null ELSE t[1]
        /\ r.tail = IF Len(t) = 0 THEN Null ELSE t[Len(t)]
        /\ r.num = Len(t)
    BY <1>1, <1>5, <1>6 DEF Loose
  <2>3. ASSUME NEW i \in 1 .. Len(t)
        PROVE  /\ i # Len(t) => r.next[t[i]] = t[i + 1]
               /\ r.prev[t[i]] = IF i = 1 THEN Null ELSE t[i - 1]
    <3>1. CASE Len(s) = 0
      <4>1. i = 1 /\ Len(t) = 1 /\ t[i] = n BY <1>6, <3>1
      <4> QED BY <1>5, <3>1, <4>1
    <3>2. CASE Len(s) # 0 /\ i \in 1 .. Len(s)
      <4>1. /\ t[i] = s[i] /\ s[i] \in Nodes /\ s[i] # n /\ i # Len(t)
            /\ i # Len(s) => l.next[s[i]] = s[i + 1]
            /\ l.prev[s[i]] = IF i = 1 THEN Null ELSE s[i - 1]
        BY <1>1, <1>6, <3>2 DEF Loose
      <4>2. l.tail = s[Len(s)] /\ (s[i] = s[Len(s)] <=> i = Len(s))
        BY <3>2, LinkedFacts DEF Loose
      <4>3. r.prev[t[i]] = l.prev[s[i]] BY <1>5, <3>2, <4>1 DEF IsList
      <4>4. r.next[t[i]] = IF i = Len(s) THEN n ELSE l.next[s[i]] BY <1>5, <3>2, <4>1, <4>2 DEF IsList
      <4>5. t[i + 1] = IF i = Len(s) THEN n ELSE s[i + 1] BY <1>1, <1>6, <3>2
      <4>6. i # 1 => t[i - 1] = s[i - 1] BY <1>1, <1>6, <3>2
      <4> QED BY <4>1, <4>3, <4>4, <4>5, <4>6
    <3>3. CASE Len(s) # 0 /\ i = Len(t)
      <4>1. t[i] = n /\ i # 1 /\ i - 1 = Len(s) /\ Len(s) \in 1 .. Len(s) BY <1>1, <1>6, <3>3
      <4>2. l.tail = s[Len(s)] /\ l.tail # n /\ t[Len(s)] = s[Len(s)] BY <1>1, <1>6, <3>3, <4>1 DEF Loose
      <4>3. r.next[n] = Null /\ r.prev[n] = l.tail BY <1>5, <3>3, <4>2 DEF IsList
      <4> QED BY <3>3, <4>1, <4>2, <4>3
    <3> QED BY <1>1, <1>6, <3>1, <3>2, <3>3
  <2> QED BY <1>6, <2>1, <2>2, <2>3 DEF Loose
<1>10. r.next[n] = IF Len(s) = 0 THEN l.next[n] ELSE Null
  <2>1. Len(s) # 0 => l.tail = s[Len(s)] /\ Len(s) \in 1 .. Len(s) BY LinkedFacts
  <2> QED BY <1>5, <2>1 DEF IsList
<1> QED BY <1>7, <1>8, <1>9, <1>10 DEF r, t

\* Into a linked list, and with a first node without links, the list stays
\* linked.
LEMMA InsertTailAppends ==
    ASSUME NEW l, NEW s, IsList(l), Linked(l, s),
           NEW n \in Nodes, \A i \in 1 .. Len(s) : s[i] # n,
           Len(s) = 0 => l.next[n] = Null /\ l.prev[n] = Null
    PROVE  /\ IsList(InsertListNodeToTail(l, n))
           /\ Linked(InsertListNodeToTail(l, n), Append(s, n))
           /\ \A m \in Nodes : (m # n /\ \A i \in 1 .. Len(s) : s[i] # m) =>
                /\ InsertListNodeToTail(l, n).next[m] = l.next[m]
                /\ InsertListNodeToTail(l, n).prev[m] = l.prev[m]
<1>1. Loose(l, s) BY DEF Linked
<1>2. s \in Seq(Nodes) /\ Len(s) \in Nat BY <1>1, LinkedFacts
<1>3. Append(s, n)[Len(Append(s, n))] = n BY <1>2, AppendProperties
<1> QED BY <1>1, <1>3, InsertTailLoose DEF Linked


\* InsertListNodeToHead puts the node first.  A first node has to come without
\* links.
LEMMA InsertHeadPrepends ==
    ASSUME NEW l, NEW s, IsList(l), Linked(l, s),
           NEW n \in Nodes, \A i \in 1 .. Len(s) : s[i] # n,
           Len(s) = 0 => l.next[n] = Null /\ l.prev[n] = Null
    PROVE  /\ IsList(InsertListNodeToHead(l, n))
           /\ Linked(InsertListNodeToHead(l, n), <<n>> \o s)
           /\ \A m \in Nodes : (m # n /\ \A i \in 1 .. Len(s) : s[i] # m) =>
                /\ InsertListNodeToHead(l, n).next[m] = l.next[m]
                /\ InsertListNodeToHead(l, n).prev[m] = l.prev[m]
<1> DEFINE r == InsertListNodeToHead(l, n)
           t == <<n>> \o s
<1>1. /\ Len(s) \in Nat /\ s \in Seq(Nodes) /\ s \in [1 .. Len(s) -> Nodes]
      /\ \A i \in 1 .. Len(s) : s[i] \in Nodes /\ s[i] # Null
  BY LinkedFacts DEF Linked
<1>2. n # Null BY NodesAssumption
<1>3. l.tail = Null <=> Len(s) = 0 BY LinkedFacts DEF Linked
<1>4. l.head = Null <=> Len(s) = 0 BY LinkedFacts DEF Linked
<1>5. /\ r.head = n
      /\ r.tail = IF Len(s) = 0 THEN n ELSE l.tail
      /\ r.num = l.num + 1
      /\ r.next = IF Len(s) = 0 THEN l.next ELSE [l.next EXCEPT ![n] = l.head]
      /\ r.prev = IF Len(s) = 0 THEN l.prev ELSE [l.prev EXCEPT ![n] = Null, ![l.head] = n]
      /\ r = [head |-> r.head, tail |-> r.tail, num |-> r.num, prev |-> r.prev, next |-> r.next]
  BY <1>3, <1>4 DEF InsertListNodeToHead, IsList
<1>6. /\ t \in Seq(Nodes) /\ Len(t) = Len(s) + 1
      /\ \A i \in 1 .. Len(s) : t[i + 1] = s[i]
      /\ t[1] = n
  <2>1. <<n>> \in Seq(Nodes) /\ Len(<<n>>) = 1 /\ <<n>>[1] = n OBVIOUS
  <2>2. /\ t \in Seq(Nodes)
        /\ Len(t) = Len(<<n>>) + Len(s)
        /\ \A i \in 1 .. Len(<<n>>) + Len(s) :
             t[i] = IF i <= Len(<<n>>) THEN <<n>>[i] ELSE s[i - Len(<<n>>)]
    BY <1>1, <2>1, ConcatProperties
  <2> HIDE DEF t
  <2>3. \A i \in 1 .. Len(s) : t[i + 1] = s[i]
    <3> SUFFICES ASSUME NEW i \in 1 .. Len(s) PROVE t[i + 1] = s[i] OBVIOUS
    <3>1. i + 1 \in 1 .. 1 + Len(s) /\ ~(i + 1 <= 1) /\ (i + 1) - 1 = i BY <1>1
    <3> QED BY <2>1, <2>2, <3>1
  <2>4. t[1] = n BY <1>1, <2>1, <2>2
  <2>5. Len(t) = Len(s) + 1 BY <1>1, <2>1, <2>2
  <2> QED BY <2>2, <2>3, <2>4, <2>5
<1> HIDE DEF r, t
<1>7. IsList(r) BY <1>5 DEF IsList
<1>8. \A m \in Nodes : (m # n /\ \A i \in 1 .. Len(s) : s[i] # m) =>
        r.next[m] = l.next[m] /\ r.prev[m] = l.prev[m]
  <2>1. Len(s) # 0 => 1 \in 1 .. Len(s) /\ l.head = s[1] BY LinkedFacts DEF Linked
  <2> QED BY <1>5, <2>1 DEF IsList
<1>9. Linked(r, t)
  <2>1. \A i \in 1 .. Len(t) : \/ i = 1 /\ t[i] = n
                               \/ i - 1 \in 1 .. Len(s) /\ t[i] = s[i - 1] /\ t[i] # n
    <3> SUFFICES ASSUME NEW i \in 1 .. Len(t), i # 1
                 PROVE  i - 1 \in 1 .. Len(s) /\ t[i] = s[i - 1] /\ t[i] # n
      BY <1>6
    <3>1. i - 1 \in 1 .. Len(s) /\ (i - 1) + 1 = i BY <1>1, <1>6
    <3>2. t[(i - 1) + 1] = s[i - 1] BY <1>6, <3>1
    <3> QED BY <3>1, <3>2
  <2>2. \A i, j \in 1 .. Len(t) : t[i] = t[j] => i = j
    <3>1. \A i, j \in 1 .. Len(s) : s[i] = s[j] => i = j BY DEF Linked, Loose
    <3> QED BY <2>1, <3>1
  <2>3. /\ r.head = IF Len(t) = 0 THEN Null ELSE t[1]
        /\ r.tail = IF Len(t) = 0 THEN Null ELSE t[Len(t)]
        /\ r.num = Len(t)
    <3>1. Len(s) # 0 => Len(s) \in 1 .. Len(s) /\ l.tail = s[Len(s)] BY LinkedFacts DEF Linked
    <3>2. l.num = Len(s) BY DEF Linked, Loose
    <3> QED BY <1>1, <1>5, <1>6, <3>1, <3>2
  <2>4. ASSUME NEW i \in 1 .. Len(t)
        PROVE  /\ r.next[t[i]] = IF i = Len(t) THEN Null ELSE t[i + 1]
               /\ r.prev[t[i]] = IF i = 1 THEN Null ELSE t[i - 1]
    <3>1. CASE Len(s) = 0
      <4>1. i = 1 /\ Len(t) = 1 /\ t[i] = n BY <1>6, <3>1
      <4> QED BY <1>5, <3>1, <4>1
    <3>2. CASE Len(s) # 0 /\ i = 1
      <4>1. t[i] = n /\ i # Len(t) /\ t[i + 1] = s[1] /\ l.head = s[1] /\ s[1] # n
        <5>1. 1 \in 1 .. Len(s) /\ l.head = s[1] BY <3>2, LinkedFacts DEF Linked
        <5> QED BY <1>1, <1>6, <3>2, <5>1
      <4>2. r.next[n] = l.head /\ r.prev[n] = Null BY <1>5, <3>2, <4>1 DEF IsList
      <4> QED BY <3>2, <4>1, <4>2
    <3>3. CASE Len(s) # 0 /\ i # 1
      <4> DEFINE j == i - 1
      <4>1. /\ j \in 1 .. Len(s) /\ t[i] = s[j] /\ s[j] \in Nodes /\ s[j] # n
            /\ (i = Len(t) <=> j = Len(s))
        BY <1>1, <1>6, <2>1, <3>3
      <4>2. l.head = s[1] /\ (s[j] = s[1] <=> j = 1) BY <3>3, <4>1, LinkedFacts DEF Linked, Loose
      <4>3. j # Len(s) => t[i + 1] = s[j + 1]
        <5>1. j # Len(s) => j + 1 \in 1 .. Len(s) /\ (j + 1) + 1 = i + 1 BY <1>1, <4>1
        <5> QED BY <1>6, <5>1
      <4>4. t[j] = IF j = 1 THEN n ELSE s[j - 1]
        <5>1. j # 1 => j - 1 \in 1 .. Len(s) /\ (j - 1) + 1 = j BY <1>1, <4>1
        <5> QED BY <1>6, <5>1
      <4>5. /\ l.next[s[j]] = IF j = Len(s) THEN Null ELSE s[j + 1]
            /\ l.prev[s[j]] = IF j = 1 THEN Null ELSE s[j - 1]
        <5>1. \A k \in 1 .. Len(s) :
                /\ l.next[s[k]] = IF k = Len(s) THEN Null ELSE s[k + 1]
                /\ l.prev[s[k]] = IF k = 1 THEN Null ELSE s[k - 1]
          BY LinksOf
        <5> QED BY <4>1, <5>1
      <4> HIDE DEF j
      <4>6. r.next[s[j]] = l.next[s[j]] BY <1>5, <3>3, <4>1 DEF IsList
      <4>7. r.prev[s[j]] = IF j = 1 THEN n ELSE l.prev[s[j]] BY <1>5, <3>3, <4>1, <4>2 DEF IsList
      <4> QED BY <3>3, <4>1, <4>3, <4>4, <4>5, <4>6, <4>7 DEF j
    <3> QED BY <3>1, <3>2, <3>3
  <2> QED BY <1>6, <2>2, <2>3, <2>4, IsLinked
<1> QED BY <1>7, <1>8, <1>9 DEF r, t

\* A sequence without its i-th place.
LEMMA RemoveAtProperties ==
    ASSUME NEW S, NEW s \in Seq(S), NEW i \in 1 .. Len(s)
    PROVE  /\ RemoveAt(s, i) \in Seq(S)
           /\ Len(RemoveAt(s, i)) = Len(s) - 1
           /\ \A j \in 1 .. Len(s) - 1 : RemoveAt(s, i)[j] = IF j < i THEN s[j] ELSE s[j + 1]
<1> DEFINE a == SubSeq(s, 1, i - 1)
           b == SubSeq(s, i + 1, Len(s))
<1>1. PICK n \in Nat : n = Len(s) BY LenProperties
<1>2. \A j \in 1 .. n : s[j] \in S BY <1>1, LenProperties
<1>3. /\ a \in Seq(S) /\ Len(a) = i - 1
      /\ \A j \in 1 .. i - 1 : a[j] = s[j]
  <2>1. \A j \in 1 .. i - 1 : s[j] \in S BY <1>1, <1>2
  <2>2. /\ a \in Seq(S) /\ Len(a) = IF 1 <= i - 1 THEN (i - 1) - 1 + 1 ELSE 0
        /\ \A j \in 1 .. (i - 1) - 1 + 1 : a[j] = s[(1 + j) - 1]
    BY <1>1, <2>1, SubSeqProperties
  <2> HIDE DEF a
  <2>3. Len(a) = i - 1 BY <1>1, <2>2
  <2>4. ASSUME NEW j \in 1 .. i - 1 PROVE a[j] = s[j]
    <3>1. j \in 1 .. (i - 1) - 1 + 1 /\ (1 + j) - 1 = j BY <1>1
    <3> QED BY <2>2, <3>1
  <2> QED BY <2>2, <2>3, <2>4
<1>4. /\ b \in Seq(S) /\ Len(b) = n - i
      /\ \A j \in 1 .. n - i : b[j] = s[i + j]
  <2>1. \A j \in i + 1 .. n : s[j] \in S BY <1>1, <1>2
  <2>2. /\ b \in Seq(S) /\ Len(b) = IF i + 1 <= n THEN n - (i + 1) + 1 ELSE 0
        /\ \A j \in 1 .. n - (i + 1) + 1 : b[j] = s[((i + 1) + j) - 1]
    BY <1>1, <2>1, SubSeqProperties
  <2> HIDE DEF b
  <2>3. Len(b) = n - i BY <1>1, <2>2
  <2>4. ASSUME NEW j \in 1 .. n - i PROVE b[j] = s[i + j]
    <3>1. j \in 1 .. n - (i + 1) + 1 /\ ((i + 1) + j) - 1 = i + j BY <1>1
    <3> QED BY <2>2, <3>1
  <2> QED BY <2>2, <2>3, <2>4
<1>5. RemoveAt(s, i) = a \o b BY DEF RemoveAt
<1> HIDE DEF a, b
<1>6. /\ a \o b \in Seq(S)
      /\ Len(a \o b) = Len(a) + Len(b)
      /\ \A j \in 1 .. Len(a) + Len(b) : (a \o b)[j] = IF j <= Len(a) THEN a[j] ELSE b[j - Len(a)]
  BY <1>3, <1>4, ConcatProperties
<1>7. Len(a \o b) = n - 1 BY <1>1, <1>3, <1>4, <1>6
<1>8. ASSUME NEW j \in 1 .. n - 1
      PROVE  (a \o b)[j] = IF j < i THEN s[j] ELSE s[j + 1]
  <2>1. (a \o b)[j] = IF j <= i - 1 THEN a[j] ELSE b[j - (i - 1)] BY <1>1, <1>3, <1>4, <1>6
  <2>2. CASE j < i
    <3>1. j <= i - 1 /\ j \in 1 .. i - 1 BY <1>1, <2>2
    <3> QED BY <1>3, <2>1, <2>2, <3>1
  <2>3. CASE ~(j < i)
    <3>1. ~(j <= i - 1) /\ j - (i - 1) \in 1 .. n - i /\ i + (j - (i - 1)) = j + 1 BY <1>1, <2>3
    <3> QED BY <1>4, <2>1, <2>3, <3>1
  <2> QED BY <2>2, <2>3
<1> QED BY <1>1, <1>5, <1>6, <1>7, <1>8

\* What DeleteListNode writes, its four cases in one: the neighbours, or the
\* ends, take over the links of the node.
LEMMA DeleteWrites ==
    ASSUME NEW l, IsList(l), NEW n \in Nodes
    PROVE  LET r == DeleteListNodeWithoutFree(l, n)
               p == l.prev[n]
               q == l.next[n]
           IN  /\ r.head = IF p = Null THEN q ELSE l.head
               /\ r.tail = IF q = Null THEN p ELSE l.tail
               /\ r.num = l.num - 1
               /\ r.next = IF p = Null THEN l.next ELSE [l.next EXCEPT ![p] = q]
               /\ r.prev = IF q = Null THEN l.prev ELSE [l.prev EXCEPT ![q] = p]
               /\ r = [head |-> r.head, tail |-> r.tail, num |-> r.num,
                       prev |-> r.prev, next |-> r.next]
<1> DEFINE r == DeleteListNodeWithoutFree(l, n)
           p == l.prev[n]
           q == l.next[n]
           out == [l EXCEPT !.num = l.num - 1]
<1>1. /\ q = Null /\ p = Null => r = [out EXCEPT !.head = Null, !.tail = Null]
      /\ q = Null /\ p # Null => r = [out EXCEPT !.next[p] = Null, !.tail = p]
      /\ q # Null /\ p = Null => r = [out EXCEPT !.prev[q] = Null, !.head = q]
      /\ q # Null /\ p # Null => r = [out EXCEPT !.next[p] = q, !.prev[q] = p]
  BY DEF DeleteListNodeWithoutFree
<1> HIDE DEF r
<1> SUFFICES /\ r.head = IF p = Null THEN q ELSE l.head
             /\ r.tail = IF q = Null THEN p ELSE l.tail
             /\ r.num = l.num - 1
             /\ r.next = IF p = Null THEN l.next ELSE [l.next EXCEPT ![p] = q]
             /\ r.prev = IF q = Null THEN l.prev ELSE [l.prev EXCEPT ![q] = p]
             /\ r = [head |-> r.head, tail |-> r.tail, num |-> r.num,
                     prev |-> r.prev, next |-> r.next]
  BY DEF r
<1>2. CASE q = Null /\ p = Null BY <1>1, <1>2 DEF IsList
<1>3. CASE q = Null /\ p # Null BY <1>1, <1>3 DEF IsList
<1>4. CASE q # Null /\ p = Null BY <1>1, <1>4 DEF IsList
<1>5. CASE q # Null /\ p # Null BY <1>1, <1>5 DEF IsList
<1> QED BY <1>2, <1>3, <1>4, <1>5

\* DeleteListNode takes the node from its place, wherever that is.
LEMMA DeleteRemoves ==
    ASSUME NEW l, NEW s, IsList(l), Linked(l, s), NEW i \in 1 .. Len(s)
    PROVE  /\ IsList(DeleteListNodeWithoutFree(l, s[i]))
           /\ Linked(DeleteListNodeWithoutFree(l, s[i]), RemoveAt(s, i))
           /\ \A m \in Nodes : (\A j \in 1 .. Len(s) : s[j] # m) =>
                /\ DeleteListNodeWithoutFree(l, s[i]).next[m] = l.next[m]
                /\ DeleteListNodeWithoutFree(l, s[i]).prev[m] = l.prev[m]
<1> DEFINE r == DeleteListNodeWithoutFree(l, s[i])
           t == RemoveAt(s, i)
           p == l.prev[s[i]]
           q == l.next[s[i]]
<1>1. /\ Len(s) \in Nat /\ s \in Seq(Nodes)
      /\ \A j \in 1 .. Len(s) : s[j] \in Nodes /\ s[j] # Null
      /\ l.head = s[1] /\ l.tail = s[Len(s)]
      /\ 1 \in 1 .. Len(s) /\ Len(s) \in 1 .. Len(s)
  <2>1. Len(s) # 0 BY LinkedFacts DEF Linked
  <2> QED BY <2>1, LinkedFacts DEF Linked
<1>2. /\ r.head = IF p = Null THEN q ELSE l.head
      /\ r.tail = IF q = Null THEN p ELSE l.tail
      /\ r.num = l.num - 1
      /\ r.next = IF p = Null THEN l.next ELSE [l.next EXCEPT ![p] = q]
      /\ r.prev = IF q = Null THEN l.prev ELSE [l.prev EXCEPT ![q] = p]
      /\ r = [head |-> r.head, tail |-> r.tail, num |-> r.num, prev |-> r.prev, next |-> r.next]
  BY <1>1, DeleteWrites
<1>3. /\ q = IF i = Len(s) THEN Null ELSE s[i + 1]
      /\ p = IF i = 1 THEN Null ELSE s[i - 1]
  BY LinksOf
<1>4. /\ t \in Seq(Nodes) /\ Len(t) = Len(s) - 1
      /\ \A j \in 1 .. Len(s) - 1 : t[j] = IF j < i THEN s[j] ELSE s[j + 1]
  BY <1>1, RemoveAtProperties
<1>5. /\ i # Len(s) => i + 1 \in 1 .. Len(s) /\ q = s[i + 1] /\ q \in Nodes /\ q # Null
      /\ i = Len(s) => q = Null
      /\ i # 1 => i - 1 \in 1 .. Len(s) /\ p = s[i - 1] /\ p \in Nodes /\ p # Null
      /\ i = 1 => p = Null
  <2>1. i # Len(s) => i + 1 \in 1 .. Len(s) BY <1>1
  <2>2. i # 1 => i - 1 \in 1 .. Len(s) BY <1>1
  <2> QED BY <1>1, <1>3, <2>1, <2>2
<1> HIDE DEF r, t, p, q
<1>6. IsList(r)
  <2>1. l.num - 1 \in Nat BY <1>1 DEF Linked, Loose
  <2> QED BY <1>2, <1>5, <2>1 DEF IsList
<1>7. \A m \in Nodes : (\A j \in 1 .. Len(s) : s[j] # m) =>
        r.next[m] = l.next[m] /\ r.prev[m] = l.prev[m]
  BY <1>2, <1>5 DEF IsList
<1>8. Linked(r, t)
  <2>1. ASSUME NEW j \in 1 .. Len(t)
        PROVE  \/ j < i /\ j \in 1 .. Len(s) /\ t[j] = s[j]
               \/ j >= i /\ j + 1 \in 1 .. Len(s) /\ t[j] = s[j + 1]
    BY <1>1, <1>4
  <2>2. \A j, k \in 1 .. Len(s) : s[j] = s[k] => j = k BY DEF Linked, Loose
  <2>3. \A j, k \in 1 .. Len(t) : t[j] = t[k] => j = k
    <3> SUFFICES ASSUME NEW j \in 1 .. Len(t), NEW k \in 1 .. Len(t), t[j] = t[k] PROVE j = k
      OBVIOUS
    <3>1. \/ j < i /\ j \in 1 .. Len(s) /\ t[j] = s[j]
          \/ j >= i /\ j + 1 \in 1 .. Len(s) /\ t[j] = s[j + 1]
      BY <2>1
    <3>2. \/ k < i /\ k \in 1 .. Len(s) /\ t[k] = s[k]
          \/ k >= i /\ k + 1 \in 1 .. Len(s) /\ t[k] = s[k + 1]
      BY <2>1
    <3> QED BY <2>2, <3>1, <3>2
  <2>4. r.num = Len(t) BY <1>2, <1>4 DEF Linked, Loose
  <2>5. r.head = IF Len(t) = 0 THEN Null ELSE t[1]
    <3>1. CASE i = 1 BY <1>1, <1>2, <1>4, <1>5, <3>1
    <3>2. CASE i # 1
      <4>1. Len(t) # 0 /\ 1 \in 1 .. Len(s) - 1 /\ 1 < i BY <1>1, <1>4, <3>2
      <4> QED BY <1>1, <1>2, <1>4, <1>5, <3>2, <4>1
    <3> QED BY <3>1, <3>2
  <2>6. r.tail = IF Len(t) = 0 THEN Null ELSE t[Len(t)]
    <3>1. CASE i = Len(s)
      <4>1. CASE i = 1 BY <1>1, <1>2, <1>4, <1>5, <3>1, <4>1
      <4>2. CASE i # 1
        <5>1. Len(t) # 0 /\ Len(t) \in 1 .. Len(s) - 1 /\ Len(t) < i /\ Len(t) = i - 1
          BY <1>1, <1>4, <3>1, <4>2
        <5>2. t[Len(t)] = s[i - 1] BY <1>4, <5>1
        <5> QED BY <1>2, <1>5, <3>1, <4>2, <5>1, <5>2
      <4> QED BY <4>1, <4>2
    <3>2. CASE i # Len(s)
      <4>1. /\ Len(t) # 0 /\ Len(t) \in 1 .. Len(s) - 1 /\ ~(Len(t) < i)
            /\ Len(t) + 1 = Len(s)
        BY <1>1, <1>4, <3>2
      <4>2. t[Len(t)] = s[Len(s)] BY <1>4, <4>1
      <4> QED BY <1>1, <1>2, <1>5, <3>2, <4>1, <4>2
    <3> QED BY <3>1, <3>2
  <2>7. ASSUME NEW k \in 1 .. Len(s), k # i
        PROVE  /\ r.next[s[k]] = IF k = i - 1 THEN q ELSE l.next[s[k]]
               /\ r.prev[s[k]] = IF k = i + 1 THEN p ELSE l.prev[s[k]]
    <3>1. s[k] \in Nodes BY <1>1
    <3>2. r.next[s[k]] = IF k = i - 1 THEN q ELSE l.next[s[k]]
      <4>1. CASE i = 1 BY <1>1, <1>2, <1>5, <4>1
      <4>2. CASE i # 1
        <5>1. s[k] = p <=> k = i - 1 BY <1>5, <2>2, <4>2
        <5> QED BY <1>2, <1>5, <3>1, <4>2, <5>1 DEF IsList
      <4> QED BY <4>1, <4>2
    <3>3. r.prev[s[k]] = IF k = i + 1 THEN p ELSE l.prev[s[k]]
      <4>1. CASE i = Len(s) BY <1>1, <1>2, <1>5, <4>1
      <4>2. CASE i # Len(s)
        <5>1. s[k] = q <=> k = i + 1 BY <1>5, <2>2, <4>2
        <5> QED BY <1>2, <1>5, <3>1, <4>2, <5>1 DEF IsList
      <4> QED BY <4>1, <4>2
    <3> QED BY <3>2, <3>3
  <2>8. \A k \in 1 .. Len(s) :
           /\ l.next[s[k]] = IF k = Len(s) THEN Null ELSE s[k + 1]
           /\ l.prev[s[k]] = IF k = 1 THEN Null ELSE s[k - 1]
    BY LinksOf
  <2>9. ASSUME NEW j \in 1 .. Len(t)
        PROVE  /\ r.next[t[j]] = IF j = Len(t) THEN Null ELSE t[j + 1]
               /\ r.prev[t[j]] = IF j = 1 THEN Null ELSE t[j - 1]
    <3>1. CASE j < i
      <4>1. /\ j \in 1 .. Len(s) /\ t[j] = s[j] /\ j # i /\ j # i + 1 /\ j # Len(s)
            /\ (j = Len(t) <=> j = i - 1 /\ i = Len(s))
        BY <1>1, <1>4, <2>1, <3>1
      <4>2. j # Len(t) => t[j + 1] = IF j = i - 1 THEN s[i + 1] ELSE s[j + 1]
        <5>1. j # Len(t) => /\ j + 1 \in 1 .. Len(s) - 1
                            /\ (j + 1 < i <=> j # i - 1)
                            /\ (j = i - 1 => (j + 1) + 1 = i + 1)
          BY <1>1, <1>4, <3>1
        <5> QED BY <1>4, <5>1
      <4>3. j # 1 => t[j - 1] = s[j - 1]
        <5>1. j # 1 => j - 1 \in 1 .. Len(s) - 1 /\ j - 1 < i BY <1>1, <1>4, <3>1
        <5> QED BY <1>4, <5>1
      <4>4. j = i - 1 /\ i # Len(s) => q = s[i + 1] BY <1>5
      <4>5. j = i - 1 /\ i = Len(s) => q = Null BY <1>5
      <4>6. /\ r.next[s[j]] = IF j = i - 1 THEN q ELSE l.next[s[j]]
            /\ r.prev[s[j]] = l.prev[s[j]]
        BY <2>7, <4>1
      <4>7. l.next[s[j]] = s[j + 1] /\ l.prev[s[j]] = IF j = 1 THEN Null ELSE s[j - 1]
        BY <2>8, <4>1
      <4> QED BY <4>1, <4>2, <4>3, <4>4, <4>5, <4>6, <4>7
    <3>2. CASE j >= i
      <4> DEFINE k == j + 1
      <4>1. /\ k \in 1 .. Len(s) /\ t[j] = s[k] /\ k # i /\ k # i - 1 /\ k # 1
            /\ (j = Len(t) <=> k = Len(s)) /\ (k = i + 1 <=> j = i) /\ k - 1 = j
        BY <1>1, <1>4, <2>1, <3>2
      <4>2. j # Len(t) => t[j + 1] = s[k + 1]
        <5>1. j # Len(t) => j + 1 \in 1 .. Len(s) - 1 /\ ~(j + 1 < i) BY <1>1, <1>4, <3>2
        <5> QED BY <1>4, <5>1
      <4>3. j # 1 => t[j - 1] = IF j = i THEN s[i - 1] ELSE s[j]
        <5>1. j # 1 => /\ j - 1 \in 1 .. Len(s) - 1
                       /\ (j - 1 < i <=> j = i)
                       /\ (j - 1) + 1 = j
          BY <1>1, <1>4, <3>2
        <5> QED BY <1>4, <5>1
      <4>4. j = 1 <=> j = i /\ i = 1 BY <1>1, <3>2
      <4>5. j = i => p = IF i = 1 THEN Null ELSE s[i - 1] BY <1>5
      <4>6. /\ r.next[s[k]] = l.next[s[k]]
            /\ r.prev[s[k]] = IF j = i THEN p ELSE l.prev[s[k]]
        BY <2>7, <4>1
      <4>7. l.next[s[k]] = (IF k = Len(s) THEN Null ELSE s[k + 1]) /\ l.prev[s[k]] = s[j]
        BY <2>8, <4>1
      <4> HIDE DEF k
      <4> QED BY <4>1, <4>2, <4>3, <4>4, <4>5, <4>6, <4>7
    <3> QED BY <1>4, <3>1, <3>2
  <2> QED BY <1>4, <2>3, <2>4, <2>5, <2>6, <2>9, IsLinked
<1> QED BY <1>6, <1>7, <1>8 DEF r, t

\* At either end DeleteListNode does what its two sisters do.
LEMMA DeleteEnds ==
    ASSUME NEW l, NEW s, IsList(l), Linked(l, s), Len(s) # 0
    PROVE  /\ DeleteListHeadWithoutFree(l) = DeleteListNodeWithoutFree(l, s[1])
           /\ DeleteListTailWithoutFree(l) = DeleteListNodeWithoutFree(l, s[Len(s)])
<1>1. /\ Len(s) \in Nat /\ 1 \in 1 .. Len(s) /\ Len(s) \in 1 .. Len(s)
      /\ l.head = s[1] /\ l.tail = s[Len(s)]
      /\ \A i \in 1 .. Len(s) : s[i] \in Nodes /\ s[i] # Null
  BY LinkedFacts DEF Linked
<1>2. l.prev[s[1]] = Null /\ l.next[s[Len(s)]] = Null BY <1>1, LinksOf
<1>3. DeleteListHeadWithoutFree(l) = DeleteListNodeWithoutFree(l, s[1])
  <2>1. CASE l.next[s[1]] = Null
    BY <1>1, <1>2, <2>1 DEF DeleteListHeadWithoutFree, DeleteListNodeWithoutFree, IsList
  <2>2. CASE l.next[s[1]] # Null
    BY <1>1, <1>2, <2>2 DEF DeleteListHeadWithoutFree, DeleteListNodeWithoutFree, IsList
  <2> QED BY <2>1, <2>2
<1>4. DeleteListTailWithoutFree(l) = DeleteListNodeWithoutFree(l, s[Len(s)])
  <2>1. CASE l.prev[s[Len(s)]] = Null
    BY <1>1, <1>2, <2>1 DEF DeleteListTailWithoutFree, DeleteListNodeWithoutFree, IsList
  <2>2. CASE l.prev[s[Len(s)]] # Null
    BY <1>1, <1>2, <2>2 DEF DeleteListTailWithoutFree, DeleteListNodeWithoutFree, IsList
  <2> QED BY <2>1, <2>2
<1> QED BY <1>3, <1>4

\* A free of nodes that are not in the list leaves the list, and nothing of the
\* nodes.
LEMMA FreeKeeps ==
    ASSUME NEW l, NEW s, IsList(l), Linked(l, s),
           NEW F, \A i \in 1 .. Len(s) : s[i] \notin F
    PROVE  /\ IsList(Free(l, F))
           /\ Linked(Free(l, F), s)
           /\ \A m \in Nodes :
                /\ Free(l, F).next[m] = IF m \in F THEN Null ELSE l.next[m]
                /\ Free(l, F).prev[m] = IF m \in F THEN Null ELSE l.prev[m]
<1> DEFINE r == Free(l, F)
<1>1. /\ r = [head |-> l.head, tail |-> l.tail, num |-> l.num, prev |-> r.prev, next |-> r.next]
      /\ r.prev = [n \in Nodes |-> IF n \in F THEN Null ELSE l.prev[n]]
      /\ r.next = [n \in Nodes |-> IF n \in F THEN Null ELSE l.next[n]]
  <2> DEFINE P == [n \in Nodes |-> IF n \in F THEN Null ELSE l.prev[n]]
             Q == [n \in Nodes |-> IF n \in F THEN Null ELSE l.next[n]]
  <2>1. r = [l EXCEPT !.prev = P, !.next = Q] BY DEF Free
  <2> HIDE DEF P, Q, r
  <2>2. /\ r = [head |-> l.head, tail |-> l.tail, num |-> l.num, prev |-> P, next |-> Q]
        /\ r.prev = P /\ r.next = Q
    BY <2>1 DEF IsList
  <2> QED BY <2>2 DEF P, Q
<1> HIDE DEF r
<1>2. IsList(r)
  <2>1. /\ r.prev \in [Nodes -> Nodes \cup {Null}] /\ r.next \in [Nodes -> Nodes \cup {Null}]
    BY <1>1 DEF IsList
  <2> QED BY <1>1, <2>1 DEF IsList
<1>3. \A m \in Nodes : /\ r.next[m] = IF m \in F THEN Null ELSE l.next[m]
                       /\ r.prev[m] = IF m \in F THEN Null ELSE l.prev[m]
  BY <1>1
<1>4. Linked(r, s)
  <2>1. r.head = l.head /\ r.tail = l.tail /\ r.num = l.num BY <1>1
  <2>2. /\ s \in Seq(Nodes) /\ \A i \in 1 .. Len(s) : s[i] \in Nodes
        /\ Len(s) # 0 => Len(s) \in 1 .. Len(s)
    BY LinkedFacts DEF Linked
  <2>3. \A i \in 1 .. Len(s) : r.next[s[i]] = l.next[s[i]] /\ r.prev[s[i]] = l.prev[s[i]]
    BY <1>3, <2>2
  <2> QED BY <2>1, <2>2, <2>3 DEF Linked, Loose
<1> QED BY <1>2, <1>3, <1>4 DEF r

-------------------------------------------------------------------------------
(* The refill of ListSort.                                                 *)

\* One turn of the fold, and the fold over the places up to n.
Filled(f, base, s, T) ==
    IF T = {} THEN base
    ELSE InsertListNodeToTail(f[T \ {Max(T)}], s[Max(T)])

IsFill(f, base, s, n) == f = [T \in SUBSET (1 .. n) |-> Filled(f, base, s, T)]

\* Without its last place a set of places up to n + 1 is one of places up to n.
LEMMA WithoutLast ==
    ASSUME NEW n \in Nat, NEW T \in SUBSET (1 .. n + 1), T # {}
    PROVE  Max(T) \in T /\ T \ {Max(T)} \in SUBSET (1 .. n)
<1>1. n + 1 \in Nat OBVIOUS
<1>2. Max(T) \in T /\ \A y \in T : y <= Max(T) BY ONLY <1>1, T \in SUBSET (1 .. n + 1), T # {}, MaxIsLast
<1>3. ASSUME NEW y \in T, y # Max(T) PROVE y \in 1 .. n
  <2>1. y \in 1 .. n + 1 /\ Max(T) \in 1 .. n + 1 BY <1>2
  <2> QED BY <1>2, <1>3, <2>1
<1> QED BY <1>2, <1>3

\* There is such a fold.
LEMMA FillExists ==
    ASSUME NEW base, NEW s, NEW N \in Nat
    PROVE  \E f : IsFill(f, base, s, N)
<1> DEFINE S == {n \in Nat : \E f : IsFill(f, base, s, n)}
<1>1. 0 \in S
  <2> DEFINE g == [T \in SUBSET (1 .. 0) |-> base]
  <2>1. \A T \in SUBSET (1 .. 0) : Filled(g, base, s, T) = base BY DEF Filled
  <2>2. IsFill(g, base, s, 0)
    <3> HIDE DEF g
    <3>1. [T \in SUBSET (1 .. 0) |-> base] = [T \in SUBSET (1 .. 0) |-> Filled(g, base, s, T)]
      BY <2>1
    <3> QED BY <3>1 DEF g, IsFill
  <2> QED BY <2>2
<1>2. ASSUME NEW n \in Nat, n \in S PROVE n + 1 \in S
  <2>1. PICK f : IsFill(f, base, s, n) BY <1>2
  <2> DEFINE g == [T \in SUBSET (1 .. n + 1) |-> Filled(f, base, s, T)]
  <2>2. \A T \in SUBSET (1 .. n) : g[T] = f[T]
    <3>1. \A T \in SUBSET (1 .. n) : f[T] = Filled(f, base, s, T) BY <2>1 DEF IsFill
    <3>2. \A T \in SUBSET (1 .. n) : T \in SUBSET (1 .. n + 1) OBVIOUS
    <3> QED BY <3>1, <3>2
  <2>3. \A T \in SUBSET (1 .. n + 1) : Filled(f, base, s, T) = Filled(g, base, s, T)
    <3> SUFFICES ASSUME NEW T \in SUBSET (1 .. n + 1), T # {}
                 PROVE  Filled(f, base, s, T) = Filled(g, base, s, T)
      BY DEF Filled
    <3>1. T \ {Max(T)} \in SUBSET (1 .. n) BY WithoutLast
    <3>2. g[T \ {Max(T)}] = f[T \ {Max(T)}] BY <2>2, <3>1
    <3> HIDE DEF g
    <3> QED BY <3>2 DEF Filled
  <2>4. IsFill(g, base, s, n + 1)
    <3> HIDE DEF g
    <3>1. [T \in SUBSET (1 .. n + 1) |-> Filled(f, base, s, T)]
            = [T \in SUBSET (1 .. n + 1) |-> Filled(g, base, s, T)]
      BY <2>3
    <3> QED BY <3>1 DEF g, IsFill
  <2> HIDE DEF g
  <2> QED BY <2>4
<1> HIDE DEF S
<1>3. N \in S BY <1>1, <1>2, SetInduction
<1> QED BY <1>3 DEF S

\* The list that a refill starts from: no node in it, and the ends of the
\* array without the links they had there.
Emptied(s) == [list EXCEPT !.head = Null, !.tail = Null, !.num = 0,
                           !.prev[s[1]] = Null, !.next[s[Len(s)]] = Null]

\* What ListSort links again is the last of a sequence of lists, each got by
\* inserting one node at the tail.
LEMMA RelinkedFolds ==
    ASSUME NEW s \in Seq(Nodes)
    PROVE  \E f : IsFill(f, Emptied(s), s, Len(s)) /\ Relinked(s) = f[1 .. Len(s)]
<1> DEFINE fill == CHOOSE f : IsFill(f, Emptied(s), s, Len(s))
<1>1. Len(s) \in Nat /\ DOMAIN s = 1 .. Len(s) BY LenProperties
<1>2. IsFill(fill, Emptied(s), s, Len(s)) BY <1>1, FillExists
<1>3. Relinked(s) = fill[1 .. Len(s)]
  BY <1>1 DEF Relinked, Emptied, FoldLeft, MapThenFoldSet, IsFill, Filled
<1> HIDE DEF fill
<1> QED BY <1>2, <1>3

\* What the fold has after k turns: the first k nodes of the array, the last
\* one with the next node it came with if it is the first one, and the other
\* nodes as they were.
FilledUpTo(l, base, s, k) ==
    \E t : /\ Len(t) = k
           /\ \A i \in 1 .. k : t[i] = s[i]
           /\ Loose(l, t)
           /\ IsList(l)
           /\ k # 0 => l.next[s[k]] = IF k = 1 THEN base.next[s[1]] ELSE Null
           /\ \A m \in Nodes : (\A i \in 1 .. k : s[i] # m) =>
                l.next[m] = base.next[m] /\ l.prev[m] = base.prev[m]

\* Each list of that sequence is as long as the number of the turn, and linked in
\* both directions, by induction over the turns.
LEMMA FillTurns ==
    ASSUME NEW base, IsList(base), Loose(base, <<>>), NEW s \in Seq(Nodes),
           \A i, j \in 1 .. Len(s) : s[i] = s[j] => i = j,
           Len(s) # 0 => base.prev[s[1]] = Null,
           NEW f, IsFill(f, base, s, Len(s))
    PROVE  FilledUpTo(f[1 .. Len(s)], base, s, Len(s))
<1>1. PICK N \in Nat : N = Len(s) BY LenProperties
<1>2. \A i \in 1 .. N : s[i] \in Nodes BY <1>1, LenProperties
<1>3. \A T \in SUBSET (1 .. N) : f[T] = Filled(f, base, s, T) BY <1>1 DEF IsFill
<1> DEFINE G == {k \in Nat : k <= N => FilledUpTo(f[1 .. k], base, s, k)}
<1>4. 0 \in G
  <2>1. 1 .. 0 = {} OBVIOUS
  <2>2. f[1 .. 0] = base BY <1>3, <2>1 DEF Filled
  <2>3. Len(<<>>) = 0 OBVIOUS
  <2>4. FilledUpTo(base, base, s, 0) BY <2>3 DEF FilledUpTo
  <2> QED BY <2>2, <2>4
<1>5. ASSUME NEW k \in Nat, k \in G PROVE k + 1 \in G
  <2> SUFFICES ASSUME k + 1 <= N PROVE FilledUpTo(f[1 .. k + 1], base, s, k + 1) OBVIOUS
  <2>1. FilledUpTo(f[1 .. k], base, s, k) BY <1>5
  <2> DEFINE l == f[1 .. k]
             n == s[k + 1]
             r == InsertListNodeToTail(l, n)
  <2>2. f[1 .. k + 1] = r
    <3> DEFINE T == 1 .. k + 1
    <3>1. T \in SUBSET (1 .. N) /\ T # {} /\ T \in SUBSET (1 .. k + 1) /\ k + 1 \in Nat
          /\ k + 1 \in T
      <4>1. k \in Nat OBVIOUS
      <4>2. k + 1 \in 1 .. k + 1 BY ONLY <4>1
      <4>3. k + 1 \in T /\ T # {} BY <4>2
      <4>4. T \in SUBSET (1 .. N) OBVIOUS
      <4> QED BY <4>3, <4>4
    <3>2. Max(T) \in T /\ \A y \in T : y <= Max(T)
      <4> HIDE DEF T
      <4> QED BY ONLY <3>1, MaxIsLast
    <3>3. Max(T) = k + 1
      <4>1. Max(T) <= k + 1 /\ Max(T) \in Nat BY <3>2
      <4>2. k + 1 <= Max(T) BY <3>1, <3>2
      <4> HIDE DEF T
      <4> QED BY <4>1, <4>2
    <3>4. T \ {k + 1} = 1 .. k OBVIOUS
    <3>5. f[T] = InsertListNodeToTail(f[T \ {Max(T)}], s[Max(T)])
      <4> HIDE DEF T
      <4> QED BY <1>3, <3>1 DEF Filled
    <3> QED BY <3>3, <3>4, <3>5
  <2> HIDE DEF l
  <2>3. PICK t : /\ Len(t) = k
                 /\ \A i \in 1 .. k : t[i] = s[i]
                 /\ Loose(l, t)
                 /\ IsList(l)
                 /\ k # 0 => l.next[s[k]] = IF k = 1 THEN base.next[s[1]] ELSE Null
                 /\ \A m \in Nodes : (\A i \in 1 .. k : s[i] # m) =>
                      l.next[m] = base.next[m] /\ l.prev[m] = base.prev[m]
    BY <2>1 DEF FilledUpTo, l
  <2>4. n \in Nodes /\ k + 1 \in 1 .. N BY <1>2
  <2>5. \A i \in 1 .. Len(t) : t[i] # n
    <3> SUFFICES ASSUME NEW i \in 1 .. k PROVE s[i] # n BY <2>3
    <3>1. i \in 1 .. N /\ i # k + 1 OBVIOUS
    <3> QED BY <1>1, <2>4, <3>1
  <2>6. l.next[n] = base.next[n] /\ l.prev[n] = base.prev[n] BY <2>3, <2>4, <2>5
  <2>7. Len(t) = 0 => l.prev[n] = Null BY <1>1, <2>3, <2>6
  <2>8. IsList(l) /\ Loose(l, t) BY <2>3
  <2> DEFINE u == Append(t, n)
  <2> HIDE DEF n
  <2>9. /\ IsList(InsertListNodeToTail(l, n)) /\ Loose(InsertListNodeToTail(l, n), Append(t, n))
        /\ InsertListNodeToTail(l, n).next[n] = IF Len(t) = 0 THEN l.next[n] ELSE Null
        /\ \A m \in Nodes : (m # n /\ \A i \in 1 .. Len(t) : t[i] # m) =>
             /\ InsertListNodeToTail(l, n).next[m] = l.next[m]
             /\ InsertListNodeToTail(l, n).prev[m] = l.prev[m]
    BY ONLY <2>8, <2>4, <2>5, <2>7, InsertTailLoose
  <2>10. /\ IsList(r) /\ Loose(r, u)
         /\ r.next[n] = IF Len(t) = 0 THEN l.next[n] ELSE Null
         /\ \A m \in Nodes : (m # n /\ \A i \in 1 .. Len(t) : t[i] # m) =>
              r.next[m] = l.next[m] /\ r.prev[m] = l.prev[m]
    BY <2>9
  <2> HIDE DEF r, u
  <2>11. /\ Len(u) = k + 1 /\ \A i \in 1 .. k : u[i] = t[i]
         /\ u[k + 1] = n
    <3>1. t \in Seq(Nodes) BY <2>3, LinkedFacts
    <3> QED BY <2>3, <2>4, <3>1, AppendProperties DEF u
  <2>12. \A i \in 1 .. k + 1 : u[i] = s[i]
    <3> SUFFICES ASSUME NEW i \in 1 .. k + 1 PROVE u[i] = s[i] OBVIOUS
    <3>1. CASE i \in 1 .. k BY <2>3, <2>11, <3>1
    <3>2. CASE i = k + 1 BY <2>11, <3>2 DEF n
    <3> QED BY <3>1, <3>2
  <2>13. r.next[s[k + 1]] = IF k + 1 = 1 THEN base.next[s[1]] ELSE Null
    <3>1. k + 1 = 1 <=> Len(t) = 0 BY <2>3
    <3>2. k + 1 = 1 => n = s[1] BY DEF n
    <3> QED BY <2>6, <2>10, <3>1, <3>2 DEF n
  <2>14. ASSUME NEW m \in Nodes, \A i \in 1 .. k + 1 : s[i] # m
         PROVE  r.next[m] = base.next[m] /\ r.prev[m] = base.prev[m]
    <3>1. m # n /\ \A i \in 1 .. k : s[i] # m
      <4>1. k + 1 \in 1 .. k + 1 /\ \A i \in 1 .. k : i \in 1 .. k + 1 OBVIOUS
      <4> QED BY <2>14, <4>1 DEF n
    <3> QED BY <2>3, <2>10, <3>1
  <2>15. FilledUpTo(r, base, s, k + 1) BY <2>10, <2>11, <2>12, <2>13, <2>14 DEF FilledUpTo
  <2> QED BY <2>2, <2>15
<1> HIDE DEF G
<1>6. N \in G BY <1>4, <1>5, SetInduction
<1> QED BY <1>1, <1>6 DEF G

\* ListSort links the nodes of its array in the order of the array, whatever
\* links they had.
LEMMA RelinkedLinks ==
    ASSUME IsList(list), NEW s \in Seq(Nodes), Len(s) # 0,
           \A i, j \in 1 .. Len(s) : s[i] = s[j] => i = j
    PROVE  /\ IsList(Relinked(s))
           /\ Linked(Relinked(s), s)
           /\ \A m \in Nodes : (\A i \in 1 .. Len(s) : s[i] # m) =>
                Relinked(s).next[m] = list.next[m] /\ Relinked(s).prev[m] = list.prev[m]
<1> DEFINE base == Emptied(s)
           r == Relinked(s)
<1>1. /\ Len(s) \in Nat /\ 1 \in 1 .. Len(s) /\ Len(s) \in 1 .. Len(s)
      /\ s[1] \in Nodes /\ s[Len(s)] \in Nodes
  BY LenProperties
<1>2. /\ base.head = Null /\ base.tail = Null /\ base.num = 0
      /\ base.prev = [list.prev EXCEPT ![s[1]] = Null]
      /\ base.next = [list.next EXCEPT ![s[Len(s)]] = Null]
      /\ base = [head |-> base.head, tail |-> base.tail, num |-> base.num,
                 prev |-> base.prev, next |-> base.next]
  <2> DEFINE P == [list.prev EXCEPT ![s[1]] = Null]
             Q == [list.next EXCEPT ![s[Len(s)]] = Null]
  <2>1. base = [list EXCEPT !.head = Null, !.tail = Null, !.num = 0, !.prev = P, !.next = Q]
    BY DEF Emptied, IsList
  <2> HIDE DEF P, Q, base
  <2>2. /\ base = [head |-> Null, tail |-> Null, num |-> 0, prev |-> P, next |-> Q]
        /\ base.prev = P /\ base.next = Q
    BY <2>1 DEF IsList
  <2> QED BY <2>2 DEF P, Q
<1> HIDE DEF base, r
<1>3. IsList(base) BY <1>1, <1>2 DEF IsList
<1>4. Loose(base, <<>>)
  <2>1. <<>> \in Seq(Nodes) /\ Len(<<>>) = 0 OBVIOUS
  <2> QED BY <1>2, <2>1 DEF Loose
<1>5. base.prev[s[1]] = Null /\ base.next[s[Len(s)]] = Null BY <1>1, <1>2 DEF IsList
<1>6. PICK f : IsFill(f, base, s, Len(s)) /\ r = f[1 .. Len(s)] BY RelinkedFolds DEF base, r
<1>7. FilledUpTo(r, base, s, Len(s)) BY <1>3, <1>4, <1>5, <1>6, FillTurns
<1>8. PICK t : /\ Len(t) = Len(s)
               /\ \A i \in 1 .. Len(s) : t[i] = s[i]
               /\ Loose(r, t)
               /\ IsList(r)
               /\ Len(s) # 0 => r.next[s[Len(s)]] = IF Len(s) = 1 THEN base.next[s[1]] ELSE Null
               /\ \A m \in Nodes : (\A i \in 1 .. Len(s) : s[i] # m) =>
                    r.next[m] = base.next[m] /\ r.prev[m] = base.prev[m]
  BY <1>7 DEF FilledUpTo
<1>9. t = s
  <2>1. t \in Seq(Nodes) BY <1>8, LinkedFacts
  <2> QED BY <1>8, <2>1, SeqEqual
<1>10. r.next[s[Len(s)]] = Null BY <1>5, <1>8
<1>11. \A m \in Nodes : (\A i \in 1 .. Len(s) : s[i] # m) =>
         r.next[m] = list.next[m] /\ r.prev[m] = list.prev[m]
  BY <1>1, <1>2, <1>8 DEF IsList
<1> QED BY <1>8, <1>9, <1>10, <1>11 DEF r, Linked

-------------------------------------------------------------------------------
(* The nodes of a sequence, and the keys of them.                          *)

\* The members of a sequence are what is at its places.
LEMMA ToSetIs ==
    ASSUME NEW S, NEW s \in Seq(S)
    PROVE  /\ \A m : m \in ToSet(s) <=> \E i \in 1 .. Len(s) : s[i] = m
           /\ ToSet(s) \subseteq S
           /\ \A i \in 1 .. Len(s) : s[i] \in ToSet(s)
           /\ s = <<>> => ToSet(s) = {}
<1>1. DOMAIN s = 1 .. Len(s) /\ \A i \in 1 .. Len(s) : s[i] \in S BY LenProperties
<1>2. s = <<>> => 1 .. Len(s) = {} BY EmptySeq
<1> QED BY <1>1, <1>2 DEF ToSet

\* A sequence with one element put before it.
LEMMA PrependProperties ==
    ASSUME NEW S, NEW s \in Seq(S), NEW n \in S
    PROVE  /\ <<n>> \o s \in Seq(S)
           /\ Len(<<n>> \o s) = Len(s) + 1
           /\ (<<n>> \o s)[1] = n
           /\ \A i \in 1 .. Len(s) : (<<n>> \o s)[i + 1] = s[i]
<1> DEFINE t == <<n>> \o s
<1>1. <<n>> \in Seq(S) /\ Len(<<n>>) = 1 /\ <<n>>[1] = n /\ Len(s) \in Nat BY LenProperties
<1>2. /\ t \in Seq(S)
      /\ Len(t) = Len(<<n>>) + Len(s)
      /\ \A i \in 1 .. Len(<<n>>) + Len(s) :
           t[i] = IF i <= Len(<<n>>) THEN <<n>>[i] ELSE s[i - Len(<<n>>)]
  BY <1>1, ConcatProperties
<1> HIDE DEF t
<1>3. ASSUME NEW i \in 1 .. Len(s) PROVE t[i + 1] = s[i]
  <2>1. i + 1 \in 1 .. 1 + Len(s) /\ ~(i + 1 <= 1) /\ (i + 1) - 1 = i BY <1>1
  <2> QED BY <1>1, <1>2, <2>1
<1>4. t[1] = n BY <1>1, <1>2
<1>5. Len(t) = Len(s) + 1 BY <1>1, <1>2
<1> QED BY <1>2, <1>3, <1>4, <1>5 DEF t

\* Every place of a longer sequence is the new one or one of the old.
LEMMA LongerPlaces ==
    ASSUME NEW S, NEW s \in Seq(S), NEW n \in S
    PROVE  /\ \A i \in 1 .. Len(s) + 1 :
                \/ i = Len(s) + 1 /\ Append(s, n)[i] = n
                \/ i \in 1 .. Len(s) /\ Append(s, n)[i] = s[i]
           /\ \A i \in 1 .. Len(s) + 1 :
                \/ i = 1 /\ (<<n>> \o s)[i] = n
                \/ i - 1 \in 1 .. Len(s) /\ (<<n>> \o s)[i] = s[i - 1]
<1>1. Len(s) \in Nat BY LenProperties
<1>2. ASSUME NEW i \in 1 .. Len(s) + 1
      PROVE  \/ i = Len(s) + 1 /\ Append(s, n)[i] = n
             \/ i \in 1 .. Len(s) /\ Append(s, n)[i] = s[i]
  <2>1. i = Len(s) + 1 \/ i \in 1 .. Len(s) BY <1>1
  <2> QED BY <2>1, AppendProperties
<1>3. ASSUME NEW i \in 1 .. Len(s) + 1
      PROVE  \/ i = 1 /\ (<<n>> \o s)[i] = n
             \/ i - 1 \in 1 .. Len(s) /\ (<<n>> \o s)[i] = s[i - 1]
  <2>1. i = 1 \/ (i - 1 \in 1 .. Len(s) /\ (i - 1) + 1 = i) BY <1>1
  <2>2. (<<n>> \o s)[1] = n /\ \A j \in 1 .. Len(s) : (<<n>> \o s)[j + 1] = s[j]
    BY PrependProperties
  <2> QED BY <2>1, <2>2
<1> QED BY <1>2, <1>3

\* A sequence that has one element more has one member more.
LEMMA ToSetOfLonger ==
    ASSUME NEW S, NEW s \in Seq(S), NEW t \in Seq(S), NEW n,
           \A i \in 1 .. Len(t) : t[i] = n \/ \E j \in 1 .. Len(s) : t[i] = s[j],
           \E i \in 1 .. Len(t) : t[i] = n,
           \A j \in 1 .. Len(s) : \E i \in 1 .. Len(t) : t[i] = s[j]
    PROVE  ToSet(t) = ToSet(s) \cup {n}
<1>1. \A m : m \in ToSet(s) <=> \E i \in 1 .. Len(s) : s[i] = m BY ToSetIs
<1>2. \A m : m \in ToSet(t) <=> \E i \in 1 .. Len(t) : t[i] = m BY ToSetIs
<1> QED BY <1>1, <1>2

\* The members after a node was inserted at the tail.
LEMMA ToSetAppend ==
    ASSUME NEW S, NEW s \in Seq(S), NEW n \in S
    PROVE  ToSet(Append(s, n)) = ToSet(s) \cup {n}
<1>1. Len(s) \in Nat BY LenProperties
<1> DEFINE t == Append(s, n)
<1>2. t \in Seq(S) /\ Len(t) = Len(s) + 1 /\ t[Len(s) + 1] = n
      /\ \A j \in 1 .. Len(s) : t[j] = s[j]
  BY AppendProperties
<1>3. \A i \in 1 .. Len(t) : t[i] = n \/ \E j \in 1 .. Len(s) : t[i] = s[j]
  BY <1>2, LongerPlaces
<1> HIDE DEF t
<1>4. Len(s) + 1 \in 1 .. Len(t) /\ \A j \in 1 .. Len(s) : j \in 1 .. Len(t) BY <1>1, <1>2
<1>5. \E i \in 1 .. Len(t) : t[i] = n BY <1>2, <1>4
<1>6. \A j \in 1 .. Len(s) : \E i \in 1 .. Len(t) : t[i] = s[j] BY <1>2, <1>4
<1>7. s \in Seq(S) /\ t \in Seq(S) BY <1>2
<1>8. ToSet(t) = ToSet(s) \cup {n} BY ONLY <1>3, <1>5, <1>6, <1>7, ToSetOfLonger
<1> QED BY <1>8 DEF t

\* The members after a node was inserted at the head.
LEMMA ToSetPrepend ==
    ASSUME NEW S, NEW s \in Seq(S), NEW n \in S
    PROVE  ToSet(<<n>> \o s) = ToSet(s) \cup {n}
<1>1. Len(s) \in Nat BY LenProperties
<1> DEFINE t == <<n>> \o s
<1>2. t \in Seq(S) /\ Len(t) = Len(s) + 1 /\ t[1] = n
      /\ \A j \in 1 .. Len(s) : t[j + 1] = s[j]
  BY PrependProperties
<1>3. \A i \in 1 .. Len(t) : t[i] = n \/ \E j \in 1 .. Len(s) : t[i] = s[j]
  BY <1>2, LongerPlaces
<1> HIDE DEF t
<1>4. 1 \in 1 .. Len(t) /\ \A j \in 1 .. Len(s) : j + 1 \in 1 .. Len(t) BY <1>1, <1>2
<1>5. \E i \in 1 .. Len(t) : t[i] = n BY <1>2, <1>4
<1>6. \A j \in 1 .. Len(s) : \E i \in 1 .. Len(t) : t[i] = s[j] BY <1>2, <1>4
<1>7. s \in Seq(S) /\ t \in Seq(S) BY <1>2
<1>8. ToSet(t) = ToSet(s) \cup {n} BY ONLY <1>3, <1>5, <1>6, <1>7, ToSetOfLonger
<1> QED BY <1>8 DEF t

\* A place taken out of a sequence of different nodes takes its node out.
LEMMA ToSetShorter ==
    ASSUME NEW S, NEW s \in Seq(S), NEW i \in 1 .. Len(s),
           \A j, k \in 1 .. Len(s) : s[j] = s[k] => j = k
    PROVE  ToSet(RemoveAt(s, i)) = ToSet(s) \ {s[i]}
<1> DEFINE t == RemoveAt(s, i)
<1>1. Len(s) \in Nat BY LenProperties
<1>2. /\ t \in Seq(S) /\ Len(t) = Len(s) - 1
      /\ \A j \in 1 .. Len(s) - 1 : t[j] = IF j < i THEN s[j] ELSE s[j + 1]
  BY RemoveAtProperties
<1>3. \A m : m \in ToSet(s) <=> \E j \in 1 .. Len(s) : s[j] = m BY ToSetIs
<1>4. \A m : m \in ToSet(t) <=> \E j \in 1 .. Len(t) : t[j] = m BY <1>2, ToSetIs
<1> HIDE DEF t
<1>5. ASSUME NEW m, m \in ToSet(t) PROVE m \in ToSet(s) /\ m # s[i]
  <2>1. PICK j \in 1 .. Len(s) - 1 : t[j] = m BY <1>2, <1>4, <1>5
  <2>2. /\ j \in 1 .. Len(s) /\ j + 1 \in 1 .. Len(s)
        /\ t[j] = IF j < i THEN s[j] ELSE s[j + 1]
    BY <1>1, <1>2, <2>1
  <2>3. PICK k \in 1 .. Len(s) : m = s[k] /\ k # i
    <3>1. CASE j < i BY <2>1, <2>2, <3>1
    <3>2. CASE ~(j < i) BY <2>1, <2>2, <3>2
    <3> QED BY <3>1, <3>2
  <2> QED BY <1>3, <2>3
<1>6. ASSUME NEW m, m \in ToSet(s), m # s[i] PROVE m \in ToSet(t)
  <2>1. PICK k \in 1 .. Len(s) : s[k] = m BY <1>3, <1>6
  <2>2. k # i BY <1>6, <2>1
  <2>3. CASE k < i
    <3>1. k \in 1 .. Len(s) - 1 BY <1>1, <2>3
    <3> QED BY <1>2, <1>4, <2>1, <2>3, <3>1
  <2>4. CASE ~(k < i)
    <3>1. k - 1 \in 1 .. Len(s) - 1 /\ ~(k - 1 < i) /\ (k - 1) + 1 = k BY <1>1, <2>2, <2>4
    <3>2. t[k - 1] = m BY <1>2, <2>1, <3>1
    <3> QED BY <1>2, <1>4, <3>1, <3>2
  <2> QED BY <2>3, <2>4
<1>7. ToSet(t) = ToSet(s) \ {s[i]} BY <1>5, <1>6
<1> QED BY <1>7 DEF t

-------------------------------------------------------------------------------
(* The invariant.                                                          *)

\* Beyond the properties themselves: the links of every node in the list are
\* those of its place; what is not handed out has no links (calloc); and a list
\* that does not exist holds no node.
IInv ==
    /\ running \in BOOLEAN /\ exists \in BOOLEAN
    /\ data \in [Nodes -> Keys \cup {0}]
    /\ allocated \subseteq Nodes
    /\ IsList(list) /\ Linked(list, Chain)
    /\ allocated = ToSet(Chain) \cup kept
    /\ ToSet(Chain) \cap kept = {}
    /\ \A n \in Nodes \ allocated : list.next[n] = Null /\ list.prev[n] = Null
    /\ \A n \in allocated : data[n] \in Keys
    /\ ~exists => Chain = <<>>

\* A sequence reversed twice is itself.
LEMMA ReverseTwice ==
    ASSUME NEW S, NEW s \in Seq(S)
    PROVE  Reverse(Reverse(s)) = s
<1> DEFINE t == Reverse(s)
           u == Reverse(t)
<1>1. PICK n \in Nat : n = Len(s) BY LenProperties
<1>2. \A i \in 1 .. n : s[i] \in S /\ (n - i) + 1 \in 1 .. n BY <1>1, LenProperties
<1>3. t \in Seq(S) /\ Len(t) = n /\ \A i \in 1 .. n : t[i] = s[(n - i) + 1]
  <2>1. t = [i \in 1 .. n |-> s[(n - i) + 1]] BY <1>1 DEF Reverse
  <2>2. t \in [1 .. n -> S] BY <1>2, <2>1
  <2> HIDE DEF t
  <2> QED BY <1>1, <2>1, <2>2
<1> HIDE DEF t
<1>4. \A i \in 1 .. n : t[i] \in S BY <1>2, <1>3
<1>5. u \in Seq(S) /\ Len(u) = n /\ \A i \in 1 .. n : u[i] = t[(n - i) + 1]
  <2>1. u = [i \in 1 .. n |-> t[(n - i) + 1]] BY <1>3 DEF Reverse
  <2>2. u \in [1 .. n -> S] BY <1>2, <1>4, <2>1
  <2> HIDE DEF u
  <2> QED BY <1>1, <2>1, <2>2
<1>6. ASSUME NEW i \in 1 .. n PROVE u[i] = s[i]
  <2>1. (n - i) + 1 \in 1 .. n /\ (n - ((n - i) + 1)) + 1 = i OBVIOUS
  <2> QED BY <1>3, <1>5, <2>1
<1> HIDE DEF u
<1>7. u = s BY <1>1, <1>5, <1>6, SeqEqual
<1> QED BY <1>7 DEF u, t

\* The invariant has what the properties say.
LEMMA InvariantShows ==
    ASSUME IInv
    PROVE  ChainsAgree /\ HeapAccountedFor
<1>1. Linked(list, Chain) /\ IsList(list) BY DEF IInv
<1>2. /\ Path(list.tail, list.prev) = Reverse(Chain)
      /\ IsInjective(Chain)
      /\ Len(Chain) <= Cardinality(Nodes)
  BY <1>1, ChainIs
<1>3. /\ Chain \in Seq(Nodes) /\ Len(Chain) \in Nat /\ list.num = Len(Chain)
  BY <1>1, LinkedFacts DEF Linked, Loose
<1>4. Reverse(Reverse(Chain)) = Chain BY <1>3, ReverseTwice
<1>5. ChainsAgree BY <1>2, <1>3, <1>4 DEF ChainsAgree
<1>6. Cardinality(Nodes) \in Nat BY NodesAssumption, FS_CardinalityType
<1>7. list.num \in 0 .. Cardinality(Nodes) BY <1>2, <1>3, <1>6
<1>8. TypeOK BY <1>7 DEF TypeOK, IInv, IsList
<1> QED BY <1>5, <1>8 DEF HeapAccountedFor, IInv

\* The list is read from its links: the sequence it is linked as is its Chain.
LEMMA ChainBecomes ==
    ASSUME NEW t, Linked(list', t)
    PROVE  Chain' = t
BY ChainIs DEF Chain

\* Without a list there is no chain and no node allocated.
LEMMA InitKeepsInvariant == Init => IInv
<1> SUFFICES ASSUME Init PROVE IInv OBVIOUS
<1>1. /\ IsList(Empty) /\ Empty.head = Null /\ Empty.tail = Null /\ Empty.num = 0
      /\ \A n \in Nodes : Empty.next[n] = Null /\ Empty.prev[n] = Null
  BY DEF Empty, Unlinked, IsList
<1>2. Linked(Empty, <<>>)
  <2>1. <<>> \in Seq(Nodes) /\ Len(<<>>) = 0 OBVIOUS
  <2> QED BY <1>1, <2>1 DEF Linked, Loose
<1>3. Chain = <<>> BY <1>2, ChainIs DEF Init, Chain
<1>4. ToSet(<<>>) = {} BY DEF ToSet
<1> QED BY <1>1, <1>2, <1>3, <1>4 DEF Init, IInv

\* What is used of the invariant about the list.
LEMMA InvariantFacts ==
    ASSUME IInv
    PROVE  /\ IsList(list) /\ Linked(list, Chain) /\ Loose(list, Chain)
           /\ Chain \in Seq(Nodes) /\ Len(Chain) \in Nat
           /\ DOMAIN Chain = 1 .. Len(Chain)
           /\ Chain = <<>> <=> Len(Chain) = 0
           /\ list.head = Null <=> Len(Chain) = 0
           /\ list.tail = Null <=> Len(Chain) = 0
           /\ list.num = Len(Chain)
           /\ \A i, j \in 1 .. Len(Chain) : Chain[i] = Chain[j] => i = j
           /\ \A i \in 1 .. Len(Chain) : Chain[i] \in Nodes /\ Chain[i] # Null
                                         /\ Chain[i] \in ToSet(Chain)
           /\ Len(Chain) # 0 => /\ 1 \in 1 .. Len(Chain) /\ Len(Chain) \in 1 .. Len(Chain)
                                /\ list.head = Chain[1] /\ list.tail = Chain[Len(Chain)]
           /\ \A m : m \in ToSet(Chain) <=> \E i \in 1 .. Len(Chain) : Chain[i] = m
<1>1. IsList(list) /\ Linked(list, Chain) /\ Loose(list, Chain) BY DEF IInv, Linked
<1>2. Chain \in Seq(Nodes) BY <1>1 DEF Loose
<1>3. /\ \A m : m \in ToSet(Chain) <=> \E i \in 1 .. Len(Chain) : Chain[i] = m
      /\ \A i \in 1 .. Len(Chain) : Chain[i] \in ToSet(Chain)
  BY <1>2, ToSetIs
<1>4. list.num = Len(Chain) /\ \A i, j \in 1 .. Len(Chain) : Chain[i] = Chain[j] => i = j
  BY <1>1 DEF Loose
<1> QED BY <1>1, <1>3, <1>4, LinkedFacts

\* A node that is in no list goes in at the head, with a previous life or not.
LEMMA HeadGrows ==
    ASSUME IInv, NEW n \in Nodes, n \notin ToSet(Chain),
           Len(Chain) # 0 \/ n \notin allocated,
           list' = InsertListNodeToHead(list, n)
    PROVE  /\ IsList(list') /\ Linked(list', <<n>> \o Chain)
           /\ ToSet(<<n>> \o Chain) = ToSet(Chain) \cup {n}
           /\ \A m \in Nodes : (m # n /\ m \notin ToSet(Chain)) =>
                list'.next[m] = list.next[m] /\ list'.prev[m] = list.prev[m]
<1> DEFINE s == Chain
<1>1. /\ IsList(list) /\ Linked(list, s) /\ s \in Seq(Nodes)
      /\ \A i \in 1 .. Len(s) : s[i] \in ToSet(s)
      /\ \A m : m \in ToSet(s) <=> \E i \in 1 .. Len(s) : s[i] = m
  BY InvariantFacts
<1>2. Len(s) = 0 => list.next[n] = Null /\ list.prev[n] = Null BY DEF IInv
<1>3. \A i \in 1 .. Len(s) : s[i] # n BY <1>1
<1> HIDE DEF s
<1>4. /\ IsList(InsertListNodeToHead(list, n))
      /\ Linked(InsertListNodeToHead(list, n), <<n>> \o s)
      /\ \A m \in Nodes : (m # n /\ \A i \in 1 .. Len(s) : s[i] # m) =>
           /\ InsertListNodeToHead(list, n).next[m] = list.next[m]
           /\ InsertListNodeToHead(list, n).prev[m] = list.prev[m]
  BY <1>1, <1>2, <1>3, InsertHeadPrepends
<1>5. ToSet(<<n>> \o s) = ToSet(s) \cup {n} BY <1>1, ToSetPrepend
<1> QED BY <1>1, <1>4, <1>5 DEF s

\* InsertListNodeToTail makes the chain longer by the node, at its end, and links
\* no other node.
LEMMA TailGrows ==
    ASSUME IInv, NEW n \in Nodes, n \notin ToSet(Chain),
           Len(Chain) # 0 \/ n \notin allocated,
           list' = InsertListNodeToTail(list, n)
    PROVE  /\ IsList(list') /\ Linked(list', Append(Chain, n))
           /\ ToSet(Append(Chain, n)) = ToSet(Chain) \cup {n}
           /\ \A m \in Nodes : (m # n /\ m \notin ToSet(Chain)) =>
                list'.next[m] = list.next[m] /\ list'.prev[m] = list.prev[m]
<1> DEFINE s == Chain
<1>1. /\ IsList(list) /\ Linked(list, s) /\ s \in Seq(Nodes)
      /\ \A i \in 1 .. Len(s) : s[i] \in ToSet(s)
      /\ \A m : m \in ToSet(s) <=> \E i \in 1 .. Len(s) : s[i] = m
  BY InvariantFacts
<1>2. Len(s) = 0 => list.next[n] = Null /\ list.prev[n] = Null BY DEF IInv
<1>3. \A i \in 1 .. Len(s) : s[i] # n BY <1>1
<1> HIDE DEF s
<1>4. /\ IsList(InsertListNodeToTail(list, n))
      /\ Linked(InsertListNodeToTail(list, n), Append(s, n))
      /\ \A m \in Nodes : (m # n /\ \A i \in 1 .. Len(s) : s[i] # m) =>
           /\ InsertListNodeToTail(list, n).next[m] = list.next[m]
           /\ InsertListNodeToTail(list, n).prev[m] = list.prev[m]
  BY <1>1, <1>2, <1>3, InsertTailAppends
<1>5. ToSet(Append(s, n)) = ToSet(s) \cup {n} BY <1>1, ToSetAppend
<1> QED BY <1>1, <1>4, <1>5 DEF s

\* The node of a place comes out, wherever the place is.
LEMMA PlaceGoes ==
    ASSUME IInv, NEW i \in 1 .. Len(Chain)
    PROVE  LET r == DeleteListNodeWithoutFree(list, Chain[i])
           IN  /\ IsList(r) /\ Linked(r, RemoveAt(Chain, i))
               /\ ToSet(RemoveAt(Chain, i)) = ToSet(Chain) \ {Chain[i]}
               /\ \A m \in Nodes : m \notin ToSet(Chain) =>
                    r.next[m] = list.next[m] /\ r.prev[m] = list.prev[m]
<1> DEFINE s == Chain
           r == DeleteListNodeWithoutFree(list, s[i])
<1>1. /\ IsList(list) /\ Linked(list, s) /\ s \in Seq(Nodes)
      /\ \A m : m \in ToSet(s) <=> \E j \in 1 .. Len(s) : s[j] = m
      /\ \A j, k \in 1 .. Len(s) : s[j] = s[k] => j = k
  BY InvariantFacts
<1> HIDE DEF s
<1>2. i \in 1 .. Len(s) BY DEF s
<1>3. /\ IsList(DeleteListNodeWithoutFree(list, s[i]))
      /\ Linked(DeleteListNodeWithoutFree(list, s[i]), RemoveAt(s, i))
      /\ \A m \in Nodes : (\A j \in 1 .. Len(s) : s[j] # m) =>
           /\ DeleteListNodeWithoutFree(list, s[i]).next[m] = list.next[m]
           /\ DeleteListNodeWithoutFree(list, s[i]).prev[m] = list.prev[m]
  BY <1>1, <1>2, DeleteRemoves
<1>4. ToSet(RemoveAt(s, i)) = ToSet(s) \ {s[i]} BY <1>1, <1>2, ToSetShorter
<1> QED BY <1>1, <1>3, <1>4 DEF s

\* With its free the node has no links any more.
LEMMA PlaceDrops ==
    ASSUME IInv, NEW i \in 1 .. Len(Chain)
    PROVE  LET r == Free(DeleteListNodeWithoutFree(list, Chain[i]), {Chain[i]})
           IN  /\ IsList(r) /\ Linked(r, RemoveAt(Chain, i))
               /\ ToSet(RemoveAt(Chain, i)) = ToSet(Chain) \ {Chain[i]}
               /\ r.next[Chain[i]] = Null /\ r.prev[Chain[i]] = Null
               /\ \A m \in Nodes : m \notin ToSet(Chain) =>
                    r.next[m] = list.next[m] /\ r.prev[m] = list.prev[m]
<1> DEFINE l == DeleteListNodeWithoutFree(list, Chain[i])
           t == RemoveAt(Chain, i)
           F == {Chain[i]}
<1>1. /\ IsList(l) /\ Linked(l, t) /\ ToSet(t) = ToSet(Chain) \ F
      /\ \A m \in Nodes : m \notin ToSet(Chain) =>
           l.next[m] = list.next[m] /\ l.prev[m] = list.prev[m]
  BY PlaceGoes
<1>2. Chain[i] \in Nodes /\ Chain[i] \in F /\ Chain[i] \in ToSet(Chain) BY InvariantFacts
<1> HIDE DEF l, t
<1>3. \A j \in 1 .. Len(t) : t[j] \notin F
  <2>1. t \in Seq(Nodes) BY <1>1 DEF Linked, Loose
  <2>2. \A j \in 1 .. Len(t) : t[j] \in ToSet(t) BY <2>1, ToSetIs
  <2> QED BY <1>1, <2>2
<1> HIDE DEF F
<1>4. /\ IsList(Free(l, F))
      /\ Linked(Free(l, F), t)
      /\ \A m \in Nodes :
           /\ Free(l, F).next[m] = IF m \in F THEN Null ELSE l.next[m]
           /\ Free(l, F).prev[m] = IF m \in F THEN Null ELSE l.prev[m]
  BY <1>1, <1>3, FreeKeeps
<1>5. \A m \in Nodes : m \notin ToSet(Chain) => m \notin F BY <1>2 DEF F
<1>6. /\ Free(l, F).next[Chain[i]] = Null /\ Free(l, F).prev[Chain[i]] = Null
      /\ \A m \in Nodes : m \notin ToSet(Chain) =>
           Free(l, F).next[m] = list.next[m] /\ Free(l, F).prev[m] = list.prev[m]
  BY <1>1, <1>2, <1>4, <1>5
<1>7. ToSet(t) = ToSet(Chain) \ {Chain[i]} BY <1>1 DEF F
<1> QED BY <1>4, <1>6, <1>7 DEF l, t, F

-------------------------------------------------------------------------------
(* The calls, one by one: what each does to the chain, and that it keeps   *)
(* the invariant.                                                          *)

\* The invariant after a step, from the sequence the list is linked as then.
LEMMA InvariantAfter ==
    ASSUME NEW t, IsList(list'), Linked(list', t),
           running' \in BOOLEAN, exists' \in BOOLEAN,
           data' \in [Nodes -> Keys \cup {0}],
           allocated' \subseteq Nodes,
           allocated' = ToSet(t) \cup kept',
           ToSet(t) \cap kept' = {},
           \A n \in Nodes \ allocated' : list'.next[n] = Null /\ list'.prev[n] = Null,
           \A n \in allocated' : data'[n] \in Keys,
           ~exists' => t = <<>>
    PROVE  IInv' /\ Chain' = t
<1>1. Chain' = t BY ChainBecomes
<1> QED BY <1>1 DEF IInv

\* CreateList makes an empty list.
LEMMA CreateListStep ==
    ASSUME IInv, CreateList
    PROVE  IInv' /\ Chain' = <<>> /\ Chain = <<>>
<1>1. Chain = <<>> BY DEF IInv, CreateList
<1>2. Linked(list, <<>>) BY <1>1 DEF IInv
<1>3. list' = list
  <2>1. IsList(list) /\ list.head = Null /\ list.tail = Null /\ list.num = 0
    <3>1. Len(<<>>) = 0 OBVIOUS
    <3> QED BY <1>2, <3>1 DEF IInv, Linked, Loose
  <2> QED BY <2>1 DEF CreateList, IsList
<1>4. IsList(list') /\ Linked(list', <<>>) BY <1>2, <1>3 DEF IInv
<1> QED BY <1>1, <1>3, <1>4, InvariantAfter DEF IInv, CreateList

\* DestroyList frees all nodes of the chain.
LEMMA DestroyListStep ==
    ASSUME IInv, DestroyList
    PROVE  IInv' /\ Chain' = <<>>
<1> DEFINE none == [list EXCEPT !.head = Null, !.tail = Null, !.num = 0]
           F == ToSet(Chain)
<1>1. /\ IsList(none) /\ none.head = Null /\ none.tail = Null /\ none.num = 0
      /\ none.next = list.next /\ none.prev = list.prev
  BY DEF IInv, IsList
<1>2. Linked(none, <<>>)
  <2>1. <<>> \in Seq(Nodes) /\ Len(<<>>) = 0 OBVIOUS
  <2> HIDE DEF none
  <2> QED BY <1>1, <2>1 DEF Linked, Loose
<1>3. list' = Free(none, F) BY DEF DestroyList
<1> HIDE DEF none, F
<1>4. \A i \in 1 .. Len(<<>>) : <<>>[i] \notin F BY EmptySeq
<1>5. /\ IsList(Free(none, F)) /\ Linked(Free(none, F), <<>>)
      /\ \A m \in Nodes :
           /\ Free(none, F).next[m] = IF m \in F THEN Null ELSE none.next[m]
           /\ Free(none, F).prev[m] = IF m \in F THEN Null ELSE none.prev[m]
  BY <1>1, <1>2, <1>4, FreeKeeps
<1>6. ToSet(<<>>) = {} BY DEF ToSet
<1>7. allocated' = kept' /\ allocated' \subseteq Nodes BY DEF DestroyList, IInv
<1>8. \A m \in Nodes \ allocated' : m \in F \/ m \in Nodes \ allocated BY DEF DestroyList, F
<1>9. \A m \in Nodes \ allocated' : list'.next[m] = Null /\ list'.prev[m] = Null
  BY <1>1, <1>3, <1>5, <1>8 DEF IInv
<1>10. /\ running' \in BOOLEAN /\ exists' \in BOOLEAN
       /\ data' \in [Nodes -> Keys \cup {0}] /\ \A n \in allocated' : data'[n] \in Keys
  BY DEF DestroyList, IInv
<1> QED BY <1>3, <1>5, <1>6, <1>7, <1>9, <1>10, InvariantAfter

\* InsertListNodeToHead puts a node before the chain.
LEMMA InsertHeadStep ==
    ASSUME IInv, NEW n \in Nodes, NEW k \in Keys, InsertHead(n, k)
    PROVE  IInv' /\ Chain' = <<n>> \o Chain /\ n \notin ToSet(Chain)
<1>1. n \notin allocated /\ n \notin ToSet(Chain) BY DEF InsertHead, IInv
<1>2. list' = InsertListNodeToHead(list, n) BY DEF InsertHead
<1> DEFINE t == <<n>> \o Chain
<1>3. /\ IsList(list') /\ Linked(list', t)
      /\ ToSet(t) = ToSet(Chain) \cup {n}
      /\ \A m \in Nodes : (m # n /\ m \notin ToSet(Chain)) =>
           list'.next[m] = list.next[m] /\ list'.prev[m] = list.prev[m]
  BY <1>1, <1>2, HeadGrows
<1> HIDE DEF t
<1>4. /\ running' \in BOOLEAN /\ exists' \in BOOLEAN /\ exists'
      /\ data' \in [Nodes -> Keys \cup {0}] /\ \A m \in allocated' : data'[m] \in Keys
  BY DEF InsertHead, IInv
<1>5. /\ allocated' \subseteq Nodes /\ allocated' = ToSet(t) \cup kept' /\ ToSet(t) \cap kept' = {}
  BY <1>1, <1>3 DEF InsertHead, IInv
<1>6. \A m \in Nodes \ allocated' : list'.next[m] = Null /\ list'.prev[m] = Null
  BY <1>3 DEF InsertHead, IInv
<1>7. IInv' /\ Chain' = t BY <1>3, <1>4, <1>5, <1>6, InvariantAfter
<1> QED BY <1>1, <1>7 DEF t

\* InsertListNodeToTail puts a node behind the chain.
LEMMA InsertTailStep ==
    ASSUME IInv, NEW n \in Nodes, NEW k \in Keys, InsertTail(n, k)
    PROVE  IInv' /\ Chain' = Append(Chain, n) /\ n \notin ToSet(Chain)
<1>1. n \notin allocated /\ n \notin ToSet(Chain) BY DEF InsertTail, IInv
<1>2. list' = InsertListNodeToTail(list, n) BY DEF InsertTail
<1> DEFINE t == Append(Chain, n)
<1>3. /\ IsList(list') /\ Linked(list', t)
      /\ ToSet(t) = ToSet(Chain) \cup {n}
      /\ \A m \in Nodes : (m # n /\ m \notin ToSet(Chain)) =>
           list'.next[m] = list.next[m] /\ list'.prev[m] = list.prev[m]
  BY <1>1, <1>2, TailGrows
<1> HIDE DEF t
<1>4. /\ running' \in BOOLEAN /\ exists' \in BOOLEAN /\ exists'
      /\ data' \in [Nodes -> Keys \cup {0}] /\ \A m \in allocated' : data'[m] \in Keys
  BY DEF InsertTail, IInv
<1>5. /\ allocated' \subseteq Nodes /\ allocated' = ToSet(t) \cup kept' /\ ToSet(t) \cap kept' = {}
  BY <1>1, <1>3 DEF InsertTail, IInv
<1>6. \A m \in Nodes \ allocated' : list'.next[m] = Null /\ list'.prev[m] = Null
  BY <1>3 DEF InsertTail, IInv
<1>7. IInv' /\ Chain' = t BY <1>3, <1>4, <1>5, <1>6, InvariantAfter
<1> QED BY <1>1, <1>7 DEF t

\* A place is dropped, with its node freed.
LEMMA DropStep ==
    ASSUME IInv, NEW i \in 1 .. Len(Chain),
           Drop(Chain[i], DeleteListNodeWithoutFree(list, Chain[i])),
           running, exists, UNCHANGED <<running, exists, data, kept>>
    PROVE  IInv' /\ Chain' = RemoveAt(Chain, i)
<1> DEFINE t == RemoveAt(Chain, i)
<1>1. /\ IsList(list') /\ Linked(list', t)
      /\ ToSet(t) = ToSet(Chain) \ {Chain[i]}
      /\ list'.next[Chain[i]] = Null /\ list'.prev[Chain[i]] = Null
      /\ \A m \in Nodes : m \notin ToSet(Chain) =>
           list'.next[m] = list.next[m] /\ list'.prev[m] = list.prev[m]
  BY PlaceDrops DEF Drop
<1>2. Chain[i] \in ToSet(Chain) BY InvariantFacts
<1> HIDE DEF t
<1>3. allocated' = allocated \ {Chain[i]} BY DEF Drop
<1>4. /\ running' \in BOOLEAN /\ exists' \in BOOLEAN /\ exists'
      /\ data' \in [Nodes -> Keys \cup {0}] /\ \A m \in allocated' : data'[m] \in Keys
  BY <1>3 DEF IInv
<1>5. /\ allocated' \subseteq Nodes /\ allocated' = ToSet(t) \cup kept' /\ ToSet(t) \cap kept' = {}
  BY <1>1, <1>2, <1>3 DEF IInv
<1>6. \A m \in Nodes \ allocated' : list'.next[m] = Null /\ list'.prev[m] = Null
  <2> SUFFICES ASSUME NEW m \in Nodes, m \notin allocated'
               PROVE  list'.next[m] = Null /\ list'.prev[m] = Null
    OBVIOUS
  <2>1. CASE m = Chain[i] BY <1>1, <2>1
  <2>2. CASE m # Chain[i]
    <3>1. m \notin allocated /\ m \notin ToSet(Chain) BY <1>3, <2>2 DEF IInv
    <3> QED BY <1>1, <3>1 DEF IInv
  <2> QED BY <2>1, <2>2
<1>7. IInv' /\ Chain' = t BY <1>1, <1>4, <1>5, <1>6, InvariantAfter
<1> QED BY <1>7 DEF t

\* A place is taken out, and the caller keeps its node.
LEMMA KeepStep ==
    ASSUME IInv, NEW i \in 1 .. Len(Chain),
           Keep(Chain[i], DeleteListNodeWithoutFree(list, Chain[i])),
           running, exists, UNCHANGED <<running, exists, data, allocated>>
    PROVE  IInv' /\ Chain' = RemoveAt(Chain, i)
<1> DEFINE t == RemoveAt(Chain, i)
<1>1. /\ IsList(list') /\ Linked(list', t)
      /\ ToSet(t) = ToSet(Chain) \ {Chain[i]}
      /\ \A m \in Nodes : m \notin ToSet(Chain) =>
           list'.next[m] = list.next[m] /\ list'.prev[m] = list.prev[m]
  BY PlaceGoes DEF Keep
<1>2. Chain[i] \in ToSet(Chain) BY InvariantFacts
<1> HIDE DEF t
<1>3. kept' = kept \cup {Chain[i]} BY DEF Keep
<1>4. /\ running' \in BOOLEAN /\ exists' \in BOOLEAN /\ exists'
      /\ data' \in [Nodes -> Keys \cup {0}] /\ \A m \in allocated' : data'[m] \in Keys
  BY DEF IInv
<1>5. /\ allocated' \subseteq Nodes /\ allocated' = ToSet(t) \cup kept' /\ ToSet(t) \cap kept' = {}
  BY <1>1, <1>2, <1>3 DEF IInv
<1>6. \A m \in Nodes \ allocated' : list'.next[m] = Null /\ list'.prev[m] = Null
  BY <1>1 DEF IInv
<1>7. IInv' /\ Chain' = t BY <1>1, <1>4, <1>5, <1>6, InvariantAfter
<1> QED BY <1>7 DEF t

\* The first node with a key is at the least of the places that have it.
PlacesOf(k) == {i \in DOMAIN Chain : data[Chain[i]] = k}

\* FindListNode finds the first node with the key, or none.
LEMMA FindsFirst ==
    ASSUME IInv, NEW k
    PROVE  /\ PlacesOf(k) = {} => FindListNode(k) = Null
           /\ PlacesOf(k) # {} => /\ Min(PlacesOf(k)) \in 1 .. Len(Chain)
                                /\ FindListNode(k) = Chain[Min(PlacesOf(k))]
                                /\ FindListNode(k) # Null
<1>1. FindListNode(k) = IF PlacesOf(k) = {} THEN Null ELSE Chain[Min(PlacesOf(k))]
  BY DEF FindListNode, PlacesOf
<1>2. /\ DOMAIN Chain = 1 .. Len(Chain) /\ Len(Chain) \in Nat
      /\ \A i \in 1 .. Len(Chain) : Chain[i] # Null
  BY InvariantFacts
<1>3. PlacesOf(k) \in SUBSET Nat /\ PlacesOf(k) \subseteq 1 .. Len(Chain) BY <1>2 DEF PlacesOf
<1>4. PlacesOf(k) # {} => Min(PlacesOf(k)) \in PlacesOf(k) BY <1>3, MinIsLeast
<1> QED BY <1>1, <1>2, <1>3, <1>4

\* Nothing moves in the list.
LEMMA SameListStep ==
    ASSUME IInv, UNCHANGED <<exists, list, data, allocated, kept>>, running' \in BOOLEAN
    PROVE  IInv' /\ Chain' = Chain
<1>1. Chain' = Chain BY DEF Chain
<1> QED BY <1>1 DEF IInv

\* DeleteListNodeByKey takes the first node with the key out of the chain.
LEMMA DeleteByKeyStep ==
    ASSUME IInv, NEW k \in Keys, DeleteByKey(k)
    PROVE  /\ IInv'
           /\ Chain' = IF PlacesOf(k) = {} THEN Chain ELSE RemoveAt(Chain, Min(PlacesOf(k)))
<1>1. CASE PlacesOf(k) = {}
  <2>1. FindListNode(k) = Null BY <1>1, FindsFirst
  <2>2. UNCHANGED <<exists, list, data, allocated, kept>> /\ running' = running
    BY <2>1 DEF DeleteByKey
  <2>3. running' \in BOOLEAN BY <2>2 DEF IInv
  <2> QED BY <1>1, <2>2, <2>3, SameListStep
<1>2. CASE PlacesOf(k) # {}
  <2>1. PICK i \in 1 .. Len(Chain) :
          i = Min(PlacesOf(k)) /\ FindListNode(k) = Chain[i] /\ FindListNode(k) # Null
    BY <1>2, FindsFirst
  <2>2. /\ Drop(Chain[i], DeleteListNodeWithoutFree(list, Chain[i]))
        /\ running /\ exists /\ UNCHANGED <<running, exists, data, kept>>
    BY <2>1 DEF DeleteByKey
  <2>3. IInv' /\ Chain' = RemoveAt(Chain, i) BY <2>2, DropStep
  <2> QED BY <1>2, <2>1, <2>3
<1> QED BY <1>1, <1>2

\* DeleteListNode takes the node out of the chain, and frees it.
LEMMA DeleteNodeStep ==
    ASSUME IInv, NEW i \in DOMAIN Chain, DeleteNode(i)
    PROVE  IInv' /\ Chain' = RemoveAt(Chain, i) /\ i \in 1 .. Len(Chain)
<1>1. i \in 1 .. Len(Chain) BY InvariantFacts
<1>2. /\ Drop(Chain[i], DeleteListNodeWithoutFree(list, Chain[i]))
      /\ running /\ exists /\ UNCHANGED <<running, exists, data, kept>>
  BY DEF DeleteNode
<1> QED BY <1>1, <1>2, DropStep

\* A node taken out and kept by the caller leaves the chain only.
LEMMA TakeNodeStep ==
    ASSUME IInv, NEW i \in DOMAIN Chain, TakeNode(i)
    PROVE  IInv' /\ Chain' = RemoveAt(Chain, i) /\ i \in 1 .. Len(Chain)
<1>1. i \in 1 .. Len(Chain) BY InvariantFacts
<1>2. /\ Keep(Chain[i], DeleteListNodeWithoutFree(list, Chain[i]))
      /\ running /\ exists /\ UNCHANGED <<running, exists, data, allocated>>
  BY DEF TakeNode
<1> QED BY <1>1, <1>2, KeepStep

\* The deletions at the ends, of both kinds: an empty list stays as it is.
LEMMA EndStep ==
    ASSUME IInv, DeleteHead \/ DeleteTail \/ TakeHead \/ TakeTail
    PROVE  /\ IInv'
           /\ Len(Chain) = 0 => Chain' = Chain
           /\ Len(Chain) # 0 /\ (DeleteHead \/ TakeHead) => Chain' = RemoveAt(Chain, 1)
           /\ Len(Chain) # 0 /\ (DeleteTail \/ TakeTail) => Chain' = RemoveAt(Chain, Len(Chain))
<1>1. /\ list.head = Null <=> Len(Chain) = 0
      /\ list.tail = Null <=> Len(Chain) = 0
      /\ IsList(list) /\ Linked(list, Chain)
  BY InvariantFacts
<1>2. CASE Len(Chain) = 0
  <2>1. UNCHANGED <<exists, list, data, allocated, kept>> /\ running' = running
    BY <1>1, <1>2 DEF DeleteHead, DeleteTail, TakeHead, TakeTail
  <2>2. running' \in BOOLEAN BY <2>1 DEF IInv
  <2> QED BY <1>2, <2>1, <2>2, SameListStep
<1>3. CASE Len(Chain) # 0
  <2>1. /\ 1 \in 1 .. Len(Chain) /\ Len(Chain) \in 1 .. Len(Chain)
        /\ list.head = Chain[1] /\ list.tail = Chain[Len(Chain)]
    BY <1>3, InvariantFacts
  <2>2. /\ DeleteListHeadWithoutFree(list) = DeleteListNodeWithoutFree(list, Chain[1])
        /\ DeleteListTailWithoutFree(list) = DeleteListNodeWithoutFree(list, Chain[Len(Chain)])
    BY <1>1, <1>3, DeleteEnds
  <2>3. ASSUME DeleteHead PROVE IInv' /\ Chain' = RemoveAt(Chain, 1)
    <3>1. /\ Drop(Chain[1], DeleteListNodeWithoutFree(list, Chain[1]))
          /\ running /\ exists /\ UNCHANGED <<running, exists, data, kept>>
      BY <1>1, <1>3, <2>1, <2>2, <2>3 DEF DeleteHead
    <3> QED BY <2>1, <3>1, DropStep
  <2>4. ASSUME DeleteTail PROVE IInv' /\ Chain' = RemoveAt(Chain, Len(Chain))
    <3>1. /\ Drop(Chain[Len(Chain)], DeleteListNodeWithoutFree(list, Chain[Len(Chain)]))
          /\ running /\ exists /\ UNCHANGED <<running, exists, data, kept>>
      BY <1>1, <1>3, <2>1, <2>2, <2>4 DEF DeleteTail
    <3> QED BY <2>1, <3>1, DropStep
  <2>5. ASSUME TakeHead PROVE IInv' /\ Chain' = RemoveAt(Chain, 1)
    <3>1. /\ Keep(Chain[1], DeleteListNodeWithoutFree(list, Chain[1]))
          /\ running /\ exists /\ UNCHANGED <<running, exists, data, allocated>>
      BY <1>1, <1>3, <2>1, <2>2, <2>5 DEF TakeHead
    <3> QED BY <2>1, <3>1, KeepStep
  <2>6. ASSUME TakeTail PROVE IInv' /\ Chain' = RemoveAt(Chain, Len(Chain))
    <3>1. /\ Keep(Chain[Len(Chain)], DeleteListNodeWithoutFree(list, Chain[Len(Chain)]))
          /\ running /\ exists /\ UNCHANGED <<running, exists, data, allocated>>
      BY <1>1, <1>3, <2>1, <2>2, <2>6 DEF TakeTail
    <3> QED BY <2>1, <3>1, KeepStep
  <2> QED BY <1>3, <2>3, <2>4, <2>5, <2>6
<1> QED BY <1>2, <1>3

\* A caller puts a node back that it holds, so that it is in no list.
LEMMA PutBackStep ==
    ASSUME IInv, NEW n \in Nodes, list.head # Null, PutBack(n)
    PROVE  /\ IInv' /\ n \in allocated
           /\ \/ Chain' = <<n>> \o Chain /\ call' = <<"insert_head", data[n]>>
              \/ Chain' = Append(Chain, n) /\ call' = <<"insert_tail", data[n]>>
<1>1. n \in allocated /\ n \notin ToSet(Chain) BY DEF PutBack, IInv
<1>2. Len(Chain) # 0 BY InvariantFacts
<1>3. /\ running' \in BOOLEAN /\ exists' \in BOOLEAN /\ exists'
      /\ data' \in [Nodes -> Keys \cup {0}] /\ \A m \in allocated' : data'[m] \in Keys
      /\ allocated' = allocated /\ kept' = kept \ {n} /\ n \in kept
  BY DEF PutBack, IInv
<1>4. ASSUME NEW t, IsList(list'), Linked(list', t), ToSet(t) = ToSet(Chain) \cup {n},
             \A m \in Nodes : (m # n /\ m \notin ToSet(Chain)) =>
               list'.next[m] = list.next[m] /\ list'.prev[m] = list.prev[m]
      PROVE  IInv' /\ Chain' = t
  <2>1. allocated' \subseteq Nodes /\ allocated' = ToSet(t) \cup kept' /\ ToSet(t) \cap kept' = {}
    BY <1>1, <1>3, <1>4 DEF IInv
  <2>2. \A m \in Nodes \ allocated' : list'.next[m] = Null /\ list'.prev[m] = Null
    BY <1>1, <1>3, <1>4 DEF IInv
  <2> QED BY <1>3, <1>4, <2>1, <2>2, InvariantAfter
<1>5. CASE list' = InsertListNodeToHead(list, n) /\ call' = <<"insert_head", data[n]>>
  <2> DEFINE t == <<n>> \o Chain
  <2>1. /\ IsList(list') /\ Linked(list', t)
        /\ ToSet(t) = ToSet(Chain) \cup {n}
        /\ \A m \in Nodes : (m # n /\ m \notin ToSet(Chain)) =>
             list'.next[m] = list.next[m] /\ list'.prev[m] = list.prev[m]
    BY <1>1, <1>2, <1>5, HeadGrows
  <2> HIDE DEF t
  <2>2. IInv' /\ Chain' = t BY <1>4, <2>1
  <2> QED BY <1>1, <1>5, <2>2 DEF t
<1>6. CASE list' = InsertListNodeToTail(list, n) /\ call' = <<"insert_tail", data[n]>>
  <2> DEFINE t == Append(Chain, n)
  <2>1. /\ IsList(list') /\ Linked(list', t)
        /\ ToSet(t) = ToSet(Chain) \cup {n}
        /\ \A m \in Nodes : (m # n /\ m \notin ToSet(Chain)) =>
             list'.next[m] = list.next[m] /\ list'.prev[m] = list.prev[m]
    BY <1>1, <1>2, <1>6, TailGrows
  <2> HIDE DEF t
  <2>2. IInv' /\ Chain' = t BY <1>4, <2>1
  <2> QED BY <1>1, <1>6, <2>2 DEF t
<1> QED BY <1>5, <1>6 DEF PutBack

\* A node that the caller frees was not in the chain.
LEMMA FreeKeptStep ==
    ASSUME IInv, NEW n \in Nodes, FreeKept(n)
    PROVE  IInv' /\ Chain' = Chain
<1> DEFINE s == Chain
           F == {n}
<1>1. /\ IsList(list) /\ Linked(list, s)
      /\ \A i \in 1 .. Len(s) : s[i] \in ToSet(s)
  BY InvariantFacts
<1>2. n \in kept /\ list' = Free(list, F) /\ allocated' = allocated \ F /\ kept' = kept \ F
  BY DEF FreeKept
<1>3. n \notin ToSet(s) /\ ToSet(s) \cup kept = allocated /\ ToSet(s) \cap kept = {}
      /\ allocated \subseteq Nodes
      /\ \A m \in Nodes \ allocated : list.next[m] = Null /\ list.prev[m] = Null
  BY <1>2 DEF IInv
<1>4. /\ running' \in BOOLEAN /\ exists' \in BOOLEAN
      /\ data' \in [Nodes -> Keys \cup {0}] /\ \A m \in allocated' : data'[m] \in Keys
      /\ ~exists' => s = <<>>
  BY <1>2 DEF FreeKept, IInv
<1> HIDE DEF s
<1>5. \A i \in 1 .. Len(s) : s[i] \notin F BY <1>1, <1>3
<1> HIDE DEF F
<1>6. /\ IsList(Free(list, F)) /\ Linked(Free(list, F), s)
      /\ \A m \in Nodes :
           /\ Free(list, F).next[m] = IF m \in F THEN Null ELSE list.next[m]
           /\ Free(list, F).prev[m] = IF m \in F THEN Null ELSE list.prev[m]
  BY <1>1, <1>5, FreeKeeps
<1>7. allocated' \subseteq Nodes /\ allocated' = ToSet(s) \cup kept' /\ ToSet(s) \cap kept' = {}
  BY <1>2, <1>3 DEF F
<1>8. \A m \in Nodes \ allocated' : list'.next[m] = Null /\ list'.prev[m] = Null
  BY <1>2, <1>3, <1>6
<1>9. IsList(list') /\ Linked(list', s) BY <1>2, <1>6
<1>10. IInv' /\ Chain' = s BY <1>4, <1>7, <1>8, <1>9, InvariantAfter
<1> QED BY <1>10 DEF s

\* An array with as many different nodes as the list, all of them from the
\* list, has just those of the list.
LEMMA SortedIsPermutation ==
    ASSUME IInv, NEW s \in SortedNodes
    PROVE  /\ s \in Seq(Nodes) /\ Len(s) = Len(Chain)
           /\ \A i, j \in 1 .. Len(s) : s[i] = s[j] => i = j
           /\ \A i \in 1 .. Len(s) - 1 : data[s[i]] <= data[s[i + 1]]
           /\ ToSet(s) = ToSet(Chain)
<1> DEFINE n == Len(Chain)
           T == ToSet(Chain)
<1>1. /\ n \in Nat /\ Chain \in Seq(Nodes)
      /\ \A i, j \in 1 .. n : Chain[i] = Chain[j] => i = j
      /\ \A m : m \in T <=> \E i \in 1 .. n : Chain[i] = m
  BY InvariantFacts
<1>2. T \subseteq Nodes BY <1>1, ToSetIs
<1>3. s \in [1 .. n -> T] /\ IsInjective(s) /\ \A i \in 1 .. Len(s) - 1 : data[s[i]] <= data[s[i + 1]]
  BY DEF SortedNodes, TupleOf
<1>4. Chain \in [1 .. n -> Nodes] BY <1>1, LenProperties
<1>5. /\ IsFiniteSet(1 .. n) /\ Cardinality(1 .. n) = n
  <2> HIDE DEF n
  <2> QED BY ONLY <1>1, CardinalityUpTo
<1> HIDE DEF n, T
<1>6. Chain \in Surjection(1 .. n, T) /\ Chain \in Injection(1 .. n, T)
  <2>1. Chain \in [1 .. n -> T] BY <1>1, <1>4
  <2>2. IsInjective(Chain) BY <1>1, <2>1 DEF IsInjective
  <2> QED BY <1>1, <2>1, <2>2 DEF Surjection, Injection
<1>7. IsFiniteSet(T) /\ Cardinality(T) = n BY <1>5, <1>6, FS_Surjection
<1>8. s \in Injection(1 .. n, T) BY <1>3 DEF Injection
<1>9. s \in Surjection(1 .. n, T) BY <1>5, <1>7, <1>8, FS_Injection
<1>10. s \in Seq(Nodes) /\ Len(s) = n BY <1>1, <1>2, <1>3
<1>11. \A i, j \in 1 .. n : s[i] = s[j] => i = j BY <1>3 DEF IsInjective
<1>12. ToSet(s) = T
  <2>1. \A m : m \in ToSet(s) <=> \E i \in 1 .. n : s[i] = m BY <1>10, ToSetIs
  <2>2. \A m \in T : \E i \in 1 .. n : s[i] = m BY <1>9 DEF Surjection
  <2>3. \A i \in 1 .. n : s[i] \in T BY <1>3
  <2> QED BY <2>1, <2>2, <2>3
<1> QED BY <1>3, <1>10, <1>11, <1>12 DEF n, T

\* ListSort makes a chain of the same nodes in the order of their keys.
LEMMA SortStep ==
    ASSUME IInv, Sort
    PROVE  /\ IInv'
           /\ Len(Chain) = 0 => Chain' = Chain
           /\ Len(Chain) # 0 => \E s \in SortedNodes : Chain' = s
<1>1. list.num = Len(Chain) /\ IsList(list) BY InvariantFacts
<1>2. CASE Len(Chain) = 0
  <2>1. UNCHANGED <<exists, list, data, allocated, kept>> /\ running' = running
    BY <1>1, <1>2 DEF Sort
  <2>2. running' \in BOOLEAN BY <2>1 DEF IInv
  <2> QED BY <1>2, <2>1, <2>2, SameListStep
<1>3. CASE Len(Chain) # 0
  <2>1. PICK s \in SortedNodes : list' = Relinked(s) BY <1>1, <1>3 DEF Sort
  <2>2. /\ s \in Seq(Nodes) /\ Len(s) # 0
        /\ \A i, j \in 1 .. Len(s) : s[i] = s[j] => i = j
        /\ ToSet(s) = ToSet(Chain)
    BY <1>3, SortedIsPermutation
  <2>3. /\ IsList(Relinked(s)) /\ Linked(Relinked(s), s)
        /\ \A m \in Nodes : (\A i \in 1 .. Len(s) : s[i] # m) =>
             Relinked(s).next[m] = list.next[m] /\ Relinked(s).prev[m] = list.prev[m]
    BY <1>1, <2>2, RelinkedLinks
  <2>4. \A m \in Nodes : m \notin ToSet(Chain) =>
          list'.next[m] = list.next[m] /\ list'.prev[m] = list.prev[m]
    <3>1. \A i \in 1 .. Len(s) : s[i] \in ToSet(Chain) BY <2>2, ToSetIs
    <3> QED BY <2>1, <2>3, <3>1
  <2>5. /\ running' \in BOOLEAN /\ exists' \in BOOLEAN /\ exists'
        /\ data' \in [Nodes -> Keys \cup {0}] /\ \A m \in allocated' : data'[m] \in Keys
        /\ allocated' = allocated /\ kept' = kept
    BY DEF Sort, IInv
  <2>6. allocated' \subseteq Nodes /\ allocated' = ToSet(s) \cup kept' /\ ToSet(s) \cap kept' = {}
    BY <2>2, <2>5 DEF IInv
  <2>7. \A m \in Nodes \ allocated' : list'.next[m] = Null /\ list'.prev[m] = Null
    BY <2>4, <2>5 DEF IInv
  <2>8. IsList(list') /\ Linked(list', s) BY <2>1, <2>3
  <2>9. IInv' /\ Chain' = s BY <2>5, <2>6, <2>7, <2>8, InvariantAfter
  <2> QED BY <1>3, <2>9
<1> QED BY <1>2, <1>3

\* Every step keeps the invariant.
LEMMA StepKeepsInvariant == IInv /\ [Next]_vars => IInv'
<1> SUFFICES ASSUME IInv, [Next]_vars PROVE IInv' OBVIOUS
<1>1. CASE CreateList BY <1>1, CreateListStep
<1>2. CASE DestroyList BY <1>2, DestroyListStep
<1>3. CASE DeleteHead \/ DeleteTail \/ TakeHead \/ TakeTail BY <1>3, EndStep
<1>4. CASE Sort BY <1>4, SortStep
<1>5. CASE SortAstray \/ Quit
  <2>1. UNCHANGED <<exists, list, data, allocated, kept>> /\ running' \in BOOLEAN
    BY <1>5 DEF SortAstray, Quit
  <2> QED BY <2>1, SameListStep
<1>6. ASSUME NEW n \in Nodes, NEW k \in Keys, InsertHead(n, k) PROVE IInv'
  BY <1>6, InsertHeadStep
<1>7. ASSUME NEW n \in Nodes, NEW k \in Keys, InsertTail(n, k) PROVE IInv'
  BY <1>7, InsertTailStep
<1>8. ASSUME NEW k \in Keys, DeleteByKey(k) PROVE IInv' BY <1>8, DeleteByKeyStep
<1>9. ASSUME NEW i \in DOMAIN Chain, DeleteNode(i) PROVE IInv' BY <1>9, DeleteNodeStep
<1>10. ASSUME NEW i \in DOMAIN Chain, TakeNode(i) PROVE IInv' BY <1>10, TakeNodeStep
<1>11. ASSUME NEW n \in Nodes, FreeKept(n) PROVE IInv' BY <1>11, FreeKeptStep
<1>12. ASSUME list.head # Null, NEW n \in Nodes, PutBack(n) PROVE IInv' BY <1>12, PutBackStep
<1>13. CASE UNCHANGED vars
  <2>1. UNCHANGED <<exists, list, data, allocated, kept>> /\ running' \in BOOLEAN
    BY <1>13 DEF vars, IInv
  <2> QED BY <2>1, SameListStep
<1> QED
  BY <1>1, <1>2, <1>3, <1>4, <1>5, <1>6, <1>7, <1>8, <1>9, <1>10, <1>11, <1>12, <1>13
  DEF Next, MenuNext, TakeNext

\* The invariant holds always.
LEMMA InvariantHolds == Spec => []IInv
<1>1. Init => IInv BY InitKeepsInvariant
<1>2. IInv /\ [Next]_vars => IInv' BY StepKeepsInvariant
<1> QED BY <1>1, <1>2, PTL DEF Spec

\* Whatever calls were made, the list read backwards from its tail is the list
\* read forwards from its head, with no node twice and nodeNums long.
THEOREM ListChainsAgree == Spec => []ChainsAgree
<1>1. IInv => ChainsAgree BY InvariantShows
<1> QED BY <1>1, InvariantHolds, PTL

\* What calloc handed out is in the list or with the caller, never both, and
\* nothing that was freed is in the list.
THEOREM ListHeapAccountedFor == Spec => []HeapAccountedFor
<1>1. IInv => HeapAccountedFor BY InvariantShows
<1> QED BY <1>1, InvariantHolds, PTL

-------------------------------------------------------------------------------
(* The list implements ListSeq.                                            *)

\* The keys of a sequence of nodes.
KeysOf(d, s) == [i \in DOMAIN s |-> d[s[i]]]
DataOf(d, S) == {d[m] : m \in S}

\* There is one key for each node.
LEMMA KeysOfIs ==
    ASSUME NEW S, NEW s \in Seq(S), NEW d
    PROVE  /\ KeysOf(d, s) \in Seq(DataOf(d, S))
           /\ Len(KeysOf(d, s)) = Len(s)
           /\ DOMAIN KeysOf(d, s) = 1 .. Len(s)
<1> DEFINE t == KeysOf(d, s)
           D == DataOf(d, S)
<1>1. Len(s) \in Nat /\ DOMAIN s = 1 .. Len(s) /\ \A i \in 1 .. Len(s) : s[i] \in S
  BY LenProperties
<1>2. t = [i \in 1 .. Len(s) |-> d[s[i]]] BY <1>1 DEF KeysOf
<1>3. t \in [1 .. Len(s) -> D] BY <1>1, <1>2 DEF DataOf
<1> HIDE DEF t
<1> HIDE DEF D
<1>4. t \in Seq(D) /\ Len(t) = Len(s) BY <1>1, <1>3
<1> QED BY <1>2, <1>3, <1>4 DEF t, D

\* It is the key of that node.
LEMMA KeyAtPlace ==
    ASSUME NEW S, NEW s \in Seq(S), NEW d
    PROVE  \A i \in 1 .. Len(s) : KeysOf(d, s)[i] = d[s[i]]
<1>1. DOMAIN s = 1 .. Len(s) BY LenProperties
<1> QED BY <1>1 DEF KeysOf

\* A sequence of the same keys at every place.
LEMMA SameKeys ==
    ASSUME NEW S, NEW s \in Seq(S), NEW d,
           NEW u \in Seq(DataOf(d, S)), Len(u) = Len(s), \A i \in 1 .. Len(s) : u[i] = d[s[i]]
    PROVE  KeysOf(d, s) = u
<1> DEFINE D == DataOf(d, S)
<1>1. KeysOf(d, s) \in Seq(D) /\ Len(KeysOf(d, s)) = Len(s) BY KeysOfIs
<1>2. \A i \in 1 .. Len(s) : KeysOf(d, s)[i] = d[s[i]] BY KeyAtPlace
<1>3. u \in Seq(D) OBVIOUS
<1> HIDE DEF D
<1> QED BY <1>1, <1>2, <1>3, SeqEqual

\* The key of a node that is not in the sequence does not matter.
LEMMA KeysOfExcept ==
    ASSUME NEW S, NEW D, NEW d \in [S -> D], NEW s \in Seq(S),
           NEW n, NEW k, \A i \in 1 .. Len(s) : s[i] # n
    PROVE  KeysOf([d EXCEPT ![n] = k], s) = KeysOf(d, s)
<1>1. DOMAIN s = 1 .. Len(s) /\ \A i \in 1 .. Len(s) : s[i] \in S BY LenProperties
<1>2. \A i \in DOMAIN s : [d EXCEPT ![n] = k][s[i]] = d[s[i]] BY <1>1
<1> QED BY <1>2 DEF KeysOf

\* The keys after a node was inserted at the tail.
LEMMA KeysOfAppend ==
    ASSUME NEW S, NEW s \in Seq(S), NEW n \in S, NEW d
    PROVE  KeysOf(d, Append(s, n)) = Append(KeysOf(d, s), d[n])
<1> DEFINE t == Append(s, n)
           k == KeysOf(d, s)
           u == Append(k, d[n])
<1> DEFINE D == DataOf(d, S)
<1>1. k \in Seq(D) /\ Len(k) = Len(s) BY KeysOfIs
<1>2. \A i \in 1 .. Len(s) : k[i] = d[s[i]] BY KeyAtPlace
<1>3. \A m \in S : d[m] \in D BY DEF DataOf
<1>4. Len(s) \in Nat /\ d[n] \in D BY <1>3, LenProperties
<1> HIDE DEF D
<1>5. t \in Seq(S) /\ Len(t) = Len(s) + 1 /\ t[Len(s) + 1] = n
      /\ \A i \in 1 .. Len(s) : t[i] = s[i]
  BY AppendProperties
<1> HIDE DEF k, t
<1>6. u \in Seq(D) /\ Len(u) = Len(k) + 1 /\ u[Len(k) + 1] = d[n]
      /\ \A i \in 1 .. Len(k) : u[i] = k[i]
  BY <1>1, <1>4, AppendProperties
<1> HIDE DEF u
<1>7. ASSUME NEW i \in 1 .. Len(t) PROVE u[i] = d[t[i]]
  <2>1. CASE i = Len(s) + 1 BY <1>1, <1>5, <1>6, <2>1
  <2>2. CASE i # Len(s) + 1
    <3>1. i \in 1 .. Len(s) BY <1>4, <1>5, <2>2
    <3> QED BY <1>1, <1>2, <1>5, <1>6, <3>1
  <2> QED BY <2>1, <2>2
<1>8. KeysOf(d, t) = u
  <2>1. /\ t \in Seq(S) /\ u \in Seq(DataOf(d, S)) /\ Len(u) = Len(t)
        /\ \A i \in 1 .. Len(t) : u[i] = d[t[i]]
    BY <1>1, <1>5, <1>6, <1>7 DEF D
  <2> QED BY ONLY <2>1, SameKeys
<1> QED BY <1>8 DEF k, t, u

\* The keys after a node was inserted at the head.
LEMMA KeysOfPrepend ==
    ASSUME NEW S, NEW s \in Seq(S), NEW n \in S, NEW d
    PROVE  KeysOf(d, <<n>> \o s) = <<d[n]>> \o KeysOf(d, s)
<1> DEFINE t == <<n>> \o s
           k == KeysOf(d, s)
           u == <<d[n]>> \o k
<1> DEFINE D == DataOf(d, S)
<1>1. k \in Seq(D) /\ Len(k) = Len(s) BY KeysOfIs
<1>2. \A i \in 1 .. Len(s) : k[i] = d[s[i]] BY KeyAtPlace
<1>3. \A m \in S : d[m] \in D BY DEF DataOf
<1>4. Len(s) \in Nat /\ d[n] \in D BY <1>3, LenProperties
<1> HIDE DEF D
<1>5. t \in Seq(S) /\ Len(t) = Len(s) + 1 /\ t[1] = n
      /\ \A i \in 1 .. Len(s) : t[i + 1] = s[i]
  BY PrependProperties
<1> HIDE DEF k, t
<1>6. u \in Seq(D) /\ Len(u) = Len(k) + 1 /\ u[1] = d[n]
      /\ \A i \in 1 .. Len(k) : u[i + 1] = k[i]
  BY <1>1, <1>4, PrependProperties
<1> HIDE DEF u
<1>7. ASSUME NEW i \in 1 .. Len(t) PROVE u[i] = d[t[i]]
  <2>1. CASE i = 1 BY <1>1, <1>5, <1>6, <2>1
  <2>2. CASE i # 1
    <3>1. i - 1 \in 1 .. Len(s) /\ (i - 1) + 1 = i BY <1>4, <1>5, <2>2
    <3>2. u[(i - 1) + 1] = k[i - 1] /\ t[(i - 1) + 1] = s[i - 1] BY <1>1, <1>5, <1>6, <3>1
    <3> QED BY <1>2, <3>1, <3>2
  <2> QED BY <2>1, <2>2
<1>8. KeysOf(d, t) = u
  <2>1. /\ t \in Seq(S) /\ u \in Seq(DataOf(d, S)) /\ Len(u) = Len(t)
        /\ \A i \in 1 .. Len(t) : u[i] = d[t[i]]
    BY <1>1, <1>5, <1>6, <1>7 DEF D
  <2> QED BY ONLY <2>1, SameKeys
<1> QED BY <1>8 DEF k, t, u

\* The keys after a node was taken out.
LEMMA KeysOfRemoveAt ==
    ASSUME NEW S, NEW s \in Seq(S), NEW j \in 1 .. Len(s), NEW d
    PROVE  KeysOf(d, RemoveAt(s, j)) = RemoveAt(KeysOf(d, s), j)
<1> DEFINE t == RemoveAt(s, j)
           k == KeysOf(d, s)
           u == RemoveAt(k, j)
<1> DEFINE D == DataOf(d, S)
<1>1. k \in Seq(D) /\ Len(k) = Len(s) BY KeysOfIs
<1>2. \A i \in 1 .. Len(s) : k[i] = d[s[i]] BY KeyAtPlace
<1>3. \A m \in S : d[m] \in D BY DEF DataOf
<1>4. Len(s) \in Nat BY LenProperties
<1> HIDE DEF D
<1>5. t \in Seq(S) /\ Len(t) = Len(s) - 1
      /\ \A i \in 1 .. Len(s) - 1 : t[i] = IF i < j THEN s[i] ELSE s[i + 1]
  BY RemoveAtProperties
<1> HIDE DEF k, t
<1>6. j \in 1 .. Len(k) BY <1>1
<1>7. u \in Seq(D) /\ Len(u) = Len(k) - 1
      /\ \A i \in 1 .. Len(k) - 1 : u[i] = IF i < j THEN k[i] ELSE k[i + 1]
  BY <1>1, <1>6, RemoveAtProperties
<1> HIDE DEF u
<1>8. ASSUME NEW i \in 1 .. Len(t) PROVE u[i] = d[t[i]]
  <2>1. i \in 1 .. Len(s) - 1 /\ i \in 1 .. Len(s) /\ i + 1 \in 1 .. Len(s) BY <1>4, <1>5
  <2>2. k[i] = d[s[i]] /\ k[i + 1] = d[s[i + 1]] BY <1>2, <2>1
  <2>3. u[i] = IF i < j THEN k[i] ELSE k[i + 1] BY <1>1, <1>7, <2>1
  <2>4. t[i] = IF i < j THEN s[i] ELSE s[i + 1] BY <1>5, <2>1
  <2> QED BY <2>2, <2>3, <2>4
<1>9. Len(u) = Len(t) BY <1>1, <1>5, <1>7
<1>10. KeysOf(d, t) = u
  <2>1. /\ t \in Seq(S) /\ u \in Seq(DataOf(d, S)) /\ Len(u) = Len(t)
        /\ \A i \in 1 .. Len(t) : u[i] = d[t[i]]
    BY <1>5, <1>7, <1>8, <1>9 DEF D
  <2> QED BY ONLY <2>1, SameKeys
<1> QED BY <1>10 DEF k, t, u

\* Taken from either end a sequence is its Tail or its Front.
LEMMA RemoveAtEnds ==
    ASSUME NEW D, NEW k \in Seq(D), Len(k) # 0
    PROVE  RemoveAt(k, 1) = Tail(k) /\ RemoveAt(k, Len(k)) = Front(k)
<1>1. PICK n \in Nat : n = Len(k) BY LenProperties
<1>2. 1 \in 1 .. n /\ n \in 1 .. n /\ k # <<>> BY <1>1, EmptySeq
<1>3. RemoveAt(k, 1) = Tail(k)
  <2>1. /\ RemoveAt(k, 1) \in Seq(D) /\ Len(RemoveAt(k, 1)) = n - 1
        /\ \A i \in 1 .. n - 1 : RemoveAt(k, 1)[i] = IF i < 1 THEN k[i] ELSE k[i + 1]
    BY <1>1, <1>2, RemoveAtProperties
  <2>2. Tail(k) \in Seq(D) /\ Len(Tail(k)) = n - 1 /\ \A i \in 1 .. n - 1 : Tail(k)[i] = k[i + 1]
    BY <1>1, <1>2, HeadTailProperties
  <2>3. \A i \in 1 .. n - 1 : RemoveAt(k, 1)[i] = Tail(k)[i] BY <2>1, <2>2
  <2> QED BY <2>1, <2>2, <2>3, SeqEqual
<1>4. RemoveAt(k, Len(k)) = Front(k)
  <2>1. /\ RemoveAt(k, n) \in Seq(D) /\ Len(RemoveAt(k, n)) = n - 1
        /\ \A i \in 1 .. n - 1 : RemoveAt(k, n)[i] = IF i < n THEN k[i] ELSE k[i + 1]
    BY <1>1, <1>2, RemoveAtProperties
  <2>2. /\ Front(k) \in Seq(D) /\ Len(Front(k)) = n - 1
        /\ \A i \in 1 .. n - 1 : Front(k)[i] = k[i]
    <3>1. \A i \in 1 .. n - 1 : k[i] \in D /\ (1 + i) - 1 = i BY <1>1, LenProperties
    <3>2. Front(k) = SubSeq(k, 1, n - 1) BY <1>1 DEF Front
    <3>3. /\ SubSeq(k, 1, n - 1) \in Seq(D)
          /\ Len(SubSeq(k, 1, n - 1)) = IF 1 <= n - 1 THEN (n - 1) - 1 + 1 ELSE 0
          /\ \A i \in 1 .. (n - 1) - 1 + 1 : SubSeq(k, 1, n - 1)[i] = k[(1 + i) - 1]
      BY <1>2, <3>1, SubSeqProperties
    <3>4. 1 .. (n - 1) - 1 + 1 = 1 .. n - 1 /\ (1 <= n - 1 => (n - 1) - 1 + 1 = n - 1)
          /\ (~(1 <= n - 1) => n - 1 = 0)
      BY <1>2
    <3> QED BY <3>1, <3>2, <3>3, <3>4
  <2>3. \A i \in 1 .. n - 1 : RemoveAt(k, n)[i] = Front(k)[i] BY <2>1, <2>2
  <2> QED BY <1>1, <2>1, <2>2, <2>3, SeqEqual
<1> QED BY <1>3, <1>4

\* As many places have a key as nodes do.
PlacesWith(n, s, d, k) == {i \in 1 .. n : d[s[i]] = k}
NodesWith(T, d, k) == {m \in T : d[m] = k}

\* A key is as often in the sequence of keys as there are nodes with it, when each
\* node is in the chain once.
LEMMA CountOfNodes ==
    ASSUME NEW n \in Nat, NEW T, NEW s \in [1 .. n -> T],
           \A i, j \in 1 .. n : s[i] = s[j] => i = j,
           \A m \in T : \E i \in 1 .. n : s[i] = m,
           NEW d, NEW k
    PROVE  Cardinality(PlacesWith(n, s, d, k)) = Cardinality(NodesWith(T, d, k))
<1> DEFINE A == {i \in 1 .. n : d[s[i]] = k}
           M == {m \in T : d[m] = k}
           f == [i \in A |-> s[i]]
<1>1. IsFiniteSet(A)
  <2>1. IsFiniteSet(1 .. n) BY CardinalityUpTo
  <2> QED BY <2>1, FS_Subset
<1>2. f \in [A -> M] OBVIOUS
<1>3. IsInjective(f) BY DEF IsInjective
<1>4. \A m \in M : \E i \in A : f[i] = m OBVIOUS
<1> HIDE DEF f, A, M
<1>5. f \in Bijection(A, M) BY <1>2, <1>3, <1>4 DEF Bijection, Injection, Surjection
<1>6. ExistsBijection(A, M) BY <1>5 DEF ExistsBijection
<1>7. Cardinality(M) = Cardinality(A) BY <1>1, <1>6, FS_Bijection
<1> QED BY <1>7 DEF A, M, PlacesWith, NodesWith

\* The keys of the list, before and after a step.
LEMMA KeysOfChain ==
    ASSUME IInv
    PROVE  /\ data \in [Nodes -> Keys \cup {0}] /\ Chain \in Seq(Nodes)
           /\ KeysOf(data, Chain) \in Seq(DataOf(data, Nodes))
           /\ Len(KeysOf(data, Chain)) = Len(Chain)
           /\ DOMAIN KeysOf(data, Chain) = 1 .. Len(Chain)
           /\ \A i \in 1 .. Len(Chain) : KeysOf(data, Chain)[i] = data[Chain[i]]
<1>1. data \in [Nodes -> Keys \cup {0}] /\ Chain \in Seq(Nodes) BY InvariantFacts DEF IInv
<1>2. /\ KeysOf(data, Chain) \in Seq(DataOf(data, Nodes))
      /\ Len(KeysOf(data, Chain)) = Len(Chain)
      /\ DOMAIN KeysOf(data, Chain) = 1 .. Len(Chain)
  BY ONLY <1>1, KeysOfIs
<1>3. \A i \in 1 .. Len(Chain) : KeysOf(data, Chain)[i] = data[Chain[i]]
  BY ONLY <1>1, KeyAtPlace
<1> QED BY <1>1, <1>2, <1>3

\* Without a list the sequence is empty.
LEMMA InitImplements == Init => Abstract!Init
<1> SUFFICES ASSUME Init PROVE Abstract!Init OBVIOUS
<1>1. IInv BY InitKeepsInvariant
<1>2. Chain = <<>>
  <2>1. list.head = Null BY DEF Init, Empty
  <2> QED BY <1>1, <2>1, InvariantFacts
<1>3. [i \in DOMAIN Chain |-> data[Chain[i]]] = <<>>
  <2>1. Len(KeysOf(data, Chain)) = 0 /\ KeysOf(data, Chain) \in Seq(DataOf(data, Nodes))
    BY <1>1, <1>2, KeysOfChain, InvariantFacts
  <2>2. KeysOf(data, Chain) = <<>> BY <2>1, EmptySeq
  <2> QED BY <2>2 DEF KeysOf
<1> QED BY <1>3 DEF Init, Abstract!Init

\* A node that goes in at one end puts its key there.
LEMMA GrowthImplements ==
    ASSUME IInv, NEW n \in Nodes, NEW k \in Keys,
           data' = [data EXCEPT ![n] = k], n \notin ToSet(Chain)
    PROVE  /\ Chain' = <<n>> \o Chain => KeysOf(data', Chain') = <<k>> \o KeysOf(data, Chain)
           /\ Chain' = Append(Chain, n) => KeysOf(data', Chain') = Append(KeysOf(data, Chain), k)
<1> DEFINE D == Keys \cup {0}
           d == [data EXCEPT ![n] = k]
           s == Chain
<1>1. data \in [Nodes -> D] /\ s \in Seq(Nodes) BY KeysOfChain
<1>2. d \in [Nodes -> D] /\ d[n] = k BY <1>1
<1>3. \A i \in 1 .. Len(s) : s[i] # n BY InvariantFacts
<1>4. d = data' OBVIOUS
<1> HIDE DEF s, D
<1>5. KeysOf(d, s) = KeysOf(data, s) BY <1>1, <1>3, KeysOfExcept
<1> HIDE DEF d
<1>6. KeysOf(d, <<n>> \o s) = <<d[n]>> \o KeysOf(d, s) BY <1>1, <1>2, KeysOfPrepend
<1>7. KeysOf(d, Append(s, n)) = Append(KeysOf(d, s), d[n]) BY <1>1, <1>2, KeysOfAppend
<1>8. s' = <<n>> \o s => KeysOf(d, s') = <<k>> \o KeysOf(data, s) BY <1>2, <1>5, <1>6
<1>9. s' = Append(s, n) => KeysOf(d, s') = Append(KeysOf(data, s), k) BY <1>2, <1>5, <1>7
<1> QED BY <1>4, <1>8, <1>9 DEF s

\* A node that comes out takes its key out.
LEMMA RemovalImplements ==
    ASSUME IInv, data' = data, NEW i \in 1 .. Len(Chain), Chain' = RemoveAt(Chain, i)
    PROVE  KeysOf(data', Chain') = RemoveAt(KeysOf(data, Chain), i)
<1> DEFINE D == Keys \cup {0}
           s == Chain
<1>1. data \in [Nodes -> D] /\ s \in Seq(Nodes) /\ i \in 1 .. Len(s) BY KeysOfChain
<1> HIDE DEF s, D
<1>2. KeysOf(data, RemoveAt(s, i)) = RemoveAt(KeysOf(data, s), i) BY ONLY <1>1, KeysOfRemoveAt
<1> QED BY <1>2 DEF s

\* ListSeq has these operators of the library under names of its own.
LEMMA SameOperators ==
    /\ \A S : Abstract!Min(S) = Min(S)
    /\ \A k, i : Abstract!RemoveAt(k, i) = RemoveAt(k, i)
    /\ \A k : Abstract!Front(k) = Front(k)
    /\ \A S : Abstract!Cardinality(S) = Cardinality(S)
BY DEF Abstract!Cardinality, Cardinality, Abstract!Min, Min, Abstract!RemoveAt, RemoveAt, Abstract!Front, Front

\* A sorted list has its keys in order, and each as often as before.
LEMMA SortImplements ==
    ASSUME IInv, data' = data, NEW s \in SortedNodes, Chain' = s, IInv'
    PROVE  LET a == KeysOf(data, Chain)
               b == KeysOf(data', Chain')
           IN  /\ \A i \in 1 .. Len(b) - 1 : b[i] <= b[i + 1]
               /\ Len(b) = Len(a)
               /\ \A k : Abstract!Count(b, k) = Abstract!Count(a, k)
<1> DEFINE a == KeysOf(data, Chain)
           b == KeysOf(data', Chain')
           n == Len(Chain)
           T == ToSet(Chain)
<1>1. /\ s \in Seq(Nodes) /\ Len(s) = n
      /\ \A i, j \in 1 .. n : s[i] = s[j] => i = j
      /\ \A i \in 1 .. n - 1 : data[s[i]] <= data[s[i + 1]]
      /\ ToSet(s) = T
  BY SortedIsPermutation
<1>2. /\ n \in Nat /\ Chain \in Seq(Nodes)
      /\ \A i, j \in 1 .. n : Chain[i] = Chain[j] => i = j
      /\ \A m : m \in T <=> \E i \in 1 .. n : Chain[i] = m
  BY InvariantFacts
<1>3. Len(a) = n /\ DOMAIN a = 1 .. n /\ \A i \in 1 .. n : a[i] = data[Chain[i]] BY KeysOfChain
<1>4. Len(b) = n /\ DOMAIN b = 1 .. n /\ \A i \in 1 .. n : b[i] = data[s[i]]
  <2>1. b = KeysOf(data, s) BY <1>1
  <2>2. data \in [Nodes -> Keys \cup {0}] BY KeysOfChain
  <2>3. Len(KeysOf(data, s)) = Len(s) /\ DOMAIN KeysOf(data, s) = 1 .. Len(s)
    BY <1>1, KeysOfIs
  <2>4. \A i \in 1 .. Len(s) : KeysOf(data, s)[i] = data[s[i]] BY <1>1, KeyAtPlace
  <2> QED BY <1>1, <2>1, <2>3, <2>4
<1> HIDE DEF a, b
<1>5. \A i \in 1 .. Len(b) - 1 : b[i] <= b[i + 1]
  <2> SUFFICES ASSUME NEW i \in 1 .. n - 1 PROVE b[i] <= b[i + 1] BY <1>4
  <2>1. i \in 1 .. n /\ i + 1 \in 1 .. n BY <1>2
  <2> QED BY <1>1, <1>4, <2>1
<1>6. s \in [1 .. n -> T] /\ \A m \in T : \E i \in 1 .. n : s[i] = m
  <2>1. s \in [1 .. n -> Nodes] BY <1>1, LenProperties
  <2>2. \A m : m \in T <=> \E i \in 1 .. n : s[i] = m BY <1>1, ToSetIs
  <2> QED BY <2>1, <2>2
<1>7. Chain \in [1 .. n -> T] /\ \A m \in T : \E i \in 1 .. n : Chain[i] = m
  <2>1. Chain \in [1 .. n -> Nodes] BY <1>2, LenProperties
  <2> QED BY <1>2, <2>1
<1>8. ASSUME NEW k
      PROVE  Abstract!Count(b, k) = Abstract!Count(a, k)
  <2>1. /\ {i \in DOMAIN b : b[i] = k} = PlacesWith(n, s, data, k)
        /\ {i \in DOMAIN a : a[i] = k} = PlacesWith(n, Chain, data, k)
    BY <1>3, <1>4 DEF PlacesWith
  <2> DEFINE c == Chain
  <2>2. /\ n \in Nat /\ s \in [1 .. n -> T]
        /\ \A i, j \in 1 .. n : s[i] = s[j] => i = j
        /\ \A m \in T : \E i \in 1 .. n : s[i] = m
    BY <1>1, <1>2, <1>6
  <2>3. /\ n \in Nat /\ c \in [1 .. n -> T]
        /\ \A i, j \in 1 .. n : c[i] = c[j] => i = j
        /\ \A m \in T : \E i \in 1 .. n : c[i] = m
    BY <1>2, <1>7
  <2> HIDE DEF n, T, c
  <2>4. Cardinality(PlacesWith(n, s, data, k)) = Cardinality(NodesWith(T, data, k))
    BY <2>2, CountOfNodes
  <2>5. Cardinality(PlacesWith(n, c, data, k)) = Cardinality(NodesWith(T, data, k))
    BY <2>3, CountOfNodes
  <2>6. Cardinality(PlacesWith(n, Chain, data, k)) = Cardinality(PlacesWith(n, s, data, k))
    BY <2>4, <2>5 DEF c
  <2>7. Abstract!Count(b, k) = Cardinality(PlacesWith(n, s, data, k)) BY <2>1, SameOperators DEF Abstract!Count
  <2>8. Abstract!Count(a, k) = Cardinality(PlacesWith(n, Chain, data, k)) BY <2>1, SameOperators DEF Abstract!Count
  <2> QED BY <2>6, <2>7, <2>8
<1> QED BY <1>3, <1>4, <1>5, <1>8 DEF a, b

\* Every step of the list is the step of ListSeq with its name, and one that
\* is not a call of the list changes nothing there.
LEMMA StepImplements ==
    IInv /\ IInv' /\ [Next]_vars => [Abstract!Next]_(Abstract!vars)
<1> SUFFICES ASSUME IInv, IInv', [Next]_vars PROVE [Abstract!Next]_(Abstract!vars) OBVIOUS
<1> DEFINE K == [i \in DOMAIN Chain |-> data[Chain[i]]]
<1>1. K = KeysOf(data, Chain) /\ K' = KeysOf(data', Chain') BY DEF KeysOf
<1>2. /\ K \in Seq(DataOf(data, Nodes)) /\ Len(K) = Len(Chain) /\ DOMAIN K = 1 .. Len(Chain)
      /\ \A i \in 1 .. Len(Chain) : K[i] = data[Chain[i]]
      /\ Len(Chain) \in Nat
      /\ K = <<>> <=> Len(Chain) = 0
  <2>1. /\ K \in Seq(DataOf(data, Nodes)) /\ Len(K) = Len(Chain) /\ DOMAIN K = 1 .. Len(Chain)
        /\ \A i \in 1 .. Len(Chain) : K[i] = data[Chain[i]]
    BY <1>1, KeysOfChain
  <2>2. Len(Chain) \in Nat BY InvariantFacts
  <2>3. K = <<>> <=> Len(K) = 0
    <3> HIDE DEF K
    <3> QED BY <2>1, EmptySeq
  <2> QED BY <2>1, <2>2, <2>3
<1>3. Chain' = <<>> => K' = <<>>
  <2>1. KeysOf(data', Chain') \in Seq(DataOf(data', Nodes)) /\ Len(KeysOf(data', Chain')) = Len(Chain')
        /\ (Chain' = <<>> <=> Len(Chain') = 0)
    <3>1. Chain' \in Seq(Nodes)
      <4>1. Linked(list', Chain') BY DEF IInv
      <4> QED BY <4>1 DEF Linked, Loose
    <3>2. Chain' = <<>> <=> Len(Chain') = 0 BY <3>1, EmptySeq
    <3> QED BY <3>1, <3>2, KeysOfIs
  <2>2. Len(KeysOf(data', Chain')) = 0 => KeysOf(data', Chain') = <<>> BY <2>1, EmptySeq
  <2> QED BY <1>1, <2>1, <2>2
<1>4. ASSUME data' = data, Chain' = Chain PROVE K' = K BY <1>4
<1> HIDE DEF K
<1>5. CASE CreateList
  <2>1. K' = <<>> BY <1>3, <1>5, CreateListStep
  <2>2. Abstract!Create BY <1>5, <2>1 DEF CreateList, Abstract!Create, K
  <2> QED BY <2>2 DEF Abstract!Next
<1>6. CASE DestroyList
  <2>1. K' = <<>> BY <1>3, <1>6, DestroyListStep
  <2>2. Abstract!Destroy BY <1>6, <2>1 DEF DestroyList, Abstract!Destroy, K
  <2> QED BY <2>2 DEF Abstract!Next
<1>7. ASSUME NEW n \in Nodes, NEW k \in Keys, InsertHead(n, k) PROVE Abstract!Next
  <2>1. data' = [data EXCEPT ![n] = k] BY <1>7 DEF InsertHead
  <2>2. Chain' = <<n>> \o Chain /\ n \notin ToSet(Chain) BY <1>7, InsertHeadStep
  <2>3. K' = <<k>> \o K BY <1>1, <2>1, <2>2, GrowthImplements
  <2>4. Abstract!InsertHead(k) BY <1>7, <2>3 DEF InsertHead, Abstract!InsertHead, K
  <2> QED BY <2>4 DEF Abstract!Next
<1>8. ASSUME NEW n \in Nodes, NEW k \in Keys, InsertTail(n, k) PROVE Abstract!Next
  <2>1. data' = [data EXCEPT ![n] = k] BY <1>8 DEF InsertTail
  <2>2. Chain' = Append(Chain, n) /\ n \notin ToSet(Chain) BY <1>8, InsertTailStep
  <2>3. K' = Append(K, k) BY <1>1, <2>1, <2>2, GrowthImplements
  <2>4. Abstract!InsertTail(k) BY <1>8, <2>3 DEF InsertTail, Abstract!InsertTail, K
  <2> QED BY <2>4 DEF Abstract!Next
<1>9. ASSUME NEW k \in Keys, DeleteByKey(k) PROVE Abstract!Next
  <2>1. data' = data BY <1>9 DEF DeleteByKey
  <2>2. Chain' = IF PlacesOf(k) = {} THEN Chain ELSE RemoveAt(Chain, Min(PlacesOf(k)))
    BY <1>9, DeleteByKeyStep
  <2>3. PlacesOf(k) = {i \in DOMAIN K : K[i] = k}
    <3>1. DOMAIN Chain = 1 .. Len(Chain) BY InvariantFacts
    <3> QED BY <1>2, <3>1 DEF PlacesOf
  <2>4. K' = IF PlacesOf(k) = {} THEN K ELSE RemoveAt(K, Min(PlacesOf(k)))
    <3>1. CASE PlacesOf(k) = {} BY <1>4, <2>1, <2>2, <3>1
    <3>2. CASE PlacesOf(k) # {}
      <4>1. Min(PlacesOf(k)) \in 1 .. Len(Chain) BY <3>2, FindsFirst
      <4>2. KeysOf(data', Chain') = RemoveAt(KeysOf(data, Chain), Min(PlacesOf(k)))
        BY <2>1, <2>2, <3>2, <4>1, RemovalImplements
      <4> QED BY <1>1, <3>2, <4>2
    <3> QED BY <3>1, <3>2
  <2>5. K' = IF PlacesOf(k) = {} THEN K ELSE Abstract!RemoveAt(K, Abstract!Min(PlacesOf(k)))
    BY <2>4, SameOperators
  <2>6. Abstract!DeleteByKey(k)
    BY <1>9, <2>3, <2>5 DEF DeleteByKey, Abstract!DeleteByKey, K
  <2> QED BY <2>6 DEF Abstract!Next
<1>10. ASSUME NEW i \in DOMAIN Chain, DeleteNode(i) \/ TakeNode(i) PROVE Abstract!Next
  <2>1. data' = data /\ exists /\ exists' = exists /\ call' = <<"delete_node", i>>
    BY <1>10 DEF DeleteNode, TakeNode
  <2>2. Chain' = RemoveAt(Chain, i) /\ i \in 1 .. Len(Chain) BY <1>10, DeleteNodeStep, TakeNodeStep
  <2>3. K' = RemoveAt(K, i) BY <1>1, <2>1, <2>2, RemovalImplements
  <2>4. K' = Abstract!RemoveAt(K, i) BY <2>3, SameOperators
  <2>5. i \in DOMAIN K BY <1>2, <2>2
  <2>6. Abstract!DeleteNode(i) BY <2>1, <2>4, <2>5 DEF Abstract!DeleteNode, K
  <2> QED BY <2>5, <2>6 DEF Abstract!Next, K
<1>11. CASE DeleteHead \/ TakeHead
  <2>1. data' = data /\ exists /\ exists' = exists /\ call' = <<"delete_head">>
    BY <1>11 DEF DeleteHead, TakeHead
  <2>2. K' = IF K = <<>> THEN <<>> ELSE Tail(K)
    <3>1. CASE Len(Chain) = 0 BY <1>2, <1>4, <1>11, <2>1, <3>1, EndStep
    <3>2. CASE Len(Chain) # 0
      <4>1. Chain' = RemoveAt(Chain, 1) /\ 1 \in 1 .. Len(Chain)
        BY <1>2, <1>11, <3>2, EndStep
      <4>2. K' = RemoveAt(K, 1) BY <1>1, <2>1, <4>1, RemovalImplements
      <4>3. RemoveAt(K, 1) = Tail(K) BY <1>2, <3>2, RemoveAtEnds
      <4> QED BY <1>2, <3>2, <4>2, <4>3
    <3> QED BY <3>1, <3>2
  <2>3. Abstract!DeleteHead BY <2>1, <2>2 DEF Abstract!DeleteHead, K
  <2> QED BY <2>3 DEF Abstract!Next
<1>12. CASE DeleteTail \/ TakeTail
  <2>1. data' = data /\ exists /\ exists' = exists /\ call' = <<"delete_tail">>
    BY <1>12 DEF DeleteTail, TakeTail
  <2>2. K' = IF K = <<>> THEN <<>> ELSE Front(K)
    <3>1. CASE Len(Chain) = 0 BY <1>2, <1>4, <1>12, <2>1, <3>1, EndStep
    <3>2. CASE Len(Chain) # 0
      <4>1. Chain' = RemoveAt(Chain, Len(Chain)) /\ Len(Chain) \in 1 .. Len(Chain)
        BY <1>2, <1>12, <3>2, EndStep
      <4>2. K' = RemoveAt(K, Len(K)) BY <1>1, <1>2, <2>1, <4>1, RemovalImplements
      <4>3. RemoveAt(K, Len(K)) = Front(K) BY <1>2, <3>2, RemoveAtEnds
      <4> QED BY <1>2, <3>2, <4>2, <4>3
    <3> QED BY <3>1, <3>2
  <2>3. K' = IF K = <<>> THEN <<>> ELSE Abstract!Front(K) BY <2>2, SameOperators
  <2>4. Abstract!DeleteTail BY <2>1, <2>3 DEF Abstract!DeleteTail, K
  <2> QED BY <2>4 DEF Abstract!Next
<1>13. CASE Sort
  <2>1. data' = data /\ exists /\ exists' = exists /\ call' = <<"sort">> BY <1>13 DEF Sort
  <2>2. /\ \A i \in 1 .. Len(K') - 1 : K'[i] <= K'[i + 1]
        /\ Len(K') = Len(K)
        /\ \A k : Abstract!Count(K', k) = Abstract!Count(K, k)
    <3>1. CASE Len(Chain) = 0
      <4>1. K' = K BY <1>4, <1>13, <2>1, <3>1, SortStep
      <4>2. Len(K) = 0 BY <1>2, <3>1
      <4> QED BY <4>1, <4>2
    <3>2. CASE Len(Chain) # 0
      <4>1. PICK s \in SortedNodes : Chain' = s BY <1>13, <3>2, SortStep
      <4> QED BY <1>1, <2>1, <4>1, SortImplements
    <3> QED BY <3>1, <3>2
  <2>3. Abstract!Sort BY <2>1, <2>2 DEF Abstract!Sort, K
  <2> QED BY <2>3 DEF Abstract!Next
<1>14. ASSUME list.head # Null, NEW n \in Nodes, PutBack(n) PROVE Abstract!Next
  <2>1. data' = data /\ exists /\ exists' = exists /\ n \notin ToSet(Chain)
    BY <1>14 DEF PutBack, IInv
  <2>2. n \in allocated /\ (\/ Chain' = <<n>> \o Chain /\ call' = <<"insert_head", data[n]>>
                            \/ Chain' = Append(Chain, n) /\ call' = <<"insert_tail", data[n]>>)
    BY <1>14, PutBackStep
  <2>3. data[n] \in Keys BY <2>2 DEF IInv
  <2>4. PICK k \in Keys : k = data[n] BY <2>3
  <2>5. data' = [data EXCEPT ![n] = k] BY <2>1, <2>4 DEF IInv
  <2>6. /\ Chain' = <<n>> \o Chain => K' = <<k>> \o K
        /\ Chain' = Append(Chain, n) => K' = Append(K, k)
    BY <1>1, <2>1, <2>5, GrowthImplements
  <2>7. Abstract!InsertHead(k) \/ Abstract!InsertTail(k)
    <3>1. CASE Chain' = <<n>> \o Chain /\ call' = <<"insert_head", k>>
      BY <2>1, <2>6, <3>1 DEF Abstract!InsertHead, K
    <3>2. CASE Chain' = Append(Chain, n) /\ call' = <<"insert_tail", k>>
      BY <2>1, <2>6, <3>2 DEF Abstract!InsertTail, K
    <3> QED BY <2>2, <2>4, <3>1, <3>2
  <2>8. \E j \in Keys : Abstract!InsertHead(j) \/ Abstract!InsertTail(j) BY <2>7
  <2> QED BY <2>8 DEF Abstract!Next
<1>15. ASSUME data' = data, Chain' = Chain, exists' = exists, call' = call
       PROVE  UNCHANGED Abstract!vars
  BY <1>4, <1>15 DEF Abstract!vars, K
<1>16. CASE SortAstray \/ Quit \/ UNCHANGED vars
  <2>1. UNCHANGED <<exists, list, data, allocated, kept, call>> /\ running' \in BOOLEAN
    BY <1>16 DEF SortAstray, Quit, vars, IInv
  <2>2. Chain' = Chain BY <2>1, SameListStep
  <2> QED BY <1>15, <2>1, <2>2
<1>17. ASSUME NEW n \in Nodes, FreeKept(n) PROVE UNCHANGED Abstract!vars
  <2>1. Chain' = Chain BY <1>17, FreeKeptStep
  <2> QED BY <1>15, <1>17, <2>1 DEF FreeKept
<1> QED
  BY <1>5, <1>6, <1>7, <1>8, <1>9, <1>10, <1>11, <1>12, <1>13, <1>14, <1>16, <1>17
  DEF Next, MenuNext, TakeNext

\* Every call does to the sequence of keys what its name says, whatever calls
\* were made before: the list is a sequence that takes and gives at both ends,
\* loses the first one equal to a key, and can be sorted.
THEOREM ListImplementsListSeq == Spec => ImplementsListSeq
<1>1. Init => Abstract!Init BY InitImplements
<1>2. IInv /\ IInv' /\ [Next]_vars => [Abstract!Next]_(Abstract!vars) BY StepImplements
<1> QED BY <1>1, <1>2, InvariantHolds, PTL DEF Spec, ImplementsListSeq, Abstract!Spec

-------------------------------------------------------------------------------
(* The FIFO: indices that wrap.                                            *)

Wrap(a) == IF a < DataLen THEN a ELSE a - DataLen

\* The remainder of an index that has gone round at most once.
LEMMA RemainderWraps ==
    ASSUME NEW a \in Nat, a < 2 * DataLen
    PROVE  a % DataLen = Wrap(a)
<1>1. DataLen \in Nat \ {0} BY DataAssumption
<1> DEFINE p == a \div DataLen
           t == a % DataLen
<1>2. p \in Nat /\ t \in 0 .. DataLen - 1 /\ a = DataLen * p + t BY <1>1
<1> HIDE DEF p, t
<1>3. \A d \in Nat : d >= 2 => DataLen * d >= 2 * DataLen BY <1>1
<1>4. ~(p >= 2)
  <2>1. p >= 2 => DataLen * p >= 2 * DataLen BY <1>2, <1>3
  <2> QED BY <1>1, <1>2, <2>1
<1>5. p = 0 \/ p = 1 BY <1>2, <1>4
<1>6. DataLen * 0 = 0 /\ DataLen * 1 = DataLen BY <1>1
<1>7. t = Wrap(a)
  <2>1. CASE p = 0 BY <1>1, <1>2, <1>6, <2>1 DEF Wrap
  <2>2. CASE p = 1 BY <1>1, <1>2, <1>6, <2>2 DEF Wrap
  <2> QED BY <1>5, <2>1, <2>2
<1> QED BY <1>7 DEF t

Places == 0 .. DataLen - 1

\* An index that is counted up from r meets every place of the array once, and
\* then comes back to r.
LEMMA WrapFacts ==
    ASSUME NEW r \in Places
    PROVE  /\ \A k \in 0 .. DataLen : Wrap(r + k) \in Places /\ (r + k) % DataLen = Wrap(r + k)
           /\ \A j, k \in 0 .. DataLen - 1 : Wrap(r + j) = Wrap(r + k) => j = k
           /\ \A k \in 0 .. DataLen : Wrap(r + k) = r <=> k = 0 \/ k = DataLen
           /\ \A k \in 0 .. DataLen - 1 : Wrap(Wrap(r + k) + 1) = Wrap(r + (k + 1))
           /\ \A k \in 0 .. DataLen - 1 : Wrap(Wrap(r + 1) + k) = Wrap(r + (k + 1))
<1>1. DataLen \in Nat \ {0} BY DataAssumption
<1>2. ASSUME NEW k \in 0 .. DataLen PROVE Wrap(r + k) \in Places /\ (r + k) % DataLen = Wrap(r + k)
  <2>1. r + k \in Nat /\ r + k < 2 * DataLen BY <1>1 DEF Places
  <2>2. (r + k) % DataLen = Wrap(r + k) BY <2>1, RemainderWraps
  <2>3. Wrap(r + k) \in Places BY <1>1, <2>1 DEF Wrap, Places
  <2> QED BY <2>2, <2>3
<1>3. \A j, k \in 0 .. DataLen - 1 : Wrap(r + j) = Wrap(r + k) => j = k BY <1>1 DEF Wrap, Places
<1>4. \A k \in 0 .. DataLen : Wrap(r + k) = r <=> k = 0 \/ k = DataLen BY <1>1 DEF Wrap, Places
<1>5. \A k \in 0 .. DataLen - 1 : Wrap(Wrap(r + k) + 1) = Wrap(r + (k + 1))
  BY <1>1 DEF Wrap, Places
<1>6. \A k \in 0 .. DataLen - 1 : Wrap(Wrap(r + 1) + k) = Wrap(r + (k + 1))
  BY <1>1 DEF Wrap, Places
<1> QED BY <1>2, <1>3, <1>4, <1>5, <1>6

-------------------------------------------------------------------------------
(* The FIFO: what it holds.                                                *)

Numbers == Values \cup {0}

FifoType == [data : [Places -> Numbers], rIndex : Places, wIndex : Places,
             status : {Queues!Cleared, Queues!Empty, Queues!Full, Queues!Normal}]

StatusOf(n) == IF n = 0 THEN Queues!Empty ELSE IF n = DataLen THEN Queues!Full ELSE Queues!Normal

\* From the read index on the FIFO has the elements of s, up to the write index,
\* and its status is that of as many; a fresh one has zeros in all places.
FifoHolds(q, s) ==
    /\ q \in FifoType /\ s \in Seq(Numbers) /\ Len(s) <= DataLen
    /\ \A i \in 1 .. Len(s) : s[i] = q.data[Wrap(q.rIndex + (i - 1))]
    /\ q.wIndex = Wrap(q.rIndex + Len(s))
    /\ q.status = Queues!Cleared => Len(s) = 0 /\ \A k \in Places : q.data[k] = 0
    /\ q.status # Queues!Cleared => q.status = StatusOf(Len(s))

\* The types of a FIFO that holds a sequence.
LEMMA FifoFacts ==
    ASSUME NEW q, NEW s, FifoHolds(q, s)
    PROVE  /\ DataLen \in Nat \ {0} /\ Len(s) \in 0 .. DataLen /\ s \in Seq(Numbers)
           /\ q.data \in [Places -> Numbers] /\ q.rIndex \in Places /\ q.wIndex \in Places
           /\ \A i \in 1 .. Len(s) : s[i] \in Numbers
<1>1. DataLen \in Nat \ {0} BY DataAssumption
<1>2. s \in Seq(Numbers) /\ Len(s) <= DataLen BY DEF FifoHolds
<1>3. Len(s) \in 0 .. DataLen BY <1>1, <1>2, LenProperties
<1>4. \A i \in 1 .. Len(s) : s[i] \in Numbers BY <1>2, LenProperties
<1>5. q \in FifoType BY DEF FifoHolds
<1> QED BY <1>1, <1>2, <1>3, <1>4, <1>5 DEF FifoType

\* A push with room for it.
LEMMA FifoPushHolds ==
    ASSUME NEW q, NEW s, FifoHolds(q, s), ~Queues!PushFails(q), NEW d \in Values
    PROVE  FifoHolds(Queues!FifoPush(q, d), Append(s, d))
<1>1. /\ DataLen \in Nat \ {0} /\ Len(s) \in 0 .. DataLen /\ s \in Seq(Numbers)
      /\ q.data \in [Places -> Numbers] /\ q.rIndex \in Places /\ q.wIndex \in Places
      /\ \A i \in 1 .. Len(s) : s[i] \in Numbers
  BY FifoFacts
<1>2. PICK n \in 0 .. DataLen : n = Len(s) BY <1>1
<1>3. PICK r \in Places : r = q.rIndex BY <1>1
<1>4. /\ q \in FifoType
      /\ \A i \in 1 .. n : s[i] = q.data[Wrap(r + (i - 1))]
      /\ q.wIndex = Wrap(r + n)
      /\ q.status = Queues!Cleared => n = 0
      /\ q.status # Queues!Cleared => q.status = StatusOf(n)
  BY <1>2, <1>3 DEF FifoHolds
<1>5. n < DataLen
  BY <1>1, <1>4 DEF StatusOf, Queues!PushFails, Queues!Cleared, Queues!Full, Queues!Empty,
                    Queues!Normal
<1>6. PICK t : t = Append(s, d) OBVIOUS
<1>7. /\ t \in Seq(Numbers) /\ Len(t) = n + 1 /\ t[n + 1] = d
      /\ \A i \in 1 .. n : t[i] = s[i]
  <2>1. d \in Numbers BY DEF Numbers
  <2> QED BY <1>1, <1>2, <1>6, <2>1, AppendProperties
<1> DEFINE w == q.wIndex
           dat == [q.data EXCEPT ![w] = d]
           w1 == (w + 1) % DataLen
           st == IF w1 = r THEN Queues!Full ELSE Queues!Normal
<1>8. w1 = Wrap(r + (n + 1)) /\ w1 \in Places
  <2>1. w1 = Wrap(w + 1) BY <1>1, WrapFacts
  <2>2. n \in 0 .. DataLen - 1 /\ n + 1 \in 0 .. DataLen BY <1>1, <1>5
  <2>3. Wrap(Wrap(r + n) + 1) = Wrap(r + (n + 1)) BY <2>2, WrapFacts
  <2>4. Wrap(w + 1) = Wrap(r + (n + 1)) BY <1>4, <2>3
  <2> QED BY <2>1, <2>2, <2>4, WrapFacts
<1>9. w1 = r <=> n + 1 = DataLen
  <2>1. n + 1 \in 0 .. DataLen /\ n + 1 # 0 BY <1>1, <1>5
  <2> QED BY <1>8, <2>1, WrapFacts
<1>10. st = StatusOf(n + 1) BY <1>1, <1>9 DEF StatusOf
<1>11. d \in Numbers BY DEF Numbers
<1>12. dat \in [Places -> Numbers] BY <1>1, <1>11
<1>13. \A i \in 1 .. n + 1 : t[i] = dat[Wrap(r + (i - 1))]
  <2> SUFFICES ASSUME NEW i \in 1 .. n + 1 PROVE t[i] = dat[Wrap(r + (i - 1))] OBVIOUS
  <2>1. i - 1 \in 0 .. DataLen - 1 /\ i - 1 \in 0 .. DataLen BY <1>1, <1>5
  <2>2. Wrap(r + (i - 1)) \in Places BY <2>1, WrapFacts
  <2>3. CASE i = n + 1
    <3>1. i - 1 = n BY <2>3
    <3> QED BY <1>1, <1>4, <1>7, <2>2, <2>3, <3>1
  <2>4. CASE i \in 1 .. n
    <3>1. i - 1 # n /\ n \in 0 .. DataLen - 1 BY <1>1, <1>5, <2>4
    <3>2. Wrap(r + (i - 1)) # w BY <1>4, <2>1, <3>1, WrapFacts
    <3> QED BY <1>1, <1>4, <1>7, <2>2, <2>4, <3>2
  <2> QED BY <2>3, <2>4
<1> DEFINE p == Queues!FifoPush(q, d)
<1>14. p = [q EXCEPT !.data = dat, !.wIndex = w1, !.status = st] BY <1>3 DEF Queues!FifoPush
<1>15. w1 \in Places /\ st \in {Queues!Cleared, Queues!Empty, Queues!Full, Queues!Normal} BY <1>8
<1> HIDE DEF dat, w1, st, p
<1>16. /\ p \in FifoType /\ p.data = dat /\ p.rIndex = r /\ p.wIndex = w1 /\ p.status = st
  BY <1>3, <1>4, <1>12, <1>14, <1>15 DEF FifoType
<1>17. st # Queues!Cleared BY DEF st, Queues!Full, Queues!Normal, Queues!Cleared
<1>18. FifoHolds(p, t)
  BY <1>1, <1>5, <1>7, <1>8, <1>10, <1>13, <1>16, <1>17 DEF FifoHolds
<1> QED BY <1>6, <1>18 DEF p

\* A pop of something.
LEMMA FifoPopHolds ==
    ASSUME NEW q, NEW s, FifoHolds(q, s), ~Queues!PopFails(q), q.status # Queues!Cleared
    PROVE  FifoHolds(Queues!FifoPop(q), Tail(s))
<1>1. /\ DataLen \in Nat \ {0} /\ Len(s) \in 0 .. DataLen /\ s \in Seq(Numbers)
      /\ q.data \in [Places -> Numbers] /\ q.rIndex \in Places /\ q.wIndex \in Places
  BY FifoFacts
<1>2. PICK n \in 0 .. DataLen : n = Len(s) BY <1>1
<1>3. PICK r \in Places : r = q.rIndex BY <1>1
<1>4. /\ q \in FifoType
      /\ \A i \in 1 .. n : s[i] = q.data[Wrap(r + (i - 1))]
      /\ q.wIndex = Wrap(r + n)
      /\ q.status = StatusOf(n)
  BY <1>2, <1>3 DEF FifoHolds
<1>5. n # 0 BY <1>4 DEF StatusOf, Queues!PopFails
<1>6. PICK t : t = Tail(s) OBVIOUS
<1>7. /\ t \in Seq(Numbers) /\ Len(t) = n - 1
      /\ \A i \in 1 .. n - 1 : t[i] = s[i + 1]
  <2>1. s # <<>> BY <1>1, <1>2, <1>5, EmptySeq
  <2> QED BY <1>1, <1>2, <1>6, <2>1, HeadTailProperties
<1> DEFINE r1 == (r + 1) % DataLen
           st == IF q.wIndex = r1 THEN Queues!Empty ELSE Queues!Normal
<1>8. r1 = Wrap(r + 1) /\ r1 \in Places BY <1>1, WrapFacts
<1>9. q.wIndex = Wrap(r1 + (n - 1))
  <2>1. n - 1 \in 0 .. DataLen - 1 /\ (n - 1) + 1 = n BY <1>1, <1>5
  <2>2. Wrap(Wrap(r + 1) + (n - 1)) = Wrap(r + ((n - 1) + 1)) BY <2>1, WrapFacts
  <2> QED BY <1>4, <1>8, <2>1, <2>2
<1>10. st = StatusOf(n - 1)
  <2>1. n - 1 \in 0 .. DataLen /\ n - 1 # DataLen BY <1>1, <1>5
  <2>2. q.wIndex = r1 <=> n - 1 = 0
    <3> HIDE DEF r1
    <3> QED BY <1>8, <1>9, <2>1, WrapFacts
  <2> QED BY <2>1, <2>2 DEF StatusOf
<1>11. \A i \in 1 .. n - 1 : t[i] = q.data[Wrap(r1 + (i - 1))]
  <2> SUFFICES ASSUME NEW i \in 1 .. n - 1 PROVE t[i] = q.data[Wrap(r1 + (i - 1))] OBVIOUS
  <2>1. i - 1 \in 0 .. DataLen - 1 /\ (i - 1) + 1 = (i + 1) - 1 /\ i + 1 \in 1 .. n BY <1>1
  <2>2. Wrap(Wrap(r + 1) + (i - 1)) = Wrap(r + ((i - 1) + 1)) BY <2>1, WrapFacts
  <2> QED BY <1>4, <1>7, <1>8, <2>1, <2>2
<1> DEFINE p == Queues!FifoPop(q)
<1>12. p = [q EXCEPT !.rIndex = r1, !.status = st] BY <1>3 DEF Queues!FifoPop
<1>13. st \in {Queues!Cleared, Queues!Empty, Queues!Full, Queues!Normal} OBVIOUS
<1>14. st # Queues!Cleared BY DEF Queues!Empty, Queues!Normal, Queues!Cleared
<1> HIDE DEF r1, st, p
<1>15. /\ p \in FifoType /\ p.data = q.data /\ p.rIndex = r1 /\ p.wIndex = q.wIndex /\ p.status = st
  BY <1>4, <1>8, <1>12, <1>13 DEF FifoType
<1>16. n - 1 <= DataLen BY <1>1
<1>17. FifoHolds(p, t)
  BY <1>7, <1>9, <1>10, <1>11, <1>14, <1>15, <1>16 DEF FifoHolds
<1> QED BY <1>6, <1>17 DEF p

\* A pop of a fresh FIFO leaves the zeros of its other places to be popped: its
\* write index is as far ahead of the new read index as can be.
LEMMA FreshPopHolds ==
    ASSUME NEW q, NEW s, FifoHolds(q, s), q.status = Queues!Cleared
    PROVE  FifoHolds(Queues!FifoPop(q), Queues!Phantoms)
<1>1. DataLen \in Nat \ {0} /\ q.rIndex \in Places BY FifoFacts
<1>2. PICK r \in Places : r = q.rIndex BY <1>1
<1>3. q \in FifoType /\ q.wIndex = Wrap(r + 0) /\ \A k \in Places : q.data[k] = 0
  BY <1>2 DEF FifoHolds
<1>4. PICK n \in 0 .. DataLen - 1 : n = DataLen - 1 BY <1>1
<1>5. PICK t : t = Queues!Phantoms OBVIOUS
<1>6. t \in Seq(Numbers) /\ Len(t) = n /\ \A i \in 1 .. n : t[i] = 0
  <2>1. t = [i \in 1 .. n |-> 0] BY <1>4, <1>5 DEF Queues!Phantoms
  <2>2. 0 \in Numbers /\ n \in Nat BY DEF Numbers
  <2> QED BY <2>1, <2>2
<1> DEFINE r1 == (r + 1) % DataLen
           st == IF q.wIndex = r1 THEN Queues!Empty ELSE Queues!Normal
<1>7. r1 = Wrap(r + 1) /\ r1 \in Places BY <1>1, WrapFacts
<1>8. q.wIndex = Wrap(r1 + n)
  <2>1. Wrap(Wrap(r + 1) + n) = Wrap(r + (n + 1)) BY WrapFacts
  <2>2. n + 1 = DataLen BY <1>1, <1>4
  <2>3. 0 \in 0 .. DataLen /\ DataLen \in 0 .. DataLen BY <1>1
  <2>4. Wrap(r + 0) = r /\ Wrap(r + DataLen) = r BY <2>3, WrapFacts
  <2> QED BY <1>3, <1>7, <2>1, <2>2, <2>4
<1>9. st = StatusOf(n)
  <2>1. n \in 0 .. DataLen /\ n # DataLen BY <1>1, <1>4
  <2>2. q.wIndex = r1 <=> n = 0
    <3> HIDE DEF r1
    <3> QED BY <1>7, <1>8, <2>1, WrapFacts
  <2> QED BY <2>1, <2>2 DEF StatusOf
<1>10. \A i \in 1 .. n : t[i] = q.data[Wrap(r1 + (i - 1))]
  <2> SUFFICES ASSUME NEW i \in 1 .. n PROVE t[i] = q.data[Wrap(r1 + (i - 1))] OBVIOUS
  <2>1. i - 1 \in 0 .. DataLen BY <1>1, <1>4
  <2> HIDE DEF r1
  <2>2. Wrap(r1 + (i - 1)) \in Places BY <1>7, <2>1, WrapFacts
  <2> QED BY <1>3, <1>6, <2>2
<1> DEFINE p == Queues!FifoPop(q)
<1>11. p = [q EXCEPT !.rIndex = r1, !.status = st] BY <1>2 DEF Queues!FifoPop
<1>12. st \in {Queues!Cleared, Queues!Empty, Queues!Full, Queues!Normal} OBVIOUS
<1>13. st # Queues!Cleared BY DEF Queues!Empty, Queues!Normal, Queues!Cleared
<1> HIDE DEF r1, st, p
<1>14. /\ p \in FifoType /\ p.data = q.data /\ p.rIndex = r1 /\ p.wIndex = q.wIndex /\ p.status = st
  BY <1>3, <1>7, <1>11, <1>12 DEF FifoType
<1>15. n <= DataLen BY <1>1
<1>16. FifoHolds(p, t)
  BY <1>6, <1>8, <1>9, <1>10, <1>13, <1>14, <1>15 DEF FifoHolds
<1> QED BY <1>5, <1>16 DEF p

\* Nothing sums up to zero.
LEMMA SumOfNothing ==
    ASSUME NEW s, DOMAIN s = {}
    PROVE  Queues!SumOf(s) = 0
<1> DEFINE IsSum(f) == f = [T \in SUBSET {} |->
              IF T = {} THEN 0
              ELSE LET x == Queues!Max(T) IN f[T \ {x}] + s[x]]
           sum == CHOOSE f : IsSum(f)
<1>1. \E f : IsSum(f)
  <2> DEFINE g == [T \in SUBSET {} |-> 0]
  <2>1. \A T \in SUBSET {} : T = {} OBVIOUS
  <2>2. IsSum(g) BY <2>1
  <2> QED BY <2>2
<1>2. IsSum(sum) BY <1>1
<1>3. sum[{}] = 0 BY <1>2
<1>4. Queues!SumOf(s) = sum[{}] % Word
  BY DEF Queues!SumOf, Queues!FoldLeft, Queues!MapThenFoldSet
<1> HIDE DEF sum
<1>5. Word \in Nat \ {0} BY DataAssumption
<1> QED BY <1>3, <1>4, <1>5

\* The minimum is the member that is below all others.
LEMMA QueuesMin ==
    ASSUME NEW S \in SUBSET Nat, NEW n \in S, \A m \in S : n <= m
    PROVE  Queues!Min(S) = n
<1>1. \E x \in S : \A y \in S : x <= y OBVIOUS
<1>2. Queues!Min(S) \in S /\ \A y \in S : Queues!Min(S) <= y BY <1>1 DEF Queues!Min
<1>3. PICK m \in Nat : m = Queues!Min(S) BY <1>2
<1>4. m <= n /\ n <= m /\ n \in Nat BY <1>2, <1>3
<1> QED BY <1>3, <1>4

\* Where GetSum stops: at once when the indices are the same, and otherwise, if
\* at all, where the elements end.
Stops(q) == {i \in 0 .. 2 * DataLen : Queues!SumIndex(q, i) = q.wIndex}

SumExpected(q, s) ==
    IF Len(s) = DataLen THEN 0
    ELSE IF q.wIndex = 0 /\ q.rIndex # 0 THEN Queues!Endless
    ELSE Queues!SumOf(s)

\* FifoGetSum is the sum of what is held, with the two exceptions.
LEMMA FifoSum ==
    ASSUME NEW q, NEW s, FifoHolds(q, s)
    PROVE  Queues!FifoGetSum(q) = SumExpected(q, s)
<1>1. /\ DataLen \in Nat \ {0} /\ Len(s) \in 0 .. DataLen /\ s \in Seq(Numbers)
      /\ q.data \in [Places -> Numbers] /\ q.rIndex \in Places /\ q.wIndex \in Places
  BY FifoFacts
<1>2. PICK n \in 0 .. DataLen : n = Len(s) BY <1>1
<1>3. PICK r \in Places : r = q.rIndex BY <1>1
<1>4. PICK w \in Places : w = q.wIndex BY <1>1
<1>5. /\ \A i \in 1 .. n : s[i] = q.data[Wrap(r + (i - 1))]
      /\ w = Wrap(r + n)
  BY <1>2, <1>3, <1>4 DEF FifoHolds
<1> DEFINE Added(m) == [i \in 1 .. m |-> q.data[(r + i - 1) % DataLen]]
<1>6. Queues!FifoGetSum(q) = IF Stops(q) = {} THEN Queues!Endless
                             ELSE Queues!SumOf(Added(Queues!Min(Stops(q))))
  BY <1>3 DEF Queues!FifoGetSum, Stops
<1>7. /\ 0 \in Stops(q) <=> r = w
      /\ \A i \in 1 .. 2 * DataLen : i \in Stops(q) <=> ((r + i - 1) % DataLen) + 1 = w
  <2>1. 0 \in 0 .. 2 * DataLen /\ \A i \in 1 .. 2 * DataLen : i \in 0 .. 2 * DataLen /\ i # 0
    BY <1>1
  <2> QED BY <1>3, <1>4, <2>1 DEF Stops, Queues!SumIndex
<1>8. Stops(q) \in SUBSET Nat BY <1>1 DEF Stops
<1>9. r = w <=> n = 0 \/ n = DataLen BY <1>5, WrapFacts
<1>10. Queues!SumOf(Added(0)) = 0
  <2>1. DOMAIN Added(0) = {} OBVIOUS
  <2> HIDE DEF Added
  <2> QED BY <2>1, SumOfNothing
<1> HIDE DEF Added
<1>11. CASE r = w
  <2>1. 0 \in Stops(q) /\ \A m \in Stops(q) : 0 <= m BY <1>7, <1>8, <1>11
  <2>2. Queues!Min(Stops(q)) = 0 BY <1>8, <2>1, QueuesMin
  <2>3. Queues!FifoGetSum(q) = 0 BY <1>6, <1>10, <2>1, <2>2
  <2>4. n = 0 => Queues!SumOf(s) = 0
    <3>1. DOMAIN s = 1 .. n BY <1>1, <1>2, LenProperties
    <3>2. n = 0 => DOMAIN s = {} BY <3>1
    <3> QED BY <3>2, SumOfNothing
  <2>5. SumExpected(q, s) = 0 BY <1>2, <1>3, <1>4, <1>9, <1>11, <2>4 DEF SumExpected
  <2> QED BY <2>3, <2>5
<1>12. CASE r # w /\ w = 0
  <2>1. \A i \in 1 .. 2 * DataLen : (r + i - 1) \in Nat BY <1>1 DEF Places
  <2>2. \A a \in Nat : a % DataLen \in Nat BY <1>1
  <2>3. \A i \in 1 .. 2 * DataLen : ((r + i - 1) % DataLen) + 1 # w BY <1>12, <2>1, <2>2
  <2>4. Stops(q) = {}
    <3>1. \A i \in Stops(q) : i = 0 \/ i \in 1 .. 2 * DataLen BY DEF Stops
    <3> QED BY <1>7, <1>12, <2>3, <3>1
  <2>5. r # 0 /\ n # DataLen BY <1>9, <1>12
  <2>6. SumExpected(q, s) = Queues!Endless BY <1>2, <1>3, <1>4, <1>12, <2>5 DEF SumExpected
  <2> QED BY <1>6, <2>4, <2>6
<1>13. CASE r # w /\ w # 0
  <2>1. n # 0 /\ n # DataLen /\ n \in 1 .. DataLen - 1 BY <1>1, <1>9, <1>13
  <2>2. \A i \in 1 .. n : (r + i - 1) % DataLen = Wrap(r + (i - 1))
    <3> SUFFICES ASSUME NEW i \in 1 .. n PROVE (r + i - 1) % DataLen = Wrap(r + (i - 1)) OBVIOUS
    <3>1. i - 1 \in 0 .. DataLen /\ r + i - 1 = r + (i - 1) BY <1>1, <2>1 DEF Places
    <3> QED BY <3>1, WrapFacts
  <2>3. Wrap(r + (n - 1)) + 1 = w BY <1>1, <1>5, <1>13, <2>1 DEF Wrap, Places
  <2>4. \A i \in 1 .. n - 1 : Wrap(r + (i - 1)) + 1 # w
    <3> SUFFICES ASSUME NEW i \in 1 .. n - 1 PROVE Wrap(r + (i - 1)) + 1 # w OBVIOUS
    <3>1. i - 1 \in 0 .. DataLen - 1 /\ n - 1 \in 0 .. DataLen - 1 /\ i - 1 # n - 1 BY <1>1, <2>1
    <3>2. Wrap(r + (i - 1)) # Wrap(r + (n - 1)) BY <3>1, WrapFacts
    <3>3. Wrap(r + (i - 1)) \in Places /\ Wrap(r + (n - 1)) \in Places
      <4>1. i - 1 \in 0 .. DataLen /\ n - 1 \in 0 .. DataLen BY <1>1, <2>1
      <4> QED BY <4>1, WrapFacts
    <3> QED BY <1>1, <2>3, <3>2, <3>3 DEF Places
  <2>5. n \in Stops(q)
    <3>1. n \in 1 .. 2 * DataLen /\ n \in 1 .. n BY <1>1, <2>1
    <3> QED BY <1>7, <2>2, <2>3, <3>1
  <2>6. \A m \in Stops(q) : n <= m
    <3> SUFFICES ASSUME NEW m \in Stops(q), m < n PROVE FALSE BY <1>8, <2>1
    <3>1. m \in Nat /\ m # 0 BY <1>7, <1>8, <1>13
    <3>2. m \in 1 .. 2 * DataLen /\ m \in 1 .. n /\ m \in 1 .. n - 1 BY <1>1, <2>1, <3>1
    <3> QED BY <1>7, <2>2, <2>4, <3>2
  <2>7. Queues!Min(Stops(q)) = n BY <1>8, <2>5, <2>6, QueuesMin
  <2>8. Added(n) = s
    <3>1. s = [i \in 1 .. n |-> s[i]] BY <1>1, <1>2, LenProperties
    <3>2. [i \in 1 .. n |-> q.data[(r + i - 1) % DataLen]] = [i \in 1 .. n |-> s[i]]
      BY <1>5, <2>2
    <3> QED BY <3>1, <3>2 DEF Added
  <2>9. SumExpected(q, s) = Queues!SumOf(s) BY <1>2, <1>4, <1>13, <2>1 DEF SumExpected
  <2> QED BY <1>6, <2>5, <2>7, <2>8, <2>9
<1> QED BY <1>11, <1>12, <1>13

-------------------------------------------------------------------------------
(* The LIFO.                                                               *)

LifoType == [data : [Places -> Numbers], index : 0 .. DataLen,
             status : {Queues!Cleared, Queues!Full, Queues!Normal}]

\* Below its index the LIFO has the elements of s, and it is full with DataLen.
LifoHolds(q, s) ==
    /\ q \in LifoType /\ s \in Seq(Values) /\ Len(s) = q.index
    /\ \A i \in 1 .. q.index : s[i] = q.data[i - 1]
    /\ q.status = Queues!Full <=> q.index = DataLen

\* LifoPush puts a number on top.
LEMMA LifoPushHolds ==
    ASSUME NEW q, NEW s, LifoHolds(q, s), q.status # Queues!Full, NEW d \in Values
    PROVE  LifoHolds(Queues!LifoPush(q, d), Append(s, d))
<1>1. DataLen \in Nat \ {0} BY DataAssumption
<1>2. /\ q \in LifoType /\ s \in Seq(Values) /\ q.data \in [Places -> Numbers]
      /\ q.index \in 0 .. DataLen
  BY DEF LifoHolds, LifoType
<1>3. PICK n \in 0 .. DataLen : n = q.index BY <1>2
<1>4. n < DataLen /\ Len(s) = n /\ \A i \in 1 .. n : s[i] = q.data[i - 1]
  BY <1>1, <1>3 DEF LifoHolds
<1>5. PICK t : t = Append(s, d) OBVIOUS
<1>6. /\ t \in Seq(Values) /\ Len(t) = n + 1 /\ t[n + 1] = d
      /\ \A i \in 1 .. n : t[i] = s[i]
  BY <1>2, <1>4, <1>5, AppendProperties
<1> DEFINE dat == [q.data EXCEPT ![n] = d]
           st == IF n + 1 = DataLen THEN Queues!Full ELSE Queues!Normal
           p == Queues!LifoPush(q, d)
<1>7. d \in Numbers /\ n \in Places BY <1>1, <1>4 DEF Numbers, Places
<1>8. dat \in [Places -> Numbers] BY <1>2, <1>7
<1>9. \A i \in 1 .. n + 1 : t[i] = dat[i - 1]
  <2> SUFFICES ASSUME NEW i \in 1 .. n + 1 PROVE t[i] = dat[i - 1] OBVIOUS
  <2>1. i - 1 \in Places BY <1>1, <1>4 DEF Places
  <2>2. CASE i = n + 1 BY <1>2, <1>6, <1>7, <2>2
  <2>3. CASE i \in 1 .. n
    <3>1. i - 1 # n BY <2>3
    <3> QED BY <1>2, <1>4, <1>6, <2>1, <2>3, <3>1
  <2> QED BY <2>2, <2>3
<1>10. p = [q EXCEPT !.data = dat, !.index = n + 1, !.status = st] BY <1>3 DEF Queues!LifoPush
<1>11. st \in {Queues!Cleared, Queues!Full, Queues!Normal} OBVIOUS
<1>12. st = Queues!Full <=> n + 1 = DataLen BY DEF Queues!Full, Queues!Normal
<1>13. n + 1 \in 0 .. DataLen BY <1>1, <1>4
<1> HIDE DEF dat, st, p
<1>14. p \in LifoType /\ p.data = dat /\ p.index = n + 1 /\ p.status = st
  BY <1>2, <1>8, <1>10, <1>11, <1>13 DEF LifoType
<1>15. LifoHolds(p, t) BY <1>6, <1>9, <1>12, <1>14 DEF LifoHolds
<1> QED BY <1>5, <1>15 DEF p

\* A sequence without its last place.
LEMMA FrontIs ==
    ASSUME NEW S, NEW s \in Seq(S), Len(s) # 0
    PROVE  LET t == SubSeq(s, 1, Len(s) - 1)
           IN  /\ t \in Seq(S) /\ Len(t) = Len(s) - 1
               /\ \A i \in 1 .. Len(s) - 1 : t[i] = s[i]
<1> DEFINE t == SubSeq(s, 1, Len(s) - 1)
<1>1. PICK n \in Nat : n = Len(s) BY LenProperties
<1>2. \A i \in 1 .. n - 1 : s[i] \in S BY <1>1, LenProperties
<1>3. /\ t \in Seq(S) /\ Len(t) = IF 1 <= n - 1 THEN (n - 1) - 1 + 1 ELSE 0
      /\ \A j \in 1 .. (n - 1) - 1 + 1 : t[j] = s[(1 + j) - 1]
  BY <1>1, <1>2, SubSeqProperties
<1> HIDE DEF t
<1>4. Len(t) = n - 1 BY <1>1, <1>3
<1>5. ASSUME NEW j \in 1 .. n - 1 PROVE t[j] = s[j]
  <2>1. j \in 1 .. (n - 1) - 1 + 1 /\ (1 + j) - 1 = j OBVIOUS
  <2> QED BY <1>3, <2>1
<1> QED BY <1>1, <1>3, <1>4, <1>5 DEF t

\* LifoPop takes away the top.
LEMMA LifoPopHolds ==
    ASSUME NEW q, NEW s, LifoHolds(q, s), q.index # 0
    PROVE  LifoHolds(Queues!LifoPop(q), Queues!Front(s))
<1>1. DataLen \in Nat \ {0} BY DataAssumption
<1>2. q \in LifoType /\ s \in Seq(Values) /\ q.index \in 0 .. DataLen
  BY DEF LifoHolds, LifoType
<1>3. PICK n \in 0 .. DataLen : n = q.index BY <1>2
<1>4. n # 0 /\ Len(s) = n /\ \A i \in 1 .. n : s[i] = q.data[i - 1] BY <1>3 DEF LifoHolds
<1>5. PICK t : t = Queues!Front(s) OBVIOUS
<1>6. t = SubSeq(s, 1, Len(s) - 1) BY <1>5 DEF Queues!Front
<1>7. /\ t \in Seq(Values) /\ Len(t) = n - 1
      /\ \A i \in 1 .. n - 1 : t[i] = s[i]
  <2>1. s \in Seq(Values) /\ Len(s) # 0 BY <1>2, <1>4
  <2>2. /\ t \in Seq(Values) /\ Len(t) = Len(s) - 1
        /\ \A i \in 1 .. Len(s) - 1 : t[i] = s[i]
    BY ONLY <1>6, <2>1, FrontIs
  <2> QED BY <1>4, <2>2
<1> DEFINE p == Queues!LifoPop(q)
<1>8. n - 1 \in 0 .. DataLen /\ n - 1 # DataLen BY <1>1, <1>4
<1>9. p = [q EXCEPT !.index = n - 1, !.status = Queues!Normal] BY <1>3, <1>8 DEF Queues!LifoPop
<1> HIDE DEF p
<1>10. p \in LifoType /\ p.data = q.data /\ p.index = n - 1 /\ p.status = Queues!Normal
  BY <1>2, <1>8, <1>9 DEF LifoType
<1>11. Queues!Normal # Queues!Full BY DEF Queues!Full, Queues!Normal
<1>12. \A i \in 1 .. n - 1 : t[i] = q.data[i - 1] BY <1>1, <1>4, <1>7
<1>13. LifoHolds(p, t) BY <1>7, <1>8, <1>10, <1>11, <1>12 DEF LifoHolds
<1> QED BY <1>5, <1>13 DEF p

-------------------------------------------------------------------------------
(* Both queues.                                                            *)

QueuesInv ==
    /\ FifoHolds(fifo, inFifo)
    /\ LifoHolds(lifo, inLifo)
    /\ astray \in BOOLEAN

\* Both queues hold nothing at first.
LEMMA QueuesInitKeeps == Queues!Init => QueuesInv
<1> SUFFICES ASSUME Queues!Init PROVE QueuesInv OBVIOUS
<1>1. DataLen \in Nat \ {0} BY DataAssumption
<1> DEFINE none == [i \in 0 .. DataLen - 1 |-> 0]
<1>2. /\ fifo = [data |-> none, rIndex |-> 0, wIndex |-> 0, status |-> Queues!Cleared]
      /\ lifo = [data |-> none, index |-> 0, status |-> Queues!Cleared]
      /\ inFifo = <<>> /\ inLifo = <<>> /\ astray = FALSE
  BY DEF Queues!Init, Queues!FifoInit, Queues!LifoInit
<1>3. none \in [Places -> Numbers] /\ 0 \in Places /\ \A k \in Places : none[k] = 0
  BY <1>1 DEF Places, Numbers
<1>4. <<>> \in Seq(Values) /\ <<>> \in Seq(Numbers) /\ Len(<<>>) = 0 OBVIOUS
<1> HIDE DEF none
<1>5. fifo \in FifoType BY <1>2, <1>3 DEF FifoType
<1>6. lifo \in LifoType BY <1>1, <1>2, <1>3 DEF LifoType
<1>7. Wrap(0 + 0) = 0 BY <1>1 DEF Wrap
<1>8. FifoHolds(fifo, inFifo) BY <1>1, <1>2, <1>3, <1>4, <1>5, <1>7 DEF FifoHolds
<1>9. LifoHolds(lifo, inLifo)
  BY <1>1, <1>2, <1>4, <1>6 DEF LifoHolds, Queues!Cleared, Queues!Full
<1> QED BY <1>2, <1>8, <1>9 DEF QueuesInv

\* A push and a pop keep the invariant of the queues.
LEMMA QueuesNextKeeps == QueuesInv /\ Queues!Next => QueuesInv'
<1> SUFFICES ASSUME QueuesInv, Queues!Next PROVE QueuesInv' OBVIOUS
<1>1. FifoHolds(fifo, inFifo) /\ LifoHolds(lifo, inLifo) /\ astray \in BOOLEAN BY DEF QueuesInv
<1>2. ASSUME NEW d \in Values, Queues!PushFifo(d) PROVE QueuesInv'
  <2>1. CASE Queues!PushFails(fifo) BY <1>1, <1>2, <2>1 DEF Queues!PushFifo, QueuesInv
  <2>2. CASE ~Queues!PushFails(fifo)
    <3>1. /\ fifo' = Queues!FifoPush(fifo, d) /\ inFifo' = Append(inFifo, d)
          /\ UNCHANGED <<lifo, inLifo, astray>>
      BY <1>2, <2>2 DEF Queues!PushFifo
    <3>2. FifoHolds(Queues!FifoPush(fifo, d), Append(inFifo, d)) BY <1>1, <2>2, FifoPushHolds
    <3> QED BY <1>1, <3>1, <3>2 DEF QueuesInv
  <2> QED BY <2>1, <2>2
<1>3. CASE Queues!PopFifo
  <2>1. CASE Queues!PopFails(fifo) BY <1>1, <1>3, <2>1 DEF Queues!PopFifo, QueuesInv
  <2>2. CASE ~Queues!PopFails(fifo) /\ fifo.status # Queues!Cleared
    <3>1. /\ fifo' = Queues!FifoPop(fifo) /\ inFifo' = Tail(inFifo)
          /\ UNCHANGED <<lifo, inLifo, astray>>
      BY <1>3, <2>2 DEF Queues!PopFifo
    <3>2. FifoHolds(Queues!FifoPop(fifo), Tail(inFifo)) BY <1>1, <2>2, FifoPopHolds
    <3> QED BY <1>1, <3>1, <3>2 DEF QueuesInv
  <2>3. CASE ~Queues!PopFails(fifo) /\ fifo.status = Queues!Cleared
    <3>1. /\ fifo' = Queues!FifoPop(fifo) /\ inFifo' = Queues!Phantoms
          /\ UNCHANGED <<lifo, inLifo, astray>>
      BY <1>3, <2>3 DEF Queues!PopFifo
    <3>2. FifoHolds(Queues!FifoPop(fifo), Queues!Phantoms) BY <1>1, <2>3, FreshPopHolds
    <3> QED BY <1>1, <3>1, <3>2 DEF QueuesInv
  <2> QED BY <2>1, <2>2, <2>3
<1>4. ASSUME NEW d \in Values, Queues!PushLifo(d) PROVE QueuesInv'
  <2>1. CASE lifo.status = Queues!Full BY <1>1, <1>4, <2>1 DEF Queues!PushLifo, QueuesInv
  <2>2. CASE lifo.status # Queues!Full
    <3>1. /\ lifo' = Queues!LifoPush(lifo, d) /\ inLifo' = Append(inLifo, d)
          /\ UNCHANGED <<fifo, inFifo, astray>>
      BY <1>4, <2>2 DEF Queues!PushLifo
    <3>2. LifoHolds(Queues!LifoPush(lifo, d), Append(inLifo, d)) BY <1>1, <2>2, LifoPushHolds
    <3> QED BY <1>1, <3>1, <3>2 DEF QueuesInv
  <2> QED BY <2>1, <2>2
<1>5. CASE Queues!PopLifo
  <2>1. CASE lifo.status = Queues!Empty BY <1>1, <1>5, <2>1 DEF Queues!PopLifo, QueuesInv
  <2>2. CASE lifo.status # Queues!Empty /\ lifo.index = 0
    BY <1>1, <1>5, <2>2 DEF Queues!PopLifo, QueuesInv
  <2>3. CASE lifo.status # Queues!Empty /\ lifo.index # 0
    <3>1. /\ lifo' = Queues!LifoPop(lifo) /\ inLifo' = Queues!Front(inLifo)
          /\ UNCHANGED <<fifo, inFifo, astray>>
      BY <1>5, <2>3 DEF Queues!PopLifo
    <3>2. LifoHolds(Queues!LifoPop(lifo), Queues!Front(inLifo)) BY <1>1, <2>3, LifoPopHolds
    <3> QED BY <1>1, <3>1, <3>2 DEF QueuesInv
  <2> QED BY <2>1, <2>2, <2>3
<1> QED BY <1>2, <1>3, <1>4, <1>5 DEF Queues!Next, Queues!FifoNext, Queues!LifoNext

\* A sequence that is not longer than the array.
LEMMA IsBounded ==
    ASSUME NEW S, NEW s \in Seq(S), Len(s) <= DataLen
    PROVE  s \in Queues!BoundedSeq(S, DataLen)
<1>1. s \in [1 .. Len(s) -> S] /\ Len(s) \in 0 .. DataLen
  BY LenProperties, DataAssumption
<1> QED BY <1>1 DEF Queues!BoundedSeq, Queues!SeqOf

\* A FIFO and a LIFO that hold what was pushed say so.
LEMMA QueuesInvShows == QueuesInv => QueuesHoldPushed
<1> SUFFICES ASSUME QueuesInv PROVE QueuesHoldPushed OBVIOUS
<1>1. FifoHolds(fifo, inFifo) /\ LifoHolds(lifo, inLifo) BY DEF QueuesInv
<1>2. /\ DataLen \in Nat \ {0} /\ Len(inFifo) \in 0 .. DataLen /\ inFifo \in Seq(Numbers)
      /\ fifo.rIndex \in Places /\ fifo.wIndex \in Places
  BY <1>1, FifoFacts
<1>3. PICK n \in 0 .. DataLen : n = Len(inFifo) BY <1>2
<1>4. PICK r \in Places : r = fifo.rIndex BY <1>2
<1>5. /\ fifo \in FifoType
      /\ \A i \in 1 .. n : inFifo[i] = fifo.data[Wrap(r + (i - 1))]
      /\ fifo.wIndex = Wrap(r + n)
      /\ fifo.status # Queues!Cleared => fifo.status = StatusOf(n)
  BY <1>1, <1>3, <1>4 DEF FifoHolds
<1>6. /\ lifo \in LifoType /\ inLifo \in Seq(Values) /\ Len(inLifo) = lifo.index
      /\ \A i \in 1 .. lifo.index : inLifo[i] = lifo.data[i - 1]
      /\ lifo.status = Queues!Full <=> lifo.index = DataLen
      /\ lifo.index \in 0 .. DataLen
  BY <1>1 DEF LifoHolds, LifoType
<1>7. Queues!TypeOK
  <2>1. Queues!IsFifo(fifo, Values \cup {0})
    BY <1>5 DEF FifoType, Places, Numbers, Queues!IsFifo
  <2>2. inFifo \in Queues!BoundedSeq(Values \cup {0}, DataLen) BY <1>2, IsBounded DEF Numbers
  <2>3. inLifo \in Queues!BoundedSeq(Values, DataLen) BY <1>2, <1>6, IsBounded
  <2> QED BY <1>6, <2>1, <2>2, <2>3 DEF Queues!TypeOK
<1>8. Queues!FifoHoldsPushed
  <2>1. inFifo = [i \in 1 .. Len(inFifo) |-> fifo.data[(fifo.rIndex + i - 1) % DataLen]]
    <3>1. \A i \in 1 .. n : inFifo[i] = fifo.data[(r + i - 1) % DataLen]
      <4> SUFFICES ASSUME NEW i \in 1 .. n PROVE inFifo[i] = fifo.data[(r + i - 1) % DataLen] OBVIOUS
      <4>1. i - 1 \in 0 .. DataLen /\ r + i - 1 = r + (i - 1) BY <1>2 DEF Places
      <4>2. (r + i - 1) % DataLen = Wrap(r + (i - 1)) BY <4>1, WrapFacts
      <4> QED BY <1>5, <4>2
    <3>2. inFifo = [i \in 1 .. n |-> inFifo[i]] BY <1>2, <1>3, LenProperties
    <3> QED BY <1>3, <1>4, <3>1, <3>2
  <2>2. fifo.wIndex = (fifo.rIndex + Len(inFifo)) % DataLen BY <1>3, <1>4, <1>5, WrapFacts
  <2>3. inFifo = <<>> <=> n = 0 BY <1>2, <1>3, EmptySeq
  <2>4. fifo.status # Queues!Cleared =>
           fifo.status = CASE inFifo = <<>> -> Queues!Empty
                           [] Len(inFifo) = DataLen -> Queues!Full
                           [] OTHER -> Queues!Normal
    BY <1>2, <1>3, <1>5, <2>3 DEF StatusOf
  <2> QED BY <2>1, <2>2, <2>4 DEF Queues!FifoHoldsPushed
<1>9. Queues!FifoSumsHeld
  <2>1. Queues!FifoGetSum(fifo) = SumExpected(fifo, inFifo) BY <1>1, FifoSum
  <2>2. ~(n = DataLen /\ fifo.wIndex = 0 /\ fifo.rIndex # 0) BY <1>2, <1>4, <1>5, WrapFacts
  <2>3. SumExpected(fifo, inFifo) =
          CASE Len(inFifo) = DataLen -> 0
            [] fifo.wIndex = 0 /\ fifo.rIndex # 0 -> Queues!Endless
            [] OTHER -> Queues!SumOf(inFifo)
    BY <1>3, <2>2 DEF SumExpected
  <2> QED BY <2>1, <2>3 DEF Queues!FifoSumsHeld
<1>10. Queues!LifoHoldsPushed
  <2>1. inLifo = [i \in 1 .. lifo.index |-> inLifo[i]] BY <1>6, LenProperties
  <2>2. [i \in 1 .. lifo.index |-> lifo.data[i - 1]] = [i \in 1 .. lifo.index |-> inLifo[i]]
    BY <1>6
  <2>3. inLifo = [i \in 1 .. lifo.index |-> lifo.data[i - 1]] BY <2>1, <2>2
  <2>4. Queues!LifoGetSum(lifo) = Queues!SumOf(inLifo) BY <2>3 DEF Queues!LifoGetSum
  <2> QED BY <1>6, <2>3, <2>4 DEF Queues!LifoHoldsPushed
<1> QED BY <1>7, <1>8, <1>9, <1>10 DEF QueuesHoldPushed

\* A step of the queues or of another program keeps it.
LEMMA QueuesStepKeeps ==
    ASSUME QueuesInv, Queues!Next \/ UNCHANGED queueVars
    PROVE  QueuesInv'
<1>1. CASE Queues!Next BY <1>1, QueuesNextKeeps
<1>2. CASE UNCHANGED queueVars BY <1>2 DEF queueVars, QueuesInv
<1> QED BY <1>1, <1>2

-------------------------------------------------------------------------------
(* The circular list: what its links say.                                  *)

\* The packet at a place of the ring, with the head before the first place and
\* behind the last one.
LinkAt(s, i) == IF i \in 1 .. Len(s) THEN s[i] ELSE Circular!packet_list

\* The two links go around the head and the packets of s.
IsRing(nx, pv, s) ==
    /\ s \in Seq(Packets)
    /\ \A i, j \in 1 .. Len(s) : s[i] = s[j] => i = j
    /\ \A i \in 0 .. Len(s) : /\ nx[LinkAt(s, i)] = LinkAt(s, i + 1)
                              /\ pv[LinkAt(s, i + 1)] = LinkAt(s, i)

\* No two places of the ring are the same, counting the head on one side of it.
LEMMA LinksDiffer ==
    ASSUME NEW s \in Seq(Packets), \A i, j \in 1 .. Len(s) : s[i] = s[j] => i = j
    PROVE  /\ Len(s) \in Nat
           /\ \A i \in Int : LinkAt(s, i) \in Circular!Links
           /\ \A i \in 1 .. Len(s) : LinkAt(s, i) = s[i] /\ s[i] \in Packets /\ s[i] # Circular!packet_list
           /\ \A i \in Int : i \notin 1 .. Len(s) => LinkAt(s, i) = Circular!packet_list
           /\ \A i, j \in 0 .. Len(s) : LinkAt(s, i) = LinkAt(s, j) => i = j
           /\ \A i, j \in 1 .. Len(s) + 1 : LinkAt(s, i) = LinkAt(s, j) => i = j
<1>1. Len(s) \in Nat /\ \A i \in 1 .. Len(s) : s[i] \in Packets BY LenProperties
<1>2. Circular!packet_list \notin Packets BY DataAssumption
<1> QED BY <1>1, <1>2 DEF LinkAt, Circular!Links

\* One turn of the walk of Around.
WentAround(walk, link, k) ==
    IF k = 1 THEN link[Circular!packet_list]
    ELSE IF walk[k - 1] \in Packets THEN link[walk[k - 1]] ELSE walk[k - 1]

GoesAround(walk, link, n) == walk = [k \in 1 .. n |-> WentAround(walk, link, k)]

\* There is such a walk, of any length.
LEMMA GoesAroundExists ==
    ASSUME NEW link, NEW N \in Nat
    PROVE  \E walk : GoesAround(walk, link, N)
<1> DEFINE S == {n \in Nat : \E f : GoesAround(f, link, n)}
<1>1. 0 \in S
  <2> DEFINE none == [k \in 1 .. 0 |-> 0]
  <2>1. GoesAround(none, link, 0) BY DEF GoesAround
  <2> QED BY <2>1
<1>2. ASSUME NEW n \in Nat, n \in S PROVE n + 1 \in S
  <2>1. PICK f : GoesAround(f, link, n) BY <1>2
  <2> DEFINE g == [k \in 1 .. n + 1 |-> WentAround(f, link, k)]
  <2>2. \A k \in 1 .. n : g[k] = f[k] BY <2>1 DEF GoesAround
  <2>3. \A k \in 1 .. n + 1 : WentAround(f, link, k) = WentAround(g, link, k)
    <3> SUFFICES ASSUME NEW k \in 1 .. n + 1
                 PROVE  WentAround(f, link, k) = WentAround(g, link, k)
      OBVIOUS
    <3>1. k # 1 => k - 1 \in 1 .. n OBVIOUS
    <3> HIDE DEF g
    <3> QED BY <3>1, <2>2 DEF WentAround
  <2>4. g = [k \in 1 .. n + 1 |-> WentAround(g, link, k)] BY <2>3
  <2> HIDE DEF g
  <2>5. GoesAround(g, link, n + 1) BY <2>4 DEF GoesAround
  <2> QED BY <2>5
<1> HIDE DEF S
<1>3. N \in S BY <1>1, <1>2, SetInduction
<1> QED BY <1>3 DEF S

\* A sequence of different packets is not longer than the heap.
LEMMA NotLongerThanPackets ==
    ASSUME NEW s \in Seq(Packets), \A i, j \in 1 .. Len(s) : s[i] = s[j] => i = j
    PROVE  Len(s) <= Cardinality(Packets) /\ Cardinality(Packets) \in Nat
<1>1. IsFiniteSet(Packets) /\ Cardinality(Packets) \in Nat
  BY DataAssumption, FS_CardinalityType
<1>2. Len(s) \in Nat /\ s \in [1 .. Len(s) -> Packets] BY LenProperties
<1>3. s \in Injection(1 .. Len(s), Packets) BY <1>2, Fun_IsInj
<1>4. Cardinality(1 .. Len(s)) <= Cardinality(Packets) BY <1>1, <1>3, FS_Injection
<1>5. Cardinality(1 .. Len(s)) = Len(s) BY <1>2, FS_Interval
<1> QED BY <1>1, <1>4, <1>5

\* Around finds the packets whose links it follows.
LEMMA AroundIs ==
    ASSUME NEW link, NEW s \in Seq(Packets), \A i, j \in 1 .. Len(s) : s[i] = s[j] => i = j,
           \A i \in 0 .. Len(s) : link[LinkAt(s, i)] = LinkAt(s, i + 1)
    PROVE  Circular!Around(link) = s
<1> DEFINE head == Circular!packet_list
           N == Cardinality(Packets) + 1
           walk == CHOOSE w : GoesAround(w, link, N)
<1>1. N \in Nat /\ Len(s) < N /\ 1 \in 1 .. N BY LenProperties, NotLongerThanPackets
<1>2. walk = [k \in 1 .. N |-> WentAround(walk, link, k)]
  <2>1. \E w : GoesAround(w, link, N)
    <3> HIDE DEF N
    <3> QED BY <1>1, GoesAroundExists
  <2>2. GoesAround(walk, link, N) BY <2>1
  <2> QED BY <2>2 DEF GoesAround
<1>3. Circular!Around(link) = SubSeq(walk, 1, Cardinality({k \in DOMAIN walk : walk[k] # head}))
  BY DEF Circular!Around, GoesAround, WentAround, Circular!Cardinality, Cardinality
<1> HIDE DEF walk, N
<1>4. /\ Len(s) \in Nat
      /\ \A i \in Int : i \notin 1 .. Len(s) => LinkAt(s, i) = head
      /\ \A i \in 1 .. Len(s) : LinkAt(s, i) = s[i]
      /\ head \notin Packets
  BY LinksDiffer, DataAssumption
<1> HIDE DEF head
<1>5. walk[1] = IF s = <<>> THEN head ELSE s[1]
  <2>1. s = <<>> <=> Len(s) = 0 BY EmptySeq
  <2>2. walk[1] = link[head] BY <1>1, <1>2 DEF WentAround, head
  <2>3. link[head] = LinkAt(s, 1)
    <3>1. 0 \in 0 .. Len(s) /\ LinkAt(s, 0) = head BY <1>4
    <3>2. link[LinkAt(s, 0)] = LinkAt(s, 0 + 1) BY <3>1
    <3> QED BY <3>1, <3>2
  <2> QED BY <1>4, <2>1, <2>2, <2>3
<1>6. Links(link, s, head)
  <2> SUFFICES ASSUME NEW i \in 1 .. Len(s)
               PROVE  link[s[i]] = IF i = Len(s) THEN head ELSE s[i + 1]
    BY DEF Links
  <2>1. link[LinkAt(s, i)] = LinkAt(s, i + 1) BY <1>4
  <2> QED BY <1>4, <2>1
<1>7. Follows(walk, N, Packets, head, link)
  <2>1. \A k \in 1 .. N - 1 : walk[k + 1] = IF walk[k] \in Packets THEN link[walk[k]] ELSE walk[k]
    <3> SUFFICES ASSUME NEW k \in 1 .. N - 1
                 PROVE  walk[k + 1] = IF walk[k] \in Packets THEN link[walk[k]] ELSE walk[k]
      OBVIOUS
    <3>1. k + 1 \in 1 .. N /\ (k + 1) - 1 = k /\ k + 1 # 1 BY <1>1
    <3> QED BY <1>2, <3>1 DEF WentAround
  <2> QED BY <1>2, <1>4, <2>1 DEF Follows
<1>8. SubSeq(walk, 1, Cardinality({k \in DOMAIN walk : walk[k] # head})) = s
  BY ONLY <1>1, <1>4, <1>5, <1>6, <1>7, s \in Seq(Packets), WalkShows
<1> QED BY <1>3, <1>8

\* What a link may hold: the places of the ring, and what was written over it.
LinkValues == Circular!Links \cup {Circular!Poison, Circular!Null}

\* A ring is read as its sequence, and backwards as its reverse.
LEMMA RingIs ==
    ASSUME NEW nx, NEW pv, NEW s, IsRing(nx, pv, s)
    PROVE  Circular!Around(nx) = s /\ Circular!Reverse(Circular!Around(pv)) = s
<1>1. /\ s \in Seq(Packets) /\ \A i, j \in 1 .. Len(s) : s[i] = s[j] => i = j
      /\ \A i \in 0 .. Len(s) : nx[LinkAt(s, i)] = LinkAt(s, i + 1)
      /\ \A i \in 0 .. Len(s) : pv[LinkAt(s, i + 1)] = LinkAt(s, i)
  BY DEF IsRing
<1>2. Circular!Around(nx) = s BY <1>1, AroundIs
<1>3. PICK n \in Nat : n = Len(s) BY <1>1, LenProperties
<1> DEFINE t == Reverse(s)
<1>4. t \in Seq(Packets) /\ Len(t) = n /\ \A i \in 1 .. n : t[i] = s[(n - i) + 1]
  <2>1. \A i \in 1 .. n : s[(n - i) + 1] \in Packets BY <1>1, <1>3, LenProperties
  <2>2. t = [i \in 1 .. n |-> s[(n - i) + 1]] BY <1>3 DEF Reverse
  <2>3. t \in [1 .. n -> Packets] BY <2>1, <2>2
  <2> HIDE DEF t
  <2> QED BY <1>3, <2>2, <2>3
<1> HIDE DEF t
<1>5. \A i, j \in 1 .. Len(t) : t[i] = t[j] => i = j
  <2> SUFFICES ASSUME NEW i \in 1 .. n, NEW j \in 1 .. n, t[i] = t[j] PROVE i = j BY <1>4
  <2>1. (n - i) + 1 \in 1 .. n /\ (n - j) + 1 \in 1 .. n OBVIOUS
  <2>2. (n - i) + 1 = (n - j) + 1 BY <1>1, <1>3, <1>4, <2>1
  <2> QED BY <2>2
<1>6. \A i \in 0 .. n + 1 : LinkAt(t, i) = LinkAt(s, (n - i) + 1)
  <2> SUFFICES ASSUME NEW i \in 0 .. n + 1 PROVE LinkAt(t, i) = LinkAt(s, (n - i) + 1) OBVIOUS
  <2>1. i \in 1 .. n <=> (n - i) + 1 \in 1 .. n OBVIOUS
  <2> QED BY <1>3, <1>4, <2>1 DEF LinkAt
<1>7. \A i \in 0 .. Len(t) : pv[LinkAt(t, i)] = LinkAt(t, i + 1)
  <2> SUFFICES ASSUME NEW i \in 0 .. n PROVE pv[LinkAt(t, i)] = LinkAt(t, i + 1) BY <1>4
  <2>1. n - i \in 0 .. n /\ i \in 0 .. n + 1 /\ i + 1 \in 0 .. n + 1 /\ (n - (i + 1)) + 1 = n - i
    OBVIOUS
  <2>2. pv[LinkAt(s, (n - i) + 1)] = LinkAt(s, n - i) BY <1>1, <1>3, <2>1
  <2> QED BY <1>6, <2>1, <2>2
<1>8. Circular!Around(pv) = t BY <1>4, <1>5, <1>7, AroundIs
<1>9. Circular!Reverse(t) = s
  <2>1. Reverse(t) = s BY <1>1, ReverseTwice DEF t
  <2> QED BY <2>1 DEF Circular!Reverse, Reverse
<1> QED BY <1>2, <1>8, <1>9

\* list_add_tail puts a packet behind the last one.
LEMMA RingGrows ==
    ASSUME NEW nx \in [Circular!Links -> LinkValues], NEW pv \in [Circular!Links -> LinkValues],
           NEW s, IsRing(nx, pv, s), NEW p \in Packets, p \notin ToSet(s)
    PROVE  LET head == Circular!packet_list
               last == pv[head]
           IN  /\ last \in Circular!Links
               /\ IsRing([nx EXCEPT ![p] = head, ![last] = p],
                         [pv EXCEPT ![p] = last, ![head] = p], Append(s, p))
<1> DEFINE head == Circular!packet_list
           last == pv[head]
           t    == Append(s, p)
<1>1. /\ s \in Seq(Packets) /\ \A i, j \in 1 .. Len(s) : s[i] = s[j] => i = j
      /\ \A i \in 0 .. Len(s) : nx[LinkAt(s, i)] = LinkAt(s, i + 1)
      /\ \A i \in 0 .. Len(s) : pv[LinkAt(s, i + 1)] = LinkAt(s, i)
  BY DEF IsRing
<1>2. PICK n \in Nat : n = Len(s) BY <1>1, LenProperties
<1>3. /\ \A i \in Int : LinkAt(s, i) \in Circular!Links
      /\ \A i \in 1 .. n : LinkAt(s, i) = s[i]
      /\ \A i \in Int : i \notin 1 .. n => LinkAt(s, i) = head
      /\ \A i, j \in 0 .. n : LinkAt(s, i) = LinkAt(s, j) => i = j
      /\ \A i, j \in 1 .. n + 1 : LinkAt(s, i) = LinkAt(s, j) => i = j
  BY <1>1, <1>2, LinksDiffer
<1>4. p # head /\ p \in Circular!Links /\ head \in Circular!Links
  BY DataAssumption DEF Circular!Links
<1> HIDE DEF head
<1>5. last = LinkAt(s, n)
  <2>1. n + 1 \in Int /\ n + 1 \notin 1 .. n /\ n \in 0 .. n OBVIOUS
  <2> QED BY <1>1, <1>2, <1>3, <2>1
<1>6. \A i \in Int : LinkAt(s, i) # p
  <2>1. \A i \in 1 .. n : s[i] # p BY <1>1, <1>2, ToSetIs
  <2> QED BY <1>3, <1>4, <2>1
<1>7. /\ t \in Seq(Packets) /\ Len(t) = n + 1 /\ t[n + 1] = p
      /\ \A i \in 1 .. n : t[i] = s[i]
  BY <1>1, <1>2, AppendProperties
<1>8. \A i \in 0 .. n + 2 :
        LinkAt(t, i) = IF i <= n THEN LinkAt(s, i) ELSE IF i = n + 1 THEN p ELSE head
  <2> HIDE DEF t
  <2> QED BY <1>2, <1>7 DEF LinkAt, head
<1>9. \A i, j \in 1 .. n + 1 : t[i] = t[j] => i = j
  <2> SUFFICES ASSUME NEW i \in 1 .. n + 1, NEW j \in 1 .. n + 1, t[i] = t[j] PROVE i = j
    OBVIOUS
  <2>1. \A k \in 1 .. n : t[k] = s[k] /\ t[k] # p BY <1>3, <1>6, <1>7
  <2> HIDE DEF t
  <2>2. CASE i = n + 1 BY <1>7, <2>1, <2>2
  <2>3. CASE j = n + 1 BY <1>7, <2>1, <2>3
  <2>4. CASE i \in 1 .. n /\ j \in 1 .. n BY <1>1, <1>2, <2>1, <2>4
  <2> QED BY <2>2, <2>3, <2>4
<1> DEFINE nx2 == [nx EXCEPT ![p] = head, ![last] = p]
           pv2 == [pv EXCEPT ![p] = last, ![head] = p]
<1>10. last \in Circular!Links BY <1>3, <1>5
<1>11. /\ nx2[p] = head /\ nx2[last] = p
       /\ \A l \in Circular!Links : l # p /\ l # last => nx2[l] = nx[l]
  BY <1>4, <1>5, <1>6, <1>10
<1>12. /\ pv2[p] = last /\ pv2[head] = p
       /\ \A l \in Circular!Links : l # p /\ l # head => pv2[l] = pv[l]
  BY <1>4, <1>10
<1> HIDE DEF t, last, nx2, pv2
<1>13. ASSUME NEW i \in 0 .. n + 1
       PROVE  nx2[LinkAt(t, i)] = LinkAt(t, i + 1) /\ pv2[LinkAt(t, i + 1)] = LinkAt(t, i)
  <2>1. i \in 0 .. n + 2 /\ i + 1 \in 0 .. n + 2 OBVIOUS
  <2>2. CASE i < n
    <3>1. LinkAt(t, i) = LinkAt(s, i) /\ LinkAt(t, i + 1) = LinkAt(s, i + 1) BY <1>8, <2>1, <2>2
    <3>2. /\ LinkAt(s, i) # last /\ LinkAt(s, i + 1) # head
          /\ LinkAt(s, i) # p /\ LinkAt(s, i + 1) # p
          /\ LinkAt(s, i) \in Circular!Links /\ LinkAt(s, i + 1) \in Circular!Links
      <4>1. LinkAt(s, i) # last
        <5>1. i \in 0 .. n /\ n \in 0 .. n /\ i # n BY <2>2
        <5> QED BY <1>3, <1>5, <5>1
      <4>2. LinkAt(s, i + 1) # head
        <5>1. i + 1 \in 1 .. n + 1 /\ n + 1 \in 1 .. n + 1 /\ i + 1 # n + 1 BY <2>2
        <5>2. LinkAt(s, n + 1) = head BY <1>3
        <5> QED BY <1>3, <5>1, <5>2
      <4> QED BY <1>3, <1>6, <4>1, <4>2
    <3>3. i \in 0 .. n BY <2>2
    <3> QED BY <1>1, <1>2, <1>11, <1>12, <3>1, <3>2, <3>3
  <2>3. CASE i = n
    <3>1. LinkAt(t, i) = last /\ LinkAt(t, i + 1) = p BY <1>5, <1>8, <2>1, <2>3
    <3> QED BY <1>11, <1>12, <3>1
  <2>4. CASE i = n + 1
    <3>1. LinkAt(t, i) = p /\ LinkAt(t, i + 1) = head BY <1>8, <2>1, <2>4
    <3> QED BY <1>11, <1>12, <3>1
  <2> QED BY <2>2, <2>3, <2>4
<1>14. IsRing(nx2, pv2, t) BY <1>7, <1>9, <1>13 DEF IsRing
<1> QED BY <1>10, <1>14 DEF nx2, pv2, t, last, head

\* list_del takes out the packet of any place.
LEMMA RingShrinks ==
    ASSUME NEW nx \in [Circular!Links -> LinkValues], NEW pv \in [Circular!Links -> LinkValues],
           NEW s, IsRing(nx, pv, s), NEW k \in 1 .. Len(s), NEW gone
    PROVE  LET p == s[k]
           IN  /\ nx[p] \in Circular!Links /\ pv[p] \in Circular!Links
               /\ IsRing([nx EXCEPT ![pv[p]] = nx[p], ![p] = gone],
                         [pv EXCEPT ![nx[p]] = pv[p], ![p] = gone], RemoveAt(s, k))
<1> DEFINE p == s[k]
           t == RemoveAt(s, k)
<1>1. /\ s \in Seq(Packets) /\ \A i, j \in 1 .. Len(s) : s[i] = s[j] => i = j
      /\ \A i \in 0 .. Len(s) : nx[LinkAt(s, i)] = LinkAt(s, i + 1)
      /\ \A i \in 0 .. Len(s) : pv[LinkAt(s, i + 1)] = LinkAt(s, i)
  BY DEF IsRing
<1>2. PICK n \in Nat : n = Len(s) BY <1>1, LenProperties
<1>3. /\ \A i \in Int : LinkAt(s, i) \in Circular!Links
      /\ \A i \in 1 .. n : LinkAt(s, i) = s[i]
      /\ \A i \in Int : i \notin 1 .. n => LinkAt(s, i) = Circular!packet_list
      /\ \A i, j \in 0 .. n : LinkAt(s, i) = LinkAt(s, j) => i = j
      /\ \A i, j \in 1 .. n + 1 : LinkAt(s, i) = LinkAt(s, j) => i = j
  BY <1>1, <1>2, LinksDiffer
<1>4. p = LinkAt(s, k) /\ nx[p] = LinkAt(s, k + 1) /\ pv[p] = LinkAt(s, k - 1)
  <2>1. k \in 0 .. n /\ k - 1 \in 0 .. n /\ (k - 1) + 1 = k BY <1>2
  <2> QED BY <1>1, <1>2, <1>3, <2>1
<1>5. /\ t \in Seq(Packets) /\ Len(t) = n - 1
      /\ \A i \in 1 .. n - 1 : t[i] = IF i < k THEN s[i] ELSE s[i + 1]
  BY <1>1, <1>2, RemoveAtProperties
<1> HIDE DEF t
<1>6. \A i \in 0 .. n : LinkAt(t, i) = IF i < k THEN LinkAt(s, i) ELSE LinkAt(s, i + 1)
  <2> SUFFICES ASSUME NEW i \in 0 .. n
               PROVE  LinkAt(t, i) = IF i < k THEN LinkAt(s, i) ELSE LinkAt(s, i + 1)
    OBVIOUS
  <2>1. CASE i \in 1 .. n - 1
    <3>1. i \in 1 .. n /\ i + 1 \in 1 .. n BY <2>1
    <3> QED BY <1>2, <1>3, <1>5, <2>1, <3>1 DEF LinkAt
  <2>2. CASE i = 0
    <3>1. i < k /\ i \notin 1 .. n - 1 /\ i \notin 1 .. n BY <1>2, <2>2
    <3> QED BY <1>2, <1>5, <3>1 DEF LinkAt
  <2>3. CASE i = n
    <3>1. ~(i < k) /\ i \notin 1 .. n - 1 /\ i + 1 \notin 1 .. n BY <1>2, <2>3
    <3> QED BY <1>2, <1>5, <3>1 DEF LinkAt
  <2> QED BY <2>1, <2>2, <2>3
<1>7. \A i, j \in 1 .. n - 1 : t[i] = t[j] => i = j
  <2> SUFFICES ASSUME NEW i \in 1 .. n - 1, NEW j \in 1 .. n - 1, t[i] = t[j] PROVE i = j
    OBVIOUS
  <2> DEFINE a == IF i < k THEN i ELSE i + 1
             b == IF j < k THEN j ELSE j + 1
  <2>1. a \in 1 .. n /\ b \in 1 .. n /\ (a = b => i = j) BY <1>2
  <2>2. t[i] = s[a] /\ t[j] = s[b] BY <1>5
  <2> HIDE DEF a, b
  <2> QED BY <1>1, <1>2, <2>1, <2>2
<1> DEFINE nx2 == [nx EXCEPT ![pv[p]] = nx[p], ![p] = gone]
           pv2 == [pv EXCEPT ![nx[p]] = pv[p], ![p] = gone]
<1>8. p \in Circular!Links /\ nx[p] \in Circular!Links /\ pv[p] \in Circular!Links BY <1>2, <1>3, <1>4
<1>9. p # nx[p] /\ p # pv[p]
  <2>1. k \in 0 .. n /\ k - 1 \in 0 .. n /\ k # k - 1 BY <1>2
  <2>2. k \in 1 .. n + 1 /\ k + 1 \in 1 .. n + 1 /\ k # k + 1 BY <1>2
  <2> QED BY <1>3, <1>4, <2>1, <2>2
<1>10. /\ nx2[pv[p]] = nx[p]
       /\ \A l \in Circular!Links : l # p /\ l # pv[p] => nx2[l] = nx[l]
  BY <1>8, <1>9
<1>11. /\ pv2[nx[p]] = pv[p]
       /\ \A l \in Circular!Links : l # p /\ l # nx[p] => pv2[l] = pv[l]
  BY <1>8, <1>9
<1> HIDE DEF nx2, pv2, p
<1>12. ASSUME NEW i \in 0 .. n - 1
       PROVE  nx2[LinkAt(t, i)] = LinkAt(t, i + 1)
  <2>1. i \in 0 .. n /\ i + 1 \in 0 .. n BY <1>2
  <2>2. CASE i = k - 1
    <3>1. LinkAt(t, i) = pv[p] /\ LinkAt(t, i + 1) = nx[p] BY <1>2, <1>4, <1>6, <2>1, <2>2
    <3> QED BY <1>10, <3>1
  <2>3. CASE i # k - 1
    <3> DEFINE j == IF i < k THEN i ELSE i + 1
    <3>1. j \in 0 .. n /\ j # k /\ j # k - 1 /\ k \in 0 .. n /\ k - 1 \in 0 .. n BY <1>2, <2>3
    <3>2. LinkAt(t, i) = LinkAt(s, j) /\ LinkAt(t, i + 1) = LinkAt(s, j + 1)
      BY <1>2, <1>6, <2>1, <2>3
    <3> HIDE DEF j
    <3>3. LinkAt(s, j) # p /\ LinkAt(s, j) # pv[p] /\ LinkAt(s, j) \in Circular!Links
      BY <1>3, <1>4, <3>1
    <3>4. nx[LinkAt(s, j)] = LinkAt(s, j + 1) BY <1>1, <1>2, <3>1
    <3> QED BY <1>10, <3>2, <3>3, <3>4
  <2> QED BY <2>2, <2>3
<1>13. ASSUME NEW i \in 0 .. n - 1
       PROVE  pv2[LinkAt(t, i + 1)] = LinkAt(t, i)
  <2>1. i \in 0 .. n /\ i + 1 \in 0 .. n BY <1>2
  <2>2. CASE i = k - 1
    <3>1. LinkAt(t, i) = pv[p] /\ LinkAt(t, i + 1) = nx[p] BY <1>2, <1>4, <1>6, <2>1, <2>2
    <3> QED BY <1>11, <3>1
  <2>3. CASE i # k - 1
    <3> DEFINE j == IF i < k THEN i ELSE i + 1
    <3>1. /\ j \in 0 .. n /\ j + 1 \in 1 .. n + 1 /\ j + 1 # k /\ j + 1 # k + 1
          /\ k \in 1 .. n + 1 /\ k + 1 \in 1 .. n + 1
      BY <1>2, <2>3
    <3>2. LinkAt(t, i) = LinkAt(s, j) /\ LinkAt(t, i + 1) = LinkAt(s, j + 1)
      BY <1>2, <1>6, <2>1, <2>3
    <3> HIDE DEF j
    <3>3. LinkAt(s, j + 1) # p /\ LinkAt(s, j + 1) # nx[p] /\ LinkAt(s, j + 1) \in Circular!Links
      BY <1>3, <1>4, <3>1
    <3>4. pv[LinkAt(s, j + 1)] = LinkAt(s, j) BY <1>1, <1>2, <3>1
    <3> QED BY <1>11, <3>2, <3>3, <3>4
  <2> QED BY <2>2, <2>3
<1>14. IsRing(nx2, pv2, t) BY <1>5, <1>7, <1>12, <1>13 DEF IsRing
<1> QED BY <1>8, <1>14 DEF nx2, pv2, t, p

\* The ring is that of the packets in use, in the order of their indices; the
\* deletion of all stands on the first of them, with the second one kept aside.
RingState(s) ==
    /\ IsRing(next, prev, s)
    /\ inUse = ToSet(s)
    /\ \A i \in 1 .. Len(s) : index[s[i]] < packet_index
    /\ \A i, j \in 1 .. Len(s) : i < j => index[s[i]] < index[s[j]]
    /\ pc # "menu" => pPkt = LinkAt(s, 1) /\ pPkt_next = LinkAt(s, 2)
    /\ pc = "done" => s = <<>>

RingInv == Circular!TypeOK /\ \E s : RingState(s)

\* What the invariant says at any place.
LEMMA RingFacts ==
    ASSUME Circular!TypeOK, NEW s, RingState(s)
    PROVE  /\ s \in Seq(Packets) /\ Len(s) \in Nat /\ DOMAIN s = 1 .. Len(s)
           /\ \A i, j \in 1 .. Len(s) : s[i] = s[j] => i = j
           /\ \A i \in 1 .. Len(s) : s[i] \in Packets /\ index[s[i]] \in Nat
           /\ next \in [Circular!Links -> LinkValues] /\ prev \in [Circular!Links -> LinkValues]
           /\ Circular!Ring = s /\ Circular!Reverse(Circular!Around(prev)) = s
           /\ MaxIndex \in Nat /\ packet_index \in Nat
<1>1. s \in Seq(Packets) /\ \A i, j \in 1 .. Len(s) : s[i] = s[j] => i = j
  BY DEF RingState, IsRing
<1>2. Len(s) \in Nat /\ DOMAIN s = 1 .. Len(s) /\ \A i \in 1 .. Len(s) : s[i] \in Packets
  BY <1>1, LenProperties
<1>3. next \in [Circular!Links -> LinkValues] /\ prev \in [Circular!Links -> LinkValues]
  BY DEF Circular!TypeOK, LinkValues
<1>4. MaxIndex \in Nat BY DataAssumption
<1>5. /\ \A p \in Packets : index[p] \in Nat
      /\ packet_index \in Nat
  BY <1>4 DEF Circular!TypeOK
<1>6. Circular!Around(next) = s /\ Circular!Reverse(Circular!Around(prev)) = s
  BY RingIs DEF RingState
<1>7. Circular!Ring = s BY <1>6 DEF Circular!Ring
<1> QED BY <1>1, <1>2, <1>3, <1>4, <1>5, <1>6, <1>7

\* The link from the first place goes to the second one, also around the head.
LEMMA SecondPlace ==
    ASSUME NEW nx, NEW pv, NEW s, IsRing(nx, pv, s)
    PROVE  nx[Circular!packet_list] = LinkAt(s, 1) /\ nx[LinkAt(s, 1)] = LinkAt(s, 2)
<1>1. /\ s \in Seq(Packets) /\ \A i, j \in 1 .. Len(s) : s[i] = s[j] => i = j
      /\ \A i \in 0 .. Len(s) : nx[LinkAt(s, i)] = LinkAt(s, i + 1)
  BY DEF IsRing
<1>2. PICK n \in Nat : n = Len(s) BY <1>1, LenProperties
<1>3. \A i \in Int : i \notin 1 .. n => LinkAt(s, i) = Circular!packet_list
  BY <1>1, <1>2, LinksDiffer
<1>4. nx[Circular!packet_list] = LinkAt(s, 1)
  <2>1. LinkAt(s, 0) = Circular!packet_list /\ 0 \in 0 .. n BY <1>3
  <2>2. nx[LinkAt(s, 0)] = LinkAt(s, 0 + 1) BY <1>1, <1>2, <2>1
  <2> QED BY <2>1, <2>2
<1>5. CASE n = 0 BY <1>3, <1>4, <1>5
<1>6. CASE n # 0
  <2>1. 1 \in 0 .. n BY <1>6
  <2>2. nx[LinkAt(s, 1)] = LinkAt(s, 1 + 1) BY <1>1, <1>2, <2>1
  <2> QED BY <1>4, <2>2
<1> QED BY <1>5, <1>6

\* The ring has no packets at first.
LEMMA RingInitKeeps == Circular!Init => RingInv
<1> SUFFICES ASSUME Circular!Init PROVE RingInv OBVIOUS
<1> DEFINE s == <<>>
<1>1. Len(s) = 0 /\ s \in Seq(Packets) /\ MaxIndex \in Nat BY DataAssumption
<1>2. next \in [Circular!Links -> LinkValues] /\ prev \in [Circular!Links -> LinkValues]
  BY DEF Circular!Init, Circular!Links, LinkValues
<1>3. Circular!TypeOK BY <1>1, <1>2 DEF Circular!Init, Circular!TypeOK, LinkValues
<1>4. ToSet(s) = {} BY <1>1, ToSetIs
<1> HIDE DEF s
<1>5. LinkAt(s, 0) = Circular!packet_list /\ LinkAt(s, 1) = Circular!packet_list
  BY <1>1 DEF LinkAt
<1>6. next[Circular!packet_list] = Circular!packet_list /\ prev[Circular!packet_list] = Circular!packet_list
  BY DEF Circular!Init, Circular!Links
<1>7. IsRing(next, prev, s) BY <1>1, <1>5, <1>6 DEF IsRing
<1>8. RingState(s) BY <1>1, <1>4, <1>7 DEF RingState, Circular!Init
<1> QED BY <1>3, <1>8 DEF RingInv

\* A packet deleted from any place, by the menu or with all the others.
LEMMA RingDeletes ==
    ASSUME Circular!TypeOK, NEW s, RingState(s), NEW k \in 1 .. Len(s),
           Circular!list_del(s[k]), Circular!free(s[k]),
           UNCHANGED <<index, packet_index>>
    PROVE  /\ next' \in [Circular!Links -> LinkValues] /\ prev' \in [Circular!Links -> LinkValues]
           /\ IsRing(next', prev', RemoveAt(s, k))
           /\ inUse' = ToSet(RemoveAt(s, k)) /\ inUse' \subseteq Packets
           /\ \A i \in 1 .. Len(RemoveAt(s, k)) : index'[RemoveAt(s, k)[i]] < packet_index'
           /\ \A i, j \in 1 .. Len(RemoveAt(s, k)) :
                i < j => index'[RemoveAt(s, k)[i]] < index'[RemoveAt(s, k)[j]]
<1> DEFINE t == RemoveAt(s, k)
<1>1. /\ s \in Seq(Packets) /\ Len(s) \in Nat
      /\ \A i, j \in 1 .. Len(s) : s[i] = s[j] => i = j
      /\ next \in [Circular!Links -> LinkValues] /\ prev \in [Circular!Links -> LinkValues]
      /\ IsRing(next, prev, s) /\ s[k] \in Packets
      /\ \A i \in 1 .. Len(s) : index[s[i]] < packet_index
      /\ \A i, j \in 1 .. Len(s) : i < j => index[s[i]] < index[s[j]]
      /\ inUse = ToSet(s)
  BY RingFacts DEF RingState
<1>2. /\ next[s[k]] \in Circular!Links /\ prev[s[k]] \in Circular!Links
      /\ IsRing([next EXCEPT ![prev[s[k]]] = next[s[k]], ![s[k]] = Circular!Poison],
                [prev EXCEPT ![next[s[k]]] = prev[s[k]], ![s[k]] = Circular!Poison], RemoveAt(s, k))
  BY <1>1, RingShrinks
<1>3. /\ next' = [next EXCEPT ![prev[s[k]]] = next[s[k]], ![s[k]] = Circular!Poison]
      /\ prev' = [prev EXCEPT ![next[s[k]]] = prev[s[k]], ![s[k]] = Circular!Poison]
  BY DEF Circular!list_del
<1>4. next' \in [Circular!Links -> LinkValues] /\ prev' \in [Circular!Links -> LinkValues]
  BY <1>1, <1>2, <1>3 DEF LinkValues
<1>5. IsRing(next', prev', t) BY <1>2, <1>3
<1>6. ToSet(t) = ToSet(s) \ {s[k]} BY <1>1, ToSetShorter
<1>7. inUse' = ToSet(t) /\ inUse' \subseteq Packets
  BY <1>1, <1>6, ToSetIs DEF Circular!free
<1>8. /\ t \in Seq(Packets) /\ Len(t) = Len(s) - 1
      /\ \A i \in 1 .. Len(s) - 1 : t[i] = IF i < k THEN s[i] ELSE s[i + 1]
  BY <1>1, RemoveAtProperties
<1> HIDE DEF t
<1>9. /\ \A i \in 1 .. Len(t) : index'[t[i]] < packet_index'
      /\ \A i, j \in 1 .. Len(t) : i < j => index'[t[i]] < index'[t[j]]
  <2>1. index' = index /\ packet_index' = packet_index OBVIOUS
  <2>2. ASSUME NEW i \in 1 .. Len(t) PROVE index[t[i]] < packet_index
    <3>1. i \in 1 .. Len(s) /\ i + 1 \in 1 .. Len(s) BY <1>1, <1>8
    <3> QED BY <1>1, <1>8, <3>1
  <2>3. ASSUME NEW i \in 1 .. Len(t), NEW j \in 1 .. Len(t), i < j PROVE index[t[i]] < index[t[j]]
    <3> DEFINE a == IF i < k THEN i ELSE i + 1
               b == IF j < k THEN j ELSE j + 1
    <3>1. a \in 1 .. Len(s) /\ b \in 1 .. Len(s) /\ a < b BY <1>1, <1>8, <2>3
    <3>2. t[i] = s[a] /\ t[j] = s[b] BY <1>1, <1>8
    <3> HIDE DEF a, b
    <3> QED BY <1>1, <3>1, <3>2
  <2> QED BY <2>1, <2>2, <2>3
<1> QED BY <1>4, <1>5, <1>7, <1>9 DEF t

\* A packet more, a packet less, and each turn of the loop that deletes all of
\* them: the ring stays one.
LEMMA RingNextKeeps == RingInv /\ Circular!Next => RingInv'
<1> SUFFICES ASSUME RingInv, Circular!Next PROVE RingInv' OBVIOUS
<1>1. Circular!TypeOK BY DEF RingInv
<1>2. PICK s : RingState(s) BY DEF RingInv
<1>3. /\ s \in Seq(Packets) /\ Len(s) \in Nat /\ DOMAIN s = 1 .. Len(s)
      /\ \A i, j \in 1 .. Len(s) : s[i] = s[j] => i = j
      /\ \A i \in 1 .. Len(s) : s[i] \in Packets /\ index[s[i]] \in Nat
      /\ next \in [Circular!Links -> LinkValues] /\ prev \in [Circular!Links -> LinkValues]
      /\ Circular!Ring = s
      /\ MaxIndex \in Nat /\ packet_index \in Nat
  BY <1>1, <1>2, RingFacts
<1>4. /\ IsRing(next, prev, s) /\ inUse = ToSet(s)
      /\ \A i \in 1 .. Len(s) : index[s[i]] < packet_index
      /\ \A i, j \in 1 .. Len(s) : i < j => index[s[i]] < index[s[j]]
      /\ pc # "menu" => pPkt = LinkAt(s, 1) /\ pPkt_next = LinkAt(s, 2)
      /\ pc = "done" => s = <<>>
  BY <1>2 DEF RingState
<1>5. /\ index \in [Packets -> 0 .. MaxIndex] /\ packet_index \in 1 .. MaxIndex + 1
      /\ pc \in {"menu", "delete_all", "done"} /\ inUse \subseteq Packets
      /\ {pPkt, pPkt_next} \subseteq Circular!Links \cup {Circular!Null, Circular!Poison}
  BY <1>1 DEF Circular!TypeOK
<1>6. \A t \in Seq(Packets), i \in Int : LinkAt(t, i) \in Circular!Links
  BY LenProperties DEF LinkAt, Circular!Links
<1>7. ASSUME NEW p \in Packets, Circular!InsertPacket(p) PROVE RingInv'
  <2> DEFINE t == Append(s, p)
  <2>1. /\ pc = "menu" /\ p \notin inUse /\ packet_index <= MaxIndex
        /\ inUse' = inUse \cup {p}
        /\ index' = [index EXCEPT ![p] = packet_index]
        /\ packet_index' = packet_index + 1
        /\ UNCHANGED <<pc, pPkt, pPkt_next>>
        /\ next' = [next EXCEPT ![p] = Circular!packet_list, ![prev[Circular!packet_list]] = p]
        /\ prev' = [prev EXCEPT ![p] = prev[Circular!packet_list], ![Circular!packet_list] = p]
    BY <1>7 DEF Circular!InsertPacket, Circular!list_add_tail
  <2>2. p \notin ToSet(s) BY <1>4, <2>1
  <2>3. prev[Circular!packet_list] \in Circular!Links /\ IsRing(next', prev', t)
    BY <1>3, <1>4, <2>1, <2>2, RingGrows
  <2>4. next' \in [Circular!Links -> LinkValues] /\ prev' \in [Circular!Links -> LinkValues]
    BY <1>3, <2>1, <2>3 DEF LinkValues, Circular!Links
  <2>5. Circular!TypeOK'
    <3>1. index' \in [Packets -> 0 .. MaxIndex] BY <1>3, <1>5, <2>1
    <3>2. packet_index' \in 1 .. MaxIndex + 1 BY <1>3, <1>5, <2>1
    <3> QED BY <1>5, <2>1, <2>4, <3>1, <3>2 DEF Circular!TypeOK, LinkValues
  <2>6. inUse' = ToSet(t) BY <1>3, <1>4, <2>1, ToSetAppend
  <2>7. \A i \in 1 .. Len(s) : s[i] # p BY <1>3, <2>2, ToSetIs
  <2>8. /\ t \in Seq(Packets) /\ Len(t) = Len(s) + 1 /\ t[Len(s) + 1] = p
        /\ \A i \in 1 .. Len(s) : t[i] = s[i]
    BY <1>3, AppendProperties
  <2> HIDE DEF t
  <2>9. /\ index'[t[Len(s) + 1]] = packet_index
        /\ \A i \in 1 .. Len(s) : index'[t[i]] = index[s[i]]
    BY <1>3, <1>5, <2>1, <2>7, <2>8
  <2>10. \A i \in 1 .. Len(t) : index'[t[i]] < packet_index'
    <3> SUFFICES ASSUME NEW i \in 1 .. Len(t) PROVE index'[t[i]] < packet_index' OBVIOUS
    <3>1. CASE i = Len(s) + 1 BY <1>3, <2>1, <2>9, <3>1
    <3>2. CASE i \in 1 .. Len(s) BY <1>3, <1>4, <2>1, <2>9, <3>2
    <3> QED BY <1>3, <2>8, <3>1, <3>2
  <2>11. \A i, j \in 1 .. Len(t) : i < j => index'[t[i]] < index'[t[j]]
    <3> SUFFICES ASSUME NEW i \in 1 .. Len(t), NEW j \in 1 .. Len(t), i < j
                 PROVE  index'[t[i]] < index'[t[j]]
      OBVIOUS
    <3>1. i \in 1 .. Len(s) BY <1>3, <2>8
    <3>2. CASE j = Len(s) + 1 BY <1>4, <2>9, <3>1, <3>2
    <3>3. CASE j \in 1 .. Len(s) BY <1>4, <2>9, <3>1, <3>3
    <3> QED BY <1>3, <2>8, <3>2, <3>3
  <2>12. pc' = "menu" BY <2>1
  <2>13. RingState(t)' BY <2>3, <2>6, <2>10, <2>11, <2>12 DEF RingState
  <2> QED BY <2>5, <2>13 DEF RingInv
<1>8. ASSUME NEW i \in 1 .. MaxIndex, Circular!DeletePacket(i) PROVE RingInv'
  <2> DEFINE found == {k \in 1 .. Len(s) : index[s[k]] = i}
  <2>1. /\ pc = "menu" /\ found # {}
        /\ Circular!list_del(s[Circular!Min(found)]) /\ Circular!free(s[Circular!Min(found)])
        /\ UNCHANGED <<index, packet_index, pc, pPkt, pPkt_next>>
    BY <1>3, <1>8 DEF Circular!DeletePacket
  <2>2. Circular!Min(found) \in 1 .. Len(s)
    <3>1. Min(found) \in found
      <4>1. found \in SUBSET Nat /\ found # {} BY <2>1
      <4> HIDE DEF found
      <4> QED BY <4>1, MinIsLeast
    <3>2. Circular!Min(found) = Min(found) BY DEF Circular!Min, Min
    <3> QED BY <3>1, <3>2
  <2> HIDE DEF found
  <2>3. PICK k \in 1 .. Len(s) : k = Circular!Min(found) BY <2>2
  <2>4. Circular!list_del(s[k]) /\ Circular!free(s[k]) BY <2>1, <2>3
  <2>5. /\ next' \in [Circular!Links -> LinkValues] /\ prev' \in [Circular!Links -> LinkValues]
        /\ IsRing(next', prev', RemoveAt(s, k))
        /\ inUse' = ToSet(RemoveAt(s, k)) /\ inUse' \subseteq Packets
        /\ \A j \in 1 .. Len(RemoveAt(s, k)) : index'[RemoveAt(s, k)[j]] < packet_index'
        /\ \A j, m \in 1 .. Len(RemoveAt(s, k)) :
             j < m => index'[RemoveAt(s, k)[j]] < index'[RemoveAt(s, k)[m]]
    BY <1>1, <1>2, <2>1, <2>4, RingDeletes
  <2>6. Circular!TypeOK' BY <1>5, <2>1, <2>5 DEF Circular!TypeOK, LinkValues
  <2>7. pc' = "menu" BY <2>1
  <2>8. RingState(RemoveAt(s, k))' BY <2>5, <2>7 DEF RingState
  <2> QED BY <2>6, <2>8 DEF RingInv
<1>9. CASE Circular!StartDeleteAll
  <2>1. /\ pPkt' = next[Circular!packet_list] /\ pPkt_next' = next[next[Circular!packet_list]]
        /\ pc' = "delete_all" /\ UNCHANGED <<next, prev, index, packet_index, inUse>>
    BY <1>9 DEF Circular!StartDeleteAll
  <2>2. pPkt' = LinkAt(s, 1) /\ pPkt_next' = LinkAt(s, 2) BY <1>4, <2>1, SecondPlace
  <2>3. Circular!TypeOK' BY <1>1, <1>3, <1>6, <2>1, <2>2 DEF Circular!TypeOK
  <2>4. RingState(s)' BY <1>4, <2>1, <2>2 DEF RingState
  <2> QED BY <2>3, <2>4 DEF RingInv
<1>10. CASE Circular!DeleteOne
  <2> DEFINE t == RemoveAt(s, 1)
  <2>1. /\ pc = "delete_all" /\ pPkt # Circular!packet_list
        /\ Circular!list_del(pPkt) /\ Circular!free(pPkt)
        /\ pPkt' = pPkt_next /\ pPkt_next' = next'[pPkt_next]
        /\ UNCHANGED <<index, packet_index, pc>>
    BY <1>10 DEF Circular!DeleteOne
  <2>2. pPkt = LinkAt(s, 1) /\ pPkt_next = LinkAt(s, 2) BY <1>4, <2>1
  <2>3. 1 \in 1 .. Len(s) /\ pPkt = s[1] BY <2>1, <2>2 DEF LinkAt
  <2>4. Circular!list_del(s[1]) /\ Circular!free(s[1]) BY <2>1, <2>3
  <2>5. /\ next' \in [Circular!Links -> LinkValues] /\ prev' \in [Circular!Links -> LinkValues]
        /\ IsRing(next', prev', t)
        /\ inUse' = ToSet(t) /\ inUse' \subseteq Packets
        /\ \A j \in 1 .. Len(t) : index'[t[j]] < packet_index'
        /\ \A j, m \in 1 .. Len(t) : j < m => index'[t[j]] < index'[t[m]]
    BY <1>1, <1>2, <2>1, <2>3, <2>4, RingDeletes
  <2>6. t \in Seq(Packets) BY <1>3, <2>3, RemoveAtProperties
  <2>7. LinkAt(t, 1) = LinkAt(s, 2)
    <3>1. /\ Len(t) = Len(s) - 1
          /\ \A i \in 1 .. Len(s) - 1 : t[i] = IF i < 1 THEN s[i] ELSE s[i + 1]
      <4>1. s \in Seq(Packets) BY <1>3
      <4> QED BY ONLY <2>3, <4>1, RemoveAtProperties
    <3> HIDE DEF t
    <3>2. CASE Len(s) = 1 BY <3>1, <3>2 DEF LinkAt
    <3>3. CASE Len(s) # 1
      <4>1. 1 \in 1 .. Len(s) - 1 /\ 2 \in 1 .. Len(s) BY <1>3, <2>3, <3>3
      <4>2. t[1] = s[1 + 1] BY <3>1, <4>1
      <4> QED BY <3>1, <4>1, <4>2 DEF LinkAt
    <3> QED BY <3>2, <3>3
  <2>8. pPkt' = LinkAt(t, 1) /\ pPkt_next' = LinkAt(t, 2)
    <3>1. next'[LinkAt(t, 1)] = LinkAt(t, 2) BY <2>5, SecondPlace
    <3> QED BY <2>1, <2>2, <2>7, <3>1
  <2>9. Circular!TypeOK' BY <1>5, <1>6, <2>1, <2>5, <2>6, <2>8 DEF Circular!TypeOK, LinkValues
  <2>10. pc' = "delete_all" BY <2>1
  <2> HIDE DEF t
  <2>11. RingState(t)' BY <2>5, <2>8, <2>10 DEF RingState
  <2> QED BY <2>9, <2>11 DEF RingInv
<1>11. CASE Circular!Return
  <2>1. /\ pc = "delete_all" /\ pPkt = Circular!packet_list /\ pc' = "done"
        /\ UNCHANGED <<next, prev, index, packet_index, inUse, pPkt, pPkt_next>>
    BY <1>11 DEF Circular!Return
  <2>2. s = <<>>
    <3>1. Len(s) = 0
      <4> SUFFICES ASSUME Len(s) # 0 PROVE FALSE OBVIOUS
      <4>1. 1 \in 1 .. Len(s) BY <1>3
      <4>2. s[1] # Circular!packet_list BY <1>3, <4>1, LinksDiffer
      <4> QED BY <1>4, <2>1, <4>1, <4>2 DEF LinkAt
    <3> QED BY <1>3, <3>1, EmptySeq
  <2>3. Circular!TypeOK' BY <1>1, <2>1 DEF Circular!TypeOK
  <2>4. RingState(s)' BY <1>4, <2>1, <2>2 DEF RingState
  <2> QED BY <2>3, <2>4 DEF RingInv
<1> QED BY <1>7, <1>8, <1>9, <1>10, <1>11 DEF Circular!Next

\* A ring that is the sequence of the packets has all that is to be shown of it.
LEMMA RingInvShows == RingInv => RingHoldsPackets
<1> SUFFICES ASSUME RingInv PROVE RingHoldsPackets OBVIOUS
<1>1. Circular!TypeOK BY DEF RingInv
<1>2. PICK s : RingState(s) BY DEF RingInv
<1>3. /\ s \in Seq(Packets) /\ DOMAIN s = 1 .. Len(s)
      /\ Circular!Ring = s /\ Circular!Reverse(Circular!Around(prev)) = s
  BY <1>1, <1>2, RingFacts
<1>4. Circular!ToSet(s) = ToSet(s) BY DEF Circular!ToSet, ToSet
<1>5. ToSet(s) \subseteq Packets BY <1>3, ToSetIs
<1>6. Circular!RingAgrees BY <1>2, <1>3, <1>4, <1>5 DEF Circular!RingAgrees, RingState
<1>7. Circular!NoPacketAfterFree
  <2>1. inUse = ToSet(s) BY <1>2 DEF RingState
  <2>2. \A i \in Int : LinkAt(s, i) \in ToSet(s) \cup {Circular!packet_list}
    BY <1>3, ToSetIs DEF LinkAt
  <2>3. pc # "menu" => {pPkt, pPkt_next} \subseteq inUse \cup {Circular!packet_list}
    BY <1>2, <2>1, <2>2 DEF RingState
  <2>4. pc = "done" => inUse = {} BY <1>2, <1>3, <2>1, ToSetIs DEF RingState
  <2> QED BY <1>3, <1>4, <2>1, <2>3, <2>4 DEF Circular!NoPacketAfterFree
<1> QED BY <1>1, <1>6, <1>7 DEF RingHoldsPackets

\* A step of the ring or of another program keeps it.
LEMMA RingStepKeeps ==
    ASSUME RingInv, Circular!Next \/ UNCHANGED circularVars
    PROVE  RingInv'
<1>1. CASE Circular!Next BY <1>1, RingNextKeeps
<1>2. CASE UNCHANGED circularVars
  <2>1. UNCHANGED <<next, prev, index, packet_index, inUse, pc, pPkt, pPkt_next>>
    BY <1>2 DEF circularVars
  <2>2. PICK s : RingState(s) BY DEF RingInv
  <2>3. RingState(s)' BY <2>1, <2>2 DEF RingState
  <2>4. Circular!TypeOK' BY <2>1 DEF RingInv, Circular!TypeOK
  <2> QED BY <2>3, <2>4 DEF RingInv
<1> QED BY <1>1, <1>2

-------------------------------------------------------------------------------
(* Sums over sets.                                                         *)

\* A number of things for each member of a set: f[x] for x.
Units(f, S) == {u \in S \X Nat : u[2] \in 1 .. f[u[1]]}

\* The sum of f over S.
SumOver(f, S) == Cardinality(Units(f, S))

Summable(f, S) == \A x \in S : f[x] \in Nat

\* With one more member there are as many more units as it has.
LEMMA UnitsOfOneMore ==
    ASSUME NEW f, NEW S, IsFiniteSet(Units(f, S)), NEW x, x \notin S, f[x] \in Nat
    PROVE  /\ IsFiniteSet(Units(f, S \cup {x}))
           /\ SumOver(f, S \cup {x}) = SumOver(f, S) + f[x]
<1> DEFINE own == {<<x, i>> : i \in 1 .. f[x]}
           g == [i \in 1 .. f[x] |-> <<x, i>>]
<1>1. IsFiniteSet(1 .. f[x]) /\ Cardinality(1 .. f[x]) = f[x] BY CardinalityUpTo
<1>2. g \in Surjection(1 .. f[x], own) BY DEF Surjection
<1>3. g \in Injection(1 .. f[x], own) BY DEF Injection, IsInjective
<1>4. IsFiniteSet(own) /\ Cardinality(own) = f[x]
  <2> HIDE DEF own, g
  <2> QED BY <1>1, <1>2, <1>3, FS_Surjection
<1>5. Units(f, S) \cap own = {} BY DEF Units
<1>6. Units(f, S \cup {x}) = Units(f, S) \cup own
  <2>1. ASSUME NEW u \in Units(f, S \cup {x}) PROVE u \in Units(f, S) \cup own
    BY DEF Units
  <2>2. ASSUME NEW u \in own PROVE u \in Units(f, S \cup {x})
    BY DEF Units
  <2>3. ASSUME NEW u \in Units(f, S) PROVE u \in Units(f, S \cup {x})
    BY DEF Units
  <2> QED BY <2>1, <2>2, <2>3
<1>7. Cardinality(Units(f, S)) \in Nat BY FS_CardinalityType
<1> HIDE DEF own
<1>8. /\ IsFiniteSet(Units(f, S) \cup own)
      /\ Cardinality(Units(f, S) \cup own) = Cardinality(Units(f, S)) + f[x] - Cardinality({})
  BY <1>4, <1>5, FS_Union
<1>9. Cardinality({}) = 0 BY FS_EmptySet
<1>10. Cardinality(Units(f, S)) + f[x] - Cardinality({}) = Cardinality(Units(f, S)) + f[x]
  BY <1>7, <1>9
<1> QED BY <1>6, <1>8, <1>10 DEF SumOver

\* A finite set has a finite sum.
LEMMA UnitsFinite ==
    ASSUME NEW f, NEW S, IsFiniteSet(S), Summable(f, S)
    PROVE  IsFiniteSet(Units(f, S)) /\ SumOver(f, S) \in Nat
<1> DEFINE G == {n \in Nat : \A T \in SUBSET S : Cardinality(T) = n => IsFiniteSet(Units(f, T))}
<1>1. 0 \in G
  <2> SUFFICES ASSUME NEW T \in SUBSET S, Cardinality(T) = 0 PROVE IsFiniteSet(Units(f, T))
    OBVIOUS
  <2>1. T = {} BY FS_Subset, FS_EmptySet
  <2>2. Units(f, T) = {} BY <2>1 DEF Units
  <2> QED BY <2>2, FS_EmptySet
<1>2. ASSUME NEW n \in Nat, n \in G PROVE n + 1 \in G
  <2> SUFFICES ASSUME NEW T \in SUBSET S, Cardinality(T) = n + 1 PROVE IsFiniteSet(Units(f, T))
    OBVIOUS
  <2>1. IsFiniteSet(T) BY FS_Subset
  <2>2. T # {} BY FS_EmptySet
  <2>3. PICK x \in T : TRUE BY <2>2
  <2>4. Cardinality(T \ {x}) = n
    <3>1. Cardinality(T \ {x}) = Cardinality(T) - 1 BY <2>1, <2>3, FS_RemoveElement
    <3> QED BY <3>1
  <2>5. IsFiniteSet(Units(f, T \ {x})) BY <1>2, <2>4
  <2>6. f[x] \in Nat /\ x \notin T \ {x} /\ T = (T \ {x}) \cup {x} BY <2>3 DEF Summable
  <2> QED BY <2>5, <2>6, UnitsOfOneMore
<1>3. Cardinality(S) \in Nat BY FS_CardinalityType
<1>4. Cardinality(S) \in G
  <2> HIDE DEF G
  <2> QED BY <1>1, <1>2, <1>3, SetInduction
<1>5. IsFiniteSet(Units(f, S)) BY <1>4
<1> QED BY <1>5, FS_CardinalityType DEF SumOver

\* The sum over nothing.
LEMMA SumOfNone ==
    ASSUME NEW f
    PROVE  SumOver(f, {}) = 0
<1>1. Units(f, {}) = {} BY DEF Units
<1> QED BY <1>1, FS_EmptySet DEF SumOver

\* The sum over a set is that over the others and one.
LEMMA SumOfOneMore ==
    ASSUME NEW f, NEW S, IsFiniteSet(S), Summable(f, S), NEW x \in S
    PROVE  /\ f[x] \in Nat /\ SumOver(f, S) \in Nat /\ SumOver(f, S \ {x}) \in Nat
           /\ SumOver(f, S) = SumOver(f, S \ {x}) + f[x]
<1>1. PICK R : R = S \ {x} OBVIOUS
<1>2. f[x] \in Nat /\ x \notin R /\ R \cup {x} = S BY <1>1 DEF Summable
<1>3. IsFiniteSet(R) /\ Summable(f, R) BY <1>1, FS_RemoveElement DEF Summable
<1>4. IsFiniteSet(Units(f, R)) /\ SumOver(f, R) \in Nat BY <1>3, UnitsFinite
<1>5. SumOver(f, R \cup {x}) = SumOver(f, R) + f[x] BY <1>2, <1>4, UnitsOfOneMore
<1>6. SumOver(f, S) = SumOver(f, R) + f[x] BY <1>2, <1>5
<1> QED BY <1>1, <1>2, <1>4, <1>6

\* Functions that agree on a set have the same sum, and members for which a
\* function is zero make no difference.
LEMMA SumOfSame ==
    ASSUME NEW f, NEW g, NEW S, NEW T \in SUBSET S, \A x \in T : f[x] = g[x],
           Summable(f, T), \A x \in S \ T : g[x] = 0
    PROVE  SumOver(f, T) = SumOver(g, S)
<1>1. Units(f, T) = Units(g, S)
  <2>1. ASSUME NEW u \in Units(f, T) PROVE u \in Units(g, S) BY DEF Units
  <2>2. ASSUME NEW u \in Units(g, S) PROVE u \in Units(f, T) BY DEF Units
  <2> QED BY <2>1, <2>2
<1> QED BY <1>1 DEF SumOver

\* A fold with + is the sum: SumOver(f, .) is a function on the subsets that
\* takes one member after another off, and there is only one.
Taken(s) == CHOOSE x \in s : TRUE

IsSum(g, f, S) ==
    g = [s \in SUBSET S |-> IF s = {} THEN 0 ELSE f[Taken(s)] + g[s \ {Taken(s)}]]

\* There is a fold that takes the members of a set one by one.
LEMMA SumExists ==
    ASSUME NEW f, NEW S, IsFiniteSet(S), Summable(f, S)
    PROVE  \E g : IsSum(g, f, S)
<1> DEFINE g == [s \in SUBSET S |-> SumOver(f, s)]
<1>1. ASSUME NEW s \in SUBSET S
      PROVE  g[s] = IF s = {} THEN 0 ELSE f[Taken(s)] + g[s \ {Taken(s)}]
  <2>1. CASE s = {} BY <2>1, SumOfNone
  <2>2. CASE s # {}
    <3>1. Taken(s) \in s BY <2>2 DEF Taken
    <3>2. IsFiniteSet(s) /\ Summable(f, s) BY FS_Subset DEF Summable
    <3>3. /\ f[Taken(s)] \in Nat /\ SumOver(f, s \ {Taken(s)}) \in Nat
          /\ SumOver(f, s) = SumOver(f, s \ {Taken(s)}) + f[Taken(s)]
      BY <3>1, <3>2, SumOfOneMore
    <3> QED BY <2>2, <3>3
  <2> QED BY <2>1, <2>2
<1>2. IsSum(g, f, S)
  <2>1. g = [s \in SUBSET S |-> g[s]] OBVIOUS
  <2> HIDE DEF g
  <2>2. [s \in SUBSET S |-> g[s]]
          = [s \in SUBSET S |-> IF s = {} THEN 0 ELSE f[Taken(s)] + g[s \ {Taken(s)}]]
    BY <1>1
  <2> QED BY <2>1, <2>2 DEF IsSum
<1> QED BY <1>2

\* In whatever order it takes them, it adds up to the sum.
LEMMA SumIsUnique ==
    ASSUME NEW f, NEW S, IsFiniteSet(S), Summable(f, S), NEW g, IsSum(g, f, S)
    PROVE  g[S] = SumOver(f, S)
<1> DEFINE G == {n \in Nat : \A T \in SUBSET S : Cardinality(T) = n => g[T] = SumOver(f, T)}
<1>1. \A T \in SUBSET S : g[T] = IF T = {} THEN 0 ELSE f[Taken(T)] + g[T \ {Taken(T)}]
  BY DEF IsSum
<1>2. 0 \in G
  <2> SUFFICES ASSUME NEW T \in SUBSET S, Cardinality(T) = 0 PROVE g[T] = SumOver(f, T)
    OBVIOUS
  <2>1. T = {} BY FS_Subset, FS_EmptySet
  <2> QED BY <1>1, <2>1, SumOfNone
<1>3. ASSUME NEW n \in Nat, n \in G PROVE n + 1 \in G
  <2> SUFFICES ASSUME NEW T \in SUBSET S, Cardinality(T) = n + 1 PROVE g[T] = SumOver(f, T)
    OBVIOUS
  <2>1. IsFiniteSet(T) /\ Summable(f, T) BY FS_Subset DEF Summable
  <2>2. T # {} BY FS_EmptySet
  <2>3. Taken(T) \in T BY <2>2 DEF Taken
  <2>4. Cardinality(T \ {Taken(T)}) = n BY <2>1, <2>3, FS_RemoveElement
  <2>5. g[T \ {Taken(T)}] = SumOver(f, T \ {Taken(T)}) BY <1>3, <2>4
  <2>6. /\ f[Taken(T)] \in Nat /\ SumOver(f, T \ {Taken(T)}) \in Nat
        /\ SumOver(f, T) = SumOver(f, T \ {Taken(T)}) + f[Taken(T)]
    BY <2>1, <2>3, SumOfOneMore
  <2> QED BY <1>1, <2>2, <2>5, <2>6
<1>4. Cardinality(S) \in Nat BY FS_CardinalityType
<1>5. Cardinality(S) \in G
  <2> HIDE DEF G
  <2> QED BY <1>2, <1>3, <1>4, SetInduction
<1> QED BY <1>5

\* So does the one that the model takes.
LEMMA FoldIsSum ==
    ASSUME NEW f, NEW S, IsFiniteSet(S), Summable(f, S)
    PROVE  Dict!FoldFunctionOnSet(LAMBDA x, y : x + y, 0, f, S) = SumOver(f, S)
<1> DEFINE g == CHOOSE h : IsSum(h, f, S)
<1>1. IsSum(g, f, S) BY SumExists
<1>2. Dict!FoldFunctionOnSet(LAMBDA x, y : x + y, 0, f, S) = g[S]
  BY DEF Dict!FoldFunctionOnSet, Dict!MapThenFoldSet, IsSum, Taken
<1> HIDE DEF g
<1> QED BY <1>1, <1>2, SumIsUnique

-------------------------------------------------------------------------------
(* The tree of words.                                                      *)

\* What names a node of the tree: a word, or the empty one for the root.
Names == Dict!Words \cup {Dict!Root}

\* Names are the words, of up to MaxLen letters, and the root.
LEMMA NamesAre ==
    /\ \A p : p \in Names <=> p \in Seq(Dict!Letters) /\ Len(p) <= MaxLen
    /\ \A p : p \in Dict!Words <=> p \in Names /\ p # <<>>
    /\ \A p \in Names :
         /\ Len(p) \in Nat /\ \A i \in 1 .. Len(p) : p[i] \in Dict!Letters
         /\ Len(p) = 0 <=> p = <<>>
    /\ <<>> \in Names
<1>1. MaxLen \in Nat BY DataAssumption
<1>2. <<>> \in Seq(Dict!Letters) /\ Len(<<>>) = 0 BY EmptySeq
<1>3. ASSUME NEW p \in Dict!BoundedSeq(Dict!Letters, MaxLen)
      PROVE  p \in Seq(Dict!Letters) /\ Len(p) <= MaxLen
  <2>1. PICK m \in 0 .. MaxLen : p \in [1 .. m -> Dict!Letters]
    BY DEF Dict!BoundedSeq, Dict!SeqOf
  <2> QED BY <1>1, <2>1
<1>4. ASSUME NEW p \in Seq(Dict!Letters), Len(p) <= MaxLen
      PROVE  p \in Dict!BoundedSeq(Dict!Letters, MaxLen)
  <2>1. Len(p) \in 0 .. MaxLen /\ p \in [1 .. Len(p) -> Dict!Letters]
    BY <1>1, <1>4, LenProperties
  <2> QED BY <2>1 DEF Dict!BoundedSeq, Dict!SeqOf
<1>5. \A p : p \in Names <=> p \in Seq(Dict!Letters) /\ Len(p) <= MaxLen
  <2>1. \A p : p \in Names <=> p \in Dict!BoundedSeq(Dict!Letters, MaxLen) \/ p = <<>>
    BY DEF Names, Dict!Words, Dict!Root
  <2>2. \A p : p = <<>> => p \in Seq(Dict!Letters) /\ Len(p) <= MaxLen BY <1>1, <1>2
  <2> QED BY <1>3, <1>4, <2>1, <2>2
<1>6. \A p : p \in Dict!Words <=> p \in Names /\ p # <<>>
  BY DEF Names, Dict!Words, Dict!Root
<1>7. ASSUME NEW p \in Names
      PROVE  /\ Len(p) \in Nat /\ \A i \in 1 .. Len(p) : p[i] \in Dict!Letters
             /\ Len(p) = 0 <=> p = <<>>
  <2>1. p \in Seq(Dict!Letters) BY <1>5
  <2> QED BY <2>1, LenProperties, EmptySeq
<1>8. <<>> \in Names BY DEF Names, Dict!Root
<1> QED BY <1>5, <1>6, <1>7, <1>8

\* Node p is on the way from the root to w.
OnWay(p, w) == Len(p) <= Len(w) /\ \A i \in 1 .. Len(p) : p[i] = w[i]

Kids(p) == {q \in Names : Len(q) = Len(p) + 1 /\ OnWay(p, q)}

\* There is one node of each length on the way to a word.
LEMMA BothOnWay ==
    ASSUME NEW p \in Names, NEW q \in Names, OnWay(p, q), Len(p) = Len(q)
    PROVE  p = q
<1>1. p \in Seq(Dict!Letters) /\ q \in Seq(Dict!Letters) BY NamesAre
<1> QED BY <1>1, SeqEqual DEF OnWay

\* The first k letters of a name.
LEMMA WayHas ==
    ASSUME NEW w \in Names, NEW k \in 0 .. Len(w)
    PROVE  /\ SubSeq(w, 1, k) \in Names
           /\ Len(SubSeq(w, 1, k)) = k
           /\ OnWay(SubSeq(w, 1, k), w)
<1> DEFINE p == SubSeq(w, 1, k)
<1>1. PICK n \in Nat : n = Len(w) BY NamesAre
<1>2. k \in 0 .. n /\ n <= MaxLen /\ \A i \in 1 .. k : w[i] \in Dict!Letters BY <1>1, NamesAre
<1>3. /\ p \in Seq(Dict!Letters) /\ Len(p) = IF 1 <= k THEN (k - 1) + 1 ELSE 0
      /\ \A i \in 1 .. (k - 1) + 1 : p[i] = w[(1 + i) - 1]
  BY <1>2, SubSeqProperties
<1> HIDE DEF p
<1>4. Len(p) = k BY <1>2, <1>3
<1>5. ASSUME NEW i \in 1 .. k PROVE p[i] = w[i]
  <2>1. i \in 1 .. (k - 1) + 1 /\ (1 + i) - 1 = i BY <1>2
  <2> QED BY <1>3, <2>1
<1>6. p \in Names
  <2>1. MaxLen \in Nat BY DataAssumption
  <2> QED BY <1>2, <1>3, <1>4, <2>1, NamesAre
<1> QED BY <1>1, <1>2, <1>4, <1>5, <1>6 DEF p, OnWay

\* The nodes that update, search and erase walk through are those on the way.
LEMMA WayIs ==
    ASSUME NEW p \in Names, NEW w \in Names
    PROVE  /\ OnWay(p, w) <=> Len(p) <= Len(w) /\ p = SubSeq(w, 1, Len(p))
           /\ p \in Dict!NodesTo(w) \cup {Dict!Root} <=> OnWay(p, w)
           /\ Dict!IsPrefix(p, w) <=> OnWay(p, w)
<1>1. Len(p) \in Nat /\ Len(w) \in Nat BY NamesAre
<1>2. ASSUME OnWay(p, w) PROVE Len(p) <= Len(w) /\ p = SubSeq(w, 1, Len(p))
  <2>1. Len(p) \in 0 .. Len(w) BY <1>1, <1>2 DEF OnWay
  <2>2. PICK q \in Names : q = SubSeq(w, 1, Len(p)) /\ Len(q) = Len(p) /\ OnWay(q, w)
    BY <2>1, WayHas
  <2>3. OnWay(p, q) BY <1>1, <1>2, <2>2 DEF OnWay
  <2>4. p = q BY <2>2, <2>3, BothOnWay
  <2>5. Len(p) <= Len(w) BY <1>2 DEF OnWay
  <2> QED BY <2>2, <2>4, <2>5
<1>3. ASSUME Len(p) <= Len(w), p = SubSeq(w, 1, Len(p)) PROVE OnWay(p, w)
  <2>1. Len(p) \in 0 .. Len(w) BY <1>1, <1>3
  <2> QED BY <1>3, <2>1, WayHas
<1>4. p \in Dict!NodesTo(w) \cup {Dict!Root} <=> OnWay(p, w)
  <2>1. ASSUME p \in Dict!NodesTo(w) PROVE OnWay(p, w)
    <3>1. PICK k \in 1 .. Len(w) : p = SubSeq(w, 1, k) BY <2>1 DEF Dict!NodesTo
    <3>2. k \in 0 .. Len(w) BY <1>1
    <3> QED BY <3>1, <3>2, WayHas
  <2>2. ASSUME p = Dict!Root PROVE OnWay(p, w)
    <3>1. Len(p) = 0 BY <2>2, NamesAre DEF Dict!Root
    <3> QED BY <1>1, <3>1 DEF OnWay
  <2>3. ASSUME OnWay(p, w), p # Dict!Root PROVE p \in Dict!NodesTo(w)
    <3>1. Len(p) # 0 BY <2>3, NamesAre DEF Dict!Root
    <3>2. Len(p) \in 1 .. Len(w) /\ p = SubSeq(w, 1, Len(p)) BY <1>1, <1>2, <2>3, <3>1
    <3> QED BY <3>2 DEF Dict!NodesTo
  <2> QED BY <2>1, <2>2, <2>3
<1>5. Dict!IsPrefix(p, w) <=> OnWay(p, w)
  <2>1. SubSeq(p, 1, Len(p)) = p
    <3>1. p \in Seq(Dict!Letters) BY NamesAre
    <3> QED BY <3>1, SubSeqFull
  <2> QED BY <1>2, <1>3, <2>1 DEF Dict!IsPrefix
<1> QED BY <1>2, <1>3, <1>4, <1>5

\* The node after p on the way to w.
LEMMA WayGoesOn ==
    ASSUME NEW p \in Names, NEW w \in Names, OnWay(p, w), p # w
    PROVE  \E q \in Kids(p) : OnWay(q, w)
<1>1. Len(p) \in Nat /\ Len(w) \in Nat BY NamesAre
<1>2. Len(p) # Len(w) BY BothOnWay
<1>3. Len(p) + 1 \in 0 .. Len(w) BY <1>1, <1>2 DEF OnWay
<1>4. PICK q \in Names : Len(q) = Len(p) + 1 /\ OnWay(q, w) BY <1>3, WayHas
<1>5. OnWay(p, q) BY <1>1, <1>4 DEF OnWay
<1> QED BY <1>4, <1>5 DEF Kids

\* A node has a child for each letter, up to MaxLen.
LEMMA KidsAre ==
    ASSUME NEW p \in Names
    PROVE  /\ Kids(p) = {Append(p, c) : c \in Dict!Letters} \cap Names
           /\ IsFiniteSet(Kids(p))
<1>1. p \in Seq(Dict!Letters) /\ Len(p) \in Nat BY NamesAre
<1>2. ASSUME NEW q \in Kids(p) PROVE q \in {Append(p, c) : c \in Dict!Letters} \cap Names
  <2>1. /\ q \in Names /\ Len(q) = Len(p) + 1 /\ OnWay(p, q) /\ q \in Seq(Dict!Letters)
        /\ q[Len(p) + 1] \in Dict!Letters
    <3>1. q \in Names /\ Len(q) = Len(p) + 1 /\ OnWay(p, q) BY DEF Kids
    <3>2. Len(p) + 1 \in 1 .. Len(q) BY <1>1, <3>1
    <3> QED BY <3>1, <3>2, NamesAre
  <2> DEFINE r == Append(p, q[Len(p) + 1])
  <2>2. /\ r \in Seq(Dict!Letters) /\ Len(r) = Len(p) + 1
        /\ r[Len(p) + 1] = q[Len(p) + 1] /\ \A i \in 1 .. Len(p) : r[i] = p[i]
    BY <1>1, <2>1, AppendProperties
  <2> HIDE DEF r
  <2>3. \A i \in 1 .. Len(p) + 1 : r[i] = q[i] BY <1>1, <2>1, <2>2 DEF OnWay
  <2>4. r = q BY <2>1, <2>2, <2>3, SeqEqual
  <2> QED BY <2>1, <2>4 DEF r
<1>3. ASSUME NEW c \in Dict!Letters, Append(p, c) \in Names PROVE Append(p, c) \in Kids(p)
  <2> DEFINE r == Append(p, c)
  <2>1. Len(r) = Len(p) + 1 /\ \A i \in 1 .. Len(p) : r[i] = p[i] BY <1>1, AppendProperties
  <2>2. r \in Names BY <1>3
  <2> HIDE DEF r
  <2>3. r \in Kids(p) BY <1>1, <2>1, <2>2 DEF Kids, OnWay
  <2> QED BY <2>3 DEF r
<1>4. Kids(p) = {Append(p, c) : c \in Dict!Letters} \cap Names BY <1>2, <1>3
<1>5. IsFiniteSet({Append(p, c) : c \in Dict!Letters})
  <2> DEFINE A == {Append(p, c) : c \in Dict!Letters}
             g == [c \in Dict!Letters |-> Append(p, c)]
  <2>1. g \in Surjection(Dict!Letters, A) BY DEF Surjection
  <2>2. IsFiniteSet(Dict!Letters)
    <3>1. 0 \in Int /\ LetterCount - 1 \in Int BY DataAssumption
    <3> QED BY <3>1, FS_Interval DEF Dict!Letters
  <2> HIDE DEF g, A
  <2> QED BY <2>1, <2>2, FS_Surjection DEF A
<1>6. IsFiniteSet(Kids(p)) BY <1>4, <1>5, FS_Intersection
<1> QED BY <1>4, <1>6

\* A way to a node and a way on from it.
LEMMA WaysJoin ==
    ASSUME NEW p \in Names, NEW q \in Names, NEW w \in Names, OnWay(p, q), OnWay(q, w)
    PROVE  OnWay(p, w)
BY NamesAre DEF OnWay

\* Two nodes on the same way and at the same depth are the same.
LEMMA OneOnWay ==
    ASSUME NEW p \in Names, NEW q \in Names, NEW w \in Names,
           OnWay(p, w), OnWay(q, w), Len(p) = Len(q)
    PROVE  p = q
BY NamesAre, BothOnWay DEF OnWay

\* What a node counts of its own: how often its word is in the dictionary, and
\* one for the root.
Kept(e) == [p \in Names |-> IF p = <<>> THEN 1 ELSE e[p]]

\* The counts of the nodes fit the contents of the dictionary: each counts its
\* own and what is below it.
Tally(c, e) ==
    /\ c \in [Names -> Nat] /\ e \in [Dict!Words -> Nat]
    /\ \A p \in Names : c[p] = Kept(e)[p] + SumOver(c, Kids(p))

\* What the counts of a tally are at a node.
LEMMA TallyFacts ==
    ASSUME NEW c, NEW e, Tally(c, e), NEW p \in Names
    PROVE  /\ c[p] \in Nat /\ Kept(e)[p] \in Nat /\ SumOver(c, Kids(p)) \in Nat
           /\ IsFiniteSet(Kids(p)) /\ Summable(c, Kids(p))
           /\ p # <<>> => Kept(e)[p] = e[p]
           /\ c[p] = Kept(e)[p] + SumOver(c, Kids(p))
<1>1. c \in [Names -> Nat] /\ e \in [Dict!Words -> Nat] BY DEF Tally
<1>2. IsFiniteSet(Kids(p)) BY KidsAre
<1>3. Summable(c, Kids(p)) BY <1>1 DEF Kids, Summable
<1>4. SumOver(c, Kids(p)) \in Nat BY <1>2, <1>3, UnitsFinite
<1>5. Kept(e)[p] \in Nat /\ (p # <<>> => Kept(e)[p] = e[p]) BY <1>1, NamesAre DEF Kept
<1> QED BY <1>1, <1>2, <1>3, <1>4, <1>5 DEF Tally

\* A child counts no more than its parent.
LEMMA TallyOfKid ==
    ASSUME NEW c, NEW e, Tally(c, e), NEW p \in Names, NEW q \in Kids(p)
    PROVE  /\ c[q] \in Nat /\ SumOver(c, Kids(p) \ {q}) \in Nat
           /\ SumOver(c, Kids(p)) = SumOver(c, Kids(p) \ {q}) + c[q]
           /\ c[q] <= c[p]
<1>1. /\ c[p] \in Nat /\ Kept(e)[p] \in Nat /\ SumOver(c, Kids(p)) \in Nat
      /\ IsFiniteSet(Kids(p)) /\ Summable(c, Kids(p))
      /\ c[p] = Kept(e)[p] + SumOver(c, Kids(p))
  BY TallyFacts
<1>2. /\ c[q] \in Nat /\ SumOver(c, Kids(p) \ {q}) \in Nat
      /\ SumOver(c, Kids(p)) = SumOver(c, Kids(p) \ {q}) + c[q]
  BY <1>1, SumOfOneMore
<1> QED BY <1>1, <1>2

\* The counts still fit when as much is added on the whole way to a word, or
\* taken off, as the word itself is added or taken off.
LEMMA TallyMoves ==
    ASSUME NEW c, NEW e, Tally(c, e), NEW w \in Dict!Words, NEW d \in Int,
           NEW c2 \in [Names -> Nat], NEW e2 \in [Dict!Words -> Nat],
           \A p \in Names : c2[p] = IF OnWay(p, w) THEN c[p] + d ELSE c[p],
           \A v \in Dict!Words : e2[v] = IF v = w THEN e[v] + d ELSE e[v]
    PROVE  Tally(c2, e2)
<1>1. w \in Names /\ w # <<>> /\ Len(w) \in Nat BY NamesAre
<1> SUFFICES ASSUME NEW p \in Names
             PROVE  c2[p] = Kept(e2)[p] + SumOver(c2, Kids(p))
  BY DEF Tally
<1>2. /\ c[p] \in Nat /\ Kept(e)[p] \in Nat /\ SumOver(c, Kids(p)) \in Nat
      /\ IsFiniteSet(Kids(p)) /\ Summable(c, Kids(p))
      /\ c[p] = Kept(e)[p] + SumOver(c, Kids(p))
  BY TallyFacts
<1>3. Summable(c2, Kids(p)) BY DEF Summable, Kids
<1>4. Kept(e2)[p] = IF p = w THEN Kept(e)[p] + d ELSE Kept(e)[p] BY <1>1, NamesAre DEF Kept
<1>5. \A q \in Kids(p) : q \in Names /\ Len(q) = Len(p) + 1 /\ OnWay(p, q) BY DEF Kids
<1>6. Len(p) \in Nat BY NamesAre
<1>7. CASE OnWay(p, w) /\ p # w
  <2>1. PICK q \in Kids(p) : OnWay(q, w) BY <1>1, <1>7, WayGoesOn
  <2>2. q \in Names /\ \A x \in Kids(p) \ {q} : x \in Names /\ ~OnWay(x, w)
    BY <1>1, <1>5, <2>1, OneOnWay
  <2>3. \A x \in Kids(p) \ {q} : c2[x] = c[x] BY <2>2
  <2>4. SumOver(c2, Kids(p) \ {q}) = SumOver(c, Kids(p) \ {q})
    <3>1. Summable(c2, Kids(p) \ {q}) BY <1>3 DEF Summable
    <3> QED BY <2>3, <3>1, SumOfSame
  <2>5. /\ c[q] \in Nat /\ SumOver(c, Kids(p) \ {q}) \in Nat
        /\ SumOver(c, Kids(p)) = SumOver(c, Kids(p) \ {q}) + c[q]
    BY TallyOfKid
  <2>6. SumOver(c2, Kids(p)) = SumOver(c2, Kids(p) \ {q}) + c2[q] BY <1>2, <1>3, SumOfOneMore
  <2>7. c2[q] = c[q] + d /\ c2[p] = c[p] + d BY <1>7, <2>1, <2>2
  <2>8. SumOver(c2, Kids(p)) = SumOver(c, Kids(p)) + d BY <2>4, <2>5, <2>6, <2>7
  <2> QED BY <1>2, <1>4, <1>7, <2>7, <2>8
<1>8. ASSUME p = w \/ ~OnWay(p, w) PROVE SumOver(c2, Kids(p)) = SumOver(c, Kids(p))
  <2>1. \A x \in Kids(p) : x \in Names /\ ~OnWay(x, w)
    <3> SUFFICES ASSUME NEW x \in Kids(p), OnWay(x, w) PROVE FALSE BY <1>5
    <3>1. x \in Names /\ Len(x) = Len(p) + 1 /\ OnWay(p, x) BY <1>5
    <3>2. OnWay(p, w) BY <1>1, <3>1, WaysJoin
    <3>3. Len(x) <= Len(w) BY DEF OnWay
    <3> QED BY <1>6, <1>8, <3>1, <3>2, <3>3
  <2>2. \A x \in Kids(p) : c2[x] = c[x] BY <2>1
  <2> QED BY <1>3, <2>2, SumOfSame
<1>9. CASE p = w
  <2>1. OnWay(p, w) BY <1>6, <1>9 DEF OnWay
  <2> QED BY <1>2, <1>4, <1>8, <1>9, <2>1
<1>10. CASE ~OnWay(p, w)
  <2>1. p # w BY <1>6, <1>10 DEF OnWay
  <2> QED BY <1>2, <1>4, <1>8, <1>10, <2>1
<1> QED BY <1>7, <1>9, <1>10

\* A node counts no more than those it hangs below.
LEMMA MoreAbove ==
    ASSUME NEW c, NEW e, Tally(c, e), NEW p \in Names, NEW w \in Names, OnWay(p, w)
    PROVE  c[w] <= c[p]
<1> DEFINE G == {n \in Nat : \A q \in Names :
                     OnWay(q, w) /\ Len(w) = Len(q) + n => c[w] <= c[q]}
<1>1. 0 \in G
  <2> SUFFICES ASSUME NEW q \in Names, OnWay(q, w), Len(w) = Len(q) + 0
               PROVE  c[w] <= c[q]
    OBVIOUS
  <2>1. q = w BY NamesAre, BothOnWay
  <2>2. c[w] \in Nat BY TallyFacts
  <2> QED BY <2>1, <2>2
<1>2. ASSUME NEW n \in Nat, n \in G PROVE n + 1 \in G
  <2> SUFFICES ASSUME NEW q \in Names, OnWay(q, w), Len(w) = Len(q) + (n + 1)
               PROVE  c[w] <= c[q]
    OBVIOUS
  <2>1. Len(q) \in Nat BY NamesAre
  <2>2. q # w BY <2>1
  <2>3. PICK x \in Kids(q) : OnWay(x, w) BY <2>2, WayGoesOn
  <2>4. x \in Names /\ Len(w) = Len(x) + n BY <2>1 DEF Kids
  <2>5. c[w] <= c[x] BY <1>2, <2>3, <2>4
  <2>6. c[x] <= c[q] BY TallyOfKid
  <2>7. c[w] \in Nat /\ c[x] \in Nat /\ c[q] \in Nat BY <2>4, TallyFacts
  <2> QED BY <2>5, <2>6, <2>7
<1>3. PICK n \in Nat : Len(w) = Len(p) + n
  <2>1. Len(w) \in Nat /\ Len(p) \in Nat /\ Len(p) <= Len(w) BY NamesAre DEF OnWay
  <2>2. Len(w) - Len(p) \in Nat /\ Len(w) = Len(p) + (Len(w) - Len(p)) BY <2>1
  <2> QED BY <2>2
<1>4. n \in G
  <2> HIDE DEF G
  <2> QED BY <1>1, <1>2, SetInduction
<1> QED BY <1>3, <1>4

\* A node that counts something is on the way to a word that is in the
\* dictionary.
LEMMA FoundBelow ==
    ASSUME NEW c, NEW e, Tally(c, e), NEW p \in Names, p # <<>>, c[p] # 0
    PROVE  \E w \in Dict!Words : e[w] > 0 /\ OnWay(p, w)
<1> DEFINE Leads(q) == \E w \in Dict!Words : e[w] > 0 /\ OnWay(q, w)
           G == {n \in Nat : \A q \in Names :
                     q # <<>> /\ c[q] # 0 /\ MaxLen - Len(q) <= n => Leads(q)}
<1>1. MaxLen \in Nat BY DataAssumption
<1>2. ASSUME NEW q \in Names, q # <<>>, c[q] # 0 PROVE Leads(q) \/ \E x \in Kids(q) : c[x] # 0
  <2>1. /\ e[q] \in Nat /\ SumOver(c, Kids(q)) \in Nat /\ c[q] = e[q] + SumOver(c, Kids(q))
    BY <1>2, TallyFacts
  <2>2. CASE e[q] # 0
    <3>1. q \in Dict!Words /\ OnWay(q, q) BY <1>2, NamesAre DEF OnWay
    <3> QED BY <2>1, <2>2, <3>1
  <2>3. CASE e[q] = 0
    <3> SUFFICES ASSUME \A x \in Kids(q) : c[x] = 0 PROVE FALSE OBVIOUS
    <3>1. Summable(c, {}) BY DEF Summable
    <3>2. SumOver(c, {}) = SumOver(c, Kids(q)) BY <3>1, SumOfSame
    <3>3. SumOver(c, Kids(q)) = 0 BY <3>2, SumOfNone
    <3> QED BY <1>2, <2>1, <2>3, <3>3
  <2> QED BY <2>2, <2>3
<1>3. 0 \in G
  <2> SUFFICES ASSUME NEW q \in Names, q # <<>>, c[q] # 0, MaxLen - Len(q) <= 0,
                      NEW x \in Kids(q)
               PROVE  FALSE
    BY <1>2
  <2>1. Len(q) \in Nat /\ Len(x) = Len(q) + 1 /\ Len(x) <= MaxLen BY NamesAre DEF Kids
  <2> QED BY <1>1, <2>1
<1>4. ASSUME NEW n \in Nat, n \in G PROVE n + 1 \in G
  <2> SUFFICES ASSUME NEW q \in Names, q # <<>>, c[q] # 0, MaxLen - Len(q) <= n + 1
               PROVE  Leads(q)
    OBVIOUS
  <2> SUFFICES ASSUME NEW x \in Kids(q), c[x] # 0 PROVE Leads(q) BY <1>2
  <2>1. x \in Names /\ Len(x) = Len(q) + 1 /\ OnWay(q, x) BY DEF Kids
  <2>2. Len(q) \in Nat /\ x # <<>> BY <2>1, NamesAre
  <2>3. MaxLen - Len(x) <= n BY <1>1, <2>1, <2>2
  <2>4. PICK w \in Dict!Words : e[w] > 0 /\ OnWay(x, w) BY <1>4, <2>1, <2>2, <2>3
  <2>5. OnWay(q, w) BY <2>1, <2>4, NamesAre, WaysJoin
  <2> QED BY <2>4, <2>5
<1> HIDE DEF Leads
<1>5. \A n \in Nat : n \in G
  <2> HIDE DEF G
  <2> QED BY <1>3, <1>4, SetInduction
<1>6. Len(p) \in Nat /\ Len(p) <= MaxLen BY NamesAre
<1>7. MaxLen - Len(p) \in Nat /\ MaxLen - Len(p) <= MaxLen - Len(p) BY <1>1, <1>6
<1>8. Leads(p) BY <1>5, <1>7
<1> QED BY <1>8 DEF Leads

\* The count of every name, none for one that no node has.
Counted == [p \in Names |-> IF p \in DOMAIN count THEN count[p] ELSE 0]

\* The tree holds exactly the names that count something, with counts that fit
\* the contents of the dictionary, and what was allocated is what it holds.
DictInv ==
    /\ Tally(Counted, entered)
    /\ DOMAIN count \subseteq Names /\ IsFiniteSet(DOMAIN count)
    /\ \A p \in Names : p \in DOMAIN count <=> Counted[p] # 0
    /\ live = Cardinality(DOMAIN count) - 1

\* The difference that search and printall take is what a node has of its own.
LEMMA OwnIsKept ==
    ASSUME DictInv, NEW p \in DOMAIN count
    PROVE  /\ Dict!OwnCount(p) = Kept(entered)[p]
           /\ count[p] = Counted[p] /\ p \in Names
<1>1. /\ p \in Names /\ Tally(Counted, entered) /\ DOMAIN count \subseteq Names
      /\ \A x \in DOMAIN count : Counted[x] = count[x]
      /\ \A x \in Names \ DOMAIN count : Counted[x] = 0
  BY DEF DictInv, Counted
<1>2. /\ Counted[p] = Kept(entered)[p] + SumOver(Counted, Kids(p))
      /\ Kept(entered)[p] \in Nat /\ SumOver(Counted, Kids(p)) \in Nat
      /\ IsFiniteSet(Kids(p)) /\ Summable(Counted, Kids(p))
  BY <1>1, TallyFacts
<1>3. Dict!Children(p) = Kids(p) \cap DOMAIN count BY <1>1, KidsAre DEF Dict!Children
<1>4. IsFiniteSet(Dict!Children(p)) BY <1>2, <1>3, FS_Intersection
<1>5. Summable(count, Dict!Children(p))
  <2>1. \A x \in Dict!Children(p) : count[x] = Counted[x] /\ x \in Kids(p) BY <1>1, <1>3
  <2> QED BY <1>2, <2>1 DEF Summable
<1>6. SumOver(count, Dict!Children(p)) = SumOver(Counted, Kids(p))
  <2>1. \A x \in Dict!Children(p) : count[x] = Counted[x] BY <1>1, <1>3
  <2>2. \A x \in Kids(p) \ Dict!Children(p) : Counted[x] = 0
    BY <1>1, <1>3 DEF Kids
  <2>3. Dict!Children(p) \in SUBSET Kids(p) BY <1>3
  <2> QED BY <1>5, <2>1, <2>2, <2>3, SumOfSame
<1>7. Dict!OwnCount(p) = count[p] - SumOver(count, Dict!Children(p))
  BY <1>4, <1>5, FoldIsSum DEF Dict!OwnCount
<1>8. Counted[p] = count[p] BY <1>1
<1> QED BY <1>1, <1>2, <1>6, <1>7, <1>8

\* The dictionary is empty at first, but for the root.
LEMMA DictInitKeeps == Dict!Init => DictInv
<1> SUFFICES ASSUME Dict!Init PROVE DictInv OBVIOUS
<1>1. /\ DOMAIN count = {<<>>} /\ count[<<>>] = 1
      /\ entered = [w \in Dict!Words |-> 0] /\ live = 0
  BY DEF Dict!Init, Dict!Root
<1>2. <<>> \in Names /\ Len(<<>>) = 0 BY NamesAre
<1>3. \A p \in Names : Counted[p] = IF p = <<>> THEN 1 ELSE 0 BY <1>1 DEF Counted
<1>4. Counted \in [Names -> Nat] BY <1>1 DEF Counted
<1>5. ASSUME NEW p \in Names PROVE Counted[p] = Kept(entered)[p] + SumOver(Counted, Kids(p))
  <2>1. \A x \in Kids(p) : Counted[x] = 0
    <3> SUFFICES ASSUME NEW x \in Kids(p) PROVE Counted[x] = 0 OBVIOUS
    <3>1. x \in Names /\ Len(x) = Len(p) + 1 /\ Len(p) \in Nat BY NamesAre DEF Kids
    <3>2. x # <<>> BY <1>2, <3>1
    <3> QED BY <1>3, <3>1, <3>2
  <2>2. Summable(Counted, {}) BY DEF Summable
  <2>3. SumOver(Counted, {}) = SumOver(Counted, Kids(p)) BY <2>1, <2>2, SumOfSame
  <2>4. SumOver(Counted, Kids(p)) = 0 BY <2>3, SumOfNone
  <2>5. Kept(entered)[p] = IF p = <<>> THEN 1 ELSE 0 BY <1>1, NamesAre DEF Kept
  <2> QED BY <1>3, <2>4, <2>5
<1>6. Tally(Counted, entered) BY <1>1, <1>4, <1>5 DEF Tally
<1>7. IsFiniteSet({<<>>}) /\ Cardinality({<<>>}) = 1 BY FS_Singleton
<1>8. \A p \in Names : p \in DOMAIN count <=> Counted[p] # 0 BY <1>1, <1>3
<1> QED BY <1>1, <1>2, <1>6, <1>7, <1>8 DEF DictInv

\* The nodes to a word, from one depth on: one at each.
LEMMA NodesFrom ==
    ASSUME NEW w \in Names, NEW m \in Nat \ {0}, m <= Len(w) + 1
    PROVE  LET N == {SubSeq(w, 1, k) : k \in m .. Len(w)}
           IN  IsFiniteSet(N) /\ Cardinality(N) = Len(w) - m + 1
<1> DEFINE N == {SubSeq(w, 1, k) : k \in m .. Len(w)}
           g == [k \in m .. Len(w) |-> SubSeq(w, 1, k)]
<1>1. Len(w) \in Nat BY NamesAre
<1>2. g \in Surjection(m .. Len(w), N) BY DEF Surjection
<1>3. \A k \in m .. Len(w) : Len(SubSeq(w, 1, k)) = k
  <2>1. \A k \in m .. Len(w) : k \in 0 .. Len(w) BY <1>1
  <2> QED BY <2>1, WayHas
<1>4. g \in Injection(m .. Len(w), N)
  <2>1. g \in [m .. Len(w) -> N] OBVIOUS
  <2>2. \A j, k \in m .. Len(w) : g[j] = g[k] => j = k BY <1>3
  <2> HIDE DEF g, N
  <2> QED BY <2>1, <2>2 DEF Injection, IsInjective
<1>5. IsFiniteSet(m .. Len(w)) /\ Cardinality(m .. Len(w)) = Len(w) - m + 1
  <2>1. m \in Int /\ Len(w) \in Int /\ (m > Len(w) => Len(w) - m + 1 = 0) BY <1>1
  <2> QED BY <2>1, FS_Interval
<1> HIDE DEF g, N
<1> QED BY <1>2, <1>4, <1>5, FS_Surjection DEF N

\* update counts the word at every node on the way to it.
LEMMA InsertWordKeeps ==
    ASSUME DictInv, NEW w \in Dict!Words, NEW num \in Nat \ {0}, Dict!Insert(w, num)
    PROVE  DictInv'
<1>1. /\ Tally(Counted, entered)
      /\ DOMAIN count \subseteq Names /\ IsFiniteSet(DOMAIN count)
      /\ \A p \in Names : p \in DOMAIN count <=> Counted[p] # 0
      /\ live = Cardinality(DOMAIN count) - 1
      /\ Counted \in [Names -> Nat] /\ entered \in [Dict!Words -> Nat]
  BY DEF DictInv, Tally
<1>2. w \in Names BY NamesAre
<1>3. /\ DOMAIN count' = DOMAIN count \cup Dict!NodesTo(w)
      /\ \A p \in DOMAIN count \cup Dict!NodesTo(w) :
            count'[p] = (IF p \in DOMAIN count THEN count[p] ELSE 0)
                            + (IF p \in Dict!NodesTo(w) \cup {Dict!Root} THEN num ELSE 0)
      /\ live' = live + Cardinality(Dict!NodesTo(w) \ DOMAIN count)
      /\ entered' = [entered EXCEPT ![w] = entered[w] + num]
  <2> DEFINE D == DOMAIN count \cup Dict!NodesTo(w)
             f == [p \in D |-> (IF p \in DOMAIN count THEN count[p] ELSE 0)
                        + (IF p \in Dict!NodesTo(w) \cup {Dict!Root} THEN num ELSE 0)]
  <2>1. Dict!update(w, num) /\ entered' = [entered EXCEPT ![w] = entered[w] + num]
    BY DEF Dict!Insert
  <2>2. count' = f BY <2>1 DEF Dict!update
  <2>3. live' = live + Cardinality(Dict!NodesTo(w) \ DOMAIN count)
    BY <2>1 DEF Dict!update, Dict!Cardinality, Cardinality
  <2>4. DOMAIN f = D OBVIOUS
  <2> QED BY <2>1, <2>2, <2>3, <2>4
<1>4. Dict!NodesTo(w) \subseteq Names
  <2> SUFFICES ASSUME NEW k \in 1 .. Len(w) PROVE SubSeq(w, 1, k) \in Names
    BY DEF Dict!NodesTo
  <2>1. k \in 0 .. Len(w) BY <1>2, NamesAre
  <2> QED BY <1>2, <2>1, WayHas
<1>5. <<>> \in DOMAIN count
  <2>1. <<>> \in Names BY NamesAre
  <2>2. Counted[<<>>] # 0
    <3>1. Kept(entered)[<<>>] = 1 BY <2>1 DEF Kept
    <3>2. /\ SumOver(Counted, Kids(<<>>)) \in Nat
          /\ Counted[<<>>] = Kept(entered)[<<>>] + SumOver(Counted, Kids(<<>>))
      BY <1>1, <2>1, TallyFacts
    <3> QED BY <3>1, <3>2
  <2> QED BY <1>1, <2>1, <2>2
<1>6. ASSUME NEW p \in Names
      PROVE  /\ Counted'[p] = IF OnWay(p, w) THEN Counted[p] + num ELSE Counted[p]
             /\ p \in DOMAIN count' <=> p \in DOMAIN count \/ OnWay(p, w)
  <2>1. p \in Dict!NodesTo(w) \cup {<<>>} <=> OnWay(p, w) BY <1>2, WayIs DEF Dict!Root
  <2>2. Counted[p] = IF p \in DOMAIN count THEN count[p] ELSE 0 BY DEF Counted
  <2>3. Counted'[p] = IF p \in DOMAIN count' THEN count'[p] ELSE 0 BY DEF Counted
  <2>4. p \in DOMAIN count' <=> p \in DOMAIN count \/ OnWay(p, w) BY <1>3, <1>5, <2>1
  <2>5. Counted[p] \in Nat BY <1>1
  <2>6. p \in DOMAIN count' =>
          count'[p] = Counted[p] + (IF OnWay(p, w) THEN num ELSE 0)
    BY <1>3, <2>1, <2>2 DEF Dict!Root
  <2> QED BY <2>2, <2>3, <2>4, <2>5, <2>6
<1>7. Counted' \in [Names -> Nat]
  <2>1. Counted' = [p \in Names |-> Counted'[p]] BY DEF Counted
  <2>2. \A p \in Names : Counted'[p] \in Nat BY <1>1, <1>6
  <2> QED BY <2>1, <2>2
<1>8. /\ entered' \in [Dict!Words -> Nat]
      /\ \A v \in Dict!Words : entered'[v] = IF v = w THEN entered[v] + num ELSE entered[v]
  BY <1>1, <1>3
<1>9. Tally(Counted', entered') BY <1>1, <1>6, <1>7, <1>8, TallyMoves
<1>10. \A p \in Names : p \in DOMAIN count' <=> Counted'[p] # 0 BY <1>1, <1>6
<1>11. IsFiniteSet(Dict!NodesTo(w))
  <2>1. Len(w) \in Nat BY <1>2, NamesAre
  <2> QED BY <1>2, <2>1, NodesFrom DEF Dict!NodesTo
<1>12. IsFiniteSet(DOMAIN count') /\ live' = Cardinality(DOMAIN count') - 1
  <2> DEFINE D == DOMAIN count
             M == Dict!NodesTo(w) \ D
  <2>1. IsFiniteSet(M) /\ D \cap M = {} /\ D \cup M = DOMAIN count' BY <1>3, <1>11, FS_Difference
  <2> HIDE DEF D, M
  <2>2. IsFiniteSet(D) /\ live = Cardinality(D) - 1 /\ live' = live + Cardinality(M)
    BY <1>1, <1>3 DEF D, M
  <2>3. /\ IsFiniteSet(D \cup M)
        /\ Cardinality(D \cup M) = Cardinality(D) + Cardinality(M) - Cardinality(D \cap M)
    BY <2>1, <2>2, FS_Union
  <2>4. Cardinality(D \cap M) = 0 BY <2>1, FS_EmptySet
  <2>5. Cardinality(D) \in Nat /\ Cardinality(M) \in Nat BY <2>1, <2>2, FS_CardinalityType
  <2>6. Cardinality(D \cup M) - 1 = live' BY <2>2, <2>3, <2>4, <2>5
  <2> QED BY <2>1, <2>3, <2>6
<1>13. DOMAIN count' \subseteq Names BY <1>1, <1>3, <1>4
<1>14. Tally(Counted, entered)' BY <1>9 DEF Tally, Kept, SumOver, Units
<1> QED BY <1>10, <1>12, <1>13, <1>14 DEF DictInv

\* What search makes sure of before a word is erased.
Searched(w, num) ==
    /\ entered[w] >= num
    /\ \A p \in Names : OnWay(p, w) => Counted[p] >= num /\ (p = <<>> => Counted[p] > num)

\* A search that finds a word has walked to a node that has it often enough.
LEMMA SearchFinds ==
    ASSUME DictInv, NEW w \in Dict!Words, NEW num \in Nat \ {0}, Dict!search(w, num)
    PROVE  Searched(w, num)
<1>1. w \in Names /\ w # <<>> /\ OnWay(w, w) /\ <<>> \in Names /\ OnWay(<<>>, w)
  BY NamesAre DEF OnWay
<1>2. Tally(Counted, entered) BY DEF DictInv
<1>3. ASSUME NEW p \in Names, p # <<>>, OnWay(p, w) PROVE p \in DOMAIN count /\ Counted[p] >= num
  <2>1. p \in Dict!NodesTo(w) BY <1>1, <1>3, WayIs DEF Dict!Root
  <2>2. p \in DOMAIN count /\ count[p] >= num BY <2>1 DEF Dict!search
  <2> QED BY <2>2, OwnIsKept
<1>4. entered[w] >= num
  <2>1. Dict!OwnCount(w) = Kept(entered)[w] BY <1>1, <1>3, OwnIsKept
  <2>2. Kept(entered)[w] = entered[w] BY <1>1, <1>2, TallyFacts
  <2> QED BY <2>1, <2>2 DEF Dict!search
<1>5. Counted[<<>>] > num
  <2>1. PICK q \in Kids(<<>>) : OnWay(q, w) BY <1>1, WayGoesOn
  <2>2. q \in Names /\ q # <<>>
    <3>1. q \in Names /\ Len(q) = Len(<<>>) + 1 BY DEF Kids
    <3>2. Len(<<>>) = 0 BY <1>1, NamesAre
    <3>3. Len(q) = 1 BY <3>1, <3>2
    <3>4. q # <<>> BY <3>1, <3>3, NamesAre
    <3> QED BY <3>1, <3>4
  <2>3. Counted[q] >= num BY <1>3, <2>1, <2>2
  <2>4. Kept(entered)[<<>>] = 1 BY <1>1 DEF Kept
  <2>5. /\ SumOver(Counted, Kids(<<>>)) \in Nat
        /\ Counted[<<>>] = Kept(entered)[<<>>] + SumOver(Counted, Kids(<<>>))
    BY <1>1, <1>2, TallyFacts
  <2>6. /\ Counted[q] \in Nat /\ SumOver(Counted, Kids(<<>>) \ {q}) \in Nat
        /\ SumOver(Counted, Kids(<<>>)) = SumOver(Counted, Kids(<<>>) \ {q}) + Counted[q]
    BY <1>1, <1>2, TallyOfKid
  <2> QED BY <2>3, <2>4, <2>5, <2>6
<1>6. Counted[<<>>] \in Nat BY <1>1, <1>2, TallyFacts
<1> QED BY <1>3, <1>4, <1>5, <1>6 DEF Searched

\* The nodes to w whose count becomes zero when num are taken off.
Emptying(w, num) == {p \in Names : p # <<>> /\ OnWay(p, w) /\ Counted[p] = num}

\* All that hangs below such a node is on the way to w, and becomes zero too:
\* the counts leave room for nothing else.
LEMMA EmptyingKids ==
    ASSUME DictInv, NEW w \in Dict!Words, NEW num \in Nat \ {0}, Searched(w, num),
           NEW p \in Emptying(w, num), NEW x \in Kids(p), Counted[x] # 0
    PROVE  x \in Emptying(w, num)
<1>1. Tally(Counted, entered) /\ w \in Names BY NamesAre DEF DictInv
<1>2. p \in Names /\ p # <<>> /\ OnWay(p, w) /\ Counted[p] = num BY DEF Emptying
<1>3. /\ entered[p] \in Nat /\ SumOver(Counted, Kids(p)) \in Nat
      /\ IsFiniteSet(Kids(p)) /\ Summable(Counted, Kids(p))
      /\ num = entered[p] + SumOver(Counted, Kids(p))
  BY <1>1, <1>2, TallyFacts
<1>4. Counted[x] \in Nat /\ Counted[x] <= SumOver(Counted, Kids(p))
  <2>1. /\ Counted[x] \in Nat /\ SumOver(Counted, Kids(p) \ {x}) \in Nat
        /\ SumOver(Counted, Kids(p)) = SumOver(Counted, Kids(p) \ {x}) + Counted[x]
    BY <1>1, <1>2, TallyOfKid
  <2> QED BY <2>1
<1>5. p # w
  <2> SUFFICES ASSUME p = w PROVE FALSE OBVIOUS
  <2>1. entered[p] >= num BY DEF Searched
  <2> QED BY <1>3, <1>4, <2>1
<1>6. PICK q \in Kids(p) : OnWay(q, w) BY <1>1, <1>2, <1>5, WayGoesOn
<1>7. q \in Names /\ q # <<>>
  <2>1. q \in Names /\ Len(q) = Len(p) + 1 /\ Len(p) \in Nat BY <1>2, NamesAre DEF Kids
  <2> QED BY <2>1, NamesAre
<1>8. Counted[q] >= num BY <1>6, <1>7 DEF Searched
<1>9. /\ Counted[q] \in Nat /\ SumOver(Counted, Kids(p) \ {q}) \in Nat
      /\ SumOver(Counted, Kids(p)) = SumOver(Counted, Kids(p) \ {q}) + Counted[q]
  BY <1>1, <1>2, TallyOfKid
<1>10. Counted[q] = num /\ SumOver(Counted, Kids(p) \ {q}) = 0 BY <1>3, <1>8, <1>9
<1>11. x = q
  <2> SUFFICES ASSUME x # q PROVE FALSE OBVIOUS
  <2>1. PICK R : R = Kids(p) \ {q} OBVIOUS
  <2>2. x \in R /\ IsFiniteSet(R) /\ Summable(Counted, R)
    BY <1>3, <2>1, FS_RemoveElement DEF Summable
  <2>3. /\ SumOver(Counted, R \ {x}) \in Nat
        /\ SumOver(Counted, R) = SumOver(Counted, R \ {x}) + Counted[x]
    BY <2>2, SumOfOneMore
  <2> QED BY <1>4, <1>10, <2>1, <2>3
<1> QED BY <1>6, <1>7, <1>10, <1>11 DEF Emptying

\* Below a node that erase empties there is nothing but the way to the word.
LEMMA EmptyingBelow ==
    ASSUME DictInv, NEW w \in Dict!Words, NEW num \in Nat \ {0}, Searched(w, num),
           NEW e \in Emptying(w, num), NEW p \in Names, OnWay(e, p), Counted[p] # 0
    PROVE  p \in Emptying(w, num)
<1> DEFINE G == {n \in Nat : \A q \in Names :
                     OnWay(e, q) /\ Len(q) = Len(e) + n /\ Counted[q] # 0
                         => q \in Emptying(w, num)}
<1>1. Tally(Counted, entered) BY DEF DictInv
<1>2. e \in Names /\ Len(e) \in Nat BY NamesAre DEF Emptying
<1>3. 0 \in G
  <2> SUFFICES ASSUME NEW q \in Names, OnWay(e, q), Len(q) = Len(e) + 0
               PROVE  q \in Emptying(w, num)
    OBVIOUS
  <2>1. q = e BY <1>2, BothOnWay
  <2> QED BY <2>1
<1>4. ASSUME NEW n \in Nat, n \in G PROVE n + 1 \in G
  <2> SUFFICES ASSUME NEW q \in Names, OnWay(e, q), Len(q) = Len(e) + (n + 1), Counted[q] # 0
               PROVE  q \in Emptying(w, num)
    OBVIOUS
  <2>1. Len(e) + n \in 0 .. Len(q) BY <1>2
  <2>2. PICK r \in Names : Len(r) = Len(e) + n /\ OnWay(r, q) BY <2>1, WayHas
  <2>3. OnWay(e, r) BY <1>2, <2>2 DEF OnWay
  <2>4. q \in Kids(r) BY <1>2, <2>2 DEF Kids
  <2>5. Counted[r] # 0
    <3>1. Counted[q] <= Counted[r] /\ Counted[q] \in Nat /\ Counted[r] \in Nat
      BY <1>1, <2>2, MoreAbove, TallyFacts
    <3> QED BY <3>1
  <2>6. r \in Emptying(w, num) BY <1>4, <2>2, <2>3, <2>5
  <2> QED BY <2>4, <2>6, EmptyingKids
<1>5. PICK n \in Nat : Len(p) = Len(e) + n
  <2>1. Len(p) \in Nat /\ Len(e) <= Len(p) BY NamesAre DEF OnWay
  <2>2. Len(p) - Len(e) \in Nat /\ Len(p) = Len(e) + (Len(p) - Len(e)) BY <1>2, <2>1
  <2> QED BY <2>2
<1>6. n \in G
  <2> HIDE DEF G
  <2> QED BY <1>3, <1>4, SetInduction
<1> QED BY <1>5, <1>6

\* The first depth at which a count becomes zero, and what erase unlinks there.
EmptyAt(w, num) == {k \in 1 .. Len(w) : count[SubSeq(w, 1, k)] = num}

Cut(w, num, p) ==
    EmptyAt(w, num) # {} /\ Dict!IsPrefix(SubSeq(w, 1, Dict!Min(EmptyAt(w, num))), p)

\* The nodes that erase unlinks are those that it empties, from the first of them
\* on.
LEMMA UnlinksEmptying ==
    ASSUME DictInv, NEW w \in Dict!Words, NEW num \in Nat \ {0}, Searched(w, num)
    PROVE  /\ \A p \in DOMAIN count : Cut(w, num, p) <=> p \in Emptying(w, num)
           /\ Emptying(w, num) \subseteq DOMAIN count
           /\ EmptyAt(w, num) = {} => Emptying(w, num) = {}
           /\ EmptyAt(w, num) # {} =>
                /\ Dict!Min(EmptyAt(w, num)) \in 1 .. Len(w)
                /\ Emptying(w, num)
                     = {SubSeq(w, 1, k) : k \in Dict!Min(EmptyAt(w, num)) .. Len(w)}
<1> DEFINE E == Emptying(w, num)
           A == EmptyAt(w, num)
           m == Dict!Min(A)
           e == SubSeq(w, 1, m)
<1>1. /\ Tally(Counted, entered) /\ w \in Names /\ Len(w) \in Nat
      /\ DOMAIN count \subseteq Names
      /\ \A p \in Names : p \in DOMAIN count <=> Counted[p] # 0
      /\ \A p \in DOMAIN count : Counted[p] = count[p]
  BY NamesAre DEF DictInv, Counted
<1>2. E \subseteq DOMAIN count BY <1>1 DEF Emptying
<1>3. ASSUME NEW k \in 1 .. Len(w)
      PROVE  /\ SubSeq(w, 1, k) \in Names /\ SubSeq(w, 1, k) # <<>> /\ Len(SubSeq(w, 1, k)) = k
             /\ OnWay(SubSeq(w, 1, k), w)
             /\ k \in A <=> SubSeq(w, 1, k) \in E
  <2>1. k \in 0 .. Len(w) /\ k # 0 BY <1>1
  <2>2. PICK p \in Names : p = SubSeq(w, 1, k) /\ Len(p) = k /\ OnWay(p, w) BY <1>1, <2>1, WayHas
  <2>3. p # <<>> BY <2>1, <2>2, NamesAre
  <2>4. Counted[p] >= num /\ Counted[p] \in Nat BY <1>1, <2>2, TallyFacts DEF Searched
  <2>5. p \in DOMAIN count BY <1>1, <2>2, <2>4
  <2>6. k \in A <=> count[p] = num BY <2>2 DEF EmptyAt
  <2>7. p \in E <=> Counted[p] = num BY <2>2, <2>3 DEF Emptying
  <2>8. Counted[p] = count[p] BY <1>1, <2>5
  <2> QED BY <2>2, <2>3, <2>6, <2>7, <2>8
<1>4. ASSUME NEW p \in E PROVE /\ p \in Names /\ OnWay(p, w) /\ Len(p) \in A
                               /\ p = SubSeq(w, 1, Len(p))
  <2>1. p \in Names /\ p # <<>> /\ OnWay(p, w) BY DEF Emptying
  <2>2. Len(p) \in Nat /\ Len(p) # 0 /\ Len(p) <= Len(w) BY <2>1, NamesAre DEF OnWay
  <2>3. p = SubSeq(w, 1, Len(p)) BY <1>1, <2>1, WayIs
  <2>4. Len(p) \in 1 .. Len(w) BY <1>1, <2>2
  <2>5. Len(p) \in A BY <1>3, <2>3, <2>4
  <2> QED BY <2>1, <2>3, <2>5
<1>5. ASSUME A # {}
      PROVE  /\ m \in A /\ m \in 1 .. Len(w) /\ \A k \in A : m <= k
             /\ e \in E /\ e \in Names /\ Len(e) = m /\ OnWay(e, w)
  <2>1. A \in SUBSET Nat BY DEF EmptyAt
  <2>2. m = Min(A) BY DEF Dict!Min, Min
  <2>3. m \in A /\ \A k \in A : m <= k
    <3> HIDE DEF A, m
    <3> QED BY <1>5, <2>1, <2>2, MinIsLeast
  <2>4. m \in 1 .. Len(w) BY <2>3 DEF EmptyAt
  <2> HIDE DEF A, m
  <2> QED BY <1>3, <2>3, <2>4
<1> HIDE DEF E, A, m, e
<1>6. \A p \in DOMAIN count : Cut(w, num, p) <=> p \in E
  <2> SUFFICES ASSUME NEW p \in DOMAIN count
               PROVE  A # {} /\ Dict!IsPrefix(e, p) <=> p \in E
    BY DEF Cut, A, m, e
  <2>1. p \in Names /\ Counted[p] # 0 BY <1>1
  <2>2. ASSUME A # {}, Dict!IsPrefix(e, p) PROVE p \in E
    <3>1. OnWay(e, p) BY <1>5, <2>1, <2>2, WayIs
    <3> QED BY <1>5, <2>1, <2>2, <3>1, EmptyingBelow DEF E
  <2>3. ASSUME p \in E PROVE A # {} /\ Dict!IsPrefix(e, p)
    <3>1. p \in Names /\ OnWay(p, w) /\ Len(p) \in A BY <1>4, <2>3
    <3>2. e \in Names /\ OnWay(e, w) /\ Len(e) <= Len(p) BY <1>5, <3>1
    <3>3. OnWay(e, p) BY <3>1, <3>2, NamesAre DEF OnWay
    <3> QED BY <3>1, <3>2, <3>3, WayIs
  <2> QED BY <2>2, <2>3
<1>7. A = {} => E = {} BY <1>4
<1>8. ASSUME A # {} PROVE E = {SubSeq(w, 1, k) : k \in m .. Len(w)}
  <2>1. ASSUME NEW p \in E PROVE \E k \in m .. Len(w) : p = SubSeq(w, 1, k)
    <3>1. Len(p) \in A /\ p = SubSeq(w, 1, Len(p)) BY <1>4
    <3>2. Len(p) \in 1 .. Len(w) BY <3>1 DEF A, EmptyAt
    <3>3. m <= Len(p) /\ m \in 1 .. Len(w) BY <1>5, <1>8, <3>1
    <3>4. Len(p) \in m .. Len(w) BY <1>1, <3>2, <3>3
    <3> QED BY <3>1, <3>4
  <2>2. ASSUME NEW k \in m .. Len(w) PROVE SubSeq(w, 1, k) \in E
    <3>1. m \in 1 .. Len(w) BY <1>5, <1>8
    <3>2. k \in 1 .. Len(w) BY <1>1, <3>1
    <3>3. PICK p \in Names : p = SubSeq(w, 1, k) /\ Len(p) = k /\ OnWay(p, w) BY <1>3, <3>2
    <3>4. OnWay(e, p)
      <4>1. Len(e) = m /\ m <= k /\ OnWay(e, w) BY <1>1, <1>5, <1>8, <3>1
      <4> QED BY <1>1, <3>1, <3>2, <3>3, <4>1 DEF OnWay
    <3>5. Counted[p] # 0
      <4>1. Counted[p] >= num /\ Counted[p] \in Nat BY <1>1, <3>3, TallyFacts DEF Searched
      <4> QED BY <4>1
    <3>6. p \in E BY <1>5, <1>8, <3>3, <3>4, <3>5, EmptyingBelow DEF E
    <3> QED BY <3>3, <3>6
  <2> QED BY <2>1, <2>2
<1> QED BY <1>2, <1>5, <1>6, <1>7, <1>8 DEF E, A, m

\* erase takes the word off every node on the way to it, and frees those where
\* nothing is left.
LEMMA DeleteWordKeeps ==
    ASSUME DictInv, NEW w \in Dict!Words, NEW num \in Nat \ {0}, Dict!Delete(w, num)
    PROVE  DictInv'
<1> DEFINE E == Emptying(w, num)
           A == EmptyAt(w, num)
           D == {p \in DOMAIN count : ~Cut(w, num, p)}
           f == [p \in D |-> IF p \in Dict!NodesTo(w) \cup {Dict!Root} THEN count[p] - num
                                                                       ELSE count[p]]
<1>1. /\ Tally(Counted, entered)
      /\ DOMAIN count \subseteq Names /\ IsFiniteSet(DOMAIN count)
      /\ \A p \in Names : p \in DOMAIN count <=> Counted[p] # 0
      /\ live = Cardinality(DOMAIN count) - 1
      /\ Counted \in [Names -> Nat] /\ entered \in [Dict!Words -> Nat]
  BY DEF DictInv, Tally
<1>2. w \in Names /\ Len(w) \in Nat BY NamesAre
<1>3. /\ Dict!search(w, num) /\ Dict!erase(w, num)
      /\ entered' = [entered EXCEPT ![w] = entered[w] - num]
  BY DEF Dict!Delete
<1>4. Searched(w, num) BY <1>3, SearchFinds
<1>5. /\ \A p \in DOMAIN count : Cut(w, num, p) <=> p \in E
      /\ E \subseteq DOMAIN count
      /\ A = {} => E = {}
      /\ A # {} =>
           /\ Dict!Min(A) \in 1 .. Len(w)
           /\ E = {SubSeq(w, 1, k) : k \in Dict!Min(A) .. Len(w)}
  BY <1>4, UnlinksEmptying
<1>6. count' = f BY <1>3 DEF Dict!erase, Cut, EmptyAt
<1>7. live' = IF A = {} THEN live ELSE live - (Len(w) - Dict!Min(A) + 1)
  BY <1>3 DEF Dict!erase, EmptyAt, Dict!freed
<1>8. DOMAIN count' = DOMAIN count \ E
  <2>1. D = DOMAIN count \ E BY <1>5
  <2>2. DOMAIN f = D OBVIOUS
  <2> QED BY <1>6, <2>1, <2>2
<1> HIDE DEF E, A
<1>9. ASSUME NEW p \in Names
      PROVE  /\ Counted'[p] = IF OnWay(p, w) THEN Counted[p] - num ELSE Counted[p]
             /\ Counted'[p] \in Nat
             /\ p \in DOMAIN count' <=> Counted'[p] # 0
  <2>1. p \in Dict!NodesTo(w) \cup {Dict!Root} <=> OnWay(p, w) BY <1>2, WayIs
  <2>2. Counted[p] = (IF p \in DOMAIN count THEN count[p] ELSE 0) /\ Counted[p] \in Nat
    BY <1>1 DEF Counted
  <2>3. Counted'[p] = IF p \in DOMAIN count' THEN count'[p] ELSE 0 BY DEF Counted
  <2>4. OnWay(p, w) => Counted[p] >= num /\ (p = <<>> => Counted[p] > num) BY <1>4 DEF Searched
  <2>5. p \in E <=> p # <<>> /\ OnWay(p, w) /\ Counted[p] = num BY DEF E, Emptying
  <2>6. p \in DOMAIN count' <=> p \in DOMAIN count /\ p \notin E BY <1>8
  <2>7. p \in DOMAIN count' =>
          count'[p] = Counted[p] - (IF OnWay(p, w) THEN num ELSE 0)
    <3>1. p \in DOMAIN count' => p \in D BY <1>6
    <3>2. p \in D => f[p] = IF p \in Dict!NodesTo(w) \cup {Dict!Root} THEN count[p] - num
                                                                      ELSE count[p]
      OBVIOUS
    <3> HIDE DEF f, D
    <3> QED BY <1>6, <2>1, <2>2, <2>6, <3>1, <3>2
  <2>8. p \in DOMAIN count <=> Counted[p] # 0 BY <1>1
  <2>9. CASE p \in DOMAIN count' BY <2>2, <2>3, <2>4, <2>5, <2>6, <2>7, <2>8, <2>9
  <2>10. CASE p \notin DOMAIN count' BY <2>2, <2>3, <2>4, <2>5, <2>6, <2>8, <2>10
  <2> QED BY <2>9, <2>10
<1>10. Counted' \in [Names -> Nat]
  <2>1. Counted' = [p \in Names |-> Counted'[p]] BY DEF Counted
  <2> QED BY <1>9, <2>1
<1>11. /\ entered' \in [Dict!Words -> Nat]
       /\ \A v \in Dict!Words : entered'[v] = IF v = w THEN entered[v] + (-num) ELSE entered[v]
  <2>1. entered[w] >= num /\ entered[w] \in Nat BY <1>1, <1>4 DEF Searched
  <2>2. entered[w] - num \in Nat /\ entered[w] - num = entered[w] + (-num) BY <2>1
  <2> QED BY <1>1, <1>3, <2>2
<1>12. \A p \in Names : Counted'[p] = IF OnWay(p, w) THEN Counted[p] + (-num) ELSE Counted[p]
  <2>1. \A p \in Names : Counted[p] - num = Counted[p] + (-num) BY <1>1
  <2> QED BY <1>9, <2>1
<1>13. Tally(Counted', entered')
  <2>1. -num \in Int OBVIOUS
  <2> QED BY <1>1, <1>10, <1>11, <1>12, <2>1, TallyMoves
<1>14. Tally(Counted, entered)' BY <1>13 DEF Tally, Kept, SumOver, Units
<1>15. IsFiniteSet(E) /\ live' = live - Cardinality(E) /\ Cardinality(E) \in Nat
  <2>1. live \in Int
    <3>1. Cardinality(DOMAIN count) \in Nat BY <1>1, FS_CardinalityType
    <3> QED BY <1>1, <3>1
  <2>2. CASE A = {} BY <1>5, <1>7, <2>1, <2>2, FS_EmptySet
  <2>3. CASE A # {}
    <3>1. PICK m : m = Dict!Min(A) OBVIOUS
    <3>2. m \in Nat \ {0} /\ m <= Len(w) + 1 BY <1>2, <1>5, <2>3, <3>1
    <3>3. E = {SubSeq(w, 1, k) : k \in m .. Len(w)} BY <1>5, <2>3, <3>1
    <3>4. IsFiniteSet(E) /\ Cardinality(E) = Len(w) - m + 1 BY <1>2, <3>2, <3>3, NodesFrom
    <3>5. Cardinality(E) \in Nat BY <3>4, FS_CardinalityType
    <3> QED BY <1>7, <2>3, <3>1, <3>4, <3>5
  <2> QED BY <2>2, <2>3
<1>16. IsFiniteSet(DOMAIN count') /\ live' = Cardinality(DOMAIN count') - 1
  <2>1. PICK N : N = DOMAIN count OBVIOUS
  <2>2. /\ IsFiniteSet(N \ E)
        /\ Cardinality(N \ E) = Cardinality(N) - Cardinality(N \cap E)
    BY <1>1, <2>1, FS_Difference
  <2>3. N \cap E = E BY <1>5, <2>1
  <2>4. Cardinality(N) \in Nat BY <1>1, <2>1, FS_CardinalityType
  <2>5. live = Cardinality(N) - 1 BY <1>1, <2>1
  <2>6. Cardinality(N \ E) = Cardinality(N) - Cardinality(E) BY <2>2, <2>3
  <2>7. live' = Cardinality(N \ E) - 1 BY <1>15, <2>4, <2>5, <2>6
  <2> QED BY <1>8, <2>1, <2>2, <2>7
<1>17. DOMAIN count' \subseteq Names BY <1>1, <1>8
<1> QED BY <1>9, <1>14, <1>16, <1>17 DEF DictInv

\* No number below one has been entered after a step, if none had before it and it
\* enters none.
LEMMA OnlyPositive ==
    ASSUME odd \in Nat, odd' = 0, Dict!Next
    PROVE  \E w \in Dict!Words, num \in Nat \ {0} :
               num <= MaxWords /\ (Dict!Insert(w, num) \/ Dict!Delete(w, num))
<1>1. PICK w \in Dict!Words, num \in -MaxBelow .. MaxWords :
          Dict!Insert(w, num) \/ Dict!Delete(w, num)
  BY DEF Dict!Next
<1>2. MaxWords \in Nat /\ MaxBelow \in Nat BY DataAssumption
<1>3. Dict!Entered(num) BY <1>1 DEF Dict!Insert, Dict!Delete
<1>4. num \in Int /\ num <= MaxWords /\ ~(num < 1) BY <1>2, <1>3 DEF Dict!Entered
<1>5. num \in Nat \ {0} BY <1>4
<1> QED BY <1>1, <1>4, <1>5

\* Every operation on the dictionary keeps the tally.
LEMMA DictNextKeeps ==
    ASSUME DictInv, odd \in Nat, odd' = 0, Dict!Next
    PROVE  DictInv'
BY OnlyPositive, InsertWordKeeps, DeleteWordKeeps

\* Nodes that are kept count something, and none was lost.
LEMMA DictInvShows == (odd = 0 => DictInv) => NoUselessNodes
<1> SUFFICES ASSUME DictInv PROVE Dict!NoUselessNodes BY DEF NoUselessNodes, Dict!NoUselessNodes
<1>1. live = Cardinality(DOMAIN count) - 1 BY DEF DictInv
<1>2. ASSUME NEW p \in DOMAIN count, p # <<>>
      PROVE  \E w \in Dict!Words : entered[w] > 0 /\ Dict!IsPrefix(p, w)
  <2>1. p \in Names /\ Counted[p] # 0 /\ Tally(Counted, entered) BY DEF DictInv
  <2>2. PICK w \in Dict!Words : entered[w] > 0 /\ OnWay(p, w) BY <1>2, <2>1, FoundBelow
  <2>3. w \in Names BY NamesAre
  <2> QED BY <2>1, <2>2, <2>3, WayIs
<1>3. Dict!Cardinality(DOMAIN count) = Cardinality(DOMAIN count)
  BY DEF Dict!Cardinality, Cardinality
<1> QED BY <1>1, <1>2, <1>3 DEF Dict!NoUselessNodes, Dict!Root

\* A word is found exactly as often as it is in the dictionary.
LEMMA DictInvFinds == (odd = 0 => DictInv) => Dict!SearchIsExact
<1> SUFFICES ASSUME DictInv, NEW w \in Dict!Words, NEW num \in 1 .. MaxWords
             PROVE  Dict!search(w, num) = (entered[w] >= num)
  BY DEF Dict!SearchIsExact
<1>1. num \in Nat \ {0} BY DataAssumption
<1>2. /\ w \in Names /\ w # <<>> /\ OnWay(w, w) /\ Tally(Counted, entered)
      /\ \A p \in Names : p \in DOMAIN count <=> Counted[p] # 0
  BY NamesAre DEF DictInv, OnWay
<1>3. ASSUME Dict!search(w, num) PROVE entered[w] >= num BY <1>1, <1>3, SearchFinds DEF Searched
<1>4. ASSUME entered[w] >= num PROVE Dict!search(w, num)
  <2>1. entered[w] \in Nat /\ Counted[w] \in Nat /\ Counted[w] >= entered[w]
    BY <1>2, TallyFacts
  <2>2. ASSUME NEW p \in Names, OnWay(p, w) PROVE p \in DOMAIN count /\ count[p] >= num
    <3>1. Counted[w] <= Counted[p] /\ Counted[p] \in Nat BY <1>2, <2>2, MoreAbove, TallyFacts
    <3>2. Counted[p] >= num BY <1>1, <1>4, <2>1, <3>1
    <3>3. p \in DOMAIN count BY <1>1, <1>2, <3>1, <3>2
    <3> QED BY <3>2, <3>3, OwnIsKept
  <2>3. \A p \in Dict!NodesTo(w) : p \in Names /\ OnWay(p, w)
    <3> SUFFICES ASSUME NEW k \in 1 .. Len(w)
                 PROVE  SubSeq(w, 1, k) \in Names /\ OnWay(SubSeq(w, 1, k), w)
      BY DEF Dict!NodesTo
    <3>1. k \in 0 .. Len(w) BY <1>2, NamesAre
    <3> QED BY <1>2, <3>1, WayHas
  <2>4. Dict!OwnCount(w) = Kept(entered)[w] BY <1>2, <2>2, OwnIsKept
  <2>5. Kept(entered)[w] = entered[w] BY <1>2, TallyFacts
  <2> QED BY <1>4, <2>2, <2>3, <2>4, <2>5 DEF Dict!search
<1>5. Dict!search(w, num) \in BOOLEAN BY DEF Dict!search
<1> QED BY <1>3, <1>4, <1>5

-------------------------------------------------------------------------------
(* printall.                                                               *)

PlacesIn(s, v) == {i \in 1 .. Len(s) : s[i] = v}

\* What is in two sequences, is in both of them together as often.
LEMMA PlacesInJoin ==
    ASSUME NEW S, NEW s \in Seq(S), NEW t \in Seq(S), NEW v
    PROVE  /\ Cardinality(PlacesIn(s \o t, v))
                = Cardinality(PlacesIn(s, v)) + Cardinality(PlacesIn(t, v))
           /\ Cardinality(PlacesIn(s, v)) \in Nat /\ Cardinality(PlacesIn(t, v)) \in Nat
<1>1. PICK m \in Nat, n \in Nat : m = Len(s) /\ n = Len(t) BY LenProperties
<1> DEFINE A == PlacesIn(s, v)
           B == PlacesIn(t, v)
           C == {m + i : i \in B}
           g == [i \in B |-> m + i]
<1>2. IsFiniteSet(A) /\ IsFiniteSet(B)
  <2>1. A \in SUBSET (1 .. m) /\ B \in SUBSET (1 .. n) BY <1>1 DEF PlacesIn
  <2>2. IsFiniteSet(1 .. m) /\ IsFiniteSet(1 .. n) BY CardinalityUpTo
  <2> QED BY <2>1, <2>2, FS_Subset
<1>3. \A i \in B : i \in 1 .. n BY <1>1 DEF PlacesIn
<1>4. IsFiniteSet(C) /\ Cardinality(C) = Cardinality(B)
  <2>1. g \in Surjection(B, C) BY DEF Surjection
  <2>2. g \in Injection(B, C)
    <3>1. g \in [B -> C] OBVIOUS
    <3>2. \A i, j \in B : g[i] = g[j] => i = j BY <1>3
    <3> HIDE DEF g, B, C
    <3> QED BY <3>1, <3>2 DEF Injection, IsInjective
  <2> HIDE DEF g, B, C
  <2> QED BY <1>2, <2>1, <2>2, FS_Surjection
<1>5. /\ s \o t \in Seq(S) /\ Len(s \o t) = m + n
      /\ \A i \in 1 .. m + n : (s \o t)[i] = IF i <= m THEN s[i] ELSE t[i - m]
  BY <1>1, ConcatProperties
<1>6. PlacesIn(s \o t, v) = A \cup C
  <2>1. ASSUME NEW i \in PlacesIn(s \o t, v) PROVE i \in A \cup C
    <3>1. i \in 1 .. m + n /\ (s \o t)[i] = v BY <1>5 DEF PlacesIn
    <3>2. CASE i <= m
      <4>1. i \in 1 .. m /\ s[i] = v BY <1>5, <3>1, <3>2
      <4> QED BY <1>1, <4>1 DEF PlacesIn
    <3>3. CASE ~(i <= m)
      <4>1. i - m \in 1 .. n /\ t[i - m] = v /\ i = m + (i - m) BY <1>5, <3>1, <3>3
      <4>2. i - m \in B BY <1>1, <4>1 DEF PlacesIn
      <4> QED BY <4>1, <4>2
    <3> QED BY <3>2, <3>3
  <2>2. ASSUME NEW i \in A PROVE i \in PlacesIn(s \o t, v)
    <3>1. i \in 1 .. m /\ s[i] = v BY <1>1 DEF PlacesIn
    <3>2. i \in 1 .. m + n /\ i <= m BY <3>1
    <3> QED BY <1>5, <3>1, <3>2 DEF PlacesIn
  <2>3. ASSUME NEW i \in B PROVE m + i \in PlacesIn(s \o t, v)
    <3>1. i \in 1 .. n /\ t[i] = v BY <1>1 DEF PlacesIn
    <3>2. m + i \in 1 .. m + n /\ ~(m + i <= m) /\ (m + i) - m = i BY <3>1
    <3> QED BY <1>5, <3>1, <3>2 DEF PlacesIn
  <2> QED BY <2>1, <2>2, <2>3
<1>7. A \cap C = {}
  <2> SUFFICES ASSUME NEW i \in B, m + i \in A PROVE FALSE OBVIOUS
  <2>1. m + i \in 1 .. m BY <1>1 DEF PlacesIn
  <2> QED BY <1>3, <2>1
<1> HIDE DEF A, B, C
<1>8. Cardinality(A) \in Nat /\ Cardinality(B) \in Nat BY <1>2, FS_CardinalityType
<1>9. Cardinality(A \cup C) = Cardinality(A) + Cardinality(C) - Cardinality(A \cap C)
  BY <1>2, <1>4, FS_Union
<1>10. Cardinality(A \cap C) = 0 BY <1>7, FS_EmptySet
<1>11. Cardinality(A \cup C) = Cardinality(A) + Cardinality(B) BY <1>4, <1>8, <1>9, <1>10
<1> QED BY <1>6, <1>8, <1>11 DEF A, B

\* What a printing s is of the names in S: in dictionary order, each as often as
\* it is in the dictionary, and nothing else.
Prints(s, S) ==
    /\ s \in Seq(Names)
    /\ \A i \in 1 .. Len(s) : s[i] \in S
    /\ \A i \in 1 .. Len(s) - 1 : s[i] = s[i + 1] \/ Dict!Before(s[i], s[i + 1])
    /\ \A v \in Names :
         Cardinality(PlacesIn(s, v)) = IF v \in S THEN Kept(entered)[v] ELSE 0

\* Two runs of words, all of the first before all of the second, are one run.
LEMMA PrintsJoin ==
    ASSUME NEW S, NEW T, NEW s, NEW t, Prints(s, S), Prints(t, T),
           \A v \in S, x \in T : v # x /\ Dict!Before(v, x),
           \A v \in Names : Kept(entered)[v] \in Nat
    PROVE  Prints(s \o t, S \cup T)
<1>1. s \in Seq(Names) /\ t \in Seq(Names) BY DEF Prints
<1>2. PICK m \in Nat, n \in Nat : m = Len(s) /\ n = Len(t) BY <1>1, LenProperties
<1>3. /\ s \o t \in Seq(Names) /\ Len(s \o t) = m + n
      /\ \A i \in 1 .. m + n : (s \o t)[i] = IF i <= m THEN s[i] ELSE t[i - m]
  BY <1>1, <1>2, ConcatProperties
<1>4. (\A i \in 1 .. m : s[i] \in S) /\ (\A i \in 1 .. n : t[i] \in T) BY <1>2 DEF Prints
<1>5. \A i \in 1 .. m + n :
        \/ i \in 1 .. m /\ (s \o t)[i] = s[i]
        \/ i - m \in 1 .. n /\ (s \o t)[i] = t[i - m]
  BY <1>3
<1>6. \A i \in 1 .. m + n : (s \o t)[i] \in S \cup T BY <1>4, <1>5
<1>7. ASSUME NEW i \in 1 .. (m + n) - 1
      PROVE  (s \o t)[i] = (s \o t)[i + 1] \/ Dict!Before((s \o t)[i], (s \o t)[i + 1])
  <2>1. i \in 1 .. m + n /\ i + 1 \in 1 .. m + n OBVIOUS
  <2>2. CASE i + 1 <= m
    <3>1. i \in 1 .. m - 1 /\ i <= m BY <2>2
    <3>2. (s \o t)[i] = s[i] /\ (s \o t)[i + 1] = s[i + 1] BY <1>3, <2>1, <2>2, <3>1
    <3> QED BY <1>2, <3>1, <3>2 DEF Prints
  <2>3. CASE i = m
    <3>1. i \in 1 .. m /\ (i + 1) - m = 1 /\ 1 \in 1 .. n /\ ~(i + 1 <= m) BY <2>3
    <3>2. (s \o t)[i] = s[i] /\ (s \o t)[i + 1] = t[1] BY <1>3, <2>1, <2>3, <3>1
    <3> QED BY <1>4, <3>1, <3>2
  <2>4. CASE i > m
    <3>1. /\ i - m \in 1 .. n - 1 /\ (i + 1) - m = (i - m) + 1
          /\ ~(i <= m) /\ ~(i + 1 <= m)
      BY <2>4
    <3>2. (s \o t)[i] = t[i - m] /\ (s \o t)[i + 1] = t[(i - m) + 1] BY <1>3, <2>1, <3>1
    <3> QED BY <1>2, <3>1, <3>2 DEF Prints
  <2>5. i + 1 <= m \/ i = m \/ i > m OBVIOUS
  <2> QED BY <2>2, <2>3, <2>4, <2>5
<1>8. ASSUME NEW v \in Names
      PROVE  Cardinality(PlacesIn(s \o t, v)) = IF v \in S \cup T THEN Kept(entered)[v] ELSE 0
  <2>1. Cardinality(PlacesIn(s \o t, v))
          = Cardinality(PlacesIn(s, v)) + Cardinality(PlacesIn(t, v))
    BY <1>1, PlacesInJoin
  <2>2. /\ Cardinality(PlacesIn(s, v)) = IF v \in S THEN Kept(entered)[v] ELSE 0
        /\ Cardinality(PlacesIn(t, v)) = IF v \in T THEN Kept(entered)[v] ELSE 0
        /\ Kept(entered)[v] \in Nat
    BY DEF Prints
  <2>3. ~(v \in S /\ v \in T) OBVIOUS
  <2> QED BY <2>1, <2>2, <2>3
<1> QED BY <1>3, <1>6, <1>7, <1>8 DEF Prints

\* Names that are not in the dictionary need not be printed.
LEMMA PrintsMore ==
    ASSUME NEW S, NEW T, NEW s, Prints(s, S), S \subseteq T,
           \A v \in T \ S : v \in Names => Kept(entered)[v] = 0
    PROVE  Prints(s, T)
BY DEF Prints

\* The words a node has of its own.
OwnWords(w) == [i \in 1 .. Dict!OwnCount(w) |-> w]

\* A node prints its own word as often as it was entered.
LEMMA PrintsOwn ==
    ASSUME DictInv, NEW w \in DOMAIN count
    PROVE  Prints(OwnWords(w), {w})
<1>1. w \in Names /\ Dict!OwnCount(w) = Kept(entered)[w] BY OwnIsKept
<1>2. PICK n \in Nat : n = Kept(entered)[w] BY <1>1, TallyFacts DEF DictInv
<1>3. /\ OwnWords(w) \in Seq(Names) /\ Len(OwnWords(w)) = n
      /\ \A i \in 1 .. n : OwnWords(w)[i] = w
  BY <1>1, <1>2 DEF OwnWords
<1>4. ASSUME NEW v \in Names
      PROVE  Cardinality(PlacesIn(OwnWords(w), v)) = IF v \in {w} THEN Kept(entered)[v] ELSE 0
  <2>1. CASE v = w
    <3>1. PlacesIn(OwnWords(w), v) = 1 .. n BY <1>3, <2>1 DEF PlacesIn
    <3>2. Cardinality(1 .. n) = n BY CardinalityUpTo
    <3> QED BY <1>2, <2>1, <3>1, <3>2
  <2>2. CASE v # w
    <3>1. PlacesIn(OwnWords(w), v) = {} BY <1>3, <2>2 DEF PlacesIn
    <3> QED BY <2>2, <3>1, FS_EmptySet
  <2> QED BY <2>1, <2>2
<1>5. \A i \in 1 .. n - 1 : OwnWords(w)[i] = OwnWords(w)[i + 1]
  <2>1. \A i \in 1 .. n - 1 : i \in 1 .. n /\ i + 1 \in 1 .. n BY <1>2
  <2> QED BY <1>3, <2>1
<1> QED BY <1>3, <1>4, <1>5 DEF Prints

\* One node printed: its own words, then child after child as g prints them.
\* The fold over the letters takes the last of a set of them off first.
RunTo(it, g, w, s) ==
    IF s = {} THEN OwnWords(w)
    ELSE IF Append(w, Max(s) - 1) \in DOMAIN count
         THEN it[s \ {Max(s)}] \o g[Append(w, Max(s) - 1)] ELSE it[s \ {Max(s)}]

IsRun(it, g, w, N) == it = [s \in SUBSET (1 .. N) |-> RunTo(it, g, w, s)]

Printed(g, w) ==
    Dict!FoldLeft(LAMBDA out, c : IF Append(w, c) \in DOMAIN count
                                  THEN out \o g[Append(w, c)] ELSE out,
                  [i \in 1 .. Dict!OwnCount(w) |-> w],
                  [c \in 1 .. LetterCount |-> c - 1])

\* There is a run through the letters, as printall goes.
LEMMA RunExists ==
    ASSUME NEW g, NEW w, NEW N \in Nat
    PROVE  \E it : IsRun(it, g, w, N)
<1> DEFINE S == {n \in Nat : \E it : IsRun(it, g, w, n)}
<1>1. 0 \in S
  <2> DEFINE f == [s \in SUBSET (1 .. 0) |-> OwnWords(w)]
  <2>1. \A s \in SUBSET (1 .. 0) : RunTo(f, g, w, s) = OwnWords(w)
    <3>1. \A s \in SUBSET (1 .. 0) : s = {} OBVIOUS
    <3> HIDE DEF f
    <3> QED BY <3>1 DEF RunTo
  <2>2. IsRun(f, g, w, 0)
    <3> HIDE DEF f
    <3>1. [s \in SUBSET (1 .. 0) |-> OwnWords(w)] = [s \in SUBSET (1 .. 0) |-> RunTo(f, g, w, s)]
      BY <2>1
    <3> QED BY <3>1 DEF f, IsRun
  <2> QED BY <2>2
<1>2. ASSUME NEW n \in Nat, n \in S PROVE n + 1 \in S
  <2>1. PICK it : IsRun(it, g, w, n) BY <1>2
  <2> DEFINE f == [s \in SUBSET (1 .. n + 1) |-> RunTo(it, g, w, s)]
  <2>2. \A s \in SUBSET (1 .. n) : f[s] = it[s]
    <3>1. \A s \in SUBSET (1 .. n) : it[s] = RunTo(it, g, w, s) BY <2>1 DEF IsRun
    <3>2. \A s \in SUBSET (1 .. n) : s \in SUBSET (1 .. n + 1) OBVIOUS
    <3> QED BY <3>1, <3>2
  <2>3. \A s \in SUBSET (1 .. n + 1) : RunTo(it, g, w, s) = RunTo(f, g, w, s)
    <3> SUFFICES ASSUME NEW s \in SUBSET (1 .. n + 1), s # {}
                 PROVE  RunTo(it, g, w, s) = RunTo(f, g, w, s)
      BY DEF RunTo
    <3>1. s \ {Max(s)} \in SUBSET (1 .. n) BY WithoutLast
    <3>2. f[s \ {Max(s)}] = it[s \ {Max(s)}] BY <2>2, <3>1
    <3> HIDE DEF f
    <3> QED BY <3>2 DEF RunTo
  <2>4. IsRun(f, g, w, n + 1)
    <3> HIDE DEF f
    <3>1. [s \in SUBSET (1 .. n + 1) |-> RunTo(it, g, w, s)]
            = [s \in SUBSET (1 .. n + 1) |-> RunTo(f, g, w, s)]
      BY <2>3
    <3> QED BY <3>1 DEF f, IsRun
  <2> HIDE DEF f
  <2> QED BY <2>4
<1> HIDE DEF S
<1>3. N \in S BY <1>1, <1>2, SetInduction
<1> QED BY <1>3 DEF S

\* What printall prints below a node is the end of that run.
LEMMA PrintedRuns ==
    ASSUME NEW g, NEW w
    PROVE  \E it : IsRun(it, g, w, LetterCount) /\ Printed(g, w) = it[1 .. LetterCount]
<1> DEFINE letters == [c \in 1 .. LetterCount |-> c - 1]
           Folded(it, s) ==
               IF s = {} THEN OwnWords(w)
               ELSE IF Append(w, letters[Max(s)]) \in DOMAIN count
                    THEN it[s \ {Max(s)}] \o g[Append(w, letters[Max(s)])]
                    ELSE it[s \ {Max(s)}]
           run == CHOOSE it : it = [s \in SUBSET (1 .. LetterCount) |-> Folded(it, s)]
<1>1. LetterCount \in Nat BY DataAssumption
<1>2. DOMAIN letters = 1 .. LetterCount OBVIOUS
<1>3. ASSUME NEW it PROVE [s \in SUBSET (1 .. LetterCount) |-> Folded(it, s)]
                            = [s \in SUBSET (1 .. LetterCount) |-> RunTo(it, g, w, s)]
  <2>1. ASSUME NEW s \in SUBSET (1 .. LetterCount)
        PROVE  Folded(it, s) = RunTo(it, g, w, s)
    <3>1. CASE s = {} BY <3>1 DEF RunTo
    <3>2. CASE s # {}
      <4>1. Max(s) \in s BY <1>1, <3>2, MaxIsLast
      <4>2. letters[Max(s)] = Max(s) - 1 BY <4>1
      <4> HIDE DEF letters
      <4> QED BY <3>2, <4>2 DEF RunTo
    <3> QED BY <3>1, <3>2
  <2> HIDE DEF Folded
  <2> QED BY <2>1
<1>4. \E it : it = [s \in SUBSET (1 .. LetterCount) |-> Folded(it, s)]
  <2>1. PICK it : IsRun(it, g, w, LetterCount) BY <1>1, RunExists
  <2>2. it = [s \in SUBSET (1 .. LetterCount) |-> Folded(it, s)] BY <1>3, <2>1 DEF IsRun
  <2> QED BY <2>2
<1>5. run = [s \in SUBSET (1 .. LetterCount) |-> Folded(run, s)] BY <1>4
<1>6. IsRun(run, g, w, LetterCount) BY <1>3, <1>5 DEF IsRun
<1>7. Printed(g, w) = run[1 .. LetterCount]
  BY <1>2 DEF Printed, Dict!FoldLeft, Dict!MapThenFoldSet, Dict!Max, Max, OwnWords
<1> HIDE DEF run
<1> QED BY <1>6, <1>7

\* The last of the numbers up to n + 1, and the others.
LEMMA UpToWithoutMax ==
    ASSUME NEW n \in Nat
    PROVE  Max(1 .. n + 1) = n + 1 /\ (1 .. n + 1) \ {Max(1 .. n + 1)} = 1 .. n
<1>1. n + 1 \in Nat /\ n + 1 \in 1 .. n + 1 OBVIOUS
<1>2. Max(1 .. n + 1) \in 1 .. n + 1 /\ \A y \in 1 .. n + 1 : y <= Max(1 .. n + 1)
  BY <1>1, MaxIsLast
<1>3. Max(1 .. n + 1) = n + 1 BY <1>1, <1>2
<1> QED BY <1>3

\* Printing a node depends only on how its children are printed.
LEMMA PrintedSame ==
    ASSUME NEW g, NEW h, NEW w,
           \A c \in Dict!Letters : Append(w, c) \in DOMAIN count => g[Append(w, c)] = h[Append(w, c)]
    PROVE  Printed(g, w) = Printed(h, w)
<1>1. LetterCount \in Nat BY DataAssumption
<1>2. PICK a : IsRun(a, g, w, LetterCount) /\ Printed(g, w) = a[1 .. LetterCount] BY PrintedRuns
<1>3. PICK b : IsRun(b, h, w, LetterCount) /\ Printed(h, w) = b[1 .. LetterCount] BY PrintedRuns
<1> DEFINE G == {n \in Nat : n <= LetterCount => a[1 .. n] = b[1 .. n]}
<1>4. 0 \in G
  <2>1. 1 .. 0 = {} /\ 1 .. 0 \in SUBSET (1 .. LetterCount) OBVIOUS
  <2> QED BY <1>2, <1>3, <2>1 DEF IsRun, RunTo
<1>5. ASSUME NEW n \in Nat, n \in G PROVE n + 1 \in G
  <2> SUFFICES ASSUME n + 1 <= LetterCount PROVE a[1 .. n + 1] = b[1 .. n + 1] OBVIOUS
  <2>1. PICK s : s = 1 .. n + 1 OBVIOUS
  <2>2. s \in SUBSET (1 .. LetterCount) /\ s # {} BY <1>1, <2>1
  <2>3. Max(s) = n + 1 /\ s \ {Max(s)} = 1 .. n BY <2>1, UpToWithoutMax
  <2>4. a[1 .. n] = b[1 .. n] BY <1>1, <1>5
  <2>5. a[s] = RunTo(a, g, w, s) /\ b[s] = RunTo(b, h, w, s) BY <1>2, <1>3, <2>2 DEF IsRun
  <2>6. n \in Dict!Letters /\ (n + 1) - 1 = n BY <1>1 DEF Dict!Letters
  <2>7. RunTo(a, g, w, s) = RunTo(b, h, w, s)
    BY <2>2, <2>3, <2>4, <2>6 DEF RunTo
  <2> QED BY <2>1, <2>5, <2>7
<1>6. LetterCount \in G
  <2> HIDE DEF G
  <2> QED BY <1>1, <1>4, <1>5, SetInduction
<1>7. a[1 .. LetterCount] = b[1 .. LetterCount] BY <1>1, <1>6
<1> QED BY <1>2, <1>3, <1>7

\* The nodes of the last n levels of the tree.
Deep(n) == {w \in DOMAIN count : Len(w) + n > MaxLen}

IsPrinted(g, D) == g = [w \in D |-> Printed(g, w)]

\* Below a node of at most n + 1 levels there are at most n.
LEMMA DeepKids ==
    ASSUME DictInv, NEW n \in Nat, NEW w \in Deep(n + 1), NEW c \in Dict!Letters,
           Append(w, c) \in DOMAIN count
    PROVE  /\ Append(w, c) \in Deep(n) /\ Append(w, c) \in Kids(w)
           /\ w \in Names
<1>1. /\ w \in Names /\ Append(w, c) \in Names /\ Len(w) + (n + 1) > MaxLen
  BY DEF Deep, DictInv
<1>2. Append(w, c) \in Kids(w) BY <1>1, KidsAre
<1>3. Len(Append(w, c)) = Len(w) + 1 /\ Len(w) \in Nat BY <1>1, <1>2, NamesAre DEF Kids
<1>4. Len(Append(w, c)) + n > MaxLen
  <2>1. MaxLen \in Nat BY DataAssumption
  <2> QED BY <1>1, <1>3, <2>1
<1> QED BY <1>1, <1>2, <1>4 DEF Deep

\* No node has more levels than words have letters.
LEMMA DeepAll ==
    ASSUME DictInv
    PROVE  MaxLen + 1 \in Nat /\ Deep(0) = {} /\ Deep(MaxLen + 1) = DOMAIN count
<1>1. MaxLen \in Nat BY DataAssumption
<1>2. \A w \in DOMAIN count : Len(w) \in Nat /\ Len(w) <= MaxLen
  <2>1. DOMAIN count \subseteq Names BY DEF DictInv
  <2> QED BY <2>1, NamesAre
<1>3. \A w \in DOMAIN count : Len(w) + (MaxLen + 1) > MaxLen /\ ~(Len(w) + 0 > MaxLen)
  BY <1>1, <1>2
<1> QED BY <1>1, <1>3 DEF Deep

\* There is a function that prints every node as printall does: printall ends.
LEMMA PrintedExists ==
    ASSUME DictInv
    PROVE  \E g : IsPrinted(g, DOMAIN count)
<1> DEFINE G == {n \in Nat : \E g : IsPrinted(g, Deep(n))}
<1>1. 0 \in G
  <2> DEFINE f == [w \in {} |-> 0]
  <2>1. f = [w \in {} |-> Printed(f, w)]
    <3> HIDE DEF f
    <3>1. [w \in {} |-> 0] = [w \in {} |-> Printed(f, w)] OBVIOUS
    <3> QED BY <3>1 DEF f
  <2> HIDE DEF f
  <2>2. IsPrinted(f, Deep(0)) BY <2>1, DeepAll DEF IsPrinted
  <2> QED BY <2>2
<1>2. ASSUME NEW n \in Nat, n \in G PROVE n + 1 \in G
  <2>1. PICK f : IsPrinted(f, Deep(n)) BY <1>2
  <2> DEFINE g == [w \in Deep(n + 1) |-> Printed(f, w)]
  <2>2. \A w \in Deep(n) : g[w] = f[w]
    <3>1. \A w \in Deep(n) : f[w] = Printed(f, w) BY <2>1 DEF IsPrinted
    <3>2. \A w \in Deep(n) : w \in Deep(n + 1)
      <4>1. \A w \in DOMAIN count : Len(w) \in Nat
        <5>1. DOMAIN count \subseteq Names BY DEF DictInv
        <5> QED BY <5>1, NamesAre
      <4>2. MaxLen \in Nat BY DataAssumption
      <4> QED BY <4>1, <4>2 DEF Deep
    <3> QED BY <3>1, <3>2
  <2> HIDE DEF g
  <2>3. \A w \in Deep(n + 1) : Printed(f, w) = Printed(g, w)
    <3> SUFFICES ASSUME NEW w \in Deep(n + 1),
                        NEW c \in Dict!Letters, Append(w, c) \in DOMAIN count
                 PROVE  f[Append(w, c)] = g[Append(w, c)]
      BY PrintedSame
    <3>1. Append(w, c) \in Deep(n) BY DeepKids
    <3> QED BY <2>2, <3>1
  <2>4. IsPrinted(g, Deep(n + 1))
    <3>1. [w \in Deep(n + 1) |-> Printed(f, w)] = [w \in Deep(n + 1) |-> Printed(g, w)]
      BY <2>3
    <3> QED BY <3>1 DEF g, IsPrinted
  <2> QED BY <2>4
<1> HIDE DEF G
<1>3. MaxLen + 1 \in G BY <1>1, <1>2, DeepAll, SetInduction
<1>4. \E g : IsPrinted(g, Deep(MaxLen + 1)) BY <1>3 DEF G
<1> QED BY <1>4, DeepAll

\* The names below w, and those of them up to its k-th child.
Under(w) == {v \in Names : OnWay(w, v)}
UpTo(w, k) == {v \in Under(w) : v = w \/ v[Len(w) + 1] < k}

\* A word that goes on after a node has a next letter.
LEMMA NextLetter ==
    ASSUME NEW w \in Names, NEW v \in Under(w), v # w
    PROVE  /\ v \in Names /\ Len(w) \in Nat /\ Len(v) \in Nat
           /\ Len(w) + 1 \in 1 .. Len(v) /\ v[Len(w) + 1] \in Dict!Letters
           /\ Len(w) + 1 <= MaxLen
<1>1. v \in Names /\ OnWay(w, v) /\ Len(w) \in Nat /\ Len(v) \in Nat /\ Len(v) <= MaxLen
  BY NamesAre DEF Under
<1>2. Len(w) # Len(v) BY <1>1, BothOnWay
<1>3. Len(w) + 1 \in 1 .. Len(v) BY <1>1, <1>2 DEF OnWay
<1>4. MaxLen \in Nat BY DataAssumption
<1> QED BY <1>1, <1>3, <1>4, NamesAre

\* The child of a node at a letter.
LEMMA KidHas ==
    ASSUME NEW w \in Names, NEW k \in Dict!Letters, Append(w, k) \in Names
    PROVE  /\ Append(w, k) \in Kids(w) /\ Len(w) \in Nat
           /\ Len(Append(w, k)) = Len(w) + 1 /\ OnWay(w, Append(w, k))
           /\ Append(w, k)[Len(w) + 1] = k
<1>1. w \in Seq(Dict!Letters) /\ Len(w) \in Nat BY NamesAre
<1>2. Append(w, k) \in Kids(w) BY KidsAre
<1>3. Append(w, k)[Len(w) + 1] = k BY <1>1, AppendProperties
<1> QED BY <1>1, <1>2, <1>3 DEF Kids

\* What is printed of a node before its k-th child comes before that child and
\* all below it.
LEMMA KidsInOrder ==
    ASSUME NEW w \in Names, NEW k \in Dict!Letters, Append(w, k) \in Names,
           NEW v \in UpTo(w, k), NEW x \in Under(Append(w, k))
    PROVE  v # x /\ Dict!Before(v, x)
<1>1. PICK q \in Names : q = Append(w, k) OBVIOUS
<1>2. /\ q \in Kids(w) /\ Len(w) \in Nat /\ Len(q) = Len(w) + 1 /\ OnWay(w, q)
      /\ q[Len(w) + 1] = k
  BY <1>1, KidHas
<1>3. x \in Names /\ OnWay(q, x) /\ Len(x) \in Nat BY <1>1, NamesAre DEF Under
<1>4. x[Len(w) + 1] = k /\ Len(w) + 1 \in 1 .. Len(x)
  <2>1. Len(w) + 1 \in 1 .. Len(q) BY <1>2
  <2> QED BY <1>2, <1>3, <2>1 DEF OnWay
<1>5. OnWay(w, x) BY <1>2, <1>3, WaysJoin
<1>6. CASE v = w
  <2>1. v # x BY <1>2, <1>4, <1>6
  <2>2. Dict!IsPrefix(v, x) BY <1>3, <1>5, <1>6, WayIs
  <2> QED BY <2>1, <2>2 DEF Dict!Before, Dict!IsStrictPrefix
<1>7. CASE v # w
  <2>1. v \in Under(w) /\ v[Len(w) + 1] < k BY <1>7 DEF UpTo
  <2>2. v \in Names /\ OnWay(w, v) /\ Len(w) + 1 \in 1 .. Len(v) BY <1>7, <2>1, NextLetter DEF Under
  <2>3. k \in Int BY DEF Dict!Letters
  <2>4. v # x
    <3> SUFFICES ASSUME v = x PROVE FALSE OBVIOUS
    <3>1. k < k BY <1>4, <2>1
    <3> QED BY <2>3, <3>1
  <2>5. DOMAIN v = 1 .. Len(v) /\ DOMAIN x = 1 .. Len(x)
    <3>1. v \in Seq(Dict!Letters) /\ x \in Seq(Dict!Letters) BY <1>3, <2>2, NamesAre
    <3> QED BY <3>1, LenProperties
  <2>6. PICK j : j = Len(w) + 1 /\ j - 1 = Len(w) BY <1>2
  <2>7. SubSeq(v, 1, j - 1) = w /\ SubSeq(x, 1, j - 1) = w BY <1>3, <1>5, <2>2, <2>6, WayIs
  <2>8. j \in DOMAIN v \cap DOMAIN x /\ v[j] < x[j] BY <1>4, <2>1, <2>2, <2>5, <2>6
  <2> QED BY <2>4, <2>7, <2>8 DEF Dict!Before
<1> QED BY <1>6, <1>7

\* With one letter more come the words below one child more.
LEMMA UpToNext ==
    ASSUME NEW w \in Names, NEW k \in Dict!Letters
    PROVE  UpTo(w, k + 1) = UpTo(w, k) \cup (IF Append(w, k) \in Names THEN Under(Append(w, k))
                                                                       ELSE {})
<1>1. k \in Int /\ \A l \in Dict!Letters : l \in Int BY DEF Dict!Letters
<1>2. w \in Seq(Dict!Letters) /\ Len(w) \in Nat BY NamesAre
<1>3. /\ Append(w, k) \in Seq(Dict!Letters) /\ Len(Append(w, k)) = Len(w) + 1
      /\ Append(w, k)[Len(w) + 1] = k
      /\ \A i \in 1 .. Len(w) : Append(w, k)[i] = w[i]
  BY <1>2, AppendProperties
<1>4. ASSUME NEW v \in UpTo(w, k + 1), v \notin UpTo(w, k)
      PROVE  Append(w, k) \in Names /\ v \in Under(Append(w, k))
  <2>1. v \in Under(w) /\ v # w /\ v[Len(w) + 1] < k + 1 /\ ~(v[Len(w) + 1] < k)
    BY <1>4 DEF UpTo
  <2>2. /\ v \in Names /\ Len(v) \in Nat /\ Len(w) + 1 \in 1 .. Len(v) /\ Len(w) + 1 <= MaxLen
        /\ v[Len(w) + 1] \in Int
    BY <1>1, <2>1, NextLetter
  <2>3. v[Len(w) + 1] = k BY <1>1, <2>1, <2>2
  <2>4. Append(w, k) \in Names BY <1>3, <2>2, NamesAre
  <2>5. OnWay(w, v) BY <2>1 DEF Under
  <2>6. \A i \in 1 .. Len(w) + 1 : Append(w, k)[i] = v[i]
    <3>1. \A i \in 1 .. Len(w) + 1 : i \in 1 .. Len(w) \/ i = Len(w) + 1 BY <1>2
    <3> QED BY <1>3, <2>3, <2>5, <3>1 DEF OnWay
  <2>7. OnWay(Append(w, k), v)
    <3>1. Len(w) + 1 <= Len(v) BY <2>2
    <3> QED BY <1>3, <2>6, <3>1 DEF OnWay
  <2> QED BY <2>2, <2>4, <2>7 DEF Under
<1>5. ASSUME Append(w, k) \in Names, NEW v \in Under(Append(w, k)) PROVE v \in UpTo(w, k + 1)
  <2>1. PICK q \in Names : q = Append(w, k) BY <1>5
  <2>2. /\ v \in Names /\ OnWay(q, v) /\ Len(q) = Len(w) + 1 /\ OnWay(w, q) /\ q[Len(w) + 1] = k
    BY <1>5, <2>1, KidHas DEF Under
  <2>3. OnWay(w, v) BY <2>1, <2>2, WaysJoin
  <2>4. v[Len(w) + 1] = k
    <3>1. Len(w) + 1 \in 1 .. Len(q) BY <1>2, <2>2
    <3> QED BY <2>2, <3>1 DEF OnWay
  <2> QED BY <1>1, <2>2, <2>3, <2>4 DEF UpTo, Under
<1>6. ASSUME NEW v \in UpTo(w, k) PROVE v \in UpTo(w, k + 1)
  <2>1. CASE v = w BY <2>1 DEF UpTo
  <2>2. CASE v # w
    <3>1. v \in Under(w) /\ v[Len(w) + 1] < k BY <2>2 DEF UpTo
    <3>2. v[Len(w) + 1] \in Int BY <1>1, <2>2, <3>1, NextLetter
    <3>3. v[Len(w) + 1] < k + 1 BY <1>1, <3>1, <3>2
    <3> QED BY <3>1, <3>3 DEF UpTo
  <2> QED BY <2>1, <2>2
<1> QED BY <1>4, <1>5, <1>6

\* With no letter there is the node, with all letters all that is below it.
LEMMA UpToEnds ==
    ASSUME NEW w \in Names
    PROVE  UpTo(w, 0) = {w} /\ UpTo(w, LetterCount) = Under(w)
<1>1. w \in Under(w) BY NamesAre DEF Under, OnWay
<1>2. ASSUME NEW v \in Under(w), v # w
      PROVE  ~(v[Len(w) + 1] < 0) /\ v[Len(w) + 1] < LetterCount
  <2>1. v[Len(w) + 1] \in Dict!Letters BY <1>2, NextLetter
  <2>2. \A l \in Dict!Letters : ~(l < 0) /\ l < LetterCount
    BY DataAssumption DEF Dict!Letters
  <2> QED BY <2>1, <2>2
<1> QED BY <1>1, <1>2 DEF UpTo

\* A run over the letters prints what is below its node, child after child.
LEMMA RunPrints ==
    ASSUME DictInv, NEW w \in DOMAIN count, NEW g,
           \A c \in Dict!Letters :
               Append(w, c) \in DOMAIN count => Prints(g[Append(w, c)], Under(Append(w, c)))
    PROVE  Prints(Printed(g, w), Under(w))
<1>1. LetterCount \in Nat BY DataAssumption
<1>2. PICK it : IsRun(it, g, w, LetterCount) /\ Printed(g, w) = it[1 .. LetterCount] BY PrintedRuns
<1>3. /\ w \in Names /\ Tally(Counted, entered) /\ DOMAIN count \subseteq Names
      /\ \A p \in Names : p \in DOMAIN count <=> Counted[p] # 0
      /\ \A p \in Names : Kept(entered)[p] \in Nat
  BY TallyFacts DEF DictInv
<1> DEFINE G == {n \in Nat : n <= LetterCount => Prints(it[1 .. n], UpTo(w, n))}
<1>4. 0 \in G
  <2>1. 1 .. 0 = {} /\ 1 .. 0 \in SUBSET (1 .. LetterCount) OBVIOUS
  <2>2. it[1 .. 0] = OwnWords(w) BY <1>2, <2>1 DEF IsRun, RunTo
  <2>3. Prints(it[1 .. 0], UpTo(w, 0)) BY <1>3, <2>2, PrintsOwn, UpToEnds
  <2> QED BY <2>3
<1>5. ASSUME NEW n \in Nat, n \in G PROVE n + 1 \in G
  <2> SUFFICES ASSUME n + 1 <= LetterCount PROVE Prints(it[1 .. n + 1], UpTo(w, n + 1)) OBVIOUS
  <2>1. PICK s : s = 1 .. n + 1 OBVIOUS
  <2>2. s \in SUBSET (1 .. LetterCount) /\ s # {} BY <1>1, <2>1
  <2>3. Max(s) = n + 1 /\ s \ {Max(s)} = 1 .. n BY <2>1, UpToWithoutMax
  <2>4. Prints(it[1 .. n], UpTo(w, n)) BY <1>1, <1>5
  <2>5. n \in Dict!Letters /\ (n + 1) - 1 = n BY <1>1 DEF Dict!Letters
  <2>6. it[s] = IF Append(w, n) \in DOMAIN count THEN it[1 .. n] \o g[Append(w, n)] ELSE it[1 .. n]
    <3>1. it[s] = RunTo(it, g, w, s) BY <1>2, <2>2 DEF IsRun
    <3> QED BY <2>2, <2>3, <2>5, <3>1 DEF RunTo
  <2>7. CASE Append(w, n) \in DOMAIN count
    <3>1. Append(w, n) \in Names BY <1>3, <2>7
    <3>2. UpTo(w, n + 1) = UpTo(w, n) \cup Under(Append(w, n)) BY <1>3, <2>5, <3>1, UpToNext
    <3>3. Prints(g[Append(w, n)], Under(Append(w, n))) BY <2>5, <2>7
    <3>4. \A v \in UpTo(w, n), x \in Under(Append(w, n)) : v # x /\ Dict!Before(v, x)
      BY <1>3, <2>5, <3>1, KidsInOrder
    <3>5. Prints(it[1 .. n] \o g[Append(w, n)], UpTo(w, n) \cup Under(Append(w, n)))
      BY <1>3, <2>4, <3>3, <3>4, PrintsJoin
    <3> QED BY <2>1, <2>6, <2>7, <3>2, <3>5
  <2>8. CASE Append(w, n) \notin DOMAIN count
    <3>1. UpTo(w, n) \subseteq UpTo(w, n + 1) BY <1>3, <2>5, UpToNext
    <3>2. ASSUME NEW v \in UpTo(w, n + 1) \ UpTo(w, n) PROVE Kept(entered)[v] = 0
      <4>1. Append(w, n) \in Names /\ v \in Under(Append(w, n)) BY <1>3, <2>5, <3>2, UpToNext
      <4>2. v \in Names /\ OnWay(Append(w, n), v) BY <4>1 DEF Under
      <4>3. Counted[Append(w, n)] = 0 BY <1>3, <2>8, <4>1
      <4>4. Counted[v] <= 0 /\ Counted[v] \in Nat BY <1>3, <4>1, <4>2, <4>3, MoreAbove, TallyFacts
      <4>5. /\ Kept(entered)[v] \in Nat /\ SumOver(Counted, Kids(v)) \in Nat
            /\ Counted[v] = Kept(entered)[v] + SumOver(Counted, Kids(v))
        BY <1>3, <4>2, TallyFacts
      <4> QED BY <4>4, <4>5
    <3>3. Prints(it[1 .. n], UpTo(w, n + 1)) BY <2>4, <3>1, <3>2, PrintsMore
    <3> QED BY <2>1, <2>6, <2>8, <3>3
  <2> QED BY <2>7, <2>8
<1>6. LetterCount \in G
  <2> HIDE DEF G
  <2> QED BY <1>1, <1>4, <1>5, SetInduction
<1>7. Prints(it[1 .. LetterCount], UpTo(w, LetterCount)) BY <1>1, <1>6
<1> QED BY <1>2, <1>3, <1>7, UpToEnds

\* Every node prints the words at it and below it, by induction over the levels.
LEMMA TreePrints ==
    ASSUME DictInv, NEW g, IsPrinted(g, DOMAIN count)
    PROVE  \A w \in DOMAIN count : Prints(g[w], Under(w))
<1> DEFINE G == {n \in Nat : \A w \in Deep(n) : Prints(g[w], Under(w))}
<1>1. 0 \in G BY DeepAll
<1>2. ASSUME NEW n \in Nat, n \in G PROVE n + 1 \in G
  <2> SUFFICES ASSUME NEW w \in Deep(n + 1) PROVE Prints(g[w], Under(w)) OBVIOUS
  <2>1. w \in DOMAIN count BY DEF Deep
  <2>2. g[w] = Printed(g, w) BY <2>1 DEF IsPrinted
  <2>3. \A c \in Dict!Letters :
          Append(w, c) \in DOMAIN count => Prints(g[Append(w, c)], Under(Append(w, c)))
    BY <1>2, DeepKids
  <2>4. Prints(Printed(g, w), Under(w)) BY <2>1, <2>3, RunPrints
  <2> QED BY <2>2, <2>4
<1> HIDE DEF G
<1>3. MaxLen + 1 \in G BY <1>1, <1>2, DeepAll, SetInduction
<1>4. \A w \in Deep(MaxLen + 1) : Prints(g[w], Under(w)) BY <1>3 DEF G
<1> QED BY <1>4, DeepAll

\* The root is never freed, and counts itself.
LEMMA RootIsThere ==
    ASSUME DictInv
    PROVE  <<>> \in DOMAIN count /\ Under(<<>>) = Names /\ Kept(entered)[<<>>] = 1
<1>1. <<>> \in Names /\ Len(<<>>) = 0 BY NamesAre
<1>2. Kept(entered)[<<>>] = 1 BY <1>1 DEF Kept
<1>3. Counted[<<>>] # 0
  <2>1. /\ SumOver(Counted, Kids(<<>>)) \in Nat
        /\ Counted[<<>>] = Kept(entered)[<<>>] + SumOver(Counted, Kids(<<>>))
    BY <1>1, TallyFacts DEF DictInv
  <2> QED BY <1>2, <2>1
<1>4. \A v \in Names : OnWay(<<>>, v) BY <1>1, NamesAre DEF OnWay
<1> QED BY <1>1, <1>2, <1>3, <1>4 DEF DictInv, Under

\* printall prints what the root prints, without the root.
LEMMA DictInvPrints == (odd = 0 => DictInv) => Dict!PrintedInOrder
<1> SUFFICES ASSUME DictInv PROVE Dict!PrintedInOrder BY DEF Dict!PrintedInOrder
<1> DEFINE g == CHOOSE f : IsPrinted(f, DOMAIN count)
           out == Dict!PrintAll
<1>1. IsPrinted(g, DOMAIN count) BY PrintedExists
<1>2. out = g[<<>>] BY DEF Dict!PrintAll, IsPrinted, Printed, Dict!Root
<1> HIDE DEF g, out
<1>3. Prints(out, Names) BY <1>1, <1>2, TreePrints, RootIsThere
<1>4. DOMAIN out = 1 .. Len(out) BY <1>3, LenProperties DEF Prints
<1>5. \A i \in 1 .. Len(out) - 1 : out[i] = out[i + 1] \/ Dict!Before(out[i], out[i + 1])
  BY <1>3 DEF Prints
<1>6. ASSUME NEW w \in Dict!Words \cup {Dict!Root}
      PROVE  Dict!Cardinality({i \in DOMAIN out : out[i] = w})
               = IF w = Dict!Root THEN 1 ELSE entered[w]
  <2>1. w \in Names BY DEF Names
  <2>2. {i \in DOMAIN out : out[i] = w} = PlacesIn(out, w) BY <1>4 DEF PlacesIn
  <2>3. Cardinality(PlacesIn(out, w)) = Kept(entered)[w] BY <1>3, <2>1 DEF Prints
  <2>4. Kept(entered)[w] = IF w = <<>> THEN 1 ELSE entered[w] BY <2>1 DEF Kept
  <2>5. \A S : Dict!Cardinality(S) = Cardinality(S) BY DEF Dict!Cardinality, Cardinality
  <2> QED BY <2>2, <2>3, <2>4, <2>5 DEF Dict!Root
<1> QED BY <1>5, <1>6 DEF Dict!PrintedInOrder, out

\* There are finitely many words of up to MaxLen letters.
LEMMA WordsFinite == IsFiniteSet(Dict!Words)
<1> DEFINE Short(n) == {p \in Names : Len(p) <= n}
           G == {n \in Nat : IsFiniteSet(Short(n))}
<1>1. 0 \in G
  <2>1. \A p \in Short(0) : p = <<>>
    <3>1. \A p \in Names : Len(p) \in Nat /\ (Len(p) = 0 => p = <<>>) BY NamesAre
    <3> QED BY <3>1
  <2>2. Short(0) \in SUBSET {<<>>} BY <2>1
  <2>3. IsFiniteSet({<<>>}) BY FS_Singleton
  <2> HIDE DEF Short
  <2>4. IsFiniteSet(Short(0)) BY <2>2, <2>3, FS_Subset
  <2> QED BY <2>4
<1>2. ASSUME NEW n \in Nat, n \in G PROVE n + 1 \in G
  <2> DEFINE U == Short(n) \X Dict!Letters
             g == [u \in U |-> Append(u[1], u[2])]
             A == {Append(u[1], u[2]) : u \in U}
  <2>1. IsFiniteSet(Dict!Letters)
    <3>1. 0 \in Int /\ LetterCount - 1 \in Int BY DataAssumption
    <3> QED BY <3>1, FS_Interval DEF Dict!Letters
  <2>2. IsFiniteSet(U)
    <3> HIDE DEF Short
    <3> QED BY <1>2, <2>1, FS_Product
  <2>3. g \in Surjection(U, A) BY DEF Surjection
  <2>4. ASSUME NEW p \in Short(n + 1) PROVE p \in Short(n) \cup A
    <3>1. p \in Names /\ Len(p) <= n + 1 /\ Len(p) \in Nat BY NamesAre
    <3>2. CASE Len(p) <= n BY <3>1, <3>2
    <3>3. CASE Len(p) = n + 1
      <4>1. n \in 0 .. Len(p) BY <3>3
      <4>2. PICK q \in Names : Len(q) = n /\ OnWay(q, p) BY <3>1, <4>1, WayHas
      <4>3. p \in Kids(q) BY <3>1, <3>3, <4>2 DEF Kids
      <4>4. PICK c \in Dict!Letters : p = Append(q, c) BY <4>3, KidsAre
      <4>5. q \in Short(n) BY <4>2
      <4>6. <<q, c>> \in U /\ p = Append(<<q, c>>[1], <<q, c>>[2]) BY <4>4, <4>5
      <4> QED BY <4>6
    <3> QED BY <3>1, <3>2, <3>3
  <2> HIDE DEF U, g, A, Short
  <2>5. IsFiniteSet(A) BY <2>2, <2>3, FS_Surjection
  <2>6. IsFiniteSet(Short(n) \cup A) BY <1>2, <2>5, FS_Union
  <2>7. Short(n + 1) \in SUBSET (Short(n) \cup A) BY <2>4
  <2>8. IsFiniteSet(Short(n + 1)) BY <2>6, <2>7, FS_Subset
  <2> QED BY <2>8
<1>3. MaxLen \in G
  <2> HIDE DEF G
  <2>1. MaxLen \in Nat BY DataAssumption
  <2> QED BY <1>1, <1>2, <2>1, SetInduction
<1>4. Dict!Words \in SUBSET Short(MaxLen) BY NamesAre
<1>5. IsFiniteSet(Short(MaxLen)) BY <1>3
<1> HIDE DEF Short
<1> QED BY <1>4, <1>5, FS_Subset

\* The root counts all that is in the dictionary, which is bounded.
DictSmall == Counted[<<>>] <= MaxWords + 1

\* At first the root counts itself only.
LEMMA DictInitSmall == Dict!Init => DictSmall
<1> SUFFICES ASSUME Dict!Init PROVE DictSmall OBVIOUS
<1>1. DOMAIN count = {<<>>} /\ count[<<>>] = 1 BY DEF Dict!Init, Dict!Root
<1>2. Counted[<<>>] = 1 BY <1>1, NamesAre DEF Counted
<1>3. MaxWords \in Nat BY DataAssumption
<1>4. 1 <= MaxWords + 1 BY <1>3
<1> QED BY <1>2, <1>4 DEF DictSmall

\* Insert is called only while there is room, and erase makes room.
LEMMA DictNextSmall ==
    ASSUME DictInv, DictSmall, odd \in Nat, odd' = 0, Dict!Next
    PROVE  DictSmall'
<1> SUFFICES ASSUME NEW w \in Dict!Words, NEW num \in Nat \ {0}, num <= MaxWords,
                    Dict!Insert(w, num) \/ Dict!Delete(w, num)
             PROVE  DictSmall'
  BY OnlyPositive
<1>1. MaxWords \in Nat /\ num \in Nat \ {0} BY DataAssumption
<1>2. <<>> \in DOMAIN count /\ <<>> \in Names BY RootIsThere, NamesAre
<1>3. Counted[<<>>] = count[<<>>] /\ count[<<>>] \in Nat
  <2>1. Counted[<<>>] \in Nat BY <1>2, TallyFacts DEF DictInv
  <2> QED BY <1>2, <2>1 DEF Counted
<1>4. Counted'[<<>>] = IF <<>> \in DOMAIN count' THEN count'[<<>>] ELSE 0 BY <1>2 DEF Counted
<1>5. CASE Dict!Insert(w, num)
  <2>1. Dict!update(w, num) /\ count[<<>>] - 1 + num <= MaxWords
    BY <1>5 DEF Dict!Insert, Dict!Root
  <2> DEFINE D == DOMAIN count \cup Dict!NodesTo(w)
             f == [p \in D |-> (IF p \in DOMAIN count THEN count[p] ELSE 0)
                        + (IF p \in Dict!NodesTo(w) \cup {Dict!Root} THEN num ELSE 0)]
  <2>2. count' = f BY <2>1 DEF Dict!update
  <2>3. DOMAIN f = D /\ <<>> \in D /\ f[<<>>] = count[<<>>] + num BY <1>2 DEF Dict!Root
  <2> HIDE DEF f, D
  <2>4. Counted'[<<>>] = count[<<>>] + num BY <1>4, <2>2, <2>3
  <2>5. Counted'[<<>>] <= MaxWords + 1 BY <1>1, <1>3, <2>1, <2>4
  <2> QED BY <2>5 DEF DictSmall
<1>6. CASE Dict!Delete(w, num)
  <2>1. Dict!erase(w, num) BY <1>6 DEF Dict!Delete
  <2> DEFINE D == {p \in DOMAIN count : ~Cut(w, num, p)}
             f == [p \in D |-> IF p \in Dict!NodesTo(w) \cup {Dict!Root} THEN count[p] - num
                                                                         ELSE count[p]]
  <2>3. count' = f BY <2>1 DEF Dict!erase, Cut, EmptyAt
  <2>4. DOMAIN f = D /\ (<<>> \in D => f[<<>>] = count[<<>>] - num) BY DEF Dict!Root
  <2> HIDE DEF f, D
  <2>5. Counted'[<<>>] <= MaxWords + 1
    <3>1. count[<<>>] <= MaxWords + 1 BY <1>3 DEF DictSmall
    <3>2. count[<<>>] - num <= MaxWords + 1 /\ 0 <= MaxWords + 1 BY <1>1, <1>3, <3>1
    <3> QED BY <1>4, <2>3, <2>4, <3>2
  <2> QED BY <2>5 DEF DictSmall
<1> QED BY <1>5, <1>6

\* The types of the tree, whatever numbers are entered.
DictTyped ==
    /\ DOMAIN count \subseteq Names
    /\ \A p \in DOMAIN count : count[p] \in Int
    /\ live \in Int
    /\ entered \in [Dict!Words -> Int]
    /\ crashed \in BOOLEAN
    /\ odd \in Nat

\* At first there is the root only.
LEMMA DictInitTyped == Dict!Init => DictTyped
<1> SUFFICES ASSUME Dict!Init PROVE DictTyped OBVIOUS
<1>1. /\ count = [w \in {<<>>} |-> 1] /\ live = 0 /\ entered = [w \in Dict!Words |-> 0]
      /\ crashed = FALSE /\ odd = 0
  BY DEF Dict!Init, Dict!Root
<1>2. DOMAIN count = {<<>>} /\ \A p \in DOMAIN count : count[p] = 1 BY <1>1
<1>3. DOMAIN count \subseteq Names BY <1>2, NamesAre
<1>4. entered \in [Dict!Words -> Int] BY <1>1
<1>5. live \in Int /\ odd \in Nat
  <2>1. live = 0 /\ odd = 0 BY <1>1
  <2> QED BY <2>1
<1>6. crashed \in BOOLEAN BY <1>1
<1>7. \A p \in DOMAIN count : count[p] \in Int BY <1>2
<1> QED BY <1>3, <1>4, <1>5, <1>6, <1>7 DEF DictTyped

\* update adds nodes that are on the way to a word, and erase removes some.
LEMMA DictNextTyped == DictTyped /\ Dict!Next => DictTyped'
<1> SUFFICES ASSUME DictTyped, NEW w \in Dict!Words, NEW num \in -MaxBelow .. MaxWords,
                    Dict!Insert(w, num) \/ Dict!Delete(w, num)
             PROVE  DictTyped'
  BY DEF Dict!Next
<1>1. /\ DOMAIN count \subseteq Names /\ \A p \in DOMAIN count : count[p] \in Int
      /\ live \in Int /\ entered \in [Dict!Words -> Int]
      /\ crashed \in BOOLEAN /\ odd \in Nat
  BY DEF DictTyped
<1>2. num \in Int BY DataAssumption
<1>3. w \in Names /\ Len(w) \in Nat BY NamesAre
<1>4. Dict!Entered(num) BY DEF Dict!Insert, Dict!Delete
<1>5. odd' \in Nat BY <1>1, <1>4 DEF Dict!Entered
<1>6. Dict!NodesTo(w) \subseteq Names
  <2> SUFFICES ASSUME NEW k \in 1 .. Len(w) PROVE SubSeq(w, 1, k) \in Names
    BY DEF Dict!NodesTo
  <2>1. k \in 0 .. Len(w) BY <1>3
  <2> QED BY <1>3, <2>1, WayHas
<1>7. CASE Dict!Insert(w, num)
  <2> DEFINE D == DOMAIN count \cup Dict!NodesTo(w)
             f == [p \in D |-> (IF p \in DOMAIN count THEN count[p] ELSE 0)
                        + (IF p \in Dict!NodesTo(w) \cup {Dict!Root} THEN num ELSE 0)]
  <2>1. /\ Dict!update(w, num) /\ entered' = [entered EXCEPT ![w] = entered[w] + num]
        /\ crashed' = crashed
    BY <1>7 DEF Dict!Insert
  <2>2. count' = f BY <2>1 DEF Dict!update
  <2>3. live' = live + Cardinality(Dict!NodesTo(w) \ DOMAIN count)
    BY <2>1 DEF Dict!update, Dict!Cardinality, Cardinality
  <2>4. DOMAIN f = D /\ \A p \in D : f[p] \in Int BY <1>1, <1>2
  <2>5. D \subseteq Names BY <1>1, <1>6
  <2> HIDE DEF f, D
  <2>6. DOMAIN count' \subseteq Names /\ \A p \in DOMAIN count' : count'[p] \in Int
    BY <2>2, <2>4, <2>5
  <2>7. live' \in Int
    <3>1. IsFiniteSet(Dict!NodesTo(w)) BY <1>3, NodesFrom DEF Dict!NodesTo
    <3>2. Cardinality(Dict!NodesTo(w) \ DOMAIN count) \in Nat
      BY <3>1, FS_Difference, FS_CardinalityType
    <3> QED BY <1>1, <2>3, <3>2
  <2>8. entered' \in [Dict!Words -> Int]
    <3>1. entered[w] + num \in Int BY <1>1, <1>2
    <3> QED BY <1>1, <2>1, <3>1
  <2> QED BY <1>1, <1>5, <2>1, <2>6, <2>7, <2>8 DEF DictTyped
<1>8. CASE Dict!Delete(w, num)
  <2> DEFINE D == {p \in DOMAIN count : ~Cut(w, num, p)}
             f == [p \in D |-> IF p \in Dict!NodesTo(w) \cup {Dict!Root} THEN count[p] - num
                                                                         ELSE count[p]]
             A == EmptyAt(w, num)
  <2>1. Dict!erase(w, num) /\ entered' = [entered EXCEPT ![w] = entered[w] - num]
    BY <1>8 DEF Dict!Delete
  <2>2. count' = f BY <2>1 DEF Dict!erase, Cut, EmptyAt
  <2>3. live' = IF A = {} THEN live ELSE live - (Len(w) - Dict!Min(A) + 1)
    BY <2>1 DEF Dict!erase, EmptyAt, Dict!freed
  <2>4. crashed' \in BOOLEAN BY <1>1, <2>1 DEF Dict!erase
  <2>5. DOMAIN f = D /\ D \subseteq DOMAIN count /\ \A p \in D : f[p] \in Int BY <1>1, <1>2
  <2>6. A \in SUBSET Nat BY DEF EmptyAt
  <2> HIDE DEF f, D, A
  <2>7. DOMAIN count' \subseteq Names /\ \A p \in DOMAIN count' : count'[p] \in Int
    BY <1>1, <2>2, <2>5
  <2>8. live' \in Int
    <3>1. CASE A = {} BY <1>1, <2>3, <3>1
    <3>2. CASE A # {}
      <4>1. Dict!Min(A) = Min(A) BY DEF Dict!Min, Min
      <4>2. Dict!Min(A) \in Nat BY <2>6, <3>2, <4>1, MinIsLeast
      <4> QED BY <1>1, <1>3, <2>3, <3>2, <4>2
    <3> QED BY <3>1, <3>2
  <2>9. entered' \in [Dict!Words -> Int]
    <3>1. entered[w] - num \in Int BY <1>1, <1>2
    <3> QED BY <1>1, <2>1, <3>1
  <2> QED BY <1>5, <2>4, <2>7, <2>8, <2>9 DEF DictTyped
<1> QED BY <1>7, <1>8

\* The types always, and while no number below one has been entered the tally.
DictHolds == DictTyped /\ (odd = 0 => DictInv /\ DictSmall)

\* A tally with a bounded root has bounded counts.
LEMMA DictTypes == DictHolds => Dict!TypeOK
<1> SUFFICES ASSUME DictHolds PROVE Dict!TypeOK OBVIOUS
<1>a. /\ DOMAIN count \subseteq Dict!Words \cup {Dict!Root}
      /\ \A p \in DOMAIN count : count[p] \in Int
      /\ live \in Int /\ entered \in [Dict!Words -> Int]
      /\ crashed \in BOOLEAN /\ odd \in Nat
  BY DEF DictHolds, DictTyped, Names
<1> SUFFICES ASSUME odd = 0, DictInv, DictSmall
             PROVE  /\ \A p \in DOMAIN count : count[p] \in 0 .. MaxWords + 1
                    /\ live \in 0 .. Dict!Cardinality(Dict!Words)
                    /\ \A w \in Dict!Words : entered[w] \in 0 .. MaxWords
  BY <1>a DEF DictHolds, Dict!TypeOK
<1>1. /\ Tally(Counted, entered) /\ DOMAIN count \subseteq Names /\ IsFiniteSet(DOMAIN count)
      /\ live = Cardinality(DOMAIN count) - 1
      /\ entered \in [Dict!Words -> Nat]
      /\ Counted[<<>>] <= MaxWords + 1
      /\ MaxWords \in Nat
  BY DataAssumption DEF DictInv, DictSmall, Tally
<1>2. <<>> \in DOMAIN count /\ <<>> \in Names /\ Kept(entered)[<<>>] = 1 /\ Under(<<>>) = Names
  BY RootIsThere, NamesAre
<1>3. Counted[<<>>] \in Nat BY <1>1, <1>2, TallyFacts
<1>4. \A p \in Names : Counted[p] \in Nat /\ Counted[p] <= Counted[<<>>]
  BY <1>1, <1>2, MoreAbove, TallyFacts DEF Under
<1>5. \A p \in DOMAIN count : count[p] \in 0 .. MaxWords + 1
  <2>1. \A p \in DOMAIN count : p \in Names /\ count[p] = Counted[p] BY OwnIsKept
  <2> QED BY <1>1, <1>3, <1>4, <2>1
<1>6. ASSUME NEW w \in Dict!Words PROVE entered[w] \in 0 .. MaxWords
  <2>1. w \in Names /\ w # <<>> BY NamesAre
  <2>2. OnWay(<<>>, w) BY <1>2, <2>1 DEF Under
  <2>3. PICK q \in Kids(<<>>) : OnWay(q, w) BY <1>2, <2>1, <2>2, WayGoesOn
  <2>4. q \in Names BY DEF Kids
  <2>5. Counted[w] <= Counted[q] /\ Counted[w] \in Nat /\ Counted[q] \in Nat
    BY <1>1, <1>4, <2>1, <2>3, <2>4, MoreAbove
  <2>6. /\ SumOver(Counted, Kids(<<>>) \ {q}) \in Nat
        /\ SumOver(Counted, Kids(<<>>)) = SumOver(Counted, Kids(<<>>) \ {q}) + Counted[q]
    BY <1>1, <1>2, TallyOfKid
  <2>7. /\ SumOver(Counted, Kids(<<>>)) \in Nat
        /\ Counted[<<>>] = 1 + SumOver(Counted, Kids(<<>>))
    BY <1>1, <1>2, TallyFacts
  <2>8. entered[w] \in Nat /\ entered[w] <= Counted[w]
    <3>1. /\ Kept(entered)[w] \in Nat /\ SumOver(Counted, Kids(w)) \in Nat
          /\ Counted[w] = Kept(entered)[w] + SumOver(Counted, Kids(w))
      BY <1>1, <2>1, TallyFacts
    <3>2. Kept(entered)[w] = entered[w] BY <2>1, NamesAre DEF Kept
    <3> QED BY <3>1, <3>2
  <2>9. Counted[q] + 1 <= MaxWords + 1 BY <1>1, <1>3, <2>5, <2>6, <2>7
  <2> QED BY <1>1, <2>5, <2>8, <2>9
<1>7. live \in 0 .. Cardinality(Dict!Words)
  <2>1. PICK N : N = DOMAIN count \ {<<>>} OBVIOUS
  <2>2. Cardinality(N) = live BY <1>1, <1>2, <2>1, FS_RemoveElement
  <2>3. N \in SUBSET Dict!Words BY <1>1, <2>1, NamesAre
  <2>4. Cardinality(N) <= Cardinality(Dict!Words) /\ IsFiniteSet(N)
    BY <2>3, WordsFinite, FS_Subset
  <2>5. Cardinality(N) \in Nat /\ Cardinality(Dict!Words) \in Nat
    BY <2>4, WordsFinite, FS_CardinalityType
  <2> QED BY <2>2, <2>4, <2>5
<1>8. Dict!Cardinality(Dict!Words) = Cardinality(Dict!Words) BY DEF Dict!Cardinality, Cardinality
<1> QED BY <1>5, <1>6, <1>7, <1>8

\* At first all of it holds.
LEMMA DictInitHolds == Dict!Init => DictHolds
BY DictInitTyped, DictInitKeeps, DictInitSmall DEF DictHolds

\* Steps that keep the tree keep what is known of it.
LEMMA DictStepKeeps ==
    ASSUME DictHolds, Dict!Next \/ UNCHANGED dictVars
    PROVE  DictHolds'
<1>1. CASE Dict!Next
  <2>1. DictTyped' BY <1>1, DictNextTyped DEF DictHolds
  <2>2. ASSUME odd' = 0 PROVE odd = 0 /\ odd \in Nat
    <3>1. PICK num \in Int : Dict!Entered(num)
      BY <1>1, DataAssumption DEF Dict!Next, Dict!Insert, Dict!Delete
    <3>2. odd \in Nat BY DEF DictHolds, DictTyped
    <3> QED BY <2>2, <3>1, <3>2 DEF Dict!Entered
  <2>3. ASSUME odd' = 0 PROVE DictInv' /\ DictSmall'
    BY <1>1, <2>2, <2>3, DictNextKeeps, DictNextSmall DEF DictHolds
  <2> QED BY <2>1, <2>3 DEF DictHolds
<1>2. CASE UNCHANGED dictVars
  <2>1. UNCHANGED <<count, live, entered, crashed, odd>> BY <1>2 DEF dictVars
  <2>2. Counted' = Counted BY <2>1 DEF Counted
  <2>3. DictTyped' BY <2>1 DEF DictHolds, DictTyped
  <2> SUFFICES ASSUME odd = 0, DictInv, DictSmall PROVE DictInv' /\ DictSmall'
    BY <2>1, <2>3 DEF DictHolds
  <2>4. DictSmall' BY <2>1, <2>2 DEF DictSmall
  <2>5. Tally(Counted, entered)'
    BY <2>1, <2>2 DEF DictInv, Tally, Kept, SumOver, Units
  <2>6. \A p \in Names : p \in DOMAIN count' <=> Counted'[p] # 0
    BY <2>1, <2>2 DEF DictInv
  <2>7. /\ DOMAIN count' \subseteq Names /\ IsFiniteSet(DOMAIN count')
        /\ live' = Cardinality(DOMAIN count') - 1
    BY <2>1 DEF DictInv
  <2>8. DictInv' BY <2>5, <2>6, <2>7 DEF DictInv
  <2> QED BY <2>4, <2>8
<1> QED BY <1>1, <1>2
===============================================================================
