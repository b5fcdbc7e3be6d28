--------------------------- MODULE TcpFramingProofs ---------------------------
(***************************************************************************)
(* Messages over the TCP connection, for every set of types and lengths,   *)
(* every capacity and number of messages: as long as no call has ended     *)
(* inside a message, what is received is what was sent, message by         *)
(* message, however the stream is cut.                                     *)
(***************************************************************************)
EXTENDS TcpFraming, SequenceTheorems, TLAPS

Byte == Message \X Nat

-------------------------------------------------------------------------------
(* Sequences of bytes.                                                     *)

\* The bytes of a message are as many as its total, numbered from zero.
LEMMA BytesOf ==
    ASSUME NEW m \in Message
    PROVE  /\ Total(m) \in Nat
           /\ Total(m) = HeadLen + m.len
           /\ m.len \in Nat
           /\ Total(m) >= HeadLen
           /\ Bytes(m) \in Seq(Byte)
           /\ Len(Bytes(m)) = Total(m)
           /\ \A j \in 1 .. Total(m) : Bytes(m)[j] = <<m, j - 1>>
<1>1. /\ m.len \in Nat
      /\ Total(m) \in Nat
      /\ Total(m) >= HeadLen
  <2>1. m.len \in Lens /\ Lens \subseteq Nat
      BY FramingAssumption DEF Message
  <2>2. m.len \in Nat
      BY <2>1
  <2> QED
      BY <2>2 DEF Total, HeadLen
<1>2. Bytes(m) = [k \in 1 .. Total(m) |-> <<m, k - 1>>]
    BY DEF Bytes
<1>3. \A k \in 1 .. Total(m) : <<m, k - 1>> \in Byte
    BY <1>1 DEF Byte
<1>4. [k \in 1 .. Total(m) |-> <<m, k - 1>>] \in [1 .. Total(m) -> Byte]
    BY <1>3
<1>5. Bytes(m) \in Seq(Byte) /\ Len(Bytes(m)) = Total(m)
  <2>1. \A T, f : \A n \in Nat : f \in [1 .. n -> T] => f \in Seq(T) /\ Len(f) = n
      OBVIOUS
  <2>2. Bytes(m) \in [1 .. Total(m) -> Byte]
      BY <1>2, <1>4
  <2> QED
      BY ONLY <1>1, <2>1, <2>2
<1> QED
    BY <1>1, <1>2, <1>5 DEF Total

\* The first element of one sequence moved to the end of the one before it.
LEMMA MoveFirst ==
    ASSUME NEW S, NEW a \in Seq(S), NEW b \in Seq(S), b # <<>>
    PROVE  /\ Tail(b) \in Seq(S)
           /\ b[1] \in S
           /\ Append(a, b[1]) \in Seq(S)
           /\ Len(Append(a, b[1])) = Len(a) + 1
           /\ Len(Tail(b)) = Len(b) - 1
           /\ Append(a, b[1]) \o Tail(b) = a \o b
<1>1. /\ Len(b) \in Nat /\ Len(b) # 0 /\ Len(a) \in Nat
      /\ b[1] \in S
      /\ Tail(b) \in Seq(S)
      /\ Len(Tail(b)) = Len(b) - 1
      /\ \A i \in 1 .. Len(b) - 1 : Tail(b)[i] = b[i + 1]
    OBVIOUS
<1>2. /\ Append(a, b[1]) \in Seq(S)
      /\ Len(Append(a, b[1])) = Len(a) + 1
      /\ \A i \in 1 .. Len(a) : Append(a, b[1])[i] = a[i]
      /\ Append(a, b[1])[Len(a) + 1] = b[1]
    BY <1>1, AppendProperties
<1>3. /\ Append(a, b[1]) \o Tail(b) \in Seq(S)
      /\ Len(Append(a, b[1]) \o Tail(b)) = Len(a) + Len(b)
      /\ a \o b \in Seq(S)
      /\ Len(a \o b) = Len(a) + Len(b)
    BY <1>1, <1>2, ConcatProperties
<1>4. ASSUME NEW i \in 1 .. Len(a) + Len(b)
      PROVE  (Append(a, b[1]) \o Tail(b))[i] = (a \o b)[i]
  <2>1. (Append(a, b[1]) \o Tail(b))[i]
            = IF i <= Len(a) + 1 THEN Append(a, b[1])[i] ELSE Tail(b)[i - (Len(a) + 1)]
      BY <1>1, <1>2, ConcatProperties
  <2>2. (a \o b)[i] = IF i <= Len(a) THEN a[i] ELSE b[i - Len(a)]
      BY ConcatProperties
  <2>3. CASE i <= Len(a)
      BY <1>1, <1>2, <2>1, <2>2, <2>3
  <2>4. CASE i = Len(a) + 1
      BY <1>1, <1>2, <2>1, <2>2, <2>4
  <2>5. CASE i > Len(a) + 1
    <3>1. i - (Len(a) + 1) \in 1 .. Len(b) - 1 /\ (i - (Len(a) + 1)) + 1 = i - Len(a)
        BY <1>1, <2>5
    <3> QED
        BY <1>1, <2>1, <2>2, <2>5, <3>1
  <2> QED
      BY <1>1, <2>3, <2>4, <2>5
<1>5. Append(a, b[1]) \o Tail(b) = a \o b
    BY <1>3, <1>4, SeqEqual
<1> QED
    BY <1>1, <1>2, <1>5

\* What is left of a sequence when its first elements are taken.
LEMMA AfterFirst ==
    ASSUME NEW S, NEW s \in Seq(S), NEW n \in 0 .. Len(s)
    PROVE  /\ SubSeq(s, n + 1, Len(s)) \in Seq(S)
           /\ Len(SubSeq(s, n + 1, Len(s))) = Len(s) - n
           /\ \A i \in 1 .. Len(s) - n : SubSeq(s, n + 1, Len(s))[i] = s[n + i]
<1>1. Len(s) \in Nat /\ n + 1 \in Int
    OBVIOUS
<1>2. \A i \in n + 1 .. Len(s) : s[i] \in S
    BY <1>1
<1>3. /\ SubSeq(s, n + 1, Len(s)) \in Seq(S)
      /\ Len(SubSeq(s, n + 1, Len(s)))
            = IF n + 1 <= Len(s) THEN (Len(s) - (n + 1)) + 1 ELSE 0
      /\ \A i \in 1 .. (Len(s) - (n + 1)) + 1 :
            SubSeq(s, n + 1, Len(s))[i] = s[((n + 1) + i) - 1]
    BY <1>1, <1>2, SubSeqProperties
<1> QED
    BY <1>1, <1>3

\* Taking from the front of a concatenation takes from its first part.
LEMMA AfterFirstOfConcat ==
    ASSUME NEW S, NEW s \in Seq(S), NEW t \in Seq(S), NEW n \in 0 .. Len(s)
    PROVE  SubSeq(s, n + 1, Len(s)) \o t = SubSeq(s \o t, n + 1, Len(s \o t))
<1> DEFINE u == SubSeq(s, n + 1, Len(s))
           v == SubSeq(s \o t, n + 1, Len(s \o t))
<1>1. /\ Len(s) \in Nat /\ Len(t) \in Nat
      /\ s \o t \in Seq(S)
      /\ Len(s \o t) = Len(s) + Len(t)
      /\ \A i \in 1 .. Len(s) + Len(t) :
            (s \o t)[i] = IF i <= Len(s) THEN s[i] ELSE t[i - Len(s)]
    BY ConcatProperties
<1>2. /\ u \in Seq(S)
      /\ Len(u) = Len(s) - n
      /\ \A i \in 1 .. Len(s) - n : u[i] = s[n + i]
    BY AfterFirst
<1>3. n \in 0 .. Len(s \o t)
    BY <1>1
<1>4. /\ v \in Seq(S)
      /\ Len(v) = Len(s \o t) - n
      /\ \A i \in 1 .. Len(s \o t) - n : v[i] = (s \o t)[n + i]
    BY <1>1, <1>3, AfterFirst
<1>5. /\ u \o t \in Seq(S)
      /\ Len(u \o t) = Len(u) + Len(t)
      /\ \A i \in 1 .. Len(u) + Len(t) :
            (u \o t)[i] = IF i <= Len(u) THEN u[i] ELSE t[i - Len(u)]
    BY <1>2, ConcatProperties
<1> HIDE DEF u, v
<1>6. Len(u \o t) = Len(v)
    BY <1>1, <1>2, <1>4, <1>5
<1>7. ASSUME NEW i \in 1 .. Len(u \o t)
      PROVE  (u \o t)[i] = v[i]
  <2>1. v[i] = (s \o t)[n + i] /\ n + i \in 1 .. Len(s) + Len(t)
      BY <1>1, <1>2, <1>4, <1>5
  <2>2. CASE i <= Len(u)
      BY <1>1, <1>2, <1>5, <2>1, <2>2
  <2>3. CASE i > Len(u)
    <3>1. i - Len(u) = (n + i) - Len(s) /\ ~(n + i <= Len(s))
        BY <1>1, <1>2, <2>3
    <3> QED
        BY <1>1, <1>2, <1>5, <2>1, <2>3, <3>1
  <2> QED
      BY <1>2, <2>2, <2>3
<1>8. u \o t = v
    BY <1>4, <1>5, <1>6, <1>7, SeqEqual
<1> QED
    BY <1>8 DEF u, v
-------------------------------------------------------------------------------
(* Where the messages are in the stream: at[i] bytes were sent before the  *)
(* i-th message, and the last of at is how many bytes were sent in all.    *)

PlacedAt(at, s) ==
    /\ at \in [1 .. Len(s) + 1 -> Nat]
    /\ \A i \in 1 .. Len(s) : at[i + 1] = at[i] + Total(s[i])
    /\ \A i, j \in 1 .. Len(s) + 1 : i <= j => at[i] <= at[j]

\* The bytes str are what is left of the messages s after the first c.
Carries(at, s, c, str) ==
    /\ c + Len(str) = at[Len(s) + 1]
    /\ \A i \in 1 .. Len(s) : \A k \in 0 .. Total(s[i]) - 1 : \A j \in 1 .. Len(str) :
         (c + j) - 1 = at[i] + k => str[j] = <<s[i], k>>

\* Taking n bytes off the front moves the count on by n.
LEMMA CarriesTaken ==
    ASSUME NEW at, NEW s \in Seq(Message), PlacedAt(at, s),
           NEW c \in Nat, NEW str \in Seq(Byte), Carries(at, s, c, str),
           NEW n \in 0 .. Len(str)
    PROVE  Carries(at, s, c + n, SubSeq(str, n + 1, Len(str)))
<1> DEFINE rest == SubSeq(str, n + 1, Len(str))
<1>1. /\ rest \in Seq(Byte)
      /\ Len(rest) = Len(str) - n
      /\ \A i \in 1 .. Len(str) - n : rest[i] = str[n + i]
    BY AfterFirst
<1> HIDE DEF rest
<1>2. Len(str) \in Nat /\ n \in Nat /\ n <= Len(str)
    OBVIOUS
<1>3. (c + n) + Len(rest) = at[Len(s) + 1]
  <2>1. c + Len(str) = at[Len(s) + 1]
      BY DEF Carries
  <2>2. (c + n) + Len(rest) = c + Len(str)
      BY ONLY <1>1, <1>2, c \in Nat
  <2> QED
      BY <2>1, <2>2
<1>4. ASSUME NEW i \in 1 .. Len(s), NEW k \in 0 .. Total(s[i]) - 1, NEW j \in 1 .. Len(rest),
             ((c + n) + j) - 1 = at[i] + k
      PROVE  rest[j] = <<s[i], k>>
  <2>1. n + j \in 1 .. Len(str) /\ rest[j] = str[n + j]
      BY <1>1, <1>2
  <2>2. (c + (n + j)) - 1 = at[i] + k
    <3>1. \A a, b, d \in Nat : (a + (b + d)) - 1 = ((a + b) + d) - 1
        OBVIOUS
    <3>2. j \in Nat
        BY <1>1, <1>2
    <3> QED
        BY <1>2, <1>4, <3>1, <3>2
  <2>3. str[n + j] = <<s[i], k>>
      BY <2>1, <2>2 DEF Carries
  <2> QED
      BY <2>1, <2>3
<1>5. Carries(at, s, c + n, rest)
    BY <1>3, <1>4 DEF Carries
<1> QED
    BY <1>5 DEF rest

\* A message more: its bytes follow the ones already there.
LEMMA CarriesSent ==
    ASSUME NEW at, NEW s \in Seq(Message), PlacedAt(at, s),
           NEW c \in Nat, NEW str \in Seq(Byte), Carries(at, s, c, str),
           NEW m \in Message
    PROVE  \E more : /\ PlacedAt(more, Append(s, m))
                     /\ \A i \in 1 .. Len(s) + 1 : more[i] = at[i]
                     /\ Carries(more, Append(s, m), c, str \o Bytes(m))
<1> DEFINE n    == Len(s)
           z    == Append(s, m)
           end  == at[Len(s) + 1] + Total(m)
           more == [i \in 1 .. (Len(s) + 1) + 1 |-> IF i = (Len(s) + 1) + 1 THEN end ELSE at[i]]
           w    == str \o Bytes(m)
<1>1. /\ z \in Seq(Message)
      /\ Len(z) = n + 1
      /\ \A i \in 1 .. n : z[i] = s[i]
      /\ z[n + 1] = m
    BY AppendProperties
<1>2. /\ n \in Nat /\ Len(str) \in Nat
      /\ Total(m) \in Nat
      /\ Bytes(m) \in Seq(Byte)
      /\ Len(Bytes(m)) = Total(m)
      /\ \A j \in 1 .. Total(m) : Bytes(m)[j] = <<m, j - 1>>
    BY BytesOf
<1>3. /\ w \in Seq(Byte)
      /\ Len(w) = Len(str) + Total(m)
      /\ \A i \in 1 .. Len(str) + Total(m) :
            w[i] = IF i <= Len(str) THEN str[i] ELSE Bytes(m)[i - Len(str)]
    BY <1>2, ConcatProperties
<1>4. /\ at \in [1 .. n + 1 -> Nat]
      /\ \A i \in 1 .. n : at[i + 1] = at[i] + Total(s[i])
      /\ \A i, j \in 1 .. n + 1 : i <= j => at[i] <= at[j]
    BY DEF PlacedAt
<1>5. at[n + 1] \in Nat /\ end \in Nat /\ end >= at[n + 1] /\ end = at[n + 1] + Total(m)
    BY <1>2, <1>4
<1>6. /\ \A i \in 1 .. n + 1 : more[i] = at[i]
      /\ more[(n + 1) + 1] = end
      /\ more \in [1 .. (n + 1) + 1 -> Nat]
    BY <1>2, <1>4, <1>5
<1>7. /\ c + Len(str) = at[n + 1]
      /\ \A i \in 1 .. n : \A k \in 0 .. Total(s[i]) - 1 : \A j \in 1 .. Len(str) :
            (c + j) - 1 = at[i] + k => str[j] = <<s[i], k>>
    BY DEF Carries
<1> HIDE DEF n, z, end, more, w
<1>8. PlacedAt(more, z)
  <2>1. ASSUME NEW i \in 1 .. n + 1
        PROVE  more[i + 1] = more[i] + Total(z[i])
    <3>1. CASE i \in 1 .. n
        BY <1>1, <1>2, <1>4, <1>6, <3>1
    <3>2. CASE i = n + 1
        BY <1>1, <1>2, <1>5, <1>6, <3>2
    <3> QED
        BY <1>2, <3>1, <3>2
  <2>2. ASSUME NEW i \in 1 .. (n + 1) + 1, NEW j \in 1 .. (n + 1) + 1, i <= j
        PROVE  more[i] <= more[j]
    <3>1. CASE j \in 1 .. n + 1
        BY <1>2, <1>4, <1>6, <2>2, <3>1
    <3>2. CASE j = (n + 1) + 1 /\ i \in 1 .. n + 1
      <4>1. at[i] <= at[n + 1] /\ at[i] \in Nat
          BY <1>2, <1>4, <3>2
      <4> QED
          BY <1>5, <1>6, <3>2, <4>1
    <3>3. CASE j = (n + 1) + 1 /\ i = (n + 1) + 1
        BY <1>5, <1>6, <3>3
    <3> QED
        BY <1>2, <3>1, <3>2, <3>3
  <2> QED
      BY <1>1, <1>6, <2>1, <2>2 DEF PlacedAt
<1>9. c + Len(w) = more[(n + 1) + 1]
    BY <1>2, <1>3, <1>5, <1>6, <1>7
<1>10. ASSUME NEW i \in 1 .. n + 1, NEW k \in 0 .. Total(z[i]) - 1, NEW j \in 1 .. Len(w),
              (c + j) - 1 = more[i] + k
       PROVE  w[j] = <<z[i], k>>
  <2>1. CASE i \in 1 .. n
    <3>1. z[i] = s[i] /\ more[i] = at[i] /\ s[i] \in Message
        BY <1>1, <1>2, <1>6, <2>1 DEF n
    <3>2. Total(s[i]) \in Nat
        BY <3>1, BytesOf
    <3>3. at[i] + Total(s[i]) <= at[n + 1] /\ at[i] \in Nat
        BY <1>2, <1>4, <2>1
    <3>4. j <= Len(str)
      <4>1. /\ (c + j) - 1 = at[i] + k
            /\ c + Len(str) = at[n + 1]
            /\ at[i] + Total(s[i]) <= at[n + 1]
          BY <1>7, <1>10, <3>1, <3>3
      <4>2. /\ k \in Nat /\ k < Total(s[i]) /\ Total(s[i]) \in Nat
            /\ j \in Nat /\ at[i] \in Nat /\ at[n + 1] \in Nat
            /\ c \in Nat /\ Len(str) \in Nat
          BY <1>2, <1>3, <1>5, <3>1, <3>2, <3>3
      <4> QED
          BY ONLY <4>1, <4>2
    <3>5. j \in 1 .. Len(str) /\ w[j] = str[j]
        BY <1>2, <1>3, <3>4
    <3> QED
        BY <1>7, <1>10, <2>1, <3>1, <3>5
  <2>2. CASE i = n + 1
    <3>1. z[i] = m /\ more[i] = at[n + 1]
        BY <1>1, <1>2, <1>6, <2>2
    <3>2. k \in 0 .. Total(m) - 1
        BY <3>1
    <3>3. j = (Len(str) + k) + 1
      <4>1. (c + j) - 1 = (c + Len(str)) + k
          BY <1>7, <1>10, <3>1
      <4>2. k \in Nat /\ j \in Nat /\ c \in Nat /\ Len(str) \in Nat
          BY <1>2, <1>3, <3>2
      <4> QED
          BY ONLY <4>1, <4>2
    <3>4. w[j] = Bytes(m)[k + 1] /\ k + 1 \in 1 .. Total(m) /\ (k + 1) - 1 = k
      <4>1. /\ k + 1 \in 1 .. Total(m) /\ (k + 1) - 1 = k
            /\ j - Len(str) = k + 1 /\ ~(j <= Len(str))
            /\ j \in 1 .. Len(str) + Total(m)
          BY ONLY <1>2, <3>2, <3>3
      <4> QED
          BY ONLY <1>3, <4>1
    <3>5. Bytes(m)[k + 1] = <<m, (k + 1) - 1>>
        BY <1>2, <3>4
    <3> QED
        BY <3>1, <3>4, <3>5
  <2> QED
      BY <1>2, <2>1, <2>2
<1>11. Carries(more, z, c, w)
    BY <1>1, <1>9, <1>10 DEF Carries
<1>12. \A i \in 1 .. Len(s) + 1 : more[i] = at[i]
    BY <1>6 DEF n
<1>13. PlacedAt(more, Append(s, m)) /\ Carries(more, Append(s, m), c, str \o Bytes(m))
    BY <1>8, <1>11 DEF z, w
<1> QED
    BY <1>12, <1>13

\* A message less: the last one, when none of its bytes has left.
LEMMA CarriesWithdrawn ==
    ASSUME NEW at, NEW s \in Seq(Message), PlacedAt(at, s), s # <<>>,
           NEW c \in Nat, NEW str \in Seq(Byte), NEW b \in Seq(Byte),
           Carries(at, s, c, str \o b), Len(b) = Total(Last(s))
    PROVE  \E less : /\ PlacedAt(less, Front(s))
                     /\ \A i \in 1 .. Len(s) : less[i] = at[i]
                     /\ Carries(less, Front(s), c, str)
<1> DEFINE n    == Len(s) - 1
           z    == Front(s)
           less == [i \in 1 .. n + 1 |-> at[i]]
<1>1. /\ Len(s) \in Nat /\ Len(s) # 0
      /\ n \in Nat /\ n + 1 = Len(s)
      /\ \A i \in 1 .. n : i \in 1 .. Len(s) /\ i + 1 \in 1 .. n + 1
      /\ Last(s) = s[n + 1] /\ s[n + 1] \in Message
    BY DEF Last
<1>2. /\ z \in Seq(Message)
      /\ Len(z) = n
      /\ \A i \in 1 .. n : z[i] = s[i]
  <2>1. \A i \in 1 .. n : s[i] \in Message
      BY <1>1
  <2>2. /\ SubSeq(s, 1, n) \in Seq(Message)
        /\ Len(SubSeq(s, 1, n)) = IF 1 <= n THEN (n - 1) + 1 ELSE 0
        /\ \A i \in 1 .. (n - 1) + 1 : SubSeq(s, 1, n)[i] = s[(1 + i) - 1]
      BY <1>1, <2>1, SubSeqProperties
  <2>3. z = SubSeq(s, 1, n)
      BY DEF Front
  <2> HIDE DEF n, z
  <2>4. /\ (IF 1 <= n THEN (n - 1) + 1 ELSE 0) = n
        /\ \A i \in 1 .. n : i \in 1 .. (n - 1) + 1 /\ (1 + i) - 1 = i
    <3>1. n \in Nat
        BY <1>1
    <3> QED
        BY ONLY <3>1
  <2>5. /\ SubSeq(s, 1, n) \in Seq(Message)
        /\ Len(SubSeq(s, 1, n)) = n
        /\ \A i \in 1 .. n : SubSeq(s, 1, n)[i] = s[i]
      BY ONLY <2>2, <2>4
  <2> QED
      BY ONLY <2>3, <2>5
<1>3. /\ at \in [1 .. Len(s) + 1 -> Nat]
      /\ \A i \in 1 .. Len(s) : at[i + 1] = at[i] + Total(s[i])
      /\ \A i, j \in 1 .. Len(s) + 1 : i <= j => at[i] <= at[j]
    BY DEF PlacedAt
<1>4. /\ less \in [1 .. n + 1 -> Nat]
      /\ \A i \in 1 .. n + 1 : less[i] = at[i]
    BY <1>1, <1>3
<1>5. /\ Len(str) \in Nat
      /\ Len(str \o b) = Len(str) + Len(b)
      /\ \A j \in 1 .. Len(str) : (str \o b)[j] = str[j] /\ j \in 1 .. Len(str \o b)
  <2>1. /\ Len(str) \in Nat /\ Len(b) \in Nat
        /\ Len(str \o b) = Len(str) + Len(b)
        /\ \A i \in 1 .. Len(str) + Len(b) :
              (str \o b)[i] = IF i <= Len(str) THEN str[i] ELSE b[i - Len(str)]
      BY ONLY ConcatProperties, str \in Seq(Byte), b \in Seq(Byte)
  <2> QED
      BY <2>1
<1>6. /\ c + Len(str \o b) = at[Len(s) + 1]
      /\ \A i \in 1 .. Len(s) : \A k \in 0 .. Total(s[i]) - 1 : \A j \in 1 .. Len(str \o b) :
            (c + j) - 1 = at[i] + k => (str \o b)[j] = <<s[i], k>>
    BY DEF Carries
<1> HIDE DEF n, z, less
<1>7. PlacedAt(less, z)
  <2>1. ASSUME NEW i \in 1 .. n
        PROVE  less[i + 1] = less[i] + Total(z[i])
    <3>1. i + 1 \in 1 .. n + 1 /\ i \in 1 .. n + 1 /\ i \in 1 .. Len(s)
        BY <1>1
    <3> QED
        BY <1>2, <1>3, <1>4, <3>1
  <2>2. ASSUME NEW i \in 1 .. n + 1, NEW j \in 1 .. n + 1, i <= j
        PROVE  less[i] <= less[j]
      BY <1>1, <1>3, <1>4, <2>2
  <2> QED
      BY <1>2, <1>4, <2>1, <2>2 DEF PlacedAt
<1>8. c + Len(str) = less[n + 1]
  <2>1. at[(n + 1) + 1] = at[n + 1] + Len(b)
    <3>1. n + 1 \in 1 .. Len(s)
        BY ONLY <1>1
    <3>2. at[(n + 1) + 1] = at[n + 1] + Total(s[n + 1])
        BY ONLY <1>3, <3>1
    <3>3. Len(b) = Total(s[n + 1])
        BY <1>1
    <3> QED
        BY ONLY <3>2, <3>3
  <2>2. c + (Len(str) + Len(b)) = at[n + 1] + Len(b)
      BY <1>1, <1>5, <1>6, <2>1
  <2>3. at[n + 1] \in Nat /\ Len(b) \in Nat
    <3>1. n + 1 \in 1 .. Len(s) + 1
        BY ONLY <1>1
    <3>2. at[n + 1] \in Nat
        BY ONLY <1>3, <3>1
    <3> QED
        BY <3>2
  <2>4. c + Len(str) = at[n + 1]
    <3>1. PICK x \in Nat : x = Len(str)
        BY <1>5
    <3>2. PICK y \in Nat : y = Len(b)
        BY <2>3
    <3>3. PICK e \in Nat : e = at[n + 1]
        BY <2>3
    <3>4. c + (x + y) = e + y
        BY ONLY <2>2, <3>1, <3>2, <3>3
    <3>5. c + x = e
        BY ONLY <3>4, c \in Nat, x \in Nat, y \in Nat, e \in Nat
    <3> QED
        BY ONLY <3>1, <3>3, <3>5
  <2> QED
      BY <1>1, <1>4, <2>4
<1>9. ASSUME NEW i \in 1 .. n, NEW k \in 0 .. Total(z[i]) - 1, NEW j \in 1 .. Len(str),
             (c + j) - 1 = less[i] + k
      PROVE  str[j] = <<z[i], k>>
  <2>1. i \in 1 .. Len(s) /\ i \in 1 .. n + 1 /\ z[i] = s[i] /\ less[i] = at[i]
      BY <1>1, <1>2, <1>4
  <2> QED
      BY <1>5, <1>6, <1>9, <2>1
<1>10. Carries(less, z, c, str)
    BY <1>2, <1>8, <1>9 DEF Carries
<1>11. \A i \in 1 .. Len(s) : less[i] = at[i]
    BY <1>1, <1>4
<1>12. PlacedAt(less, Front(s)) /\ Carries(less, Front(s), c, str)
    BY <1>7, <1>10 DEF z
<1> QED
    BY <1>11, <1>12

-------------------------------------------------------------------------------
(* The inductive invariant.                                                *)

\* The bytes the receiver has not taken yet.
Stream == (ready \o wire) \o outbox

\* How many it has taken, when the messages are placed at at.
Consumed(at) == at[Len(taken) + 1] + (IF pc = "payload" THEN HeadLen ELSE 0)

\* Between two messages, or between a head and its payload, with the stream
\* standing exactly there.
FramedBy(at) ==
    /\ PlacedAt(at, sent)
    /\ Len(taken) <= Len(sent)
    /\ pc = "payload" => Len(taken) < Len(sent) /\ head = sent[Len(taken) + 1]
    /\ Carries(at, sent, Consumed(at), Stream)

\* Every message taken is the one sent, and whole.
TakenAsSent ==
    \A i \in DOMAIN taken :
        taken[i] = [type |-> sent[i].type, len |-> sent[i].len, whole |-> TRUE]

Framed == (\E at : FramedBy(at)) /\ TakenAsSent

IInv == TypeOK /\ (~torn => Framed)

-------------------------------------------------------------------------------
(* What a call takes.                                                      *)

HeadType == [type : Types, len : Lens \cup {0}]

\* A length in a head is a number.
LEMMA LengthIsNat ==
    ASSUME NEW h \in HeadType
    PROVE  h.len \in Nat /\ h.type \in Types
<1>1. h.len \in Lens \cup {0} /\ h.type \in Types
    BY DEF HeadType
<1>2. Lens \cup {0} \subseteq Nat
    BY FramingAssumption
<1>3. h.len \in Nat
    BY ONLY <1>1, <1>2
<1> QED
    BY <1>1, <1>3

\* The lesser of two numbers.
LEMMA LeastIs ==
    ASSUME NEW a \in Nat, NEW b \in Nat
    PROVE  /\ Least(a, b) \in Nat
           /\ Least(a, b) <= a
           /\ Least(a, b) <= b
           /\ b >= a => Least(a, b) = a
           /\ ~(Least(a, b) < a) => b >= a
BY DEF Least

\* What bytes are taken for is a head.
LEMMA HeadsAreHeads ==
    ASSUME NEW b \in Seq(Byte), NEW h \in HeadsOf(b)
    PROVE  h \in HeadType
<1>1. ZeroHead \in HeadType
    BY FramingAssumption DEF ZeroHead, HeadType
<1>2. Message \subseteq HeadType
    BY DEF Message, HeadType
<1>3. CASE b = <<>>
    BY <1>1, <1>3 DEF HeadsOf
<1>4. CASE b # <<>> /\ Len(b) = 1 /\ b[1][2] = 0
  <2>1. b[1][1] \in Message
      BY <1>4 DEF Byte
  <2>2. [type |-> b[1][1].type, len |-> 0] \in HeadType
      BY <2>1 DEF Message, HeadType
  <2>3. HeadsOf(b) = {[type |-> b[1][1].type, len |-> 0]}
      BY <1>4 DEF HeadsOf
  <2> QED
      BY <2>2, <2>3
<1>5. CASE b # <<>> /\ Len(b) = 2 /\ b[1][2] = 0 /\ b[2] = <<b[1][1], 1>>
  <2>1. b[1][1] \in Message
      BY <1>5 DEF Byte
  <2>2. HeadsOf(b) = {b[1][1]}
      BY <1>5 DEF HeadsOf
  <2> QED
      BY <1>2, <2>1, <2>2
<1>6. CASE /\ b # <<>>
           /\ ~(Len(b) = 1 /\ b[1][2] = 0)
           /\ ~(Len(b) = 2 /\ b[1][2] = 0 /\ b[2] = <<b[1][1], 1>>)
  <2>1. HeadsOf(b) = [type : Types, len : Lens \cup {0}]
      BY <1>6 DEF HeadsOf
  <2> QED
      BY <2>1 DEF HeadType
<1> QED
    BY <1>3, <1>4, <1>5, <1>6

\* Taking n bytes splits what is in the socket.
LEMMA TakeAndRest ==
    ASSUME ready \in Seq(Byte), NEW n \in Nat, n <= Len(ready)
    PROVE  /\ Take(n) \in Seq(Byte)
           /\ Len(Take(n)) = n
           /\ \A i \in 1 .. n : Take(n)[i] = ready[i]
           /\ Rest(n) \in Seq(Byte)
           /\ Len(Rest(n)) = Len(ready) - n
<1>1. Len(ready) \in Nat
    OBVIOUS
<1>2. \A i \in 1 .. n : ready[i] \in Byte
    BY <1>1
<1>3. /\ SubSeq(ready, 1, n) \in Seq(Byte)
      /\ Len(SubSeq(ready, 1, n)) = IF 1 <= n THEN (n - 1) + 1 ELSE 0
      /\ \A i \in 1 .. (n - 1) + 1 : SubSeq(ready, 1, n)[i] = ready[(1 + i) - 1]
    BY <1>1, <1>2, SubSeqProperties
<1>4. /\ SubSeq(ready, n + 1, Len(ready)) \in Seq(Byte)
      /\ Len(SubSeq(ready, n + 1, Len(ready))) = Len(ready) - n
    BY <1>1, AfterFirst
<1> QED
    BY <1>3, <1>4 DEF Take, Rest

-------------------------------------------------------------------------------
(* Type correctness.                                                       *)

\* The types are right in the initial states.
LEMMA TypeInit ==
    ASSUME Init
    PROVE  TypeOK
<1>1. ZeroHead \in [type : Types, len : Lens \cup {0}]
    BY FramingAssumption DEF ZeroHead
<1>2. Len(<<>>) + Len(<<>>) <= Capacity
    BY FramingAssumption
<1>3. \A S : <<>> \in Seq(S)
    OBVIOUS
<1>4. /\ outbox = <<>> /\ wire = <<>> /\ ready = <<>>
      /\ closed = FALSE /\ pc = "head" /\ head = ZeroHead
      /\ sent = <<>> /\ taken = <<>> /\ torn = FALSE
    BY DEF Init
<1>5. /\ outbox \in Seq(Message \X Nat)
      /\ wire \in Seq(Message \X Nat)
      /\ ready \in Seq(Message \X Nat)
      /\ sent \in Seq(Message)
      /\ taken \in Seq([type : Types, len : Lens \cup {0}, whole : BOOLEAN])
    BY ONLY <1>3, <1>4
<1>6. Len(wire) + Len(ready) <= Capacity
    BY ONLY <1>2, <1>4
<1> QED
    BY <1>1, <1>4, <1>5, <1>6 DEF TypeOK

\* Every step keeps the types.
LEMMA TypeNext ==
    ASSUME TypeOK, [Next]_vars
    PROVE  TypeOK'
<1> USE DEF TypeOK, Byte
<1>1. /\ outbox \in Seq(Byte) /\ wire \in Seq(Byte) /\ ready \in Seq(Byte)
      /\ Len(wire) \in Nat /\ Len(ready) \in Nat
      /\ head \in HeadType /\ head.len \in Nat
      /\ Capacity \in Nat
    BY LengthIsNat, FramingAssumption DEF HeadType
<1>2. ASSUME NEW m \in Message, Send(m)
      PROVE  TypeOK'
  <2>1. outbox' \in Seq(Byte)
      BY <1>2, BytesOf DEF Send
  <2>2. sent' \in Seq(Message)
      BY <1>2, AppendProperties DEF Send
  <2> QED
      BY <1>2, <2>1, <2>2 DEF Send, receiverVars
<1>3. CASE Accept
  <2>1. /\ wire' \in Seq(Byte) /\ outbox' \in Seq(Byte)
        /\ Len(wire') = Len(wire) + 1
      BY <1>1, <1>3, MoveFirst DEF Accept
  <2>2. Len(wire') + Len(ready') <= Capacity
    <3>1. Len(wire) + Len(ready) < Capacity /\ ready' = ready
        BY <1>3 DEF Accept, HasRoom
    <3> QED
        BY <1>1, <2>1, <3>1
  <2> QED
      BY <1>3, <2>1, <2>2 DEF Accept, receiverVars
<1>4. CASE SendTimeout
  <2>1. sent' \in Seq(Message)
    <3>1. CASE sent' = sent
        BY <3>1
    <3>2. CASE sent' = Front(sent)
      <4>1. \A i \in 1 .. Len(sent) - 1 : sent[i] \in Message
          OBVIOUS
      <4>2. SubSeq(sent, 1, Len(sent) - 1) \in Seq(Message)
          BY <4>1, SubSeqProperties
      <4> QED
          BY <3>2, <4>2 DEF Front
    <3> QED
        BY <1>4, <3>1, <3>2 DEF SendTimeout
  <2>2. torn' \in BOOLEAN
      BY <1>4 DEF SendTimeout
  <2>3. outbox' \in Seq(Byte)
      BY <1>4 DEF SendTimeout
  <2> QED
      BY <1>4, <2>1, <2>2, <2>3 DEF SendTimeout, receiverVars
<1>5. CASE Close
    BY <1>5 DEF Close, receiverVars
<1>6. CASE Arrive
  <2>1. /\ ready' \in Seq(Byte) /\ wire' \in Seq(Byte)
        /\ Len(ready') = Len(ready) + 1
        /\ Len(wire') = Len(wire) - 1
      BY <1>1, <1>6, MoveFirst DEF Arrive
  <2>2. Len(wire') + Len(ready') <= Capacity
      BY <1>1, <2>1
  <2> QED
      BY <1>6, <2>1, <2>2 DEF Arrive, receiverVars
<1>7. CASE RecvHead
  <2> DEFINE n == Least(HeadLen, Len(ready))
  <2>1. n \in Nat /\ n <= Len(ready)
      BY <1>1, LeastIs DEF HeadLen
  <2>2. /\ head' \in HeadsOf(Take(n)) /\ ready' = Rest(n)
        /\ torn' = (torn \/ n < HeadLen)
        /\ pc' = "payload"
        /\ UNCHANGED <<outbox, wire, closed, sent, taken>>
      BY <1>7 DEF RecvHead
  <2> HIDE DEF n
  <2>3. /\ Take(n) \in Seq(Byte) /\ ready' \in Seq(Byte)
        /\ Len(ready') = Len(ready) - n
      BY <1>1, <2>1, <2>2, TakeAndRest
  <2>4. head' \in HeadType
      BY <2>2, <2>3, HeadsAreHeads
  <2>5. Len(wire') + Len(ready') <= Capacity
      BY <1>1, <2>1, <2>2, <2>3
  <2> QED
      BY <2>2, <2>3, <2>4, <2>5 DEF HeadType
<1>8. CASE RecvPayload
  <2> DEFINE n     == Least(head.len, Len(ready))
             whole == Take(n) = SubSeq(Bytes(head), HeadLen + 1, Total(head))
  <2>1. n \in Nat /\ n <= Len(ready)
      BY <1>1, LeastIs
  <2>2. /\ taken' = Append(taken, [type |-> head.type, len |-> head.len, whole |-> whole])
        /\ ready' = Rest(n)
        /\ torn' = (torn \/ n < head.len)
        /\ pc' = "head" /\ head' = ZeroHead
        /\ UNCHANGED <<outbox, wire, closed, sent>>
      BY <1>8 DEF RecvPayload
  <2>3. whole \in BOOLEAN
      OBVIOUS
  <2> HIDE DEF n, whole
  <2>4. /\ ready' \in Seq(Byte)
        /\ Len(ready') = Len(ready) - n
      BY <1>1, <2>1, <2>2, TakeAndRest
  <2>5. [type |-> head.type, len |-> head.len, whole |-> whole]
            \in [type : Types, len : Lens \cup {0}, whole : BOOLEAN]
      BY <1>1, <2>3 DEF HeadType
  <2>6. taken' \in Seq([type : Types, len : Lens \cup {0}, whole : BOOLEAN])
      BY <2>2, <2>5, AppendProperties
  <2>7. Len(wire') + Len(ready') <= Capacity
      BY <1>1, <2>1, <2>2, <2>4
  <2>8. head' \in HeadType
      BY <2>2, FramingAssumption DEF ZeroHead, HeadType
  <2> QED
      BY <2>2, <2>4, <2>6, <2>7, <2>8 DEF HeadType
<1>9. CASE RecvPayloadFails
  <2>1. head' \in HeadType
      BY <1>9, FramingAssumption DEF RecvPayloadFails, ZeroHead, HeadType
  <2> QED
      BY <1>9, <2>1 DEF RecvPayloadFails, HeadType
<1>10. CASE UNCHANGED vars
    BY <1>10 DEF vars
<1> QED
    BY <1>2, <1>3, <1>4, <1>5, <1>6, <1>7, <1>8, <1>9, <1>10
    DEF Next, Sender, Network, Receiver

-------------------------------------------------------------------------------
(* Steps between the cuts.                                                 *)

\* The stream is a sequence of bytes.
LEMMA StreamIs ==
    ASSUME TypeOK
    PROVE  /\ ready \in Seq(Byte) /\ wire \in Seq(Byte) /\ outbox \in Seq(Byte)
           /\ ready \o wire \in Seq(Byte)
           /\ Stream \in Seq(Byte)
           /\ Len(Stream) = (Len(ready) + Len(wire)) + Len(outbox)
           /\ \A j \in 1 .. Len(ready) : Stream[j] = ready[j]
<1>1. /\ ready \in Seq(Byte) /\ wire \in Seq(Byte) /\ outbox \in Seq(Byte)
    BY DEF TypeOK, Byte
<1>2. /\ Len(ready) \in Nat /\ Len(wire) \in Nat /\ Len(outbox) \in Nat
    BY <1>1
<1>3. /\ ready \o wire \in Seq(Byte)
      /\ Len(ready \o wire) = Len(ready) + Len(wire)
      /\ \A i \in 1 .. Len(ready) + Len(wire) :
            (ready \o wire)[i] = IF i <= Len(ready) THEN ready[i] ELSE wire[i - Len(ready)]
    BY ONLY <1>1, ConcatProperties
<1>4. /\ (ready \o wire) \o outbox \in Seq(Byte)
      /\ Len((ready \o wire) \o outbox) = Len(ready \o wire) + Len(outbox)
      /\ \A i \in 1 .. Len(ready \o wire) + Len(outbox) :
            ((ready \o wire) \o outbox)[i]
                = IF i <= Len(ready \o wire) THEN (ready \o wire)[i]
                  ELSE outbox[i - Len(ready \o wire)]
    BY ONLY <1>1, <1>3, ConcatProperties
<1>5. ASSUME NEW j \in 1 .. Len(ready)
      PROVE  ((ready \o wire) \o outbox)[j] = ready[j]
  <2>1. /\ j \in 1 .. Len(ready) + Len(wire) /\ j <= Len(ready)
        /\ j \in 1 .. Len(ready \o wire) + Len(outbox) /\ j <= Len(ready \o wire)
      BY ONLY <1>2, <1>3, j \in 1 .. Len(ready)
  <2> QED
      BY ONLY <1>3, <1>4, <2>1
<1> QED
    BY <1>1, <1>3, <1>4, <1>5 DEF Stream

\* What has been consumed is a number, and there is a message where the
\* receiver stands when there are bytes.
LEMMA ConsumedIs ==
    ASSUME TypeOK, NEW at, FramedBy(at)
    PROVE  /\ Consumed(at) \in Nat
           /\ Len(taken) \in Nat /\ Len(sent) \in Nat
           /\ Len(taken) <= Len(sent)
           /\ at[Len(taken) + 1] \in Nat
           /\ at[Len(sent) + 1] \in Nat
           /\ Consumed(at) + Len(Stream) = at[Len(sent) + 1]
           /\ Len(Stream) > 0 => Len(taken) < Len(sent)
           /\ Len(taken) < Len(sent) =>
                /\ sent[Len(taken) + 1] \in Message
                /\ at[(Len(taken) + 1) + 1]
                      = at[Len(taken) + 1] + Total(sent[Len(taken) + 1])
<1>1. /\ Len(taken) \in Nat /\ Len(sent) \in Nat /\ sent \in Seq(Message)
      /\ Len(taken) <= Len(sent)
    BY DEF TypeOK, FramedBy
<1>2. /\ at \in [1 .. Len(sent) + 1 -> Nat]
      /\ \A i \in 1 .. Len(sent) : at[i + 1] = at[i] + Total(sent[i])
    BY DEF FramedBy, PlacedAt
<1>3. Consumed(at) + Len(Stream) = at[Len(sent) + 1]
    BY DEF FramedBy, Carries
<1>4. /\ at[Len(taken) + 1] \in Nat /\ at[Len(sent) + 1] \in Nat
    BY <1>1, <1>2
<1>5. Consumed(at) \in Nat /\ Consumed(at) >= at[Len(taken) + 1]
    BY <1>4 DEF Consumed, HeadLen
<1>6. Len(Stream) \in Nat
    BY StreamIs
<1>7. Len(Stream) > 0 => Len(taken) < Len(sent)
  <2>1. SUFFICES ASSUME Len(taken) = Len(sent)
                 PROVE  ~(Len(Stream) > 0)
      BY <1>1
  <2>2. Consumed(at) >= at[Len(sent) + 1]
      BY <1>5, <2>1
  <2> QED
      BY ONLY <1>3, <1>4, <1>5, <1>6, <2>2
<1>8. Len(taken) < Len(sent) =>
        /\ sent[Len(taken) + 1] \in Message
        /\ at[(Len(taken) + 1) + 1] = at[Len(taken) + 1] + Total(sent[Len(taken) + 1])
    BY <1>1, <1>2
<1> QED
    BY <1>1, <1>3, <1>4, <1>5, <1>7, <1>8

\* A step that only moves bytes on keeps the framing.
LEMMA FramedMoved ==
    ASSUME Framed, Stream' = Stream, UNCHANGED <<pc, head, sent, taken>>
    PROVE  Framed'
<1>1. PICK at : FramedBy(at)
    BY DEF Framed
<1>2. FramedBy(at)'
    BY <1>1 DEF FramedBy, Consumed, PlacedAt, Carries
<1>3. TakenAsSent'
    BY DEF Framed, TakenAsSent
<1> QED
    BY <1>2, <1>3 DEF Framed

\* A byte the socket accepts goes from the outbox to the wire.
LEMMA FramedAccept ==
    ASSUME TypeOK, Framed, Accept
    PROVE  Framed'
<1>1. /\ outbox # <<>>
      /\ wire' = Append(wire, outbox[1]) /\ outbox' = Tail(outbox)
      /\ UNCHANGED <<ready, pc, head, sent, taken>>
    BY DEF Accept, receiverVars
<1>2. /\ ready \in Seq(Byte) /\ wire \in Seq(Byte) /\ outbox \in Seq(Byte)
    BY StreamIs
<1>3. /\ Append(wire, outbox[1]) \in Seq(Byte) /\ Tail(outbox) \in Seq(Byte)
      /\ Append(wire, outbox[1]) \o Tail(outbox) = wire \o outbox
    BY ONLY <1>1, <1>2, MoveFirst
<1>4. (ready \o Append(wire, outbox[1])) \o Tail(outbox)
        = ready \o (Append(wire, outbox[1]) \o Tail(outbox))
  <2>1. \A s, t, u \in Seq(Byte) : (s \o t) \o u = s \o (t \o u)
      BY ONLY ConcatAssociative
  <2> QED
      BY ONLY <1>2, <1>3, <2>1
<1>5. (ready \o wire) \o outbox = ready \o (wire \o outbox)
    BY ONLY <1>2, ConcatAssociative
<1>6. Stream' = Stream
    BY <1>1, <1>3, <1>4, <1>5 DEF Stream
<1> QED
    BY <1>1, <1>6, FramedMoved

\* A byte that arrives goes from the wire to the receiver's socket.
LEMMA FramedArrive ==
    ASSUME TypeOK, Framed, Arrive
    PROVE  Framed'
<1>1. /\ wire # <<>>
      /\ ready' = Append(ready, wire[1]) /\ wire' = Tail(wire)
      /\ UNCHANGED <<outbox, pc, head, sent, taken>>
    BY DEF Arrive, receiverVars
<1>2. /\ ready \in Seq(Byte) /\ wire \in Seq(Byte)
    BY StreamIs
<1>3. Append(ready, wire[1]) \o Tail(wire) = ready \o wire
    BY ONLY <1>1, <1>2, MoveFirst
<1>4. Stream' = Stream
    BY <1>1, <1>3 DEF Stream
<1> QED
    BY <1>1, <1>4, FramedMoved

\* A message that is sent follows the others.
LEMMA FramedSend ==
    ASSUME TypeOK, Framed, NEW m \in Message, Send(m)
    PROVE  Framed'
<1>1. PICK at : FramedBy(at)
    BY DEF Framed
<1>2. /\ outbox = <<>> /\ outbox' = Bytes(m) /\ sent' = Append(sent, m)
      /\ UNCHANGED <<wire, ready, pc, head, taken>>
    BY DEF Send, receiverVars
<1>3. Stream = ready \o wire
    BY <1>2, StreamIs, ConcatEmptySeq DEF Stream
<1>4. Stream' = Stream \o Bytes(m)
    BY <1>2, <1>3 DEF Stream
<1>5. /\ sent \in Seq(Message) /\ Consumed(at) \in Nat /\ Stream \in Seq(Byte)
      /\ PlacedAt(at, sent) /\ Carries(at, sent, Consumed(at), Stream)
    BY <1>1, StreamIs, ConsumedIs DEF TypeOK, FramedBy
<1>6. PICK more : /\ PlacedAt(more, Append(sent, m))
                  /\ \A i \in 1 .. Len(sent) + 1 : more[i] = at[i]
                  /\ Carries(more, Append(sent, m), Consumed(at), Stream \o Bytes(m))
    BY ONLY <1>5, CarriesSent, m \in Message
<1>7. /\ Len(taken) \in Nat /\ Len(sent) \in Nat /\ Len(taken) <= Len(sent)
    BY <1>1, ConsumedIs
<1>8. /\ Len(sent') = Len(sent) + 1
      /\ \A i \in 1 .. Len(sent) : sent'[i] = sent[i]
    BY <1>2, <1>5, AppendProperties
<1>9. Consumed(more)' = Consumed(at)
    BY <1>2, <1>6, <1>7 DEF Consumed
<1>10. FramedBy(more)'
  <2>1. PlacedAt(more, sent')
      BY <1>2, <1>6
  <2>2. Len(taken') <= Len(sent')
      BY <1>2, <1>7, <1>8
  <2>3. pc' = "payload" => Len(taken') < Len(sent') /\ head' = sent'[Len(taken') + 1]
      BY <1>1, <1>2, <1>7, <1>8 DEF FramedBy
  <2>4. Carries(more, sent', Consumed(more)', Stream')
      BY <1>2, <1>4, <1>6, <1>9
  <2> QED
      BY <2>1, <2>2, <2>3, <2>4 DEF FramedBy
<1>11. TakenAsSent'
  <2>1. DOMAIN taken = 1 .. Len(taken)
      BY DEF TypeOK
  <2> QED
      BY <1>2, <1>7, <1>8, <2>1 DEF Framed, TakenAsSent
<1> QED
    BY <1>10, <1>11 DEF Framed

\* A call that times out before its first byte withdraws its message.
LEMMA FramedSendTimeout ==
    ASSUME TypeOK, Framed, SendTimeout, ~torn'
    PROVE  Framed'
<1>1. PICK at : FramedBy(at)
    BY DEF Framed
<1>2. /\ outbox # <<>> /\ outbox' = <<>>
      /\ Len(outbox) = Total(Last(sent)) /\ sent' = Front(sent)
      /\ UNCHANGED <<wire, ready, pc, head, taken>>
    BY DEF SendTimeout, receiverVars
<1>3. /\ ready \o wire \in Seq(Byte) /\ outbox \in Seq(Byte)
      /\ Stream = (ready \o wire) \o outbox
      /\ ready \in Seq(Byte) /\ wire \in Seq(Byte)
      /\ Len(Stream) = (Len(ready) + Len(wire)) + Len(outbox)
    BY StreamIs DEF Stream
<1>4. Len(outbox) > 0 /\ Len(Stream) >= Len(outbox)
    BY ONLY <1>2, <1>3
<1>5. /\ Len(taken) \in Nat /\ Len(sent) \in Nat /\ Len(taken) < Len(sent)
      /\ Consumed(at) \in Nat
      /\ at[Len(taken) + 1] \in Nat
      /\ Consumed(at) + Len(Stream) = at[Len(sent) + 1]
    BY <1>1, <1>4, ConsumedIs
<1>6. /\ sent \in Seq(Message) /\ sent # <<>>
      /\ PlacedAt(at, sent)
      /\ Carries(at, sent, Consumed(at), (ready \o wire) \o outbox)
    BY <1>1, <1>3, <1>5 DEF TypeOK, FramedBy
<1>7. PICK less : /\ PlacedAt(less, Front(sent))
                  /\ \A i \in 1 .. Len(sent) : less[i] = at[i]
                  /\ Carries(less, Front(sent), Consumed(at), ready \o wire)
    BY ONLY <1>2, <1>3, <1>5, <1>6, CarriesWithdrawn
<1>8. Stream' = ready \o wire
    BY <1>2, <1>3, ConcatEmptySeq DEF Stream
<1>9. /\ Len(sent') = Len(sent) - 1
      /\ \A i \in 1 .. Len(sent) - 1 : sent'[i] = sent[i]
  <2>1. \A i \in 1 .. Len(sent) - 1 : sent[i] \in Message
      BY <1>6
  <2>2. Len(sent) - 1 \in Nat
      BY <1>5
  <2>3. /\ Len(SubSeq(sent, 1, Len(sent) - 1))
              = IF 1 <= Len(sent) - 1 THEN ((Len(sent) - 1) - 1) + 1 ELSE 0
        /\ \A i \in 1 .. ((Len(sent) - 1) - 1) + 1 :
              SubSeq(sent, 1, Len(sent) - 1)[i] = sent[(1 + i) - 1]
      BY <2>1, <2>2, SubSeqProperties
  <2>4. /\ Len(SubSeq(sent, 1, Len(sent) - 1)) = Len(sent) - 1
        /\ \A i \in 1 .. Len(sent) - 1 :
              /\ i \in 1 .. ((Len(sent) - 1) - 1) + 1
              /\ (1 + i) - 1 = i
    <3>1. \A l \in Nat : l > 0 =>
            /\ (IF 1 <= l - 1 THEN ((l - 1) - 1) + 1 ELSE 0) = l - 1
            /\ \A i \in 1 .. l - 1 : i \in 1 .. ((l - 1) - 1) + 1 /\ (1 + i) - 1 = i
        OBVIOUS
    <3>2. Len(sent) \in Nat /\ Len(sent) > 0
        BY ONLY <1>5
    <3> QED
        BY ONLY <2>3, <3>1, <3>2
  <2>5. \A i \in 1 .. Len(sent) - 1 : SubSeq(sent, 1, Len(sent) - 1)[i] = sent[i]
      BY ONLY <2>3, <2>4
  <2> QED
      BY <1>2, <2>4, <2>5 DEF Front
\* A receiver with a head in hand is not inside the message withdrawn.
<1>10. ASSUME pc = "payload"
       PROVE  Len(taken) < Len(sent) - 1
  <2>1. SUFFICES ASSUME Len(taken) + 1 = Len(sent)
                 PROVE  FALSE
      BY <1>5
  <2>2. at[Len(sent) + 1] = at[Len(taken) + 1] + Len(outbox)
    <3>1. at[(Len(taken) + 1) + 1] = at[Len(taken) + 1] + Total(sent[Len(taken) + 1])
        BY <1>1, <1>5, ConsumedIs
    <3>2. Last(sent) = sent[Len(taken) + 1]
        BY <2>1 DEF Last
    <3> QED
        BY <1>2, <2>1, <3>1, <3>2
  <2>3. Consumed(at) = at[Len(taken) + 1] + 2
      BY <1>10 DEF Consumed, HeadLen
  <2>4. Len(outbox) \in Nat /\ Len(Stream) \in Nat
      BY <1>3, StreamIs
  <2> QED
      BY ONLY <1>4, <1>5, <2>2, <2>3, <2>4
<1>11. Consumed(less)' = Consumed(at)
  <2>1. Len(taken) + 1 \in 1 .. Len(sent)
      BY <1>5
  <2> QED
      BY <1>2, <1>7, <2>1 DEF Consumed
<1>12. FramedBy(less)'
  <2>1. PlacedAt(less, sent')
      BY <1>2, <1>7
  <2>2. Len(taken') <= Len(sent')
      BY <1>2, <1>5, <1>9
  <2>3. pc' = "payload" => Len(taken') < Len(sent') /\ head' = sent'[Len(taken') + 1]
    <3>1. SUFFICES ASSUME pc = "payload"
                   PROVE  Len(taken) < Len(sent') /\ head = sent'[Len(taken) + 1]
        BY <1>2
    <3>2. head = sent[Len(taken) + 1]
        BY <1>1, <3>1 DEF FramedBy
    <3>3. Len(taken) < Len(sent) - 1 /\ Len(taken) + 1 \in 1 .. Len(sent) - 1
        BY <1>5, <1>10, <3>1
    <3> QED
        BY <1>9, <3>2, <3>3
  <2>4. Carries(less, sent', Consumed(less)', Stream')
      BY <1>2, <1>7, <1>8, <1>11
  <2> QED
      BY <2>1, <2>2, <2>3, <2>4 DEF FramedBy
<1>13. TakenAsSent'
  <2>1. DOMAIN taken = 1 .. Len(taken)
      BY DEF TypeOK
  <2>2. \A i \in 1 .. Len(taken) : sent'[i] = sent[i]
      BY <1>5, <1>9
  <2> QED
      BY <1>2, <2>1, <2>2 DEF Framed, TakenAsSent
<1> QED
    BY <1>12, <1>13 DEF Framed

\* The stream after n bytes have been taken.
LEMMA StreamTaken ==
    ASSUME TypeOK, NEW n \in Nat, n <= Len(ready),
           ready' = Rest(n), UNCHANGED <<wire, outbox>>
    PROVE  /\ Stream' = SubSeq(Stream, n + 1, Len(Stream))
           /\ n \in 0 .. Len(Stream)
<1>1. /\ ready \in Seq(Byte) /\ wire \in Seq(Byte) /\ outbox \in Seq(Byte)
      /\ ready \o wire \in Seq(Byte)
      /\ Len(ready \o wire) = Len(ready) + Len(wire)
      /\ Len(Stream) = (Len(ready) + Len(wire)) + Len(outbox)
    BY StreamIs, ConcatProperties
<1>2. n \in 0 .. Len(ready) /\ n \in 0 .. Len(ready \o wire) /\ n \in 0 .. Len(Stream)
    BY <1>1
<1>3. Rest(n) \o wire = SubSeq(ready \o wire, n + 1, Len(ready \o wire))
    BY <1>1, <1>2, AfterFirstOfConcat DEF Rest
<1>4. SubSeq(ready \o wire, n + 1, Len(ready \o wire)) \o outbox
        = SubSeq((ready \o wire) \o outbox, n + 1, Len((ready \o wire) \o outbox))
    BY <1>1, <1>2, AfterFirstOfConcat
<1> QED
    BY <1>2, <1>3, <1>4 DEF Stream

\* A whole head is the head of the next message.
LEMMA FramedRecvHead ==
    ASSUME TypeOK, Framed, RecvHead, ~torn'
    PROVE  Framed'
<1>1. PICK at : FramedBy(at)
    BY DEF Framed
<1> DEFINE t == Len(taken)
           m == sent[t + 1]
<1>2. /\ ready \in Seq(Byte) /\ Len(ready) \in Nat
      /\ Len(Stream) = (Len(ready) + Len(wire)) + Len(outbox)
      /\ Len(wire) \in Nat /\ Len(outbox) \in Nat
      /\ \A j \in 1 .. Len(ready) : Stream[j] = ready[j]
      /\ Stream \in Seq(Byte)
    BY StreamIs
<1>3. /\ Len(ready) >= 2
      /\ pc = "head" /\ pc' = "payload"
      /\ head' \in HeadsOf(Take(2)) /\ ready' = Rest(2)
      /\ UNCHANGED <<outbox, wire, sent, taken>>
  <2>1. ~(Least(HeadLen, Len(ready)) < HeadLen)
      BY DEF RecvHead
  <2>2. Len(ready) >= HeadLen /\ Least(HeadLen, Len(ready)) = HeadLen
      BY <1>2, <2>1, LeastIs DEF HeadLen
  <2> QED
      BY <2>2 DEF RecvHead, HeadLen
<1>4. /\ t \in Nat /\ Len(sent) \in Nat /\ t < Len(sent)
      /\ m \in Message /\ at[t + 1] \in Nat
    BY <1>1, <1>2, <1>3, ConsumedIs
<1>5. Consumed(at) = at[t + 1]
    BY <1>3, <1>4 DEF Consumed
<1>6. ready[1] = <<m, 0>> /\ ready[2] = <<m, 1>>
  <2>1. 0 \in 0 .. Total(m) - 1 /\ 1 \in 0 .. Total(m) - 1
      BY <1>4, BytesOf DEF HeadLen
  <2>2. 1 \in 1 .. Len(Stream) /\ 2 \in 1 .. Len(Stream) /\ t + 1 \in 1 .. Len(sent)
      BY <1>2, <1>3, <1>4
  <2>3. (at[t + 1] + 1) - 1 = at[t + 1] + 0 /\ (at[t + 1] + 2) - 1 = at[t + 1] + 1
      BY <1>4
  <2>4. Stream[1] = <<m, 0>> /\ Stream[2] = <<m, 1>>
      BY <1>1, <1>5, <2>1, <2>2, <2>3 DEF FramedBy, Carries
  <2> QED
      BY <1>2, <1>3, <2>4
<1>7. head' = m
  <2>1. /\ Take(2) \in Seq(Byte) /\ Len(Take(2)) = 2
        /\ Take(2)[1] = <<m, 0>> /\ Take(2)[2] = <<m, 1>>
    <3>1. \A n \in Nat : n <= Len(ready) =>
            /\ Take(n) \in Seq(Byte) /\ Len(Take(n)) = n
            /\ \A i \in 1 .. n : Take(n)[i] = ready[i]
        BY <1>2, TakeAndRest
    <3>2. 2 \in Nat /\ 2 <= Len(ready) /\ 1 \in 1 .. 2 /\ 2 \in 1 .. 2
        BY <1>2, <1>3
    <3>3. /\ Take(2) \in Seq(Byte) /\ Len(Take(2)) = 2
          /\ \A i \in 1 .. 2 : Take(2)[i] = ready[i]
        BY ONLY <3>1, <3>2
    <3> HIDE DEF m
    <3> QED
        BY ONLY <1>6, <3>2, <3>3
  <2> HIDE DEF m
  <2>2. /\ Take(2) # <<>> /\ Take(2)[1][1] = m /\ Take(2)[1][2] = 0
        /\ Take(2)[2] = <<Take(2)[1][1], 1>>
      BY <2>1
  <2>3. HeadsOf(Take(2)) = {Take(2)[1][1]}
      BY <2>1, <2>2 DEF HeadsOf
  <2> QED
      BY <1>3, <2>2, <2>3
<1>8. /\ Stream' = SubSeq(Stream, 2 + 1, Len(Stream))
      /\ 2 \in 0 .. Len(Stream)
    BY <1>2, <1>3, StreamTaken
<1>9. Carries(at, sent, Consumed(at) + 2, SubSeq(Stream, 2 + 1, Len(Stream)))
  <2>1. /\ sent \in Seq(Message) /\ Consumed(at) \in Nat
        /\ PlacedAt(at, sent) /\ Carries(at, sent, Consumed(at), Stream)
      BY <1>1, ConsumedIs DEF TypeOK, FramedBy
  <2> QED
      BY ONLY <1>2, <1>8, <2>1, CarriesTaken
<1>10. Consumed(at)' = Consumed(at) + 2
    BY <1>3, <1>5 DEF Consumed, HeadLen
<1>11. FramedBy(at)'
  <2>1. PlacedAt(at, sent')
      BY <1>1, <1>3 DEF FramedBy
  <2>2. Len(taken') <= Len(sent') /\ Len(taken') < Len(sent')
      BY <1>3, <1>4
  <2>3. head' = sent'[Len(taken') + 1]
      BY <1>3, <1>7
  <2>4. Carries(at, sent', Consumed(at)', Stream')
      BY <1>3, <1>8, <1>9, <1>10
  <2> QED
      BY <2>1, <2>2, <2>3, <2>4 DEF FramedBy
<1>12. TakenAsSent'
    BY <1>3 DEF Framed, TakenAsSent
<1> QED
    BY <1>11, <1>12 DEF Framed

\* A whole payload is the payload of the message whose head was received.
LEMMA FramedRecvPayload ==
    ASSUME TypeOK, Framed, RecvPayload, ~torn'
    PROVE  Framed'
<1>1. PICK at : FramedBy(at)
    BY DEF Framed
<1> DEFINE t   == Len(taken)
           m   == head
           l   == head.len
           got == [type |-> head.type, len |-> head.len, whole |-> TRUE]
<1>2. /\ ready \in Seq(Byte) /\ Len(ready) \in Nat
      /\ Len(Stream) = (Len(ready) + Len(wire)) + Len(outbox)
      /\ Len(wire) \in Nat /\ Len(outbox) \in Nat
      /\ \A j \in 1 .. Len(ready) : Stream[j] = ready[j]
      /\ Stream \in Seq(Byte)
    BY StreamIs
<1>3. l \in Nat
    BY LengthIsNat DEF TypeOK, HeadType
<1>4. /\ Len(ready) >= l
      /\ pc = "payload" /\ pc' = "head"
      /\ ready' = Rest(l)
      /\ taken' = Append(taken, [type |-> head.type, len |-> head.len,
                                 whole |-> Take(l) = SubSeq(Bytes(head), HeadLen + 1, Total(head))])
      /\ UNCHANGED <<outbox, wire, sent>>
  <2>1. ~(Least(l, Len(ready)) < l)
      BY DEF RecvPayload
  <2>2. Len(ready) >= l /\ Least(l, Len(ready)) = l
      BY <1>2, <1>3, <2>1, LeastIs
  <2> QED
      BY <2>2 DEF RecvPayload
<1>5. /\ t \in Nat /\ Len(sent) \in Nat /\ t < Len(sent)
      /\ m = sent[t + 1] /\ m \in Message
      /\ at[t + 1] \in Nat /\ Consumed(at) \in Nat
      /\ at[(t + 1) + 1] = at[t + 1] + Total(m)
  <2>1. t < Len(sent) /\ m = sent[t + 1]
      BY <1>1, <1>4 DEF FramedBy
  <2> QED
      BY <1>1, <2>1, ConsumedIs
<1>6. Consumed(at) = at[t + 1] + 2
    BY <1>4, <1>5 DEF Consumed, HeadLen
<1>7. /\ Total(m) = 2 + l
      /\ Bytes(m) \in Seq(Byte) /\ Len(Bytes(m)) = Total(m)
      /\ \A j \in 1 .. Total(m) : Bytes(m)[j] = <<m, j - 1>>
    BY <1>5, BytesOf DEF HeadLen
<1> HIDE DEF m, t, l
<1>8. Take(l) = SubSeq(Bytes(m), 2 + 1, Total(m))
  <2>1. /\ Take(l) \in Seq(Byte) /\ Len(Take(l)) = l
        /\ \A i \in 1 .. l : Take(l)[i] = ready[i]
      BY ONLY <1>2, <1>3, <1>4, TakeAndRest
  <2>2. 2 \in 0 .. Len(Bytes(m))
      BY <1>3, <1>7
  <2>3. /\ SubSeq(Bytes(m), 2 + 1, Len(Bytes(m))) \in Seq(Byte)
        /\ Len(SubSeq(Bytes(m), 2 + 1, Len(Bytes(m)))) = Len(Bytes(m)) - 2
        /\ \A i \in 1 .. Len(Bytes(m)) - 2 :
              SubSeq(Bytes(m), 2 + 1, Len(Bytes(m)))[i] = Bytes(m)[2 + i]
      BY ONLY <1>7, <2>2, AfterFirst
  <2>4. ASSUME NEW i \in 1 .. l
        PROVE  Take(l)[i] = SubSeq(Bytes(m), 2 + 1, Len(Bytes(m)))[i]
    <3>1. /\ i \in 1 .. Len(Bytes(m)) - 2 /\ 2 + i \in 1 .. Total(m)
          /\ (2 + i) - 1 \in 0 .. Total(m) - 1
          /\ i \in 1 .. Len(ready) /\ i \in 1 .. Len(Stream)
          /\ ((at[t + 1] + 2) + i) - 1 = at[t + 1] + ((2 + i) - 1)
          /\ t + 1 \in 1 .. Len(sent)
      <4>1. i \in Nat /\ i >= 1 /\ i <= l /\ l \in Nat
          BY <1>3
      <4>2. Len(Bytes(m)) = 2 + l /\ Total(m) = 2 + l
          BY <1>7
      <4>3. /\ i \in 1 .. Len(Bytes(m)) - 2 /\ 2 + i \in 1 .. Total(m)
            /\ (2 + i) - 1 \in 0 .. Total(m) - 1
          BY ONLY <4>1, <4>2
      <4>4. i \in 1 .. Len(ready) /\ i \in 1 .. Len(Stream)
          BY ONLY <1>2, <1>4, <4>1
      <4>5. at[t + 1] \in Nat /\ t \in Nat /\ Len(sent) \in Nat /\ t < Len(sent)
          BY <1>5
      <4>6. /\ ((at[t + 1] + 2) + i) - 1 = at[t + 1] + ((2 + i) - 1)
            /\ t + 1 \in 1 .. Len(sent)
          BY ONLY <4>1, <4>5
      <4> QED
          BY <4>3, <4>4, <4>6
    <3>2. SubSeq(Bytes(m), 2 + 1, Len(Bytes(m)))[i] = <<m, (2 + i) - 1>>
        BY ONLY <1>7, <2>3, <3>1
    <3>3. Stream[i] = <<sent[t + 1], (2 + i) - 1>>
      <4>1. \A a \in 1 .. Len(sent) : \A k \in 0 .. Total(sent[a]) - 1 : \A j \in 1 .. Len(Stream) :
                (Consumed(at) + j) - 1 = at[a] + k => Stream[j] = <<sent[a], k>>
          BY <1>1 DEF FramedBy, Carries
      <4>2. (2 + i) - 1 \in 0 .. Total(sent[t + 1]) - 1
          BY <1>5, <3>1
      <4>3. (Consumed(at) + i) - 1 = at[t + 1] + ((2 + i) - 1)
          BY <1>6, <3>1
      <4> QED
          BY ONLY <3>1, <4>1, <4>2, <4>3
    <3> QED
        BY <1>2, <1>5, <2>1, <3>1, <3>2, <3>3
  <2>5. Len(Take(l)) = Len(SubSeq(Bytes(m), 2 + 1, Len(Bytes(m))))
      BY <1>3, <1>7, <2>1, <2>3
  <2>6. Take(l) = SubSeq(Bytes(m), 2 + 1, Len(Bytes(m)))
      BY ONLY <2>1, <2>3, <2>4, <2>5, SeqEqual
  <2> QED
      BY <1>7, <2>6
<1>9. taken' = Append(taken, got)
  <2>1. (Take(l) = SubSeq(Bytes(head), HeadLen + 1, Total(head))) = TRUE
      BY <1>8 DEF m, HeadLen
  <2> QED
      BY <1>4, <2>1
<1>10. /\ Len(taken') = t + 1
       /\ \A i \in 1 .. t : taken'[i] = taken[i]
       /\ taken'[t + 1] = got
       /\ DOMAIN taken = 1 .. t
       /\ DOMAIN taken' = 1 .. t + 1
    BY <1>9 DEF TypeOK, t
<1> HIDE DEF got
<1>11. /\ Stream' = SubSeq(Stream, l + 1, Len(Stream))
       /\ l \in 0 .. Len(Stream)
    BY <1>2, <1>3, <1>4, StreamTaken
<1>12. Carries(at, sent, Consumed(at) + l, SubSeq(Stream, l + 1, Len(Stream)))
  <2>1. /\ sent \in Seq(Message) /\ Consumed(at) \in Nat
        /\ PlacedAt(at, sent) /\ Carries(at, sent, Consumed(at), Stream)
      BY <1>1, ConsumedIs DEF TypeOK, FramedBy
  <2> QED
      BY ONLY <1>2, <1>11, <2>1, CarriesTaken
<1>13. Consumed(at)' = Consumed(at) + l
  <2>1. Consumed(at)' = at[(t + 1) + 1] + 0
      BY <1>4, <1>10 DEF Consumed
  <2>2. at[(t + 1) + 1] = (at[t + 1] + 2) + l
    <3>1. at[(t + 1) + 1] = at[t + 1] + (2 + l)
        BY <1>5, <1>7
    <3>2. at[t + 1] \in Nat
        BY <1>5
    <3> QED
        BY ONLY <1>3, <3>1, <3>2
  <2> QED
      BY ONLY <1>3, <1>5, <1>6, <2>1, <2>2
<1>14. FramedBy(at)'
  <2>1. PlacedAt(at, sent')
      BY <1>1, <1>4 DEF FramedBy
  <2>2. Len(taken') <= Len(sent')
      BY <1>4, <1>5, <1>10
  <2>3. pc' # "payload"
      BY <1>4
  <2>4. Carries(at, sent', Consumed(at)', Stream')
      BY <1>4, <1>11, <1>12, <1>13
  <2> QED
      BY <2>1, <2>2, <2>3, <2>4 DEF FramedBy
<1>15. TakenAsSent'
  <2>1. ASSUME NEW i \in 1 .. t + 1
        PROVE  taken'[i] = [type |-> sent'[i].type, len |-> sent'[i].len, whole |-> TRUE]
    <3>1. CASE i \in 1 .. t
        BY <1>4, <1>10, <3>1 DEF Framed, TakenAsSent
    <3>2. CASE i = t + 1
        BY <1>4, <1>5, <1>10, <3>2 DEF got, m
    <3> QED
        BY <1>5, <3>1, <3>2
  <2> QED
      BY <1>10, <2>1 DEF TakenAsSent
<1> QED
    BY <1>14, <1>15 DEF Framed

-------------------------------------------------------------------------------
(* The theorems.                                                           *)

\* In the beginning nothing is on its way.
LEMMA FramedInit ==
    ASSUME Init
    PROVE  Framed
<1>1. /\ sent = <<>> /\ taken = <<>> /\ pc = "head"
      /\ ready = <<>> /\ wire = <<>> /\ outbox = <<>>
    BY DEF Init
<1>2. /\ Stream = <<>> /\ Len(sent) = 0 /\ Len(taken) = 0 /\ Len(Stream) = 0
  <2>1. \A S : <<>> \in Seq(S)
      OBVIOUS
  <2>2. (<<>> \o <<>>) \o <<>> = <<>>
      BY <2>1, ConcatEmptySeq
  <2> QED
      BY <1>1, <2>2 DEF Stream
<1> DEFINE at == [i \in 1 .. 1 |-> 0]
<1>3. PlacedAt(at, sent)
    BY <1>2 DEF PlacedAt
<1>4. Consumed(at) = 0
    BY <1>1, <1>2 DEF Consumed
<1>5. Carries(at, sent, Consumed(at), Stream)
    BY <1>2, <1>4 DEF Carries
<1>6. FramedBy(at)
    BY <1>1, <1>2, <1>3, <1>5 DEF FramedBy
<1>7. TakenAsSent
    BY <1>1 DEF TakenAsSent
<1> QED
    BY <1>6, <1>7 DEF Framed

\* No step that ends no call inside a message disturbs the framing.
LEMMA FramedNext ==
    ASSUME TypeOK, Framed, [Next]_vars, ~torn'
    PROVE  Framed'
<1>1. CASE Close
  <2>1. UNCHANGED <<ready, wire, outbox, pc, head, sent, taken>>
      BY <1>1 DEF Close, receiverVars
  <2> QED
      BY <2>1, FramedMoved DEF Stream
<1>2. CASE RecvPayloadFails
    BY <1>2 DEF RecvPayloadFails
<1>3. CASE UNCHANGED vars
  <2>1. UNCHANGED <<ready, wire, outbox, pc, head, sent, taken>>
      BY <1>3 DEF vars
  <2> QED
      BY <2>1, FramedMoved DEF Stream
<1> QED
    BY <1>1, <1>2, <1>3, FramedSend, FramedAccept, FramedSendTimeout, FramedArrive,
       FramedRecvHead, FramedRecvPayload
    DEF Next, Sender, Network, Receiver

\* Once a call has ended inside a message, one has.
LEMMA TornForGood ==
    ASSUME TypeOK, [Next]_vars, torn
    PROVE  torn'
<1>1. CASE UNCHANGED vars
    BY <1>1 DEF vars
<1>2. CASE Next
    BY <1>2 DEF Next, Sender, Network, Receiver, Send, SendTimeout, Close, Accept, Arrive,
                RecvHead, RecvPayload, RecvPayloadFails
<1> QED
    BY <1>1, <1>2

\* The inductive invariant holds: the types are right and, until a call has
\* ended inside a message, the receiver stands at the start of a message or
\* behind its head, and everything behind it are the messages still to come,
\* in the order of send_single_message.
THEOREM Invariant == Spec => []IInv
<1>1. Init => IInv
    BY TypeInit, FramedInit DEF IInv
<1>2. IInv /\ [Next]_vars => IInv'
  <2> SUFFICES ASSUME TypeOK, ~torn => Framed, [Next]_vars
               PROVE  TypeOK' /\ (~torn' => Framed')
      BY DEF IInv
  <2>1. TypeOK'
      BY TypeNext
  <2>2. ASSUME ~torn'
        PROVE  Framed'
    <3>1. ~torn
        BY <2>2, TornForGood
    <3> QED
        BY <2>2, <3>1, FramedNext
  <2> QED
      BY <2>1, <2>2
<1> QED
    BY <1>1, <1>2, PTL DEF Spec

\* Type correctness, with the bytes on their way never more than the
\* connection holds.
THEOREM TypeCorrect == Spec => []TypeOK
<1>1. IInv => TypeOK
    BY DEF IInv
<1> QED
    BY <1>1, Invariant, PTL

\* What recv_single_message returns 0 for are the messages of
\* send_single_message, complete, in order, none missing and none twice, as
\* long as no call has ended inside a message or at the end of the stream.
THEOREM AlwaysCompleteUntilTorn == Spec => []CompleteUntilTorn
<1>1. IInv => CompleteUntilTorn
  <2>1. Framed => CompletePackets
      BY DEF Framed, FramedBy, TakenAsSent, CompletePackets
  <2> QED
      BY <2>1 DEF IInv, CompleteUntilTorn
<1> QED
    BY <1>1, Invariant, PTL
===============================================================================
