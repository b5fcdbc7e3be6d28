--------------------------- MODULE SequentialProofs ---------------------------
(***************************************************************************)
(* The results about the other sequential programs, the hash tables,       *)
(* killProcess and the size of the lock-free FIFO, for every set of keys   *)
(* or processes and every capacity; and at the end all programs together,  *)
(* with the theorems about their specification.                            *)
(***************************************************************************)
EXTENDS MCSequential, DataStructuresProofs, HashTable

-------------------------------------------------------------------------------
(* HASH_SORT.                                                              *)

\* The places of the entries that come before the j-th in sorted order, itself
\* included: as many as HashSort gives it as its place.
Before(table, field, j) ==
    {i \in DOMAIN table :
        \/ table[i][field] < table[j][field]
        \/ table[i][field] = table[j][field] /\ i <= j}

HasField(table, field) == \A i \in DOMAIN table : table[i][field] \in Int

Comes(table, field, n) == CHOOSE j \in DOMAIN table : Cardinality(Before(table, field, j)) = n

\* HASH_SORT gives each place the entry that comes there.
LEMMA HashSortIs ==
    ASSUME NEW table, NEW field
    PROVE  HashSort(table, field) = [n \in DOMAIN table |-> table[Comes(table, field, n)]]
BY DEF HashSort, Comes, Before

\* The places in sorted order are places of the table.
LEMMA BeforeCounts ==
    ASSUME NEW S, NEW table \in Seq(S), NEW field, HasField(table, field),
           NEW j \in 1 .. Len(table)
    PROVE  /\ IsFiniteSet(Before(table, field, j))
           /\ Cardinality(Before(table, field, j)) \in 1 .. Len(table)
<1> DEFINE B == Before(table, field, j)
<1>1. PICK n \in Nat : n = Len(table) BY LenProperties
<1>2. DOMAIN table = 1 .. n BY <1>1, LenProperties
<1>3. IsFiniteSet(1 .. n) /\ Cardinality(1 .. n) = n BY <1>1, CardinalityUpTo
<1>4. B \in SUBSET (1 .. n) BY <1>2 DEF Before
<1>5. j \in B BY <1>1, <1>2 DEF Before, HasField
<1> HIDE DEF B
<1>6. IsFiniteSet(B) /\ Cardinality(B) <= n BY <1>3, <1>4, FS_Subset
<1>7. Cardinality(B) \in Nat BY <1>6, FS_CardinalityType
<1>8. Cardinality(B) # 0 BY <1>5, <1>6, FS_EmptySet
<1>9. Cardinality(B) \in 1 .. Len(table) BY <1>1, <1>6, <1>7, <1>8
<1> QED BY <1>6, <1>9 DEF B

\* Two entries never have the same place: the later has more before it.
LEMMA EarlierHasFewer ==
    ASSUME NEW S, NEW table \in Seq(S), NEW field, HasField(table, field),
           NEW j \in 1 .. Len(table), NEW k \in 1 .. Len(table), j # k,
           j \in Before(table, field, k)
    PROVE  Cardinality(Before(table, field, j)) # Cardinality(Before(table, field, k))
<1>1. PICK n \in Nat : n = Len(table) BY LenProperties
<1>2. DOMAIN table = 1 .. n BY <1>1, LenProperties
<1> DEFINE B == Before(table, field, j)
           C == Before(table, field, k)
<1>3. B \in SUBSET C
  <2> SUFFICES ASSUME NEW i \in B PROVE i \in C OBVIOUS
  <2>1. /\ i \in 1 .. n /\ j \in 1 .. n /\ k \in 1 .. n
        /\ table[i][field] \in Int /\ table[j][field] \in Int /\ table[k][field] \in Int
    BY <1>1, <1>2 DEF Before, HasField
  <2> QED BY <1>2, <2>1 DEF Before
<1>4. k \in C BY <1>1, <1>2 DEF Before, HasField
<1>5. k \notin B
  <2>1. /\ j \in 1 .. n /\ k \in 1 .. n
        /\ table[j][field] \in Int /\ table[k][field] \in Int
    BY <1>1, <1>2 DEF HasField
  <2> QED BY <1>2, <2>1 DEF Before
<1>6. IsFiniteSet(C) BY BeforeCounts
<1> HIDE DEF B, C
<1>7. Cardinality(C) = Cardinality(B) => C = B BY <1>3, <1>6, FS_Subset
<1> QED BY <1>4, <1>5, <1>7 DEF B, C

\* Hence every place is given to exactly one entry.
LEMMA PlacesDiffer ==
    ASSUME NEW S, NEW table \in Seq(S), NEW field, HasField(table, field),
           NEW j \in 1 .. Len(table), NEW k \in 1 .. Len(table),
           Cardinality(Before(table, field, j)) = Cardinality(Before(table, field, k))
    PROVE  j = k
<1> SUFFICES ASSUME j # k PROVE FALSE OBVIOUS
<1>1. PICK n \in Nat : n = Len(table) BY LenProperties
<1>2. DOMAIN table = 1 .. n BY <1>1, LenProperties
<1>3. /\ j \in 1 .. n /\ k \in 1 .. n
      /\ table[j][field] \in Int /\ table[k][field] \in Int
  BY <1>1, <1>2 DEF HasField
<1>4. j \in Before(table, field, k) \/ k \in Before(table, field, j)
  BY <1>2, <1>3 DEF Before
<1>5. CASE j \in Before(table, field, k) BY <1>5, EarlierHasFewer
<1>6. CASE k \in Before(table, field, j) BY <1>6, EarlierHasFewer
<1> QED BY <1>4, <1>5, <1>6

\* The sorted table has the entries of the table in another order, p.
IsOrder(p, n) ==
    /\ p \in [1 .. n -> 1 .. n]
    /\ \A k, m \in 1 .. n : p[k] = p[m] => k = m
    /\ \A j \in 1 .. n : \E k \in 1 .. n : p[k] = j

InOrder(table, p) == [k \in 1 .. Len(table) |-> table[p[k]]]

\* HASH_SORT gives the same entries in another order.
LEMMA SortPermutes ==
    ASSUME NEW S, NEW table \in Seq(S), NEW field, HasField(table, field)
    PROVE  \E p : IsOrder(p, Len(table)) /\ HashSort(table, field) = InOrder(table, p)
<1>1. PICK n \in Nat : n = Len(table) BY LenProperties
<1>2. DOMAIN table = 1 .. n BY <1>1, LenProperties
<1> DEFINE place == [j \in 1 .. n |-> Cardinality(Before(table, field, j))]
           p == [k \in 1 .. n |-> Comes(table, field, k)]
<1>3. place \in [1 .. n -> 1 .. n] BY <1>1, BeforeCounts
<1>4. \A j, k \in 1 .. n : place[j] = place[k] => j = k BY <1>1, PlacesDiffer
<1>5. \A j \in 1 .. n : place[j] = Cardinality(Before(table, field, j)) OBVIOUS
<1> HIDE DEF place
<1>6. \A k \in 1 .. n : \E j \in 1 .. n : place[j] = k
  <2>1. place \in Injection(1 .. n, 1 .. n) BY <1>3, <1>4, Fun_IsInj
  <2>2. place \in Surjection(1 .. n, 1 .. n) BY <2>1, CardinalityUpTo, FS_Injection
  <2> QED BY <2>2 DEF Surjection
<1>7. \A k \in 1 .. n : p[k] \in 1 .. n /\ place[p[k]] = k
  <2> SUFFICES ASSUME NEW k \in 1 .. n PROVE p[k] \in 1 .. n /\ place[p[k]] = k OBVIOUS
  <2>1. PICK j \in 1 .. n : Cardinality(Before(table, field, j)) = k BY <1>5, <1>6
  <2>2. Comes(table, field, k) \in 1 .. n
        /\ Cardinality(Before(table, field, Comes(table, field, k))) = k
    BY <1>2, <2>1 DEF Comes
  <2> QED BY <1>5, <2>2
<1>8. HashSort(table, field) = InOrder(table, p) BY <1>1, <1>2, HashSortIs DEF InOrder
<1>9. p \in [1 .. n -> 1 .. n]
  <2>1. \A k \in 1 .. n : p[k] \in 1 .. n BY <1>7
  <2> QED BY <2>1
<1> HIDE DEF p
<1>10. \A j \in 1 .. n : p[place[j]] = j BY <1>3, <1>4, <1>7
<1>11. IsOrder(p, n) BY <1>3, <1>7, <1>9, <1>10 DEF IsOrder
<1> QED BY <1>1, <1>8, <1>11

-------------------------------------------------------------------------------
(* The menu of the hash table.                                             *)

Entries == [node : Nodes, key : Keys, value : Values]

\* The entries of a table are those in use, each once.
Holds(table, used) ==
    /\ table \in Seq(Entries)
    /\ used = {table[i].node : i \in DOMAIN table}
    /\ \A i, j \in DOMAIN table : table[i].node = table[j].node => i = j

\* What the instance of the menu calls its operators is what they are here.
LEMMA MenuOperators ==
    /\ \A t, e : Menu!HashAdd(t, e) = Append(t, e)
    /\ \A t, i : Menu!HashDel(t, i) = RemoveAt(t, i)
    /\ \A t, f : Menu!HashSort(t, f) = HashSort(t, f)
<1>1. \A t, e : Menu!HashAdd(t, e) = Append(t, e) BY DEF Menu!HashAdd
<1>2. \A t, i : Menu!HashDel(t, i) = RemoveAt(t, i)
  BY DEF Menu!HashDel, Menu!RemoveAt, RemoveAt
<1>3. \A t, f : Menu!HashSort(t, f) = HashSort(t, f)
  BY DEF Menu!HashSort, HashSort, Menu!Cardinality, Cardinality, Menu!IsFiniteSet, IsFiniteSet
<1> QED BY <1>1, <1>2, <1>3

\* A table holds nothing at first.
LEMMA HoldsNothing == Holds(<<>>, {})
BY DEF Holds

\* An entry from the heap is added.
LEMMA HoldsMore ==
    ASSUME NEW table, NEW used, Holds(table, used), NEW e \in Entries, e.node \notin used
    PROVE  Holds(Append(table, e), used \cup {e.node})
<1>1. PICK n \in Nat : n = Len(table) BY LenProperties DEF Holds
<1>2. table \in Seq(Entries) /\ DOMAIN table = 1 .. n BY <1>1, LenProperties DEF Holds
<1>3. PICK t : t = Append(table, e) OBVIOUS
<1>4. /\ t \in Seq(Entries) /\ Len(t) = n + 1
      /\ t[n + 1] = e /\ \A i \in 1 .. n : t[i] = table[i]
  BY <1>1, <1>2, <1>3, AppendProperties
<1>5. DOMAIN t = 1 .. n + 1 BY <1>4, LenProperties
<1>6. \A i \in 1 .. n : table[i].node \in used /\ table[i].node # e.node BY <1>2 DEF Holds
<1>7. ASSUME NEW i \in 1 .. n + 1, NEW j \in 1 .. n + 1, t[i].node = t[j].node PROVE i = j
  <2>1. (i \in 1 .. n \/ i = n + 1) /\ (j \in 1 .. n \/ j = n + 1) OBVIOUS
  <2> QED BY <1>2, <1>4, <1>6, <1>7, <2>1 DEF Holds
<1>8. used \cup {e.node} = {t[i].node : i \in 1 .. n + 1}
  <2>1. \A i \in 1 .. n + 1 : i \in 1 .. n \/ i = n + 1 OBVIOUS
  <2>2. \A i \in 1 .. n : i \in 1 .. n + 1 OBVIOUS
  <2>3. n + 1 \in 1 .. n + 1 OBVIOUS
  <2>4. used = {table[i].node : i \in 1 .. n} BY <1>2 DEF Holds
  <2> QED BY <1>4, <2>1, <2>2, <2>3, <2>4
<1> QED BY <1>3, <1>4, <1>5, <1>7, <1>8 DEF Holds

\* One entry is deleted and freed.
LEMMA HoldsLess ==
    ASSUME NEW table, NEW used, Holds(table, used), NEW i \in DOMAIN table
    PROVE  Holds(RemoveAt(table, i), used \ {table[i].node})
<1>1. PICK n \in Nat : n = Len(table) BY LenProperties DEF Holds
<1>2. table \in Seq(Entries) /\ DOMAIN table = 1 .. n /\ i \in 1 .. n
  BY <1>1, LenProperties DEF Holds
<1>3. PICK t : t = RemoveAt(table, i) OBVIOUS
<1>4. /\ t \in Seq(Entries) /\ Len(t) = n - 1
      /\ \A j \in 1 .. n - 1 : t[j] = IF j < i THEN table[j] ELSE table[j + 1]
  BY <1>1, <1>2, <1>3, RemoveAtProperties
<1>5. DOMAIN t = 1 .. n - 1 BY <1>4, LenProperties
<1>6. \A j, k \in 1 .. n : table[j].node = table[k].node => j = k BY <1>2 DEF Holds
<1>7. ASSUME NEW j \in 1 .. n - 1, NEW k \in 1 .. n - 1, t[j].node = t[k].node PROVE j = k
  <2> DEFINE a == IF j < i THEN j ELSE j + 1
             b == IF k < i THEN k ELSE k + 1
  <2>1. a \in 1 .. n /\ b \in 1 .. n /\ t[j] = table[a] /\ t[k] = table[b] BY <1>2, <1>4
  <2>2. a = b BY <1>6, <1>7, <2>1
  <2> QED BY <1>2, <2>2
<1>8. used \ {table[i].node} = {t[j].node : j \in 1 .. n - 1}
  <2>1. used = {table[j].node : j \in 1 .. n} BY <1>2 DEF Holds
  <2>2. ASSUME NEW j \in 1 .. n - 1
        PROVE  t[j].node \in used \ {table[i].node}
    <3> DEFINE a == IF j < i THEN j ELSE j + 1
    <3>1. a \in 1 .. n /\ a # i /\ t[j] = table[a] BY <1>2, <1>4
    <3> QED BY <1>2, <1>6, <2>1, <3>1
  <2>3. ASSUME NEW j \in 1 .. n, table[j].node # table[i].node
        PROVE  \E k \in 1 .. n - 1 : t[k].node = table[j].node
    <3> DEFINE k == IF j < i THEN j ELSE j - 1
    <3>1. j # i BY <2>3
    <3>2. k \in 1 .. n - 1 /\ t[k] = table[j] BY <1>2, <1>4, <3>1
    <3> QED BY <3>2
  <2> QED BY <2>1, <2>2, <2>3
<1>9. \A j, k \in DOMAIN t : t[j].node = t[k].node => j = k BY <1>5, <1>7
<1>10. used \ {table[i].node} = {t[j].node : j \in DOMAIN t} BY <1>5, <1>8
<1>11. Holds(t, used \ {table[i].node}) BY <1>4, <1>9, <1>10 DEF Holds
<1> QED BY <1>3, <1>11

\* The entries are put in order.
LEMMA HoldsInOrder ==
    ASSUME NEW table, NEW used, Holds(table, used), NEW field \in {"key", "value"}
    PROVE  Holds(HashSort(table, field), used)
<1>1. PICK n \in Nat : n = Len(table) BY LenProperties DEF Holds
<1>2. table \in Seq(Entries) /\ DOMAIN table = 1 .. n BY <1>1, LenProperties DEF Holds
<1>3. \A i \in 1 .. n : table[i] \in Entries BY <1>1, <1>2, LenProperties
<1>4. HasField(table, field)
  BY <1>2, <1>3, SequentialAssumption, DataAssumption DEF HasField, Entries
<1>5. PICK p : IsOrder(p, n) /\ HashSort(table, field) = InOrder(table, p)
  BY <1>1, <1>2, <1>4, SortPermutes
<1>6. PICK t : t = InOrder(table, p) OBVIOUS
<1>7. t = [k \in 1 .. n |-> table[p[k]]] BY <1>1, <1>6 DEF InOrder
<1>8. \A k \in 1 .. n : p[k] \in 1 .. n BY <1>5 DEF IsOrder
<1>9. t \in Seq(Entries) /\ DOMAIN t = 1 .. n
  <2>1. t \in [1 .. n -> Entries] BY <1>3, <1>7, <1>8
  <2> QED BY <2>1, SeqDef
<1>10. ASSUME NEW k \in 1 .. n, NEW m \in 1 .. n, t[k].node = t[m].node PROVE k = m
  <2>1. p[k] = p[m] BY <1>2, <1>7, <1>8, <1>10 DEF Holds
  <2> QED BY <1>5, <2>1 DEF IsOrder
<1>11. used = {t[k].node : k \in 1 .. n}
  <2>1. used = {table[k].node : k \in 1 .. n} BY <1>2 DEF Holds
  <2>2. \A j \in 1 .. n : \E k \in 1 .. n : p[k] = j BY <1>5 DEF IsOrder
  <2>3. ASSUME NEW x \in used PROVE \E k \in 1 .. n : t[k].node = x
    <3>1. PICK j \in 1 .. n : x = table[j].node BY <2>1
    <3>2. PICK k \in 1 .. n : p[k] = j BY <2>2
    <3> QED BY <1>7, <3>1, <3>2
  <2>4. ASSUME NEW k \in 1 .. n PROVE t[k].node \in used BY <1>7, <1>8, <2>1
  <2> QED BY <2>3, <2>4
<1>12. \A j, k \in DOMAIN t : t[j].node = t[k].node => j = k BY <1>9, <1>10
<1>13. used = {t[k].node : k \in DOMAIN t} BY <1>9, <1>11
<1>14. Holds(t, used) BY <1>9, <1>12, <1>13 DEF Holds
<1> QED BY <1>5, <1>6, <1>14

\* As many are in use as the table is long.
LEMMA HoldsAsMany ==
    ASSUME NEW table, NEW used, Holds(table, used)
    PROVE  Cardinality(used) = Len(table)
<1>1. PICK n \in Nat : n = Len(table) BY LenProperties DEF Holds
<1>2. DOMAIN table = 1 .. n BY <1>1, LenProperties DEF Holds
<1> DEFINE f == [i \in 1 .. n |-> table[i].node]
<1>3. used = {table[i].node : i \in 1 .. n} BY <1>2 DEF Holds
<1>4. f \in [1 .. n -> used] BY <1>3
<1>5. \A i, j \in 1 .. n : f[i] = f[j] => i = j BY <1>2 DEF Holds
<1>6. \A x \in used : \E i \in 1 .. n : f[i] = x BY <1>3
<1> HIDE DEF f
<1>7. f \in Bijection(1 .. n, used) BY <1>4, <1>5, <1>6, Fun_IsBij
<1>8. ExistsBijection(1 .. n, used) BY <1>7 DEF ExistsBijection
<1> QED BY <1>1, <1>8, FS_CountingElements

\* The invariant of the menu, and that each of its orders keeps it.
MenuInv ==
    /\ Holds(pHashTableEntryHead, menuInUse)
    /\ menuInUse \subseteq Nodes
    /\ menuAt \in {"menu", "done", "crashed"}

\* The table is empty at first.
LEMMA MenuInitKeeps == Menu!Init => MenuInv
BY HoldsNothing DEF Menu!Init, MenuInv

\* Every choice from the menu keeps one entry for each one in use.
LEMMA MenuNextKeeps == MenuInv /\ Menu!Next => MenuInv'
<1> SUFFICES ASSUME MenuInv, Menu!Next PROVE MenuInv' OBVIOUS
<1> DEFINE t == pHashTableEntryHead
<1>1. Menu!table = t BY DEF Menu!table
<1>2. /\ Holds(t, menuInUse) /\ menuInUse \subseteq Nodes
      /\ menuAt \in {"menu", "done", "crashed"}
  BY DEF MenuInv
<1>3. ASSUME NEW p \in Nodes, NEW k \in Keys, NEW v \in Values, Menu!AddEntry(p, k, v)
      PROVE  MenuInv'
  <2> DEFINE e == [node |-> p, key |-> k, value |-> v]
  <2>1. e \in Entries /\ e.node = p BY DEF Entries
  <2>2. /\ p \notin menuInUse /\ menuInUse' = menuInUse \cup {p}
        /\ t' = Append(t, e) /\ menuAt' = menuAt
    BY <1>1, <1>3, MenuOperators DEF Menu!AddEntry
  <2> HIDE DEF e
  <2>3. Holds(Append(t, e), menuInUse \cup {e.node}) BY <1>2, <2>1, <2>2, HoldsMore
  <2> QED BY <1>2, <2>1, <2>2, <2>3 DEF MenuInv
<1>4. ASSUME NEW i \in DOMAIN t, t' = RemoveAt(t, i), menuInUse' = menuInUse \ {t[i].node},
             menuAt' = menuAt
      PROVE  MenuInv'
  <2>1. Holds(RemoveAt(t, i), menuInUse \ {t[i].node}) BY <1>2, HoldsLess
  <2> QED BY <1>2, <1>4, <2>1 DEF MenuInv
<1>5. ASSUME NEW k \in Keys, Menu!DelEntry(k) PROVE MenuInv'
  <2>1. PICK i \in Menu!HashFind(t, k) : /\ t' = RemoveAt(t, i)
                                         /\ menuInUse' = menuInUse \ {t[i].node}
                                         /\ menuAt' = menuAt
    BY <1>1, <1>5, MenuOperators DEF Menu!DelEntry
  <2>2. i \in DOMAIN t BY DEF Menu!HashFind
  <2> QED BY <1>4, <2>1, <2>2
<1>6. CASE Menu!FreeAllEntry
  <2>1. menuInUse = {t[i].node : i \in DOMAIN t} BY <1>2 DEF Holds
  <2>2. t' = <<>> /\ menuInUse' = {} /\ menuAt' = menuAt
    BY <1>1, <1>6, <2>1 DEF Menu!FreeAllEntry
  <2> QED BY <1>2, <2>2, HoldsNothing DEF MenuInv
<1>7. ASSUME NEW f \in {"key", "value"}, Menu!Sort(f) PROVE MenuInv'
  <2>1. t' = HashSort(t, f) /\ menuInUse' = menuInUse /\ menuAt' = menuAt
    BY <1>1, <1>7, MenuOperators DEF Menu!Sort
  <2>2. Holds(HashSort(t, f), menuInUse) BY <1>2, HoldsInOrder
  <2> QED BY <1>2, <2>1, <2>2 DEF MenuInv
<1>8. CASE Menu!DelHead
  <2>1. t # <<>> /\ t' = RemoveAt(t, 1) /\ menuInUse' = menuInUse \ {Head(t).node} /\ menuAt' = menuAt
    BY <1>1, <1>8, MenuOperators DEF Menu!DelHead
  <2>2. t \in Seq(Entries) BY <1>2 DEF Holds
  <2>3. 1 \in DOMAIN t /\ Head(t) = t[1] BY <2>1, <2>2, EmptySeq, LenProperties, HeadTailProperties
  <2> QED BY <1>4, <2>1, <2>3
<1>9. CASE Menu!DelHeadOfNone BY <1>2, <1>9 DEF Menu!DelHeadOfNone, MenuInv
<1>10. CASE Menu!Exit BY <1>2, <1>10 DEF Menu!Exit, MenuInv
<1> QED BY <1>3, <1>5, <1>6, <1>7, <1>8, <1>9, <1>10 DEF Menu!Next

\* The invariant of the menu has in it what is to be shown of the menu.
LEMMA MenuInvShows == MenuInv => Menu!TypeOK /\ Menu!EntriesInUse
<1> SUFFICES ASSUME MenuInv PROVE Menu!TypeOK /\ Menu!EntriesInUse OBVIOUS
<1>1. Holds(pHashTableEntryHead, menuInUse) BY DEF MenuInv
<1>2. Cardinality(menuInUse) = Len(pHashTableEntryHead) BY <1>1, HoldsAsMany
<1>3. Menu!Cardinality(menuInUse) = Cardinality(menuInUse)
  BY DEF Menu!Cardinality, Cardinality, Menu!IsFiniteSet, IsFiniteSet
<1>4. Menu!TypeOK BY <1>1 DEF MenuInv, Holds, Entries, Menu!TypeOK, Menu!table
<1>5. Menu!EntriesInUse BY <1>1, <1>2, <1>3 DEF Holds, Menu!EntriesInUse, Menu!table
<1> QED BY <1>4, <1>5

-------------------------------------------------------------------------------
(* The LRU caches: the table, as it is after a use.                        *)

MovedLast(table, i, e) == Append(RemoveAt(table, i), e)

\* An entry is taken out, and the entry e is put at the end.
LEMMA MovedLastIs ==
    ASSUME NEW S, NEW table \in Seq(S), NEW i \in 1 .. Len(table), NEW e \in S
    PROVE  /\ MovedLast(table, i, e) \in Seq(S)
           /\ Len(MovedLast(table, i, e)) = Len(table)
           /\ MovedLast(table, i, e)[Len(table)] = e
           /\ \A j \in 1 .. Len(table) - 1 :
                MovedLast(table, i, e)[j] = IF j < i THEN table[j] ELSE table[j + 1]
<1>1. PICK n \in Nat : n = Len(table) BY LenProperties
<1>2. PICK r : r = RemoveAt(table, i) OBVIOUS
<1>3. /\ r \in Seq(S) /\ Len(r) = n - 1
      /\ \A j \in 1 .. n - 1 : r[j] = IF j < i THEN table[j] ELSE table[j + 1]
  BY <1>1, <1>2, RemoveAtProperties
<1>4. PICK t : t = Append(r, e) OBVIOUS
<1>5. t \in Seq(S) /\ Len(t) = Len(r) + 1 BY <1>3, <1>4, AppendProperties
<1>6. t[Len(r) + 1] = e /\ \A j \in 1 .. Len(r) : t[j] = r[j] BY <1>3, <1>4, AppendProperties
<1>7. Len(r) + 1 = n BY <1>1, <1>3
<1>8. MovedLast(table, i, e) = t BY <1>2, <1>4 DEF MovedLast
<1>9. \A j \in 1 .. n - 1 : t[j] = IF j < i THEN table[j] ELSE table[j + 1] BY <1>3, <1>6
<1> QED BY <1>1, <1>5, <1>6, <1>7, <1>8, <1>9

\* The entries in the order of their numbers, all but the i-th, which has the
\* greatest.
RisesBut(table, field, i) ==
    /\ HasField(table, field)
    /\ \A j, k \in 1 .. Len(table) :
         j < k /\ j # i /\ k # i => table[j][field] < table[k][field]
    /\ \A j \in 1 .. Len(table) : j # i => table[j][field] < table[i][field]

\* What comes before each of them.
LEMMA RisesBefore ==
    ASSUME NEW S, NEW table \in Seq(S), NEW field, NEW i \in 1 .. Len(table),
           RisesBut(table, field, i), NEW j \in 1 .. Len(table)
    PROVE  Before(table, field, j) = IF j < i THEN 1 .. j
                                     ELSE IF j = i THEN 1 .. Len(table)
                                     ELSE (1 .. j) \ {i}
<1>1. PICK n \in Nat : n = Len(table) BY LenProperties
<1>2. DOMAIN table = 1 .. n BY <1>1, LenProperties
<1>3. \A k \in 1 .. n : table[k][field] \in Int BY <1>2 DEF RisesBut, HasField
<1>4. \A k, m \in 1 .. n : k < m /\ k # i /\ m # i => table[k][field] < table[m][field]
  BY <1>1 DEF RisesBut
<1>5. \A k \in 1 .. n : k # i => table[k][field] < table[i][field] BY <1>1 DEF RisesBut
<1> DEFINE C == IF j < i THEN 1 .. j ELSE IF j = i THEN 1 .. n ELSE (1 .. j) \ {i}
<1>6. ASSUME NEW k \in 1 .. n
      PROVE  k \in Before(table, field, j) <=> k \in C
  <2>1. i \in 1 .. n /\ j \in 1 .. n BY <1>1
  <2>2. k \in Before(table, field, j) <=>
           \/ table[k][field] < table[j][field]
           \/ table[k][field] = table[j][field] /\ k <= j
    BY <1>2 DEF Before
  <2>3. CASE j = i BY <1>3, <1>5, <2>1, <2>2, <2>3
  <2>4. CASE j # i /\ k = i BY <1>3, <1>5, <2>1, <2>2, <2>4
  <2>5. CASE j # i /\ k # i
    <3>1. k < j => table[k][field] < table[j][field] BY <1>4, <2>1, <2>5
    <3>2. j < k => table[j][field] < table[k][field] BY <1>4, <2>1, <2>5
    <3>3. k < j \/ j < k \/ k = j BY <2>1
    <3>4. table[k][field] \in Int /\ table[j][field] \in Int BY <1>3, <2>1
    <3> HIDE DEF C
    <3>5. k \in Before(table, field, j) <=> k <= j BY <2>1, <2>2, <3>1, <3>2, <3>3, <3>4
    <3>6. k \in C <=> k <= j BY <2>1, <2>5 DEF C
    <3> QED BY <3>5, <3>6
  <2> QED BY <2>3, <2>4, <2>5
<1>7. Before(table, field, j) \subseteq 1 .. n BY <1>2 DEF Before
<1>8. C \subseteq 1 .. n BY <1>1
<1> HIDE DEF C
<1>9. Before(table, field, j) = C BY <1>6, <1>7, <1>8
<1> QED BY <1>1, <1>9 DEF C

\* Hence sorting moves the i-th to the end and nothing else.
LEMMA SortMovesLast ==
    ASSUME NEW S, NEW table \in Seq(S), NEW field, NEW i \in 1 .. Len(table),
           RisesBut(table, field, i)
    PROVE  HashSort(table, field) = MovedLast(table, i, table[i])
<1>1. PICK n \in Nat : n = Len(table) BY LenProperties
<1>2. DOMAIN table = 1 .. n /\ table[i] \in S BY <1>1, LenProperties
<1>3. PICK t : t = MovedLast(table, i, table[i]) OBVIOUS
<1>4. /\ t \in Seq(S) /\ Len(t) = n /\ t[n] = table[i]
      /\ \A j \in 1 .. n - 1 : t[j] = IF j < i THEN table[j] ELSE table[j + 1]
  <2>1. PICK e \in S : e = table[i] BY <1>2
  <2>2. /\ MovedLast(table, i, e) \in Seq(S)
        /\ Len(MovedLast(table, i, e)) = Len(table)
        /\ MovedLast(table, i, e)[Len(table)] = e
        /\ \A j \in 1 .. Len(table) - 1 :
             MovedLast(table, i, e)[j] = IF j < i THEN table[j] ELSE table[j + 1]
    BY MovedLastIs
  <2>3. MovedLast(table, i, e) = t BY <1>3, <2>1
  <2> QED BY <1>1, <2>1, <2>2, <2>3
<1>5. HasField(table, field) BY DEF RisesBut
<1>6. ASSUME NEW m \in 1 .. n PROVE table[Comes(table, field, m)] = t[m]
  <2> DEFINE q == IF m = n THEN i ELSE IF m < i THEN m ELSE m + 1
  <2>1. q \in 1 .. n BY <1>1
  <2> HIDE DEF q
  <2>2. Before(table, field, q) = IF q < i THEN 1 .. q
                                  ELSE IF q = i THEN 1 .. n
                                  ELSE (1 .. q) \ {i}
    BY <1>1, <2>1, RisesBefore
  <2> USE DEF q
  <2>3. Cardinality(Before(table, field, q)) = m
    <3>1. CASE m = n
      <4>1. Before(table, field, q) = 1 .. n BY <2>2, <3>1
      <4> QED BY <1>1, <3>1, <4>1, CardinalityUpTo
    <3>2. CASE m # n /\ m < i
      <4>1. Before(table, field, q) = 1 .. m BY <2>2, <3>2
      <4> QED BY <4>1, CardinalityUpTo
    <3>3. CASE m # n /\ ~(m < i)
      <4>1. Before(table, field, q) = (1 .. m + 1) \ {i} BY <1>1, <2>2, <3>3
      <4>2. i \in 1 .. m + 1 /\ m + 1 \in Nat BY <1>1, <3>3
      <4>3. IsFiniteSet(1 .. m + 1) /\ Cardinality(1 .. m + 1) = m + 1 BY <4>2, CardinalityUpTo
      <4>4. PICK D : D = 1 .. m + 1 OBVIOUS
      <4>5. Cardinality(D \ {i}) = Cardinality(D) - 1 BY <4>2, <4>3, <4>4, FS_RemoveElement
      <4>6. Cardinality(D) = m + 1 BY <4>3, <4>4
      <4>7. Before(table, field, q) = D \ {i} BY <4>1, <4>4
      <4>8. Cardinality(Before(table, field, q)) = (m + 1) - 1 BY <4>5, <4>6, <4>7
      <4> QED BY <4>8
    <3> QED BY <3>1, <3>2, <3>3
  <2> HIDE DEF q
  <2>4. \A j \in 1 .. n : Cardinality(Before(table, field, j)) = m => j = q
    BY <1>1, <1>5, <2>1, <2>3, PlacesDiffer
  <2>5. Comes(table, field, m) = q BY <1>2, <2>1, <2>3, <2>4 DEF Comes
  <2>6. t[m] = table[q] BY <1>1, <1>4 DEF q
  <2> QED BY <2>5, <2>6
<1>7. HashSort(table, field) = [m \in 1 .. n |-> table[Comes(table, field, m)]]
  BY <1>2, HashSortIs
<1>8. t = [m \in 1 .. n |-> t[m]] BY <1>4, LenProperties
<1>9. HashSort(table, field) = t
  <2>1. [m \in 1 .. n |-> table[Comes(table, field, m)]] = [m \in 1 .. n |-> t[m]] BY <1>6
  <2> QED BY <1>7, <1>8, <2>1
<1> QED BY <1>3, <1>9

-------------------------------------------------------------------------------
(* The LRU caches: the keys in the order of their last use.                *)

Recent(k, keys) == <<k>> \o RemoveFirst(keys, k)

\* A key that is not there is added.
LEMMA RecentIsNew ==
    ASSUME NEW K, NEW s \in Seq(K), NEW k \in K, \A i \in 1 .. Len(s) : s[i] # k
    PROVE  /\ Recent(k, s) \in Seq(K)
           /\ Len(Recent(k, s)) = Len(s) + 1
           /\ Recent(k, s)[1] = k
           /\ \A i \in 1 .. Len(s) : Recent(k, s)[i + 1] = s[i]
<1>1. RemoveFirst(s, k) = s BY DEF RemoveFirst
<1>2. Recent(k, s) = <<k>> \o s BY <1>1 DEF Recent
<1>3. /\ <<k>> \o s \in Seq(K)
      /\ Len(<<k>> \o s) = Len(s) + 1
      /\ (<<k>> \o s)[1] = k
      /\ \A i \in 1 .. Len(s) : (<<k>> \o s)[i + 1] = s[i]
  BY PrependProperties
<1> QED BY <1>2, <1>3

\* A key that is there moves from its place, m.
LEMMA RecentMoves ==
    ASSUME NEW K, NEW s \in Seq(K), IsInjective(s), NEW m \in 1 .. Len(s)
    PROVE  /\ Recent(s[m], s) \in Seq(K)
           /\ Len(Recent(s[m], s)) = Len(s)
           /\ \A i \in 1 .. Len(s) :
                Recent(s[m], s)[i] = IF i = 1 THEN s[m] ELSE IF i <= m THEN s[i - 1] ELSE s[i]
<1>1. PICK n \in Nat : n = Len(s) BY LenProperties
<1>2. DOMAIN s = 1 .. n /\ m \in 1 .. n /\ s[m] \in K BY <1>1, LenProperties
<1>3. PICK k \in K : k = s[m] BY <1>2
<1>4. SelectInSeq(s, LAMBDA v : v = k) = m
  <2> DEFINE I == {i \in 1 .. Len(s) : s[i] = k}
  <2>1. I = {m} BY <1>1, <1>2, <1>3 DEF IsInjective
  <2>2. SelectInSeq(s, LAMBDA v : v = k) = IF I # {} THEN Min(I) ELSE 0 BY DEF SelectInSeq
  <2> HIDE DEF I
  <2>3. I \in SUBSET Nat /\ I # {} BY <1>2, <2>1
  <2>4. Min(I) \in I BY <2>3, MinIsLeast
  <2> QED BY <2>1, <2>2, <2>4
<1>5. RemoveFirst(s, k) = RemoveAt(s, m) BY <1>1, <1>2, <1>3, <1>4 DEF RemoveFirst
<1>6. PICK r : r = RemoveAt(s, m) OBVIOUS
<1>7. /\ r \in Seq(K) /\ Len(r) = n - 1
      /\ \A j \in 1 .. n - 1 : r[j] = IF j < m THEN s[j] ELSE s[j + 1]
  BY <1>1, <1>6, RemoveAtProperties
<1>8. PICK t : t = <<k>> \o r OBVIOUS
<1>9. t \in Seq(K) /\ Len(t) = Len(r) + 1 /\ t[1] = k BY <1>7, <1>8, PrependProperties
<1>10. \A i \in 1 .. Len(r) : t[i + 1] = r[i] BY <1>7, <1>8, PrependProperties
<1>11. Len(t) = n BY <1>1, <1>7, <1>9
<1>12. ASSUME NEW i \in 1 .. n
       PROVE  t[i] = IF i = 1 THEN k ELSE IF i <= m THEN s[i - 1] ELSE s[i]
  <2>1. CASE i = 1 BY <1>9, <2>1
  <2>2. CASE i # 1
    <3>1. i - 1 \in 1 .. n - 1 /\ (i - 1) + 1 = i /\ (i - 1 < m <=> i <= m) BY <1>2, <2>2
    <3>2. t[i] = r[i - 1] BY <1>7, <1>10, <3>1
    <3> QED BY <1>7, <2>2, <3>1, <3>2
  <2> QED BY <2>1, <2>2
<1>13. Recent(s[m], s) = t BY <1>3, <1>5, <1>6, <1>8 DEF Recent
<1> QED BY <1>1, <1>3, <1>9, <1>11, <1>12, <1>13

\* Either way no key is there twice.
LEMMA RecentIsInjective ==
    ASSUME NEW K, NEW s \in Seq(K), IsInjective(s), NEW k \in K
    PROVE  IsInjective(Recent(k, s))
<1>1. PICK n \in Nat : n = Len(s) BY LenProperties
<1>2. DOMAIN s = 1 .. n BY <1>1, LenProperties
<1>3. \A i, j \in 1 .. n : s[i] = s[j] => i = j BY <1>2 DEF IsInjective
<1>4. PICK t : t = Recent(k, s) OBVIOUS
<1>5. CASE \A i \in 1 .. n : s[i] # k
  <2>1. t \in Seq(K) /\ Len(t) = n + 1 /\ t[1] = k BY <1>1, <1>4, <1>5, RecentIsNew
  <2>2. \A i \in 1 .. n : t[i + 1] = s[i] BY <1>1, <1>4, <1>5, RecentIsNew
  <2>3. DOMAIN t = 1 .. n + 1 BY <2>1, LenProperties
  <2>4. \A i \in 1 .. n + 1 : i # 1 => i - 1 \in 1 .. n /\ (i - 1) + 1 = i BY <1>1
  <2>5. \A i \in 1 .. n + 1 : i # 1 => t[i] = s[i - 1] /\ s[i - 1] # k BY <1>5, <2>2, <2>4
  <2>6. \A i, j \in 1 .. n + 1 : t[i] = t[j] => i = j
    <3> SUFFICES ASSUME NEW i \in 1 .. n + 1, NEW j \in 1 .. n + 1, t[i] = t[j] PROVE i = j OBVIOUS
    <3>1. CASE i # 1 /\ j # 1
      <4>1. i - 1 = j - 1 BY <1>3, <2>4, <2>5, <3>1
      <4> QED BY <4>1
    <3> QED BY <2>1, <2>5, <3>1
  <2> QED BY <1>4, <2>3, <2>6 DEF IsInjective
<1>6. ASSUME NEW m \in 1 .. n, s[m] = k PROVE IsInjective(t)
  <2>1. /\ t \in Seq(K) /\ Len(t) = n
        /\ \A i \in 1 .. n : t[i] = IF i = 1 THEN s[m] ELSE IF i <= m THEN s[i - 1] ELSE s[i]
    BY <1>1, <1>4, <1>6, RecentMoves
  <2>2. DOMAIN t = 1 .. n BY <2>1, LenProperties
  <2> DEFINE from(i) == IF i = 1 THEN m ELSE IF i <= m THEN i - 1 ELSE i
  <2>3. \A i \in 1 .. n : from(i) \in 1 .. n /\ t[i] = s[from(i)] BY <2>1
  <2>4. \A i, j \in 1 .. n : from(i) = from(j) => i = j OBVIOUS
  <2> HIDE DEF from
  <2>5. \A i, j \in 1 .. n : t[i] = t[j] => i = j BY <1>3, <2>3, <2>4
  <2> QED BY <2>2, <2>5 DEF IsInjective
<1> QED BY <1>4, <1>5, <1>6

-------------------------------------------------------------------------------
(* The LRU caches: the table and the keys used last.                       *)

LruEntries == [key : LruKeys, value : Values, idx : 0 .. MaxUses]

\* The table has the keys used last, the one used last at the end, with the
\* values last put.
Matches(table, keys, values) ==
    /\ table \in Seq(LruEntries) /\ keys \in Seq(LruKeys) /\ IsInjective(keys)
    /\ Len(table) <= Len(keys)
    /\ \A i \in 1 .. Len(table) :
         /\ table[i].key = keys[(Len(table) + 1) - i]
         /\ table[i].value = values[table[i].key]

\* The entry for the key of values that may have changed.
IsNewest(e, k, values, old) ==
    /\ e \in LruEntries /\ e.key = k /\ k \in LruKeys /\ e.value = values[k]
    /\ \A j \in LruKeys : j # k => values[j] = old[j]

\* No two entries have the same key, and all have a key and a value.
LEMMA MatchesFacts ==
    ASSUME NEW table, NEW keys, NEW values, Matches(table, keys, values)
    PROVE  /\ \A i, j \in 1 .. Len(table) : table[i].key = table[j].key => i = j
           /\ \A i \in 1 .. Len(table) : table[i].key \in LruKeys
           /\ table \in Seq(LruEntries) /\ keys \in Seq(LruKeys)
<1>1. PICK n \in Nat : n = Len(table) BY LenProperties DEF Matches
<1>2. PICK m \in Nat : m = Len(keys) BY LenProperties DEF Matches
<1>3. DOMAIN keys = 1 .. m /\ n <= m BY <1>1, <1>2, LenProperties DEF Matches
<1>4. \A i, j \in 1 .. m : keys[i] = keys[j] => i = j BY <1>3 DEF Matches, IsInjective
<1>5. \A i \in 1 .. n : table[i].key = keys[(n + 1) - i] /\ (n + 1) - i \in 1 .. m
  BY <1>1, <1>3 DEF Matches
<1>6. \A i, j \in 1 .. n : (n + 1) - i = (n + 1) - j => i = j OBVIOUS
<1>7. \A i, j \in 1 .. n : table[i].key = table[j].key => i = j BY <1>4, <1>5, <1>6
<1>8. \A i \in 1 .. n : table[i] \in LruEntries BY <1>1, LenProperties DEF Matches
<1>9. \A i \in 1 .. n : table[i].key \in LruKeys BY <1>8 DEF LruEntries
<1> QED BY <1>1, <1>7, <1>9 DEF Matches

\* A use of a key that is in the table moves its entry to the end.
LEMMA UseMoves ==
    ASSUME NEW table, NEW keys, NEW old, Matches(table, keys, old),
           NEW i \in 1 .. Len(table), NEW e, NEW values,
           IsNewest(e, table[i].key, values, old)
    PROVE  /\ Matches(MovedLast(table, i, e), Recent(table[i].key, keys), values)
           /\ Len(Recent(table[i].key, keys)) = Len(keys)
<1>1. PICK n \in Nat : n = Len(table) BY LenProperties DEF Matches
<1>2. PICK l \in Nat : l = Len(keys) BY LenProperties DEF Matches
<1>3. /\ table \in Seq(LruEntries) /\ keys \in Seq(LruKeys) /\ IsInjective(keys) /\ n <= l
      /\ \A j \in 1 .. n : table[j].key = keys[(n + 1) - j] /\ table[j].value = old[table[j].key]
  BY <1>1, <1>2 DEF Matches
<1>4. i \in 1 .. n BY <1>1
<1>5. PICK m \in 1 .. l : m = (n + 1) - i BY <1>3, <1>4
<1>6. table[i].key = keys[m] BY <1>3, <1>4, <1>5
<1>7. PICK r : r = Recent(keys[m], keys) OBVIOUS
<1>8. r \in Seq(LruKeys) /\ Len(r) = l BY <1>2, <1>3, <1>5, <1>7, RecentMoves
<1>9. \A j \in 1 .. l : r[j] = IF j = 1 THEN keys[m] ELSE IF j <= m THEN keys[j - 1] ELSE keys[j]
  <2>1. m \in 1 .. Len(keys) BY <1>2
  <2>2. \A j \in 1 .. Len(keys) :
           Recent(keys[m], keys)[j] =
             IF j = 1 THEN keys[m] ELSE IF j <= m THEN keys[j - 1] ELSE keys[j]
    BY ONLY <1>3, <2>1, RecentMoves
  <2> QED BY <1>2, <1>7, <2>2
<1>10. keys[m] \in LruKeys BY <1>6 DEF IsNewest
<1>11. IsInjective(r) BY <1>3, <1>7, <1>10, RecentIsInjective
<1>12. PICK t : t = MovedLast(table, i, e) OBVIOUS
<1>13. e \in LruEntries /\ e.key = keys[m] /\ e.value = values[keys[m]] BY <1>6 DEF IsNewest
<1>14. t \in Seq(LruEntries) /\ Len(t) = n /\ t[n] = e
  <2>1. i \in 1 .. Len(table) BY <1>1, <1>4
  <2>2. /\ MovedLast(table, i, e) \in Seq(LruEntries)
        /\ Len(MovedLast(table, i, e)) = Len(table)
        /\ MovedLast(table, i, e)[Len(table)] = e
    BY ONLY <2>1, <1>3, <1>13, MovedLastIs
  <2> QED BY <1>1, <1>12, <2>2
<1>15. \A j \in 1 .. n - 1 : t[j] = IF j < i THEN table[j] ELSE table[j + 1]
  <2>1. \A j \in 1 .. Len(table) - 1 :
           MovedLast(table, i, e)[j] = IF j < i THEN table[j] ELSE table[j + 1]
    BY <1>3, <1>13, MovedLastIs
  <2> QED BY <1>1, <1>12, <2>1
<1>16. ASSUME NEW j \in 1 .. n PROVE t[j].key = r[(n + 1) - j] /\ t[j].value = values[t[j].key]
  <2>1. CASE j = n
    <3>1. (n + 1) - j = 1 /\ 1 \in 1 .. l BY <1>3, <1>4, <2>1
    <3> QED BY <1>9, <1>13, <1>14, <2>1, <3>1
  <2>2. CASE j # n
    <3> DEFINE a == IF j < i THEN j ELSE j + 1
    <3>1. j \in 1 .. n - 1 /\ a \in 1 .. n /\ a # i BY <1>4, <2>2
    <3>2. t[j] = table[a] BY <1>15, <3>1
    <3>3. (n + 1) - j \in 1 .. l /\ (n + 1) - j # 1 BY <1>3, <2>2
    <3>4. (n + 1) - j <= m <=> ~(j < i) BY <1>4, <1>5
    <3>5. r[(n + 1) - j] = keys[(n + 1) - a]
      <4>1. CASE j < i BY <1>9, <3>3, <3>4, <4>1
      <4>2. CASE ~(j < i)
        <5>1. ((n + 1) - j) - 1 = (n + 1) - a BY <4>2
        <5> QED BY <1>9, <3>3, <3>4, <4>2, <5>1
      <4> QED BY <4>1, <4>2
    <3> HIDE DEF a
    <3>6. table[a].key = keys[(n + 1) - a] /\ table[a].value = old[table[a].key] BY <1>3, <3>1
    <3>7. table[a].key # table[i].key /\ table[a].key \in LruKeys BY <1>1, <1>4, <3>1, MatchesFacts
    <3>8. values[table[a].key] = old[table[a].key] BY <3>7 DEF IsNewest
    <3> QED BY <3>2, <3>5, <3>6, <3>8
  <2> QED BY <2>1, <2>2
<1>17. Matches(t, r, values) BY <1>3, <1>8, <1>11, <1>14, <1>16 DEF Matches
<1> QED BY <1>2, <1>6, <1>7, <1>8, <1>12, <1>17

\* A new key is added to a table that has all the keys.
LEMMA UseAdds ==
    ASSUME NEW table, NEW keys, NEW old, Matches(table, keys, old), Len(table) = Len(keys),
           NEW k, \A i \in 1 .. Len(table) : table[i].key # k,
           NEW e, NEW values, IsNewest(e, k, values, old)
    PROVE  /\ Matches(Append(table, e), Recent(k, keys), values)
           /\ Len(Recent(k, keys)) = Len(keys) + 1
<1>1. PICK n \in Nat : n = Len(table) BY LenProperties DEF Matches
<1>2. /\ table \in Seq(LruEntries) /\ keys \in Seq(LruKeys) /\ IsInjective(keys) /\ Len(keys) = n
      /\ \A j \in 1 .. n : table[j].key = keys[(n + 1) - j] /\ table[j].value = old[table[j].key]
  BY <1>1 DEF Matches
<1>3. e \in LruEntries /\ e.key = k /\ k \in LruKeys /\ e.value = values[k] BY DEF IsNewest
<1>4. \A i \in 1 .. n : keys[i] # k
  <2> SUFFICES ASSUME NEW i \in 1 .. n PROVE keys[i] # k OBVIOUS
  <2>1. (n + 1) - i \in 1 .. n /\ (n + 1) - ((n + 1) - i) = i OBVIOUS
  <2> QED BY <1>1, <1>2, <2>1
<1>5. PICK r : r = Recent(k, keys) OBVIOUS
<1>6. r \in Seq(LruKeys) /\ Len(r) = n + 1 /\ r[1] = k BY <1>2, <1>3, <1>4, <1>5, RecentIsNew
<1>7. \A j \in 1 .. n : r[j + 1] = keys[j]
  <2>1. \A j \in 1 .. Len(keys) : keys[j] # k BY <1>2, <1>4
  <2>2. keys \in Seq(LruKeys) /\ k \in LruKeys BY <1>2, <1>3
  <2>3. /\ Recent(k, keys) \in Seq(LruKeys)
        /\ Len(Recent(k, keys)) = Len(keys) + 1
        /\ Recent(k, keys)[1] = k
        /\ \A j \in 1 .. Len(keys) : Recent(k, keys)[j + 1] = keys[j]
    BY ONLY <2>1, <2>2, RecentIsNew
  <2> QED BY <1>2, <1>5, <2>3
<1>8. IsInjective(r) BY <1>2, <1>3, <1>5, RecentIsInjective
<1>9. PICK t : t = Append(table, e) OBVIOUS
<1>10. /\ t \in Seq(LruEntries) /\ Len(t) = n + 1 /\ t[n + 1] = e
       /\ \A j \in 1 .. n : t[j] = table[j]
  BY <1>1, <1>2, <1>3, <1>9, AppendProperties
<1>11. ASSUME NEW j \in 1 .. n + 1
       PROVE  t[j].key = r[((n + 1) + 1) - j] /\ t[j].value = values[t[j].key]
  <2>1. CASE j = n + 1
    <3>1. ((n + 1) + 1) - j = 1 BY <2>1
    <3> QED BY <1>3, <1>6, <1>10, <2>1, <3>1
  <2>2. CASE j \in 1 .. n
    <3>1. ((n + 1) + 1) - j = ((n + 1) - j) + 1 /\ (n + 1) - j \in 1 .. n BY <2>2
    <3>2. r[((n + 1) + 1) - j] = keys[(n + 1) - j] BY <1>7, <3>1
    <3>3. table[j].key # k /\ table[j].key \in LruKeys BY <1>1, <2>2, MatchesFacts
    <3>4. values[table[j].key] = old[table[j].key] BY <3>3 DEF IsNewest
    <3> QED BY <1>2, <1>10, <2>2, <3>2, <3>4
  <2>3. j = n + 1 \/ j \in 1 .. n OBVIOUS
  <2> QED BY <2>1, <2>2, <2>3
<1>12. Matches(t, r, values) BY <1>6, <1>8, <1>10, <1>11 DEF Matches
<1> QED BY <1>2, <1>5, <1>6, <1>9, <1>12

\* A key that is not in the table takes the place of the first entry.
LEMMA UseReplaces ==
    ASSUME NEW table, NEW keys, NEW old, Matches(table, keys, old), Len(table) # 0,
           NEW k, \A i \in 1 .. Len(table) : table[i].key # k,
           NEW e, NEW values, IsNewest(e, k, values, old)
    PROVE  Matches(MovedLast(table, 1, e), Recent(k, keys), values)
<1>1. PICK n \in Nat : n = Len(table) BY LenProperties DEF Matches
<1>2. PICK l \in Nat : l = Len(keys) BY LenProperties DEF Matches
<1>3. /\ table \in Seq(LruEntries) /\ keys \in Seq(LruKeys) /\ IsInjective(keys) /\ n <= l
      /\ \A j \in 1 .. n : table[j].key = keys[(n + 1) - j] /\ table[j].value = old[table[j].key]
  BY <1>1, <1>2 DEF Matches
<1>4. e \in LruEntries /\ e.key = k /\ k \in LruKeys /\ e.value = values[k] BY DEF IsNewest
<1>5. \A i \in 1 .. n : keys[i] # k
  <2> SUFFICES ASSUME NEW i \in 1 .. n PROVE keys[i] # k OBVIOUS
  <2>1. (n + 1) - i \in 1 .. n /\ (n + 1) - ((n + 1) - i) = i OBVIOUS
  <2> QED BY <1>1, <1>3, <2>1
<1>6. PICK r : r = Recent(k, keys) OBVIOUS
<1>7. /\ r \in Seq(LruKeys) /\ Len(r) \in Nat /\ Len(r) >= l /\ r[1] = k
      /\ \A j \in 1 .. n - 1 : r[j + 1] = keys[j]
  <2>1. CASE \A i \in 1 .. l : keys[i] # k
    <3>1. r \in Seq(LruKeys) /\ Len(r) = l + 1 /\ r[1] = k
      BY <1>2, <1>3, <1>4, <1>6, <2>1, RecentIsNew
    <3>2. \A j \in 1 .. l : r[j + 1] = keys[j] BY <1>2, <1>3, <1>4, <1>6, <2>1, RecentIsNew
    <3> QED BY <1>3, <3>1, <3>2
  <2>2. ASSUME NEW m \in 1 .. l, keys[m] = k
        PROVE  /\ r \in Seq(LruKeys) /\ Len(r) \in Nat /\ Len(r) >= l /\ r[1] = k
               /\ \A j \in 1 .. n - 1 : r[j + 1] = keys[j]
    <3>1. m \in 1 .. Len(keys) BY <1>2
    <3>2. /\ Recent(keys[m], keys) \in Seq(LruKeys)
          /\ Len(Recent(keys[m], keys)) = Len(keys)
          /\ \A j \in 1 .. Len(keys) :
               Recent(keys[m], keys)[j] =
                 IF j = 1 THEN keys[m] ELSE IF j <= m THEN keys[j - 1] ELSE keys[j]
      BY ONLY <1>3, <3>1, RecentMoves
    <3>3. /\ r \in Seq(LruKeys) /\ Len(r) = l
          /\ \A j \in 1 .. l : r[j] = IF j = 1 THEN k ELSE IF j <= m THEN keys[j - 1] ELSE keys[j]
      BY <1>2, <1>6, <2>2, <3>2
    <3>4. ~(m \in 1 .. n) BY <1>5, <2>2
    <3>5. m > n BY <1>3, <3>4
    <3>6. r[1] = k BY <2>2, <3>3
    <3>7. ASSUME NEW j \in 1 .. n - 1 PROVE r[j + 1] = keys[j]
      <4>1. j + 1 \in 1 .. l /\ j + 1 # 1 /\ j + 1 <= m /\ (j + 1) - 1 = j BY <1>3, <3>5
      <4> QED BY <3>3, <4>1
    <3> QED BY <3>3, <3>6, <3>7
  <2> QED BY <2>1, <2>2
<1>8. IsInjective(r) BY <1>3, <1>4, <1>6, RecentIsInjective
<1>9. PICK t : t = MovedLast(table, 1, e) OBVIOUS
<1>10. 1 \in 1 .. n BY <1>1
<1>11. t \in Seq(LruEntries) /\ Len(t) = n /\ t[n] = e
  <2>1. 1 \in 1 .. Len(table) BY <1>1, <1>10
  <2>2. /\ MovedLast(table, 1, e) \in Seq(LruEntries)
        /\ Len(MovedLast(table, 1, e)) = Len(table)
        /\ MovedLast(table, 1, e)[Len(table)] = e
    BY ONLY <2>1, <1>3, <1>4, MovedLastIs
  <2> QED BY <1>1, <1>9, <2>2
<1>12. \A j \in 1 .. n - 1 : t[j] = table[j + 1]
  <2>1. \A j \in 1 .. Len(table) - 1 :
           MovedLast(table, 1, e)[j] = IF j < 1 THEN table[j] ELSE table[j + 1]
    BY <1>1, <1>3, <1>4, <1>10, MovedLastIs
  <2> QED BY <1>1, <1>9, <2>1
<1>13. ASSUME NEW j \in 1 .. n PROVE t[j].key = r[(n + 1) - j] /\ t[j].value = values[t[j].key]
  <2>1. CASE j = n
    <3>1. (n + 1) - j = 1 BY <2>1
    <3> QED BY <1>4, <1>7, <1>11, <2>1, <3>1
  <2>2. CASE j # n
    <3>1. j \in 1 .. n - 1 /\ j + 1 \in 1 .. n /\ (n + 1) - j = ((n + 1) - (j + 1)) + 1
          /\ (n + 1) - (j + 1) \in 1 .. n - 1
      BY <2>2
    <3>2. r[(n + 1) - j] = keys[(n + 1) - (j + 1)] BY <1>7, <3>1
    <3>3. table[j + 1].key # k /\ table[j + 1].key \in LruKeys BY <1>1, <3>1, MatchesFacts
    <3>4. values[table[j + 1].key] = old[table[j + 1].key] BY <3>3 DEF IsNewest
    <3>5. t[j] = table[j + 1] BY <1>12, <3>1
    <3>6. table[j + 1].key = keys[(n + 1) - (j + 1)] /\ table[j + 1].value = old[table[j + 1].key]
      BY <1>3, <3>1
    <3> QED BY <3>2, <3>4, <3>5, <3>6
  <2> QED BY <2>1, <2>2
<1>14. n <= Len(r) BY <1>3, <1>7
<1>15. Matches(t, r, values) BY <1>7, <1>8, <1>11, <1>13, <1>14 DEF Matches
<1> QED BY <1>6, <1>9, <1>15

-------------------------------------------------------------------------------
(* The LRU caches: the table in the order of its numbers.                  *)

\* Each entry has a greater number than those before it, and all have had
\* theirs from putCnt as it was before.
Sorted(table, cnt) ==
    /\ table \in Seq(LruEntries) /\ cnt \in Nat
    /\ \A i, j \in 1 .. Len(table) : i < j => table[i].idx < table[j].idx
    /\ \A i \in 1 .. Len(table) : table[i].idx < cnt

\* The numbers are numbers.
LEMMA IdxIsField ==
    ASSUME NEW table \in Seq(LruEntries)
    PROVE  HasField(table, "idx")
<1>1. \A i \in DOMAIN table : table[i] \in LruEntries BY LenProperties
<1>2. \A i \in DOMAIN table : table[i].idx \in Int BY <1>1, SequentialAssumption DEF LruEntries
<1> QED BY <1>2 DEF HasField

\* An entry with a new number at the end of the table, or of what is left of it
\* when an entry is taken out.
LEMMA SortedAppend ==
    ASSUME NEW table, NEW cnt, Sorted(table, cnt), NEW e \in LruEntries, e.idx = cnt
    PROVE  Sorted(Append(table, e), cnt + 1)
<1>1. PICK n \in Nat : n = Len(table) BY LenProperties DEF Sorted
<1>2. table \in Seq(LruEntries) /\ cnt \in Nat BY DEF Sorted
<1>3. PICK t : t = Append(table, e) OBVIOUS
<1>4. /\ t \in Seq(LruEntries) /\ Len(t) = n + 1 /\ t[n + 1] = e
      /\ \A j \in 1 .. n : t[j] = table[j]
  BY <1>1, <1>2, <1>3, AppendProperties
<1>5. \A i \in 1 .. n : table[i].idx \in Int
  <2>1. DOMAIN table = 1 .. n BY <1>1, <1>2, LenProperties
  <2> QED BY <1>2, <2>1, IdxIsField DEF HasField
<1>6. \A i, j \in 1 .. n : i < j => table[i].idx < table[j].idx BY <1>1 DEF Sorted
<1>7. \A i \in 1 .. n : table[i].idx < cnt BY <1>1 DEF Sorted
<1>8. \A i \in 1 .. n + 1 : i \in 1 .. n \/ i = n + 1 OBVIOUS
<1>9. \A i \in 1 .. n + 1 : t[i].idx < cnt + 1 BY <1>2, <1>4, <1>5, <1>7, <1>8
<1>10. \A i, j \in 1 .. n + 1 : i < j => t[i].idx < t[j].idx
  <2> SUFFICES ASSUME NEW i \in 1 .. n + 1, NEW j \in 1 .. n + 1, i < j
               PROVE  t[i].idx < t[j].idx
    OBVIOUS
  <2>1. i \in 1 .. n OBVIOUS
  <2>2. CASE j = n + 1 BY <1>4, <1>7, <2>1, <2>2
  <2>3. CASE j \in 1 .. n BY <1>4, <1>6, <2>1, <2>3
  <2> QED BY <1>8, <2>2, <2>3
<1>11. Sorted(t, cnt + 1) BY <1>2, <1>4, <1>9, <1>10 DEF Sorted
<1> QED BY <1>3, <1>11

\* A table in the order of its numbers is so without one entry too.
LEMMA SortedWithout ==
    ASSUME NEW table, NEW cnt, Sorted(table, cnt), NEW i \in 1 .. Len(table)
    PROVE  Sorted(RemoveAt(table, i), cnt)
<1>1. PICK n \in Nat : n = Len(table) BY LenProperties DEF Sorted
<1>2. table \in Seq(LruEntries) /\ cnt \in Nat BY DEF Sorted
<1>3. PICK t : t = RemoveAt(table, i) OBVIOUS
<1>4. /\ t \in Seq(LruEntries) /\ Len(t) = n - 1
      /\ \A j \in 1 .. n - 1 : t[j] = IF j < i THEN table[j] ELSE table[j + 1]
  BY <1>1, <1>2, <1>3, RemoveAtProperties
<1>5. i \in 1 .. n BY <1>1
<1>6. \A k, j \in 1 .. n : k < j => table[k].idx < table[j].idx BY <1>1 DEF Sorted
<1>7. \A j \in 1 .. n : table[j].idx < cnt BY <1>1 DEF Sorted
<1> DEFINE from(j) == IF j < i THEN j ELSE j + 1
<1>8. \A j \in 1 .. n - 1 : from(j) \in 1 .. n /\ t[j] = table[from(j)] BY <1>4, <1>5
<1>9. \A k, j \in 1 .. n - 1 : k < j => from(k) < from(j) BY <1>5
<1> HIDE DEF from
<1>10. \A k, j \in 1 .. n - 1 : k < j => t[k].idx < t[j].idx BY <1>6, <1>8, <1>9
<1>11. \A j \in 1 .. n - 1 : t[j].idx < cnt BY <1>7, <1>8
<1>12. Sorted(t, cnt) BY <1>2, <1>4, <1>10, <1>11 DEF Sorted
<1> QED BY <1>3, <1>12

\* Sorting a table that is in order leaves it so.
LEMMA SortOfSorted ==
    ASSUME NEW table, NEW cnt, Sorted(table, cnt)
    PROVE  HashSort(table, "idx") = table
<1>1. PICK n \in Nat : n = Len(table) BY LenProperties DEF Sorted
<1>2. table \in Seq(LruEntries) /\ DOMAIN table = 1 .. n BY <1>1, LenProperties DEF Sorted
<1>3. CASE n = 0
  <2>1. HashSort(table, "idx") = [m \in 1 .. 0 |-> table[Comes(table, "idx", m)]]
    BY <1>2, <1>3, HashSortIs
  <2>2. table = [m \in 1 .. 0 |-> table[m]] BY <1>2, <1>3, LenProperties
  <2>3. [m \in 1 .. 0 |-> table[Comes(table, "idx", m)]] = [m \in 1 .. 0 |-> table[m]]
    <3>1. \A m \in 1 .. 0 : table[Comes(table, "idx", m)] = table[m] OBVIOUS
    <3> QED BY <3>1
  <2> QED BY <2>1, <2>2, <2>3
<1>4. CASE n # 0
  <2>1. n \in 1 .. Len(table) BY <1>1, <1>4
  <2>2. HasField(table, "idx") BY <1>2, IdxIsField
  <2>3. RisesBut(table, "idx", n)
    <3>1. \A j, k \in 1 .. n : j < k => table[j].idx < table[k].idx BY <1>1 DEF Sorted
    <3>2. \A j \in 1 .. n : j # n => j < n OBVIOUS
    <3>3. \A j \in 1 .. n : j # n => table[j].idx < table[n].idx BY <1>1, <2>1, <3>1, <3>2
    <3>4. \A j : table[j].idx = table[j]["idx"] OBVIOUS
    <3> QED BY <1>1, <2>2, <3>1, <3>3, <3>4 DEF RisesBut
  <2>4. HashSort(table, "idx") = MovedLast(table, n, table[n])
    BY <1>2, <2>1, <2>3, SortMovesLast
  <2>5. PICK e \in LruEntries : e = table[n] BY <1>1, <1>2, <2>1, LenProperties
  <2>6. PICK t : t = MovedLast(table, n, e) OBVIOUS
  <2>7. table \in Seq(LruEntries) /\ n \in 1 .. Len(table) /\ e \in LruEntries
    BY <1>2, <2>1, <2>5
  <2>8. /\ MovedLast(table, n, e) \in Seq(LruEntries)
        /\ Len(MovedLast(table, n, e)) = Len(table)
        /\ MovedLast(table, n, e)[Len(table)] = e
        /\ \A j \in 1 .. Len(table) - 1 :
             MovedLast(table, n, e)[j] = IF j < n THEN table[j] ELSE table[j + 1]
    BY ONLY <2>7, MovedLastIs
  <2>9. t \in Seq(LruEntries) /\ Len(t) = n /\ t[n] = e BY <1>1, <2>6, <2>8
  <2>10. \A j \in 1 .. n - 1 : t[j] = table[j] BY <1>1, <2>6, <2>8
  <2>11. \A j \in 1 .. n : t[j] = table[j]
    <3>1. \A j \in 1 .. n : j = n \/ j \in 1 .. n - 1 OBVIOUS
    <3> QED BY <2>5, <2>9, <2>10, <3>1
  <2>12. t = table BY <1>1, <1>2, <2>9, <2>11, SeqEqual
  <2> QED BY <2>4, <2>5, <2>6, <2>12
<1> QED BY <1>3, <1>4

\* Sorting a table of which one entry has a new number moves it to the end.
LEMMA SortOfTouched ==
    ASSUME NEW table, NEW cnt, Sorted(table, cnt), NEW i \in 1 .. Len(table), cnt \in 0 .. MaxUses
    PROVE  \E e \in LruEntries :
             /\ e.idx = cnt /\ e.key = table[i].key /\ e.value = table[i].value
             /\ HashSort([table EXCEPT ![i].idx = cnt], "idx") = MovedLast(table, i, e)
<1>1. PICK n \in Nat : n = Len(table) BY LenProperties DEF Sorted
<1>2. /\ table \in Seq(LruEntries) /\ DOMAIN table = 1 .. n
      /\ table \in [1 .. n -> LruEntries] /\ i \in 1 .. n
  BY <1>1, LenProperties DEF Sorted
<1>3. PICK e : e = [table[i] EXCEPT !.idx = cnt] OBVIOUS
<1>4. table[i] \in LruEntries BY <1>2
<1>5. e \in LruEntries /\ e.idx = cnt /\ e.key = table[i].key /\ e.value = table[i].value
  BY <1>3, <1>4 DEF LruEntries
<1>6. PICK u : u = [table EXCEPT ![i] = e] OBVIOUS
<1>7. u = [table EXCEPT ![i].idx = cnt] BY <1>3, <1>6
<1>8. u \in [1 .. n -> LruEntries] /\ \A j \in 1 .. n : u[j] = IF j = i THEN e ELSE table[j]
  BY <1>2, <1>5, <1>6
<1>9. u \in Seq(LruEntries) /\ Len(u) = n BY <1>8, SeqDef, LenProperties
<1>10. RisesBut(u, "idx", i)
  <2>1. \A j, k \in 1 .. n : j < k => table[j].idx < table[k].idx BY <1>1 DEF Sorted
  <2>2. \A j \in 1 .. n : table[j].idx < cnt BY <1>1 DEF Sorted
  <2>3. \A j, k \in 1 .. n : j < k /\ j # i /\ k # i => u[j].idx < u[k].idx BY <1>8, <2>1
  <2>4. \A j \in 1 .. n : j # i => u[j].idx < u[i].idx BY <1>2, <1>5, <1>8, <2>2
  <2>5. HasField(u, "idx") BY <1>9, IdxIsField
  <2> QED BY <1>9, <2>3, <2>4, <2>5 DEF RisesBut
<1>11. HashSort(u, "idx") = MovedLast(u, i, u[i])
  <2>1. i \in 1 .. Len(u) BY <1>2, <1>9
  <2> QED BY <1>9, <1>10, <2>1, SortMovesLast
<1>12. RemoveAt(u, i) = RemoveAt(table, i)
  <2>1. PICK a : a = RemoveAt(u, i) OBVIOUS
  <2>2. PICK b : b = RemoveAt(table, i) OBVIOUS
  <2>3. /\ a \in Seq(LruEntries) /\ Len(a) = n - 1
        /\ \A j \in 1 .. n - 1 : a[j] = IF j < i THEN u[j] ELSE u[j + 1]
    BY <1>2, <1>9, <2>1, RemoveAtProperties
  <2>4. /\ b \in Seq(LruEntries) /\ Len(b) = n - 1
        /\ \A j \in 1 .. n - 1 : b[j] = IF j < i THEN table[j] ELSE table[j + 1]
    BY <1>1, <1>2, <2>2, RemoveAtProperties
  <2>5. \A j \in 1 .. n - 1 : a[j] = b[j]
    <3> SUFFICES ASSUME NEW j \in 1 .. n - 1 PROVE a[j] = b[j] OBVIOUS
    <3>1. CASE j < i
      <4>1. j \in 1 .. n /\ j # i BY <3>1, <1>2
      <4> QED BY <1>8, <2>3, <2>4, <3>1, <4>1
    <3>2. CASE ~(j < i)
      <4>1. j + 1 \in 1 .. n /\ j + 1 # i BY <3>2, <1>2
      <4> QED BY <1>8, <2>3, <2>4, <3>2, <4>1
    <3> QED BY <3>1, <3>2
  <2> QED BY <2>1, <2>2, <2>3, <2>4, <2>5, SeqEqual
<1>13. u[i] = e BY <1>2, <1>8
<1>14. HashSort([table EXCEPT ![i].idx = cnt], "idx") = MovedLast(table, i, e)
  BY <1>7, <1>11, <1>12, <1>13 DEF MovedLast
<1> QED BY <1>5, <1>14

-------------------------------------------------------------------------------
(* The LRU caches: the invariant, and that they implement Lru.             *)

\* Until it is freed a cache has the keys used last, all of them as long as
\* there is room, and the one that sorts has them in the order of their numbers.
LruInv ==
    /\ Cache!TypeOK
    /\ open => /\ usedCnt = Len(hashTable)
               /\ Matches(hashTable, recency, latest)
               /\ Len(hashTable) < capacity => Len(hashTable) = Len(recency)
               /\ sorts => Sorted(hashTable, putCnt)

\* What the instance of the cache calls its operators is what they are here.
LEMMA CacheOperators ==
    /\ \A t, e : Cache!HashAdd(t, e) = Append(t, e)
    /\ \A t, i : Cache!HashDel(t, i) = RemoveAt(t, i)
    /\ \A t, k : Cache!HashFind(t, k) = {i \in DOMAIN t : t[i].key = k}
    /\ \A t : Cache!Sorted(t) = IF sorts THEN HashSort(t, "idx") ELSE t
<1>1. \A t, e : Cache!HashAdd(t, e) = Append(t, e) BY DEF Cache!HashAdd
<1>2. \A t, i : Cache!HashDel(t, i) = RemoveAt(t, i)
  BY DEF Cache!HashDel, Cache!RemoveAt, RemoveAt
<1>3. \A t, f : Cache!HashSort(t, f) = HashSort(t, f)
  BY DEF Cache!HashSort, HashSort, Cache!Cardinality, Cardinality, Cache!IsFiniteSet, IsFiniteSet
<1>4. \A t, k : Cache!HashFind(t, k) = {i \in DOMAIN t : t[i].key = k} BY DEF Cache!HashFind
<1>5. \A t : Cache!Sorted(t) = IF sorts THEN HashSort(t, "idx") ELSE t
  BY <1>3 DEF Cache!Sorted
<1> QED BY <1>1, <1>2, <1>4, <1>5

\* And the keys after a use.
LEMMA CacheRecent ==
    ASSUME NEW k
    PROVE  Cache!NowUsed(k) => recency' = Recent(k, recency)
<1>1. Cache!RemoveFirst(recency, k) = RemoveFirst(recency, k)
  BY DEF Cache!RemoveFirst, RemoveFirst, Cache!SelectInSeq, SelectInSeq, Cache!Min, Min,
         Cache!RemoveAt, RemoveAt
<1> QED BY <1>1 DEF Cache!NowUsed, Recent

\* A key was used recently in both specifications, or in neither.
LEMMA AbstractRecent ==
    ASSUME NEW k
    PROVE  Cache!Abstract!Used(k) = Recent(k, recency)
<1>1. Cache!Abstract!RemoveFirst(recency, k) = RemoveFirst(recency, k)
  BY DEF Cache!Abstract!RemoveFirst, RemoveFirst, Cache!Abstract!SelectInSeq, SelectInSeq,
         Cache!Abstract!Min, Min, Cache!Abstract!RemoveAt, RemoveAt
<1> QED BY <1>1 DEF Cache!Abstract!Used, Recent

\* A cache starts with nothing used.
LEMMA LruInitKeeps == Cache!Init => LruInv /\ Cache!Abstract!Init
<1> SUFFICES ASSUME Cache!Init PROVE LruInv /\ Cache!Abstract!Init OBVIOUS
<1>1. /\ sorts \in BOOLEAN /\ capacity \in 1 .. MaxCapacity /\ hashTable = <<>> /\ usedCnt = 0
      /\ putCnt = 0 /\ open = TRUE /\ lastCall = <<"none">> /\ recency = <<>>
      /\ latest = [k \in LruKeys |-> Cache!NotFound]
  BY DEF Cache!Init
<1>2. /\ hashTable \in Seq([key : LruKeys, value : Values, idx : 0 .. MaxUses])
      /\ recency \in Seq(LruKeys) /\ Len(hashTable) = 0 /\ Len(recency) = 0
      /\ DOMAIN recency = {}
  BY <1>1
<1>3. capacity \in Nat \ {0} BY <1>1, SequentialAssumption
<1>4. Cache!TypeOK BY <1>1, <1>2, <1>3, SequentialAssumption DEF Cache!TypeOK, Cache!Calls
<1>5. Matches(hashTable, recency, latest)
  BY <1>2 DEF Matches, LruEntries, IsInjective
<1>6. Sorted(hashTable, putCnt) BY <1>1, <1>2 DEF Sorted, LruEntries
<1>7. LruInv BY <1>1, <1>2, <1>4, <1>5, <1>6 DEF LruInv
<1>8. Cache!Abstract!Init
  BY <1>1, <1>3 DEF Cache!Abstract!Init, Cache!NotFound, Cache!Abstract!NotFound
<1> QED BY <1>7, <1>8

\* What the types and the invariant say of an open cache.
LEMMA LruFacts ==
    ASSUME LruInv, open
    PROVE  /\ capacity \in Nat \ {0} /\ capacity \in 1 .. MaxCapacity
           /\ hashTable \in Seq(LruEntries) /\ Len(hashTable) \in Nat /\ Len(hashTable) <= capacity
           /\ usedCnt = Len(hashTable)
           /\ Matches(hashTable, recency, latest)
           /\ recency \in Seq(LruKeys) /\ Len(recency) \in Nat /\ Len(hashTable) <= Len(recency)
           /\ Len(hashTable) < capacity => Len(hashTable) = Len(recency)
           /\ sorts => Sorted(hashTable, putCnt)
           /\ latest \in [LruKeys -> Values \cup {Cache!NotFound}]
           /\ sorts \in BOOLEAN /\ putCnt \in 0 .. MaxUses
<1>1. Cache!TypeOK BY DEF LruInv
<1>2. Matches(hashTable, recency, latest) BY DEF LruInv
<1>3. hashTable \in Seq(LruEntries) /\ recency \in Seq(LruKeys) /\ Len(hashTable) <= Len(recency)
  BY <1>2 DEF Matches
<1>4. Len(hashTable) \in Nat /\ Len(recency) \in Nat BY <1>3, LenProperties
<1>5. capacity \in 1 .. MaxCapacity BY <1>1 DEF Cache!TypeOK
<1>6. capacity \in Nat \ {0} BY <1>5, SequentialAssumption
<1>7. usedCnt = Len(hashTable) /\ Len(hashTable) <= capacity
  <2>1. usedCnt = Len(hashTable) BY DEF LruInv
  <2>2. usedCnt \in 0 .. capacity BY <1>1 DEF Cache!TypeOK
  <2> QED BY <1>6, <2>1, <2>2
<1> QED BY <1>1, <1>2, <1>3, <1>4, <1>5, <1>6, <1>7 DEF LruInv, Cache!TypeOK

\* The calls there can have been.
LEMMA CallsAre ==
    /\ \A k \in LruKeys, v \in Values \cup {Cache!NotFound} : <<"get", k, v>> \in Cache!Calls
    /\ \A k \in LruKeys, v \in Values : <<"put", k, v>> \in Cache!Calls
BY DEF Cache!Calls

\* The keys that the specification takes for cached are those in the table.
LEMMA CachedIsInTable ==
    ASSUME LruInv, open, NEW k
    PROVE  k \in Cache!Abstract!Cached <=> \E i \in 1 .. Len(hashTable) : hashTable[i].key = k
<1>1. Matches(hashTable, recency, latest) BY DEF LruInv
<1>2. PICK n \in Nat : n = Len(hashTable) BY <1>1, LenProperties DEF Matches
<1>3. PICK l \in Nat : l = Len(recency) BY <1>1, LenProperties DEF Matches
<1>4. /\ n <= l /\ DOMAIN recency = 1 .. l
      /\ \A i \in 1 .. n : hashTable[i].key = recency[(n + 1) - i]
  BY <1>1, <1>2, <1>3, LenProperties DEF Matches
<1>5. capacity \in Nat /\ n <= capacity /\ (n < capacity => n = l)
  BY <1>2, <1>3, LruFacts DEF LruInv
<1>6. (1 .. l) \cap (1 .. capacity) = 1 .. n BY <1>4, <1>5
<1>7. Cache!Abstract!Cached = {recency[i] : i \in 1 .. n} BY <1>4, <1>6 DEF Cache!Abstract!Cached
<1>8. \A i \in 1 .. n : (n + 1) - i \in 1 .. n /\ (n + 1) - ((n + 1) - i) = i OBVIOUS
<1>9. ASSUME NEW i \in 1 .. n, recency[i] = k PROVE \E j \in 1 .. n : hashTable[j].key = k
  BY <1>4, <1>8, <1>9
<1>10. ASSUME NEW i \in 1 .. n, hashTable[i].key = k PROVE \E j \in 1 .. n : recency[j] = k
  BY <1>4, <1>8, <1>10
<1> QED BY <1>2, <1>7, <1>9, <1>10

\* A cache after a use: the table t, with l entries, and the keys r.
LEMMA LruAfter ==
    ASSUME LruInv, open,
           NEW t, NEW r, NEW f, hashTable' = t, recency' = r, latest' = f,
           f \in [LruKeys -> Values \cup {Cache!NotFound}],
           Matches(t, r, f), Len(t) <= capacity, usedCnt' = Len(t),
           Len(t) < capacity => Len(t) = Len(r),
           putCnt' \in 0 .. MaxUses, sorts => Sorted(t, putCnt'),
           lastCall' \in Cache!Calls,
           UNCHANGED <<sorts, capacity, open>>
    PROVE  LruInv'
<1>1. Cache!TypeOK BY DEF LruInv
<1>2. t \in Seq(LruEntries) /\ r \in Seq(LruKeys) BY DEF Matches
<1>3. Len(t) \in Nat BY <1>2, LenProperties
<1>4. capacity \in 1 .. MaxCapacity /\ capacity \in Nat BY LruFacts
<1>5. usedCnt' \in 0 .. capacity BY <1>3, <1>4
<1>6. Cache!TypeOK' BY <1>1, <1>2, <1>5 DEF Cache!TypeOK, LruEntries, Cache!NotFound, Cache!Calls
<1> QED BY <1>6 DEF LruInv

\* The values in the table are those last put.
LEMMA ValueIsLatest ==
    ASSUME LruInv, open, NEW i \in 1 .. Len(hashTable)
    PROVE  /\ hashTable[i] \in LruEntries
           /\ hashTable[i].value = latest[hashTable[i].key]
           /\ hashTable[i].value \in Values
           /\ hashTable[i].key \in LruKeys
<1>1. Matches(hashTable, recency, latest) /\ hashTable \in Seq(LruEntries) BY LruFacts
<1>2. hashTable[i] \in LruEntries BY <1>1, LenProperties
<1>3. hashTable[i].value = latest[hashTable[i].key] BY <1>1 DEF Matches
<1> QED BY <1>2, <1>3 DEF LruEntries

\* A get that finds nothing changes nothing but the answer.
LEMMA GetNothing ==
    ASSUME LruInv, NEW k \in LruKeys, Cache!lRUCacheGet(k), Cache!HashFind(hashTable, k) = {}
    PROVE  LruInv' /\ Cache!Abstract!Get(k)
<1>1. open /\ lastCall' = <<"get", k, Cache!NotFound>>
      /\ UNCHANGED <<hashTable, putCnt, recency, sorts, capacity, usedCnt, open, latest>>
  BY DEF Cache!lRUCacheGet
<1>2. hashTable \in Seq(LruEntries) BY <1>1, LruFacts
<1>3. \A i \in 1 .. Len(hashTable) : hashTable[i].key # k
  BY <1>2, CacheOperators, LenProperties
<1>4. k \notin Cache!Abstract!Cached BY <1>1, <1>3, CachedIsInTable
<1>5. LruInv'
  <2>1. Cache!TypeOK'
    <3>1. lastCall' \in Cache!Calls' BY <1>1, CallsAre DEF Cache!Calls, Cache!NotFound
    <3> QED BY <1>1, <3>1 DEF LruInv, Cache!TypeOK
  <2>2. UNCHANGED <<hashTable, recency, latest, usedCnt, capacity, sorts, putCnt, open>> BY <1>1
  <2> QED BY <2>1, <2>2 DEF LruInv
<1>6. Cache!Abstract!Get(k)
  BY <1>1, <1>4 DEF Cache!Abstract!Get, Cache!NotFound, Cache!Abstract!NotFound
<1> QED BY <1>5, <1>6

\* The table after a get that finds something, sorted or not.
LEMMA TouchMoves ==
    ASSUME LruInv, open, NEW i \in 1 .. Len(hashTable), putCnt < MaxUses
    PROVE  \E e \in LruEntries :
             /\ e.key = hashTable[i].key /\ e.value = hashTable[i].value
             /\ sorts => e.idx = putCnt
             /\ Cache!Touched(i) = MovedLast(hashTable, i, e)
<1>1. /\ hashTable \in Seq(LruEntries) /\ sorts \in BOOLEAN /\ putCnt \in 0 .. MaxUses
      /\ sorts => Sorted(hashTable, putCnt)
  BY LruFacts
<1>2. CASE sorts
  <2>1. Sorted(hashTable, putCnt) BY <1>1, <1>2
  <2>2. PICK e \in LruEntries :
          /\ e.idx = putCnt /\ e.key = hashTable[i].key /\ e.value = hashTable[i].value
          /\ HashSort([hashTable EXCEPT ![i].idx = putCnt], "idx") = MovedLast(hashTable, i, e)
    BY <1>1, <2>1, SortOfTouched
  <2>3. Cache!Touched(i) = HashSort([hashTable EXCEPT ![i].idx = putCnt], "idx")
    BY <1>2, CacheOperators DEF Cache!Touched
  <2> QED BY <2>2, <2>3
<1>3. CASE ~sorts
  <2>1. Cache!Touched(i) = MovedLast(hashTable, i, hashTable[i])
    BY <1>3, CacheOperators DEF Cache!Touched, MovedLast
  <2>2. hashTable[i] \in LruEntries BY <1>1, LenProperties
  <2> QED BY <1>3, <2>1, <2>2
<1> QED BY <1>1, <1>2, <1>3

\* A get that finds its key uses it.
LEMMA GetSomething ==
    ASSUME LruInv, NEW k \in LruKeys, Cache!lRUCacheGet(k), Cache!HashFind(hashTable, k) # {}
    PROVE  LruInv' /\ Cache!Abstract!Get(k)
<1>1. PICK i \in Cache!HashFind(hashTable, k) :
        /\ hashTable' = Cache!Touched(i)
        /\ putCnt' = IF sorts THEN putCnt + 1 ELSE putCnt
        /\ lastCall' = <<"get", k, hashTable[i].value>>
        /\ Cache!NowUsed(k)
  BY DEF Cache!lRUCacheGet
<1>2. open /\ putCnt < MaxUses /\ UNCHANGED <<sorts, capacity, usedCnt, open, latest>>
  BY DEF Cache!lRUCacheGet
<1>3. /\ capacity \in Nat \ {0} /\ hashTable \in Seq(LruEntries) /\ Len(hashTable) <= capacity
      /\ Matches(hashTable, recency, latest) /\ usedCnt = Len(hashTable)
      /\ (Len(hashTable) < capacity => Len(hashTable) = Len(recency))
      /\ (sorts => Sorted(hashTable, putCnt)) /\ putCnt \in 0 .. MaxUses
      /\ latest \in [LruKeys -> Values \cup {Cache!NotFound}]
  BY <1>2, LruFacts
<1>4. i \in 1 .. Len(hashTable) /\ hashTable[i].key = k
  BY <1>1, <1>3, CacheOperators, LenProperties
<1>5. PICK e \in LruEntries : /\ e.key = k /\ e.value = hashTable[i].value
                              /\ sorts => e.idx = putCnt
                              /\ Cache!Touched(i) = MovedLast(hashTable, i, e)
  BY <1>2, <1>4, TouchMoves
<1>6. /\ hashTable[i].value = latest[k] /\ hashTable[i].value \in Values
  BY <1>2, <1>4, ValueIsLatest
<1>7. PICK t : t = MovedLast(hashTable, i, e) OBVIOUS
<1>8. PICK r : r = Recent(k, recency) OBVIOUS
<1>9. hashTable' = t /\ recency' = r /\ latest' = latest BY <1>1, <1>2, <1>5, <1>7, <1>8, CacheRecent
<1>10. Matches(t, r, latest) /\ Len(r) = Len(recency)
  <2>1. IsNewest(e, hashTable[i].key, latest, latest) BY <1>4, <1>5, <1>6 DEF IsNewest
  <2>2. /\ Matches(MovedLast(hashTable, i, e), Recent(hashTable[i].key, recency), latest)
        /\ Len(Recent(hashTable[i].key, recency)) = Len(recency)
    BY <1>3, <1>4, <2>1, UseMoves
  <2> QED BY <1>4, <1>7, <1>8, <2>2
<1>11. Len(t) = Len(hashTable)
  <2>1. Len(MovedLast(hashTable, i, e)) = Len(hashTable) BY <1>3, <1>4, <1>5, MovedLastIs
  <2> QED BY <1>7, <2>1
<1>12. sorts => Sorted(t, putCnt')
  <2> SUFFICES ASSUME sorts PROVE Sorted(t, putCnt') OBVIOUS
  <2>1. Sorted(RemoveAt(hashTable, i), putCnt) BY <1>3, <1>4, SortedWithout
  <2>2. Sorted(Append(RemoveAt(hashTable, i), e), putCnt + 1) BY <1>5, <2>1, SortedAppend
  <2> QED BY <1>1, <1>7, <2>2 DEF MovedLast
<1>13. putCnt' \in 0 .. MaxUses BY <1>1, <1>2, <1>3, SequentialAssumption
<1>14. LruInv'
  <2>1. lastCall' \in Cache!Calls BY <1>1, <1>6, CallsAre
  <2> QED
    BY <1>1, <1>2, <1>3, <1>6, <1>9, <1>10, <1>11, <1>12, <1>13, <2>1, LruAfter
<1>15. k \in Cache!Abstract!Cached BY <1>2, <1>4, CachedIsInTable
<1>16. Cache!Abstract!Get(k)
  BY <1>1, <1>2, <1>6, <1>8, <1>9, <1>15, AbstractRecent DEF Cache!Abstract!Get
<1> QED BY <1>14, <1>16

\* The table after a put: without the entry of the key, or else without the
\* first entry if there is no room, and with a new entry at the end.
LEMMA PutMoves ==
    ASSUME LruInv, NEW k \in LruKeys, NEW v \in Values, Cache!lRUCachePut(k, v)
    PROVE  \E e \in LruEntries :
             /\ e.key = k /\ e.value = v /\ (sorts => e.idx = putCnt)
             /\ \/ \E i \in 1 .. Len(hashTable) :
                     /\ hashTable[i].key = k
                     /\ hashTable' = Cache!Sorted(MovedLast(hashTable, i, e))
                     /\ usedCnt' = usedCnt
                \/ /\ \A i \in 1 .. Len(hashTable) : hashTable[i].key # k
                   /\ Len(hashTable) < capacity
                   /\ hashTable' = Cache!Sorted(Append(hashTable, e))
                   /\ usedCnt' = usedCnt + 1
                \/ /\ \A i \in 1 .. Len(hashTable) : hashTable[i].key # k
                   /\ Len(hashTable) = capacity
                   /\ hashTable' = Cache!Sorted(MovedLast(hashTable, 1, e))
                   /\ usedCnt' = usedCnt
<1> DEFINE old  == Cache!HashFind(hashTable, k)
           i    == CHOOSE i \in old : TRUE
           others == IF old = {} THEN hashTable ELSE RemoveAt(hashTable, i)
           cnt  == IF old = {} THEN usedCnt ELSE usedCnt - 1
           full == cnt = capacity
           room == IF full THEN RemoveAt(others, 1) ELSE others
           e    == [key |-> k, value |-> v, idx |-> IF sorts THEN putCnt ELSE 0]
<1>1. /\ hashTable' = Cache!Sorted(Append(room, e))
      /\ usedCnt' = (IF full THEN cnt - 1 ELSE cnt) + 1
      /\ open
  BY DEF Cache!lRUCachePut, Cache!HashAdd, Cache!HashDel, Cache!RemoveAt, RemoveAt
<1>2. /\ capacity \in Nat \ {0} /\ hashTable \in Seq(LruEntries) /\ Len(hashTable) \in Nat
      /\ Len(hashTable) <= capacity /\ usedCnt = Len(hashTable) /\ putCnt \in 0 .. MaxUses
  BY <1>1, LruFacts
<1>3. e \in LruEntries /\ e.key = k /\ e.value = v /\ (sorts => e.idx = putCnt)
  BY <1>2, SequentialAssumption DEF LruEntries
<1>4. old = {j \in 1 .. Len(hashTable) : hashTable[j].key = k}
  BY <1>2, CacheOperators, LenProperties
<1> HIDE DEF e, old
<1>5. CASE old # {}
  <2>1. i \in 1 .. Len(hashTable) /\ hashTable[i].key = k BY <1>4, <1>5
  <2> HIDE DEF i
  <2>2. others = RemoveAt(hashTable, i) /\ cnt = usedCnt - 1 BY <1>5
  <2>3. ~full BY <1>2, <2>2
  <2>4. room = RemoveAt(hashTable, i) BY <2>2, <2>3
  <2>5. usedCnt' = usedCnt BY <1>1, <1>2, <2>2, <2>3
  <2> HIDE DEF room, others, cnt, full
  <2>6. hashTable' = Cache!Sorted(MovedLast(hashTable, i, e)) BY <1>1, <2>4 DEF MovedLast
  <2> QED BY <1>3, <2>1, <2>5, <2>6
<1>6. CASE old = {}
  <2>1. \A j \in 1 .. Len(hashTable) : hashTable[j].key # k BY <1>4, <1>6
  <2>2. others = hashTable /\ cnt = usedCnt BY <1>6
  <2>3. CASE full
    <3>1. Len(hashTable) = capacity BY <1>2, <2>2, <2>3
    <3>2. room = RemoveAt(hashTable, 1) BY <2>2, <2>3
    <3>3. usedCnt' = usedCnt BY <1>1, <1>2, <2>2, <2>3
    <3> HIDE DEF room, others, cnt, full
    <3>4. hashTable' = Cache!Sorted(MovedLast(hashTable, 1, e)) BY <1>1, <3>2 DEF MovedLast
    <3> QED BY <1>3, <2>1, <3>1, <3>3, <3>4
  <2>4. CASE ~full
    <3>1. Len(hashTable) < capacity BY <1>2, <2>2, <2>4
    <3>2. room = hashTable BY <2>2, <2>4
    <3>3. usedCnt' = usedCnt + 1 BY <1>1, <2>2, <2>4
    <3> HIDE DEF room, others, cnt, full
    <3>4. hashTable' = Cache!Sorted(Append(hashTable, e)) BY <1>1, <3>2
    <3> QED BY <1>3, <2>1, <3>1, <3>3, <3>4
  <2> QED BY <2>3, <2>4
<1> QED BY <1>5, <1>6

\* The new table is in order already.
LEMMA PutSorts ==
    ASSUME LruInv, open, NEW t, sorts => Sorted(t, putCnt + 1)
    PROVE  Cache!Sorted(t) = t
BY LruFacts, CacheOperators, SortOfSorted

\* A put uses its key.
LEMMA PutStep ==
    ASSUME LruInv, NEW k \in LruKeys, NEW v \in Values, Cache!lRUCachePut(k, v)
    PROVE  LruInv' /\ Cache!Abstract!Put(k, v)
<1>1. /\ open /\ putCnt < MaxUses
      /\ putCnt' = IF sorts THEN putCnt + 1 ELSE putCnt
      /\ Cache!NowUsed(k)
      /\ latest' = [latest EXCEPT ![k] = v]
      /\ lastCall' = <<"put", k, v>>
      /\ UNCHANGED <<sorts, capacity, open>>
  BY DEF Cache!lRUCachePut
<1>2. /\ capacity \in Nat \ {0} /\ hashTable \in Seq(LruEntries) /\ Len(hashTable) <= capacity
      /\ Matches(hashTable, recency, latest) /\ usedCnt = Len(hashTable)
      /\ (Len(hashTable) < capacity => Len(hashTable) = Len(recency))
      /\ (sorts => Sorted(hashTable, putCnt)) /\ putCnt \in 0 .. MaxUses
      /\ latest \in [LruKeys -> Values \cup {Cache!NotFound}]
      /\ Len(hashTable) \in Nat /\ Len(recency) \in Nat
  BY <1>1, LruFacts
<1>3. PICK r : r = Recent(k, recency) OBVIOUS
<1>4. PICK f : f = [latest EXCEPT ![k] = v] OBVIOUS
<1>5. recency' = r /\ latest' = f BY <1>1, <1>3, <1>4, CacheRecent
<1>6. f \in [LruKeys -> Values \cup {Cache!NotFound}] BY <1>2, <1>4
<1>7. Cache!Abstract!Put(k, v)
  BY <1>1, <1>3, <1>5, AbstractRecent DEF Cache!Abstract!Put
<1>8. putCnt' \in 0 .. MaxUses BY <1>1, <1>2, SequentialAssumption
<1>9. ASSUME NEW t, Matches(t, r, f), Len(t) <= capacity, usedCnt' = Len(t),
             Len(t) < capacity => Len(t) = Len(r),
             sorts => Sorted(t, putCnt + 1),
             hashTable' = Cache!Sorted(t)
      PROVE  LruInv'
  <2>1. hashTable' = t BY <1>1, <1>9, PutSorts
  <2>2. sorts => Sorted(t, putCnt') BY <1>1, <1>9
  <2>3. lastCall' \in Cache!Calls BY <1>1, CallsAre
  <2> QED BY <1>1, <1>5, <1>6, <1>8, <1>9, <2>1, <2>2, <2>3, LruAfter
<1>10. PICK e \in LruEntries :
         /\ e.key = k /\ e.value = v /\ (sorts => e.idx = putCnt)
         /\ \/ \E i \in 1 .. Len(hashTable) :
                 /\ hashTable[i].key = k
                 /\ hashTable' = Cache!Sorted(MovedLast(hashTable, i, e))
                 /\ usedCnt' = usedCnt
            \/ /\ \A i \in 1 .. Len(hashTable) : hashTable[i].key # k
               /\ Len(hashTable) < capacity
               /\ hashTable' = Cache!Sorted(Append(hashTable, e))
               /\ usedCnt' = usedCnt + 1
            \/ /\ \A i \in 1 .. Len(hashTable) : hashTable[i].key # k
               /\ Len(hashTable) = capacity
               /\ hashTable' = Cache!Sorted(MovedLast(hashTable, 1, e))
               /\ usedCnt' = usedCnt
  BY PutMoves
<1>11. IsNewest(e, k, f, latest) BY <1>2, <1>4, <1>10 DEF IsNewest
<1>12. ASSUME NEW i \in 1 .. Len(hashTable)
       PROVE  /\ sorts => Sorted(MovedLast(hashTable, i, e), putCnt + 1)
              /\ Len(MovedLast(hashTable, i, e)) = Len(hashTable)
  <2>1. Len(MovedLast(hashTable, i, e)) = Len(hashTable) BY <1>2, MovedLastIs
  <2>2. ASSUME sorts PROVE Sorted(MovedLast(hashTable, i, e), putCnt + 1)
    <3>1. Sorted(RemoveAt(hashTable, i), putCnt) BY <1>2, <2>2, SortedWithout
    <3>2. Sorted(Append(RemoveAt(hashTable, i), e), putCnt + 1) BY <1>10, <2>2, <3>1, SortedAppend
    <3> QED BY <3>2 DEF MovedLast
  <2> QED BY <2>1, <2>2
<1>13. ASSUME NEW i \in 1 .. Len(hashTable), hashTable[i].key = k,
              hashTable' = Cache!Sorted(MovedLast(hashTable, i, e)), usedCnt' = usedCnt
       PROVE  LruInv'
  <2>1. PICK t : t = MovedLast(hashTable, i, e) OBVIOUS
  <2>2. /\ Matches(MovedLast(hashTable, i, e), Recent(hashTable[i].key, recency), f)
        /\ Len(Recent(hashTable[i].key, recency)) = Len(recency)
    BY <1>2, <1>11, <1>13, UseMoves
  <2>3. Matches(t, r, f) /\ Len(r) = Len(recency) BY <1>3, <1>13, <2>1, <2>2
  <2>4. (sorts => Sorted(t, putCnt + 1)) /\ Len(t) = Len(hashTable) BY <1>12, <2>1
  <2> QED BY <1>2, <1>9, <1>13, <2>1, <2>3, <2>4
<1>14. ASSUME \A i \in 1 .. Len(hashTable) : hashTable[i].key # k,
              Len(hashTable) < capacity,
              hashTable' = Cache!Sorted(Append(hashTable, e)), usedCnt' = usedCnt + 1
       PROVE  LruInv'
  <2>1. PICK t : t = Append(hashTable, e) OBVIOUS
  <2>2. Matches(t, r, f) /\ Len(r) = Len(recency) + 1
    BY <1>2, <1>3, <1>11, <1>14, <2>1, UseAdds
  <2>3. Len(t) = Len(hashTable) + 1 BY <1>2, <2>1, AppendProperties
  <2>4. sorts => Sorted(t, putCnt + 1) BY <1>2, <1>10, <2>1, SortedAppend
  <2>5. Len(t) <= capacity /\ usedCnt' = Len(t) /\ Len(t) = Len(r)
    BY <1>2, <1>14, <2>2, <2>3
  <2>6. hashTable' = Cache!Sorted(t) BY <1>14, <2>1
  <2> QED BY <1>9, <2>2, <2>4, <2>5, <2>6
<1>15. ASSUME \A i \in 1 .. Len(hashTable) : hashTable[i].key # k,
              Len(hashTable) = capacity,
              hashTable' = Cache!Sorted(MovedLast(hashTable, 1, e)), usedCnt' = usedCnt
       PROVE  LruInv'
  <2>1. PICK t : t = MovedLast(hashTable, 1, e) OBVIOUS
  <2>2. Len(hashTable) # 0 /\ 1 \in 1 .. Len(hashTable) BY <1>2, <1>15
  <2>3. Matches(t, r, f) BY <1>2, <1>3, <1>11, <1>15, <2>1, <2>2, UseReplaces
  <2>4. (sorts => Sorted(t, putCnt + 1)) /\ Len(t) = Len(hashTable) BY <1>12, <2>1, <2>2
  <2> QED BY <1>2, <1>9, <1>15, <2>1, <2>3, <2>4
<1>16. LruInv' BY <1>10, <1>13, <1>14, <1>15
<1> QED BY <1>7, <1>16

\* The end of a cache is not a step of the specification.
LEMMA FreeStep ==
    ASSUME LruInv, Cache!lRUCacheFree
    PROVE  LruInv' /\ UNCHANGED <<capacity, recency, latest, lastCall>>
<1>1. /\ open' = FALSE /\ hashTable' = <<>>
      /\ UNCHANGED <<sorts, capacity, usedCnt, putCnt, lastCall, recency, latest>>
  BY DEF Cache!lRUCacheFree
<1>2. Cache!TypeOK BY DEF LruInv
<1>3. hashTable' \in Seq([key : LruKeys, value : Values, idx : 0 .. MaxUses]) BY <1>1
<1>4. Cache!TypeOK' BY <1>1, <1>2, <1>3 DEF Cache!TypeOK, Cache!NotFound, Cache!Calls
<1> QED BY <1>1, <1>4 DEF LruInv

\* Every step of a cache keeps the invariant, and is a step of Lru or none.
LEMMA LruNextKeeps ==
    ASSUME LruInv, Cache!Next
    PROVE  LruInv' /\ (Cache!Abstract!Next \/ UNCHANGED <<capacity, recency, latest, lastCall>>)
<1>1. ASSUME NEW k \in LruKeys, Cache!lRUCacheGet(k)
      PROVE  LruInv' /\ Cache!Abstract!Next
  BY <1>1, GetNothing, GetSomething DEF Cache!Abstract!Next
<1>2. ASSUME NEW k \in LruKeys, NEW v \in Values, Cache!lRUCachePut(k, v)
      PROVE  LruInv' /\ Cache!Abstract!Next
  BY <1>2, PutStep DEF Cache!Abstract!Next
<1> QED BY <1>1, <1>2, FreeStep DEF Cache!Next

-------------------------------------------------------------------------------
(* killProcess: who is an ancestor of whom.                                *)

\* One turn of the way up that Ancestors goes.
WentUp(up, parents, p, k) ==
    IF k = 0 THEN {p} ELSE up[k - 1] \cup {parents[q] : q \in up[k - 1] \ {0}}

GoesUp(up, parents, p, n) == up = [k \in 0 .. n |-> WentUp(up, parents, p, k)]

\* There is such a way, of any length.
LEMMA GoesUpExists ==
    ASSUME NEW parents, NEW p, NEW N \in Nat
    PROVE  \E up : GoesUp(up, parents, p, N)
<1> DEFINE S == {n \in Nat : \E f : GoesUp(f, parents, p, n)}
<1>1. 0 \in S
  <2> DEFINE f == [k \in 0 .. 0 |-> {p}]
  <2>1. f = [k \in 0 .. 0 |-> WentUp(f, parents, p, k)] BY DEF WentUp
  <2> HIDE DEF f
  <2>2. GoesUp(f, parents, p, 0) BY <2>1 DEF GoesUp
  <2> QED BY <2>2
<1>2. ASSUME NEW n \in Nat, n \in S PROVE n + 1 \in S
  <2>1. PICK f : GoesUp(f, parents, p, n) BY <1>2
  <2> DEFINE g == [k \in 0 .. n + 1 |-> WentUp(f, parents, p, k)]
  <2>2. \A k \in 0 .. n : g[k] = f[k] BY <2>1 DEF GoesUp
  <2>3. \A k \in 0 .. n + 1 : WentUp(f, parents, p, k) = WentUp(g, parents, p, k)
    <3> SUFFICES ASSUME NEW k \in 0 .. n + 1
                 PROVE  WentUp(f, parents, p, k) = WentUp(g, parents, p, k)
      OBVIOUS
    <3>1. k # 0 => k - 1 \in 0 .. n OBVIOUS
    <3> HIDE DEF g
    <3> QED BY <3>1, <2>2 DEF WentUp
  <2>4. g = [k \in 0 .. n + 1 |-> WentUp(g, parents, p, k)] BY <2>3
  <2> HIDE DEF g
  <2>5. GoesUp(g, parents, p, n + 1) BY <2>4 DEF GoesUp
  <2> QED BY <2>5
<1> HIDE DEF S
<1>3. N \in S BY <1>1, <1>2, SetInduction
<1> QED BY <1>3 DEF S

\* Of a way up that has reached all of U, at most one process q has its parent
\* not in U, and none when U has the parent of the first process.
OpenAt(U, parents, q) ==
    /\ q \in U
    /\ \A r \in U : r # q /\ r # 0 => parents[r] \in U
    /\ q # 0 => 0 \notin U

\* The ancestors of a process are the least set with it that has the parent of
\* each of its processes: of any process whose ancestors end at 0.
LEMMA AncestorsAre ==
    ASSUME NEW parents, NEW p
    PROVE  /\ p \in Killer!Ancestors(parents, p)
           /\ 0 \in Killer!Ancestors(parents, p) =>
                \A q \in Killer!Ancestors(parents, p) :
                  q # 0 => parents[q] \in Killer!Ancestors(parents, p)
           /\ \A S : p \in S /\ (\A q \in S : q # 0 => parents[q] \in S)
                       => Killer!Ancestors(parents, p) \subseteq S
<1> DEFINE up == CHOOSE f : GoesUp(f, parents, p, PidSize)
<1>1. PidSize \in Nat BY SequentialAssumption
<1>2. GoesUp(up, parents, p, PidSize)
  <2>1. \E f : GoesUp(f, parents, p, PidSize) BY <1>1, GoesUpExists
  <2> QED BY <2>1
<1>3. Killer!Ancestors(parents, p) = up[PidSize]
  BY DEF Killer!Ancestors, GoesUp, WentUp
<1> HIDE DEF up
<1>4. up[0] = {p} BY <1>1, <1>2 DEF GoesUp, WentUp
<1>5. ASSUME NEW n \in Nat, n + 1 \in 0 .. PidSize
      PROVE  up[n + 1] = up[n] \cup {parents[q] : q \in up[n] \ {0}}
  <2>1. (n + 1) - 1 = n /\ n + 1 # 0 OBVIOUS
  <2> QED BY <1>2, <1>5, <2>1 DEF GoesUp, WentUp
<1>6. ASSUME NEW S, p \in S, \A q \in S : q # 0 => parents[q] \in S
      PROVE  up[PidSize] \subseteq S
  <2> DEFINE G == {n \in Nat : n \in 0 .. PidSize => up[n] \subseteq S}
  <2>1. 0 \in G BY <1>4, <1>6
  <2>2. ASSUME NEW n \in Nat, n \in G PROVE n + 1 \in G
    <3> SUFFICES ASSUME n + 1 \in 0 .. PidSize PROVE up[n + 1] \subseteq S OBVIOUS
    <3>1. up[n] \subseteq S BY <1>1, <2>2
    <3>2. up[n + 1] = up[n] \cup {parents[q] : q \in up[n] \ {0}} BY <1>5
    <3> QED BY <1>6, <3>1, <3>2
  <2> HIDE DEF G
  <2>3. \A n \in Nat : n \in G BY <2>1, <2>2, SetInduction
  <2> QED BY <1>1, <2>3 DEF G
<1>7. p \in up[PidSize] /\ \E q : OpenAt(up[PidSize], parents, q)
  <2> DEFINE G == {n \in Nat : n \in 0 .. PidSize =>
                                 p \in up[n] /\ \E q : OpenAt(up[n], parents, q)}
  <2>1. 0 \in G
    <3>1. OpenAt({p}, parents, p) BY DEF OpenAt
    <3> QED BY <1>4, <3>1
  <2>2. ASSUME NEW n \in Nat, n \in G PROVE n + 1 \in G
    <3> SUFFICES ASSUME n + 1 \in 0 .. PidSize
                 PROVE  p \in up[n + 1] /\ \E q : OpenAt(up[n + 1], parents, q)
      OBVIOUS
    <3>1. p \in up[n] /\ \E q : OpenAt(up[n], parents, q) BY <1>1, <2>2
    <3>2. PICK q : OpenAt(up[n], parents, q) BY <3>1
    <3>3. PICK U : U = up[n] OBVIOUS
    <3>4. up[n + 1] = U \cup {parents[r] : r \in U \ {0}} BY <1>5, <3>3
    <3>5. OpenAt(U, parents, q) /\ p \in U BY <3>1, <3>2, <3>3
    <3>6. CASE q = 0
      <4>1. up[n + 1] = U BY <3>4, <3>5, <3>6 DEF OpenAt
      <4> QED BY <3>5, <4>1
    <3>7. CASE q # 0
      <4>1. up[n + 1] = U \cup {parents[q]} BY <3>4, <3>5, <3>7 DEF OpenAt
      <4>2. OpenAt(up[n + 1], parents, parents[q]) BY <3>5, <3>7, <4>1 DEF OpenAt
      <4> QED BY <3>5, <4>1, <4>2
    <3> QED BY <3>6, <3>7
  <2> HIDE DEF G
  <2>3. \A n \in Nat : n \in G BY <2>1, <2>2, SetInduction
  <2> QED BY <1>1, <2>3 DEF G
<1>8. 0 \in up[PidSize] => \A q \in up[PidSize] : q # 0 => parents[q] \in up[PidSize]
  BY <1>7 DEF OpenAt
<1> QED BY <1>3, <1>6, <1>7, <1>8

\* killed is an ancestor of p.
Descends(parents, killed, p) == killed \in Killer!Ancestors(parents, p)

\* In a tree, a process other than the killed one descends from it exactly if
\* its parent does; and the parent of the killed one does not.
LEMMA DescendsByParent ==
    ASSUME NEW parents \in Killer!Trees, NEW killed \in Killer!Pids
    PROVE  /\ parents \in [Killer!Pids -> 0 .. PidSize]
           /\ Descends(parents, killed, killed)
           /\ ~Descends(parents, killed, 0)
           /\ ~Descends(parents, killed, parents[killed])
           /\ \A q \in Killer!Pids :
                q # killed => (Descends(parents, killed, q) <=> Descends(parents, killed, parents[q]))
<1> DEFINE A(q) == Killer!Ancestors(parents, q)
<1>1. /\ PidSize \in Nat /\ killed \in Nat \ {0}
      /\ parents \in [Killer!Pids -> 0 .. PidSize]
      /\ \A q \in Killer!Pids : 0 \in A(q)
      /\ \A q \in Killer!Pids : q # 0 /\ parents[q] \in 0 .. PidSize
      /\ \A r \in 0 .. PidSize : r = 0 \/ r \in Killer!Pids
  BY SequentialAssumption DEF Killer!Trees, Killer!Pids
<1>2. \A q : q \in A(q) BY AncestorsAre
<1>3. \A q, S : q \in S /\ (\A r \in S : r # 0 => parents[r] \in S) => A(q) \subseteq S
  BY AncestorsAre
<1>4. \A q \in 0 .. PidSize : \A r \in A(q) : r # 0 => parents[r] \in A(q)
  <2>1. \A q \in 0 .. PidSize : 0 \in A(q) BY <1>1, <1>2
  <2> QED BY <2>1, AncestorsAre
<1> HIDE DEF A
<1>5. A(0) = {0}
  <2>1. 0 \in {0} /\ \A r \in {0} : r # 0 => parents[r] \in {0} OBVIOUS
  <2>2. A(0) \subseteq {0} BY <1>3, <2>1
  <2> QED BY <1>2, <2>2
<1>6. ~Descends(parents, killed, 0) BY <1>1, <1>5 DEF Descends, A
<1>7. ASSUME NEW q \in Killer!Pids, q # killed
      PROVE  Descends(parents, killed, q) <=> Descends(parents, killed, parents[q])
  <2>1. A(parents[q]) \subseteq A(q)
    <3>1. q \in 0 .. PidSize BY <1>1 DEF Killer!Pids
    <3>2. parents[q] \in A(q) BY <1>1, <1>2, <1>4, <3>1
    <3> QED BY <1>3, <1>4, <3>1, <3>2
  <2>2. A(q) \subseteq {q} \cup A(parents[q])
    <3> DEFINE S == {q} \cup A(parents[q])
    <3>1. \A r \in S : r # 0 => parents[r] \in S BY <1>1, <1>2, <1>4
    <3>2. q \in S OBVIOUS
    <3> HIDE DEF S
    <3>3. A(q) \subseteq S BY <1>3, <3>1, <3>2
    <3> QED BY <3>3 DEF S
  <2> QED BY <1>7, <2>1, <2>2 DEF Descends, A
<1>8. ~Descends(parents, killed, parents[killed])
  <2> SUFFICES ASSUME Descends(parents, killed, parents[killed]) PROVE FALSE OBVIOUS
  <2> DEFINE S == {q \in 0 .. PidSize : Descends(parents, killed, q)}
  <2>1. killed \in S BY <1>1, <1>2 DEF Descends, A, Killer!Pids
  <2>2. ASSUME NEW r \in S, r # 0 PROVE parents[r] \in S
    <3>1. r \in Killer!Pids /\ parents[r] \in 0 .. PidSize BY <1>1, <2>2
    <3>2. Descends(parents, killed, parents[r]) BY <1>7, <2>2, <3>1
    <3> QED BY <3>1, <3>2
  <2> HIDE DEF S
  <2>3. A(killed) \subseteq S BY <1>3, <2>1, <2>2
  <2>4. 0 \in S BY <1>1, <2>3
  <2> QED BY <1>6, <2>4 DEF S
<1>9. Descends(parents, killed, killed) BY <1>2 DEF Descends, A
<1> QED BY <1>1, <1>6, <1>7, <1>8, <1>9

\* Nobody else descends: a set that has the killed process, and every process
\* whose parent it has, has all descendants.
LEMMA DescendantsAreIn ==
    ASSUME NEW parents \in Killer!Trees, NEW killed \in Killer!Pids, NEW R, killed \in R,
           \A q \in Killer!Pids : parents[q] \in R /\ Descends(parents, killed, parents[q]) => q \in R
    PROVE  \A q \in Killer!Pids : Descends(parents, killed, q) => q \in R
<1> SUFFICES ASSUME NEW p \in Killer!Pids, Descends(parents, killed, p), p \notin R PROVE FALSE
  OBVIOUS
<1> DEFINE S == {q \in Killer!Pids : Descends(parents, killed, q) /\ q \notin R}
<1>1. /\ parents \in [Killer!Pids -> 0 .. PidSize]
      /\ ~Descends(parents, killed, 0)
      /\ \A q \in Killer!Pids :
           q # killed => (Descends(parents, killed, q) <=> Descends(parents, killed, parents[q]))
  BY DescendsByParent
<1>2. ASSUME NEW q \in S, q # 0 PROVE parents[q] \in S
  <2>1. q \in Killer!Pids /\ q # killed /\ Descends(parents, killed, q) /\ q \notin R OBVIOUS
  <2>2. Descends(parents, killed, parents[q]) BY <1>1, <2>1
  <2>3. parents[q] \notin R BY <2>1, <2>2
  <2>4. parents[q] # 0 BY <1>1, <2>2
  <2>5. parents[q] \in Killer!Pids
    BY <1>1, <2>1, <2>4, SequentialAssumption DEF Killer!Pids
  <2> QED BY <2>2, <2>3, <2>5
<1>3. p \in S OBVIOUS
<1> HIDE DEF S
<1>4. Killer!Ancestors(parents, p) \subseteq S BY <1>2, <1>3, AncestorsAre
<1>5. killed \in S BY <1>4 DEF Descends
<1> QED BY <1>5 DEF S

-------------------------------------------------------------------------------
(* killProcess: the table, the stack and the result.                       *)

\* No process twice.
AllDiffer(s) == \A i, j \in 1 .. Len(s) : s[i] = s[j] => i = j

\* The processes named so far and those on the stack are different descendants
\* of the killed one.
KillFound ==
    /\ AllDiffer(pRslt) /\ AllDiffer(stack)
    /\ ToSet(pRslt) \cap ToSet(stack) = {}
    /\ \A p \in ToSet(pRslt) \cup ToSet(stack) : Descends(ppid, kill, p)
    /\ {kill, killPid} \subseteq ToSet(pRslt)

\* The table has an entry for every other process, with its parent for a key,
\* and none for those found but for the one of the killed process itself; all
\* children of the processes named are out of it, but for those of the last one.
KillTable ==
    /\ \A i \in 1 .. Len(pHeadEntry) :
         /\ pHeadEntry[i].key = ppid[pHeadEntry[i].value]
         /\ pHeadEntry[i].value \in ToSet(pRslt) \cup ToSet(stack) => pHeadEntry[i].value = kill
         /\ pHeadEntry[i].key \in ToSet(pRslt) => pHeadEntry[i].key = killPid
    /\ \A i, j \in 1 .. Len(pHeadEntry) : pHeadEntry[i].value = pHeadEntry[j].value => i = j
    /\ \A p \in Killer!Pids :
         \/ p \in ToSet(pRslt) \cup ToSet(stack)
         \/ \E i \in 1 .. Len(pHeadEntry) : pHeadEntry[i].value = p

KillInv ==
    /\ Killer!TypeOK
    /\ ppid \in Killer!Trees
    /\ KillFound
    /\ killAt = "loop" => KillTable
    /\ killAt = "done" => ToSet(pRslt) = Killer!Doomed

\* The processes are not none: there is the killed one.
LEMMA KillFacts ==
    ASSUME KillInv
    PROVE  /\ kill \in Killer!Pids /\ ppid \in Killer!Trees /\ ppid \in [Killer!Pids -> 0 .. PidSize]
           /\ pRslt \in Seq(Killer!Pids) /\ stack \in Seq(Killer!Pids)
           /\ pHeadEntry \in Seq([key : 0 .. PidSize, value : Killer!Pids])
           /\ Len(pRslt) \in Nat /\ Len(stack) \in Nat /\ Len(pHeadEntry) \in Nat
           /\ DOMAIN pHeadEntry = 1 .. Len(pHeadEntry)
           /\ \A i \in 1 .. Len(pHeadEntry) :
                pHeadEntry[i].key \in 0 .. PidSize /\ pHeadEntry[i].value \in Killer!Pids
           /\ ToSet(pRslt) \subseteq Killer!Pids /\ ToSet(stack) \subseteq Killer!Pids
<1>1. /\ kill \in Killer!Pids /\ ppid \in Killer!Trees /\ ppid \in [Killer!Pids -> 0 .. PidSize]
      /\ pRslt \in Seq(Killer!Pids) /\ stack \in Seq(Killer!Pids)
      /\ pHeadEntry \in Seq([key : 0 .. PidSize, value : Killer!Pids])
  BY DEF KillInv, Killer!TypeOK
<1>2. Len(pRslt) \in Nat /\ Len(stack) \in Nat BY <1>1, LenProperties
<1>3. /\ Len(pHeadEntry) \in Nat /\ DOMAIN pHeadEntry = 1 .. Len(pHeadEntry)
      /\ \A i \in 1 .. Len(pHeadEntry) : pHeadEntry[i] \in [key : 0 .. PidSize, value : Killer!Pids]
  <2>1. pHeadEntry \in Seq([key : 0 .. PidSize, value : Killer!Pids]) BY <1>1
  <2> QED BY ONLY <2>1, LenProperties
<1>4. ToSet(pRslt) \subseteq Killer!Pids /\ ToSet(stack) \subseteq Killer!Pids BY <1>1, ToSetIs
<1> QED BY <1>1, <1>2, <1>3, <1>4

\* At first nothing was visited but what the search starts from.
LEMMA KillInitKeeps == Killer!Init => KillInv
<1> SUFFICES ASSUME Killer!Init PROVE KillInv OBVIOUS
<1>1. /\ PidSize \in Nat /\ ppid \in Killer!Trees /\ kill \in Killer!Pids
      /\ pHeadEntry = [p \in 1 .. PidSize |-> [key |-> ppid[p], value |-> p]]
      /\ killPid = kill /\ stack = <<>> /\ pRslt = <<kill>> /\ killAt = "loop"
      /\ ppid \in [Killer!Pids -> 0 .. PidSize]
  BY SequentialAssumption DEF Killer!Init, Killer!Pids, Killer!Trees
<1>2. /\ pHeadEntry \in Seq([key : 0 .. PidSize, value : Killer!Pids])
      /\ Len(pHeadEntry) = PidSize
      /\ \A p \in 1 .. PidSize : pHeadEntry[p].key = ppid[p] /\ pHeadEntry[p].value = p
  <2>1. pHeadEntry \in [1 .. PidSize -> [key : 0 .. PidSize, value : Killer!Pids]]
    BY <1>1 DEF Killer!Pids
  <2>2. pHeadEntry \in Seq([key : 0 .. PidSize, value : Killer!Pids]) /\ Len(pHeadEntry) = PidSize
    BY <1>1, <2>1
  <2>3. \A p \in 1 .. PidSize : pHeadEntry[p].key = ppid[p] /\ pHeadEntry[p].value = p BY <1>1
  <2> QED BY <2>2, <2>3
<1>3. /\ stack \in Seq(Killer!Pids) /\ Len(stack) = 0
      /\ pRslt \in Seq(Killer!Pids) /\ Len(pRslt) = 1 /\ pRslt[1] = kill
  BY <1>1
<1>4. ToSet(stack) = {} /\ ToSet(pRslt) = {kill}
  <2>1. ToSet(stack) = {} BY <1>1, <1>3, ToSetIs
  <2>2. \A m : m \in ToSet(pRslt) <=> \E i \in 1 .. Len(pRslt) : pRslt[i] = m BY <1>3, ToSetIs
  <2> QED BY <1>3, <2>1, <2>2
<1>5. Killer!TypeOK BY <1>1, <1>2, <1>3 DEF Killer!TypeOK
<1>6. KillFound
  <2>1. Descends(ppid, kill, kill) BY <1>1, DescendsByParent
  <2> QED BY <1>1, <1>3, <1>4, <2>1 DEF KillFound, AllDiffer
<1>7. KillTable BY <1>1, <1>2, <1>4 DEF KillTable, Killer!Pids
<1> QED BY <1>1, <1>5, <1>6, <1>7 DEF KillInv

\* A child found goes from the table to the stack.
LEMMA PushChildKeeps == KillInv /\ Killer!PushChild => KillInv'
<1> SUFFICES ASSUME KillInv, Killer!PushChild PROVE KillInv' OBVIOUS
<1> DEFINE T == pHeadEntry
           Entry == [key : 0 .. PidSize, value : Killer!Pids]
<1>1. /\ kill \in Killer!Pids /\ ppid \in Killer!Trees /\ ppid \in [Killer!Pids -> 0 .. PidSize]
      /\ pRslt \in Seq(Killer!Pids) /\ stack \in Seq(Killer!Pids)
      /\ T \in Seq(Entry) /\ Len(stack) \in Nat /\ Len(T) \in Nat
      /\ DOMAIN T = 1 .. Len(T)
      /\ \A i \in 1 .. Len(T) : T[i].value \in Killer!Pids
  BY KillFacts
<1>2. PICK i \in 1 .. Len(T) :
        /\ T[i].key = killPid
        /\ stack' = Append(stack, T[i].value)
        /\ pHeadEntry' = RemoveAt(T, i)
  <2>1. PICK i \in Killer!HashFind(T, killPid) :
          stack' = Append(stack, T[i].value) /\ pHeadEntry' = Killer!HashDel(T, i)
    BY DEF Killer!PushChild, Killer!Children
  <2>2. i \in 1 .. Len(T) /\ T[i].key = killPid BY <1>1, <2>1 DEF Killer!HashFind
  <2>3. Killer!HashDel(T, i) = RemoveAt(T, i) BY DEF Killer!HashDel, Killer!RemoveAt, RemoveAt
  <2> QED BY <2>1, <2>2, <2>3
<1>3. killAt = "loop" /\ UNCHANGED <<ppid, kill, killPid, pRslt, killAt>>
  BY DEF Killer!PushChild
<1>4. KillFound /\ KillTable BY <1>3 DEF KillInv
<1>5. PICK c : c = T[i].value OBVIOUS
<1>6. c \in Killer!Pids /\ ppid[c] = killPid BY <1>1, <1>2, <1>4, <1>5 DEF KillTable
<1>7. c # kill
  <2>1. ~Descends(ppid, kill, ppid[kill]) BY <1>1, DescendsByParent
  <2>2. Descends(ppid, kill, killPid) BY <1>4 DEF KillFound
  <2> QED BY <1>6, <2>1, <2>2
<1>8. Descends(ppid, kill, c)
  <2>1. \A q \in Killer!Pids :
          q # kill => (Descends(ppid, kill, q) <=> Descends(ppid, kill, ppid[q]))
    BY <1>1, DescendsByParent
  <2>2. Descends(ppid, kill, killPid) BY <1>4 DEF KillFound
  <2> QED BY <1>6, <1>7, <2>1, <2>2
<1>9. c \notin ToSet(pRslt) \cup ToSet(stack) BY <1>2, <1>4, <1>5, <1>7 DEF KillTable
<1>10. /\ stack' \in Seq(Killer!Pids) /\ Len(stack') = Len(stack) + 1
       /\ stack'[Len(stack) + 1] = c /\ \A j \in 1 .. Len(stack) : stack'[j] = stack[j]
  BY <1>1, <1>2, <1>5, <1>6, AppendProperties
<1>11. ToSet(stack') = ToSet(stack) \cup {c} BY <1>1, <1>2, <1>5, <1>6, ToSetAppend
<1>12. /\ T' \in Seq(Entry) /\ Len(T') = Len(T) - 1
       /\ \A j \in 1 .. Len(T) - 1 : T'[j] = IF j < i THEN T[j] ELSE T[j + 1]
  <2>1. T \in Seq(Entry) BY <1>1
  <2>2. /\ RemoveAt(T, i) \in Seq(Entry) /\ Len(RemoveAt(T, i)) = Len(T) - 1
        /\ \A j \in 1 .. Len(T) - 1 : RemoveAt(T, i)[j] = IF j < i THEN T[j] ELSE T[j + 1]
    BY ONLY <2>1, i \in 1 .. Len(T), RemoveAtProperties
  <2> QED BY <1>2, <2>2
<1>13. Killer!TypeOK' BY <1>1, <1>3, <1>10, <1>12 DEF KillInv, Killer!TypeOK
<1>14. KillFound'
  <2>1. AllDiffer(stack')
    <3>1. \A j \in 1 .. Len(stack) : stack[j] # c BY <1>1, <1>9, ToSetIs
    <3> SUFFICES ASSUME NEW j \in 1 .. Len(stack) + 1, NEW k \in 1 .. Len(stack) + 1,
                        stack'[j] = stack'[k]
                 PROVE  j = k
      BY <1>10 DEF AllDiffer
    <3>2. CASE j = Len(stack) + 1 \/ k = Len(stack) + 1
      <4>1. \A m \in 1 .. Len(stack) + 1 : m = Len(stack) + 1 \/ m \in 1 .. Len(stack)
        <5>1. Len(stack) \in Nat BY <1>1
        <5> QED BY <5>1
      <4>2. \A m \in 1 .. Len(stack) : stack'[m] # c BY <1>10, <3>1
      <4>3. stack'[Len(stack) + 1] = c BY <1>10
      <4> QED BY <3>2, <4>1, <4>2, <4>3
    <3>3. CASE j \in 1 .. Len(stack) /\ k \in 1 .. Len(stack)
      BY <1>4, <1>10, <3>3 DEF KillFound, AllDiffer
    <3> QED BY <1>1, <3>2, <3>3
  <2>2. AllDiffer(pRslt)' BY <1>3, <1>4 DEF KillFound
  <2>3. ToSet(pRslt)' = ToSet(pRslt) BY <1>3
  <2> QED BY <1>3, <1>4, <1>8, <1>9, <1>11, <2>1, <2>2, <2>3 DEF KillFound
<1>15. \A j \in 1 .. Len(T') :
         \E k \in 1 .. Len(T) : k # i /\ T'[j] = T[k]
  <2> SUFFICES ASSUME NEW j \in 1 .. Len(T) - 1
               PROVE  \E k \in 1 .. Len(T) : k # i /\ T'[j] = T[k]
    BY <1>12
  <2> DEFINE k == IF j < i THEN j ELSE j + 1
  <2>1. Len(T) \in Nat BY <1>1
  <2>2. k \in 1 .. Len(T) /\ k # i BY <2>1
  <2>3. T'[j] = T[k] BY <1>12
  <2> QED BY <2>2, <2>3
<1>16. \A k \in 1 .. Len(T) : k # i => \E j \in 1 .. Len(T') : T'[j] = T[k]
  <2> SUFFICES ASSUME NEW k \in 1 .. Len(T), k # i
               PROVE  \E j \in 1 .. Len(T) - 1 : T'[j] = T[k]
    BY <1>12
  <2> DEFINE j == IF k < i THEN k ELSE k - 1
  <2>1. Len(T) \in Nat BY <1>1
  <2>2. j \in 1 .. Len(T) - 1 /\ k = IF j < i THEN j ELSE j + 1 BY <2>1
  <2> HIDE DEF j
  <2>3. T'[j] = T[k] BY <1>12, <2>2
  <2> QED BY <2>2, <2>3
<1>17. \A j, k \in 1 .. Len(T') : T'[j].value = T'[k].value => j = k
  <2> SUFFICES ASSUME NEW j \in 1 .. Len(T) - 1, NEW k \in 1 .. Len(T) - 1,
                      T'[j].value = T'[k].value
               PROVE  j = k
    BY <1>12
  <2> DEFINE a == IF j < i THEN j ELSE j + 1
             b == IF k < i THEN k ELSE k + 1
  <2>1. a \in 1 .. Len(T) /\ b \in 1 .. Len(T) /\ (a = b => j = k)
    <3>1. Len(T) \in Nat BY <1>1
    <3> QED BY <3>1
  <2>2. T'[j] = T[a] /\ T'[k] = T[b] BY <1>12
  <2> HIDE DEF a, b
  <2>3. T[a].value = T[b].value BY <2>2
  <2>4. a = b BY <1>4, <2>1, <2>3 DEF KillTable
  <2> QED BY <2>1, <2>4
<1>18. KillTable'
  <2>1. ToSet(pRslt)' = ToSet(pRslt) /\ ToSet(stack)' = ToSet(stack) \cup {c} BY <1>3, <1>11
  <2>2. \A k \in 1 .. Len(T) :
          /\ T[k].key = ppid[T[k].value]
          /\ T[k].value \in ToSet(pRslt) \cup ToSet(stack) => T[k].value = kill
          /\ T[k].key \in ToSet(pRslt) => T[k].key = killPid
          /\ k # i => T[k].value # c
    BY <1>4, <1>5 DEF KillTable
  <2>3. \A j \in 1 .. Len(T') :
          /\ T'[j].key = ppid[T'[j].value]
          /\ T'[j].value \in ToSet(pRslt) \cup (ToSet(stack) \cup {c}) => T'[j].value = kill
          /\ T'[j].key \in ToSet(pRslt) => T'[j].key = killPid
    BY <1>15, <2>2
  <2>4. \A p \in Killer!Pids :
          \/ p \in ToSet(pRslt) \cup (ToSet(stack) \cup {c})
          \/ \E j \in 1 .. Len(T') : T'[j].value = p
    BY <1>4, <1>5, <1>16 DEF KillTable
  <2> QED BY <1>3, <1>17, <2>1, <2>3, <2>4 DEF KillTable
<1> QED BY <1>1, <1>3, <1>13, <1>14, <1>18 DEF KillInv

\* Without its last place, a sequence of different processes has one less.
LEMMA FrontHasOthers ==
    ASSUME NEW S, NEW s \in Seq(S), s # <<>>, AllDiffer(s)
    PROVE  LET t == SubSeq(s, 1, Len(s) - 1)
           IN  /\ t \in Seq(S) /\ AllDiffer(t)
               /\ s[Len(s)] \in S
               /\ ToSet(t) = ToSet(s) \ {s[Len(s)]}
               /\ s[Len(s)] \in ToSet(s)
<1> DEFINE t == SubSeq(s, 1, Len(s) - 1)
<1>1. PICK n \in Nat : n = Len(s) BY LenProperties
<1>2. n # 0 /\ n \in 1 .. n BY <1>1, EmptySeq
<1>3. \A i \in 1 .. n : s[i] \in S BY <1>1, LenProperties
<1>4. /\ t \in Seq(S) /\ Len(t) = n - 1
      /\ \A i \in 1 .. n - 1 : t[i] = s[i]
  BY <1>1, <1>2, FrontIs
<1> HIDE DEF t
<1>5. AllDiffer(t) BY <1>1, <1>4 DEF AllDiffer
<1>6. \A m : m \in ToSet(s) <=> \E i \in 1 .. n : s[i] = m BY <1>1, ToSetIs
<1>7. \A m : m \in ToSet(t) <=> \E i \in 1 .. n - 1 : t[i] = m BY <1>4, ToSetIs
<1>8. ToSet(t) = ToSet(s) \ {s[n]}
  <2>1. ASSUME NEW m, m \in ToSet(t) PROVE m \in ToSet(s) /\ m # s[n]
    <3>1. PICK i \in 1 .. n - 1 : t[i] = m BY <1>7, <2>1
    <3>2. i \in 1 .. n /\ i # n /\ s[i] = m BY <1>4, <3>1
    <3>3. s[i] # s[n] BY <1>1, <1>2, <3>2 DEF AllDiffer
    <3> QED BY <1>6, <3>2, <3>3
  <2>2. ASSUME NEW m, m \in ToSet(s), m # s[n] PROVE m \in ToSet(t)
    <3>1. PICK i \in 1 .. n : s[i] = m BY <1>6, <2>2
    <3>2. i \in 1 .. n - 1 BY <2>2, <3>1
    <3> QED BY <1>4, <1>7, <3>1, <3>2
  <2> QED BY <2>1, <2>2
<1>9. s[n] \in S /\ s[n] \in ToSet(s) BY <1>2, <1>3, <1>6
<1> QED BY <1>1, <1>4, <1>5, <1>8, <1>9 DEF t

\* Nobody is left to find below the last process: the next one comes off the
\* stack.
LEMMA NextProcessKeeps == KillInv /\ Killer!NextProcess => KillInv'
<1> SUFFICES ASSUME KillInv, Killer!NextProcess PROVE KillInv' OBVIOUS
<1>1. /\ kill \in Killer!Pids /\ ppid \in Killer!Trees
      /\ pRslt \in Seq(Killer!Pids) /\ stack \in Seq(Killer!Pids)
      /\ Len(pRslt) \in Nat
      /\ DOMAIN pHeadEntry = 1 .. Len(pHeadEntry)
  BY KillFacts
<1>2. PICK c : c = stack[Len(stack)] OBVIOUS
<1>3. /\ killAt = "loop" /\ stack # <<>>
      /\ killPid' = c
      /\ stack' = SubSeq(stack, 1, Len(stack) - 1)
      /\ pRslt' = Append(pRslt, c)
      /\ UNCHANGED <<ppid, kill, pHeadEntry, killAt>>
  BY <1>2 DEF Killer!NextProcess, Killer!Last, Killer!Front
<1>4. \A i \in 1 .. Len(pHeadEntry) : pHeadEntry[i].key # killPid
  BY <1>1 DEF Killer!NextProcess, Killer!Children, Killer!HashFind
<1>5. KillFound /\ KillTable BY <1>3 DEF KillInv
<1>6. AllDiffer(stack) /\ AllDiffer(pRslt) BY <1>5 DEF KillFound
<1>7. /\ stack' \in Seq(Killer!Pids) /\ AllDiffer(stack')
      /\ c \in Killer!Pids /\ ToSet(stack') = ToSet(stack) \ {c} /\ c \in ToSet(stack)
  BY <1>1, <1>2, <1>3, <1>6, FrontHasOthers
<1>8. /\ pRslt' \in Seq(Killer!Pids) /\ Len(pRslt') = Len(pRslt) + 1
      /\ pRslt'[Len(pRslt) + 1] = c /\ \A j \in 1 .. Len(pRslt) : pRslt'[j] = pRslt[j]
  BY <1>1, <1>3, <1>7, AppendProperties
<1>9. ToSet(pRslt') = ToSet(pRslt) \cup {c} BY <1>1, <1>3, <1>7, ToSetAppend
<1>10. c \notin ToSet(pRslt) BY <1>5, <1>7 DEF KillFound
<1>11. Killer!TypeOK' BY <1>3, <1>7, <1>8 DEF KillInv, Killer!TypeOK
<1>12. AllDiffer(pRslt')
  <2>1. \A j \in 1 .. Len(pRslt) : pRslt[j] # c BY <1>1, <1>10, ToSetIs
  <2> SUFFICES ASSUME NEW j \in 1 .. Len(pRslt) + 1, NEW k \in 1 .. Len(pRslt) + 1,
                      pRslt'[j] = pRslt'[k]
               PROVE  j = k
    BY <1>8 DEF AllDiffer
  <2>2. CASE j = Len(pRslt) + 1 \/ k = Len(pRslt) + 1 BY <1>1, <1>8, <2>1, <2>2
  <2>3. CASE j \in 1 .. Len(pRslt) /\ k \in 1 .. Len(pRslt)
    BY <1>6, <1>8, <2>3 DEF AllDiffer
  <2> QED BY <1>1, <2>2, <2>3
<1>13. ToSet(pRslt') \cup ToSet(stack') = ToSet(pRslt) \cup ToSet(stack) BY <1>7, <1>9
<1>14. KillFound'
  BY <1>3, <1>5, <1>7, <1>9, <1>10, <1>12, <1>13 DEF KillFound
<1>15. KillTable'
  <2>1. \A i \in 1 .. Len(pHeadEntry) : pHeadEntry[i].key \in ToSet(pRslt) => FALSE
    BY <1>4, <1>5 DEF KillTable
  <2>2. \A i \in 1 .. Len(pHeadEntry) : pHeadEntry[i].key \in ToSet(pRslt') => pHeadEntry[i].key = c
    BY <1>9, <2>1
  <2> QED BY <1>3, <1>5, <1>13, <2>2 DEF KillTable
<1> QED BY <1>1, <1>3, <1>11, <1>14, <1>15 DEF KillInv

\* At the end nobody is left: a descendant not named would have a parent not
\* named, and so on up to the killed process.
LEMMA FinishKeeps == KillInv /\ Killer!Finish => KillInv'
<1> SUFFICES ASSUME KillInv, Killer!Finish PROVE KillInv' OBVIOUS
<1>1. /\ kill \in Killer!Pids /\ ppid \in Killer!Trees
      /\ stack \in Seq(Killer!Pids) /\ ToSet(pRslt) \subseteq Killer!Pids
      /\ DOMAIN pHeadEntry = 1 .. Len(pHeadEntry)
  BY KillFacts
<1>2. /\ killAt = "loop" /\ stack = <<>> /\ killAt' = "done" /\ pHeadEntry' = <<>>
      /\ UNCHANGED <<ppid, kill, killPid, stack, pRslt>>
      /\ Killer!Children = {}
  BY DEF Killer!Finish
<1>3. \A i \in 1 .. Len(pHeadEntry) : pHeadEntry[i].key # killPid
  BY <1>1, <1>2 DEF Killer!Children, Killer!HashFind
<1>4. KillFound /\ KillTable BY <1>2 DEF KillInv
<1>5. ToSet(stack) = {} BY <1>1, <1>2, ToSetIs
<1>6. ASSUME NEW q \in Killer!Pids, ppid[q] \in ToSet(pRslt) PROVE q \in ToSet(pRslt)
  <2> SUFFICES ASSUME q \notin ToSet(pRslt) PROVE FALSE OBVIOUS
  <2>1. PICK i \in 1 .. Len(pHeadEntry) : pHeadEntry[i].value = q BY <1>4, <1>5 DEF KillTable
  <2>2. pHeadEntry[i].key = ppid[q] BY <1>4, <2>1 DEF KillTable
  <2> QED BY <1>3, <1>4, <1>6, <2>2 DEF KillTable
<1>7. \A q \in Killer!Pids : Descends(ppid, kill, q) => q \in ToSet(pRslt)
  <2>1. kill \in ToSet(pRslt) BY <1>4 DEF KillFound
  <2>2. \A q \in Killer!Pids :
          ppid[q] \in ToSet(pRslt) /\ Descends(ppid, kill, ppid[q]) => q \in ToSet(pRslt)
    BY <1>6
  <2> QED BY <1>1, <2>1, <2>2, DescendantsAreIn
<1>8. ToSet(pRslt) = Killer!Doomed
  BY <1>1, <1>4, <1>7 DEF KillFound, Killer!Doomed, Descends
<1>9. Killer!TypeOK' BY <1>2 DEF KillInv, Killer!TypeOK
<1>10. KillFound' BY <1>2, <1>4 DEF KillFound
<1>11. (ToSet(pRslt) = Killer!Doomed)' BY <1>2, <1>8 DEF Killer!Doomed
<1> QED BY <1>1, <1>2, <1>9, <1>10, <1>11 DEF KillInv

\* Every step of killProcess keeps the invariant.
LEMMA KillNextKeeps == KillInv /\ Killer!Next => KillInv'
BY PushChildKeeps, NextProcessKeeps, FinishKeeps DEF Killer!Next

\* The result is not longer than there are processes, as it names none twice.
LEMMA KillInvShows == KillInv => KillsDescendants
<1> SUFFICES ASSUME KillInv PROVE KillsDescendants OBVIOUS
<1>1. /\ pRslt \in Seq(Killer!Pids) /\ Len(pRslt) \in Nat
      /\ ToSet(pRslt) \subseteq Killer!Pids /\ ToSet(stack) \subseteq Killer!Pids
  BY KillFacts
<1>2. KillFound /\ Killer!TypeOK BY DEF KillInv
<1>3. PidSize \in Nat BY SequentialAssumption
<1>4. AllDiffer(pRslt) BY <1>2 DEF KillFound
<1>5. pRslt \in [1 .. Len(pRslt) -> 1 .. PidSize] /\ DOMAIN pRslt = 1 .. Len(pRslt)
  BY <1>1, LenProperties DEF Killer!Pids
<1>6. Len(pRslt) <= PidSize
  <2>1. pRslt \in Injection(1 .. Len(pRslt), 1 .. PidSize)
    BY <1>4, <1>5, Fun_IsInj DEF AllDiffer
  <2>2. /\ IsFiniteSet(1 .. PidSize) /\ Cardinality(1 .. PidSize) = PidSize
        /\ Cardinality(1 .. Len(pRslt)) = Len(pRslt)
    <3>1. Len(pRslt) \in Nat BY <1>1
    <3> QED BY <1>3, <3>1, CardinalityUpTo
  <2>3. Cardinality(1 .. Len(pRslt)) <= Cardinality(1 .. PidSize) BY <2>1, <2>2, FS_Injection
  <2> QED BY <2>2, <2>3
<1>7. \A S : Killer!ToSet(S) = ToSet(S) BY DEF Killer!ToSet, ToSet
<1>8. ToSet(pRslt) \cup ToSet(stack) \subseteq Killer!Doomed
  BY <1>1, <1>2 DEF KillFound, Descends, Killer!Doomed
<1>9. killAt = "done" => ToSet(pRslt) = Killer!Doomed BY DEF KillInv
<1>10. \A i, j \in DOMAIN pRslt : pRslt[i] = pRslt[j] => i = j BY <1>4, <1>5 DEF AllDiffer
<1>11. Len(pRslt) <= 2 * PidSize BY <1>1, <1>3, <1>6
<1>12. Killer!KillsDescendants BY <1>7, <1>8, <1>9, <1>10, <1>11 DEF Killer!KillsDescendants
<1> QED BY <1>2, <1>12 DEF KillsDescendants
-------------------------------------------------------------------------------
(* The size of the lock-free FIFO.                                         *)

\* What a size that is a power of two must be not to exceed 2^15, the largest
\* for which cursors of 16 bits tell full from empty.  The exponents are those
\* of an int, and are gone through one by one.
LEMMA PowersOfTwo ==
    ASSUME NEW i \in 0 .. 31
    PROVE  /\ 2^i \in Nat \ {0} /\ 2^(i + 1) = 2 * 2^i
           /\ 2^i <= 2^15 => i <= 15 /\ 2^16 % 2^i = 0 /\ 2 * 2^i <= 2^16
<1>1. CASE i = 0 BY <1>1
<1>2. CASE i = 1 BY <1>2
<1>3. CASE i = 2 BY <1>3
<1>4. CASE i = 3 BY <1>4
<1>5. CASE i = 4 BY <1>5
<1>6. CASE i = 5 BY <1>6
<1>7. CASE i = 6 BY <1>7
<1>8. CASE i = 7 BY <1>8
<1>9. CASE i = 8 BY <1>9
<1>10. CASE i = 9 BY <1>10
<1>11. CASE i = 10 BY <1>11
<1>12. CASE i = 11 BY <1>12
<1>13. CASE i = 12 BY <1>13
<1>14. CASE i = 13 BY <1>14
<1>15. CASE i = 14 BY <1>15
<1>16. CASE i = 15 BY <1>16
<1>17. CASE i = 16 BY <1>17
<1>18. CASE i = 17 BY <1>18
<1>19. CASE i = 18 BY <1>19
<1>20. CASE i = 19 BY <1>20
<1>21. CASE i = 20 BY <1>21
<1>22. CASE i = 21 BY <1>22
<1>23. CASE i = 22 BY <1>23
<1>24. CASE i = 23 BY <1>24
<1>25. CASE i = 24 BY <1>25
<1>26. CASE i = 25 BY <1>26
<1>27. CASE i = 26 BY <1>27
<1>28. CASE i = 27 BY <1>28
<1>29. CASE i = 28 BY <1>29
<1>30. CASE i = 29 BY <1>30
<1>31. CASE i = 30 BY <1>31
<1>32. CASE i = 31 BY <1>32
<1> QED
  BY <1>1, <1>2, <1>3, <1>4, <1>5, <1>6, <1>7, <1>8, <1>9, <1>10, <1>11,
     <1>12, <1>13, <1>14, <1>15, <1>16, <1>17, <1>18, <1>19, <1>20, <1>21, <1>22,
     <1>23, <1>24, <1>25, <1>26, <1>27, <1>28, <1>29, <1>30, <1>31, <1>32

\* A number whose highest bit is not set is below the half.
LEMMA BelowHalf ==
    ASSUME NEW k \in Nat \ {0}, NEW n \in Nat, n < 2 * k, (n \div k) % 2 # 1
    PROVE  n < k
OBVIOUS

\* The first mask of the scan is four bits below the top of a word.
LEMMA MaskFacts ==
    /\ WordBits \in 20 .. 32 /\ Sizing!FirstMask \in 15 .. 27
    /\ WordBits = Sizing!FirstMask + 5
BY SizingAssumption DEF Sizing!FirstMask

\* A number whose bits from b to the first mask are zero is below 2^b.
LEMMA HighBitsZero ==
    ASSUME NEW n \in Nat, n < 2^(Sizing!FirstMask + 1), NEW b \in 0 .. Sizing!FirstMask + 1,
           \A c \in b .. Sizing!FirstMask : ~Sizing!BitSet(n, c)
    PROVE  n < 2^b
<1>1. PICK m \in 16 .. 28 : m = Sizing!FirstMask + 1 BY MaskFacts
<1>2. /\ n < 2^m /\ b \in 0 .. m /\ \A c \in b .. m - 1 : ~Sizing!BitSet(n, c)
  <2>1. Sizing!FirstMask = m - 1 BY <1>1, MaskFacts
  <2> QED BY <1>1, <2>1
<1> DEFINE S == {d \in Nat : d <= m - b => n < 2^(m - d)}
<1>3. 0 \in S
  <2>1. m - 0 = m OBVIOUS
  <2> QED BY <1>2, <2>1
<1>4. ASSUME NEW d \in Nat, d \in S PROVE d + 1 \in S
  <2> SUFFICES ASSUME d + 1 <= m - b PROVE n < 2^(m - (d + 1)) OBVIOUS
  <2>1. PICK c \in b .. m - 1 : c = (m - 1) - d
    <3>1. b \in Nat /\ (m - 1) - d \in b .. m - 1 OBVIOUS
    <3> QED BY <3>1
  <2>2. m - d = c + 1 /\ m - (d + 1) = c BY <2>1
  <2>3. n < 2^(c + 1) BY <1>4, <2>2
  <2>4. 2^c \in Nat \ {0} /\ 2^(c + 1) = 2 * 2^c
    <3>1. c \in 0 .. 31 BY <2>1
    <3> QED BY <3>1, PowersOfTwo
  <2>5. (n \div 2^c) % 2 # 1 BY <1>2 DEF Sizing!BitSet
  <2>6. n < 2^c BY <2>3, <2>4, <2>5, BelowHalf
  <2> QED BY <2>2, <2>6
<1>5. m - b \in Nat BY <1>2
<1>6. m - b \in S
  <2> HIDE DEF S
  <2> QED BY <1>3, <1>4, <1>5, SetInduction
<1>7. m - (m - b) = b OBVIOUS
<1> QED BY <1>5, <1>6, <1>7

\* The scan starts four bits too low for what it answers, so a size with no bit
\* above the first mask is adjusted to a power of two that is large enough all
\* the same, and no more than 16 times what was asked for.
LEMMA AdjustedIsEnough ==
    ASSUME NEW n \in Nat, n < 2^(Sizing!FirstMask + 1)
    PROVE  \E i \in 0 .. WordBits - 1 :
               /\ Sizing!AdjustedSize2n(n) = {2^i} /\ n <= 2^i
               /\ n > 0 => 2^i <= 16 * n
<1>1. PICK f \in 15 .. 27 : f = Sizing!FirstMask /\ WordBits = f + 5 BY MaskFacts
<1> DEFINE hits == {i \in 0 .. f : Sizing!BitSet(n, f - i)}
<1>2. Sizing!FirstBit1(n) = IF hits = {} THEN 0 ELSE WordBits - 1 - Sizing!Min(hits)
  BY <1>1 DEF Sizing!FirstBit1
<1>3. ASSUME NEW i \in 0 .. WordBits - 1, Sizing!FirstBit1(n) = i, n <= 2^i
      PROVE  Sizing!AdjustedSize2n(n) = {2^i}
  <2>1. 2^i \in Nat
    <3>1. i \in 0 .. 31 BY <1>1
    <3> QED BY <3>1, PowersOfTwo
  <2>2. ~(2^i < n) BY <1>3, <2>1
  <2>3. Sizing!ShiftedOne(i) = {2^i} BY <1>1 DEF Sizing!ShiftedOne
  <2>4. Sizing!AdjustedSize2n(n)
          = IF 2^i < n THEN Sizing!ShiftedOne(i + 1) ELSE Sizing!ShiftedOne(i)
    BY <1>3 DEF Sizing!AdjustedSize2n
  <2> QED BY <2>2, <2>3, <2>4
<1>4. CASE hits = {}
  <2>1. ASSUME NEW c \in 0 .. f PROVE ~Sizing!BitSet(n, c)
    <3>1. f - c \in 0 .. f /\ f - (f - c) = c OBVIOUS
    <3> QED BY <1>4, <3>1
  <2>2. 0 \in 0 .. f + 1 OBVIOUS
  <2>3. n < 2^0 BY <1>1, <2>1, <2>2, HighBitsZero
  <2>4. n <= 2^0 /\ 0 \in 0 .. WordBits - 1 BY <1>1, <2>3
  <2>5. Sizing!FirstBit1(n) = 0 BY <1>2, <1>4
  <2>6. ~(n > 0) BY <2>3
  <2> QED BY <1>3, <2>4, <2>5, <2>6
<1>5. CASE hits # {}
  <2>1. PICK m \in 0 .. f : m = Sizing!Min(hits) /\ m \in hits /\ \A y \in hits : m <= y
    <3>1. hits \in SUBSET Nat OBVIOUS
    <3> HIDE DEF hits
    <3>2. Min(hits) \in hits /\ \A y \in hits : Min(hits) <= y BY <1>5, <3>1, MinIsLeast
    <3>3. Sizing!Min(hits) = Min(hits) BY DEF Sizing!Min, Min
    <3>4. \A y \in hits : y \in 0 .. f BY DEF hits
    <3> QED BY <3>2, <3>3, <3>4
  <2>2. PICK t \in 0 .. f : t = f - m OBVIOUS
  <2>3. n < 2^(t + 1)
    <3>1. ASSUME NEW c \in t + 1 .. f PROVE ~Sizing!BitSet(n, c)
      <4>1. f - c \in 0 .. f /\ f - (f - c) = c /\ ~(m <= f - c) BY <2>2
      <4> QED BY <2>1, <4>1
    <3>2. t + 1 \in 0 .. f + 1 OBVIOUS
    <3> QED BY <1>1, <3>1, <3>2, HighBitsZero
  <2>4. PICK i \in 0 .. 31 : i = t + 4 OBVIOUS
  <2>5. 2^(t + 1) <= 2^i /\ 2^i \in Nat /\ 2^(t + 1) \in Nat
    <3>1. /\ t + 1 \in 0 .. 31 /\ t + 2 \in 0 .. 31 /\ t + 3 \in 0 .. 31
          /\ (t + 1) + 1 = t + 2 /\ (t + 2) + 1 = t + 3 /\ (t + 3) + 1 = i
      BY <2>4
    <3>2. 2^(t + 1) \in Nat /\ 2^(t + 2) = 2 * 2^(t + 1) BY <3>1, PowersOfTwo
    <3>3. 2^(t + 2) \in Nat /\ 2^(t + 3) = 2 * 2^(t + 2) BY <3>1, PowersOfTwo
    <3>4. 2^(t + 3) \in Nat /\ 2^i = 2 * 2^(t + 3) BY <3>1, PowersOfTwo
    <3> QED BY <3>2, <3>3, <3>4
  <2>6. n <= 2^i BY <2>3, <2>5
  <2>7. i \in 0 .. WordBits - 1 /\ WordBits - 1 - m = i BY <1>1, <2>2, <2>4
  <2>8. Sizing!FirstBit1(n) = i
    <3> HIDE DEF hits
    <3> QED BY <1>2, <1>5, <2>1, <2>7
  <2>9. 2^i <= 16 * n
    <3>1. f - m = t /\ t \in 0 .. 31 BY <2>2
    <3>2. (n \div 2^t) % 2 = 1 BY <2>1, <3>1 DEF Sizing!BitSet
    <3>3. PICK k \in Nat \ {0} : k = 2^t BY <3>1, PowersOfTwo
    <3>4. n >= k BY <3>2, <3>3
    <3>5. 2^(t + 1) = 2 * k BY <3>1, <3>3, PowersOfTwo
    <3>6. 2^i = 8 * 2^(t + 1)
      <4>1. /\ t + 1 \in 0 .. 31 /\ t + 2 \in 0 .. 31 /\ t + 3 \in 0 .. 31
            /\ (t + 1) + 1 = t + 2 /\ (t + 2) + 1 = t + 3 /\ (t + 3) + 1 = i
        BY <2>4
      <4>2. 2^(t + 1) \in Nat /\ 2^(t + 2) = 2 * 2^(t + 1) BY <4>1, PowersOfTwo
      <4>3. 2^(t + 2) \in Nat /\ 2^(t + 3) = 2 * 2^(t + 2) BY <4>1, PowersOfTwo
      <4>4. 2^(t + 3) \in Nat /\ 2^i = 2 * 2^(t + 3) BY <4>1, PowersOfTwo
      <4> QED BY <4>2, <4>3, <4>4
    <3> QED BY <3>3, <3>4, <3>5, <3>6
  <2> QED BY <1>3, <2>6, <2>7, <2>8, <2>9
<1> QED BY <1>4, <1>5

\* The answer to a request is one create_msg_fifo_without_lock gives.
SizingInv ==
    /\ request \in Nat
    /\ \/ request = 0 /\ size = Sizing!Refused
       \/ size \in Sizing!CreateMsgFifo(request)

\* Nothing was answered yet.
LEMMA SizingInitKeeps == Sizing!Init => SizingInv
BY DEF Sizing!Init, SizingInv

\* An answer is one that create_msg_fifo_without_lock gives.
LEMMA SizingNextKeeps == SizingInv /\ Sizing!Next => SizingInv'
BY SequentialAssumption DEF Sizing!Next, SizingInv, Sizing!CreateMsgFifo

\* A power of two is a number, whatever a shift of one gives.
LEMMA ShiftsAreNumbers == ASSUME NEW n \in Nat, NEW a \in Sizing!AdjustedSize2n(n) PROVE a \in Nat
<1>1. \A i \in Nat : Sizing!ShiftedOne(i) \subseteq Nat
  <2> SUFFICES ASSUME NEW i \in Nat PROVE Sizing!ShiftedOne(i) \subseteq Nat OBVIOUS
  <2>1. CASE i < WordBits
    <3>1. i \in 0 .. 31 BY <2>1, MaskFacts
    <3> QED BY <2>1, <3>1, PowersOfTwo DEF Sizing!ShiftedOne
  <2>2. CASE ~(i < WordBits) BY <2>2 DEF Sizing!ShiftedOne
  <2> QED BY <2>1, <2>2
<1>2. Sizing!FirstBit1(n) \in Nat
  <2>1. PICK f \in 15 .. 27 : f = Sizing!FirstMask /\ WordBits = f + 5 BY MaskFacts
  <2> DEFINE hits == {i \in 0 .. f : Sizing!BitSet(n, f - i)}
  <2>2. Sizing!FirstBit1(n) = IF hits = {} THEN 0 ELSE WordBits - 1 - Sizing!Min(hits)
    BY <2>1 DEF Sizing!FirstBit1
  <2>3. hits # {} => Sizing!Min(hits) \in 0 .. f
    <3>1. hits \in SUBSET Nat /\ \A y \in hits : y \in 0 .. f OBVIOUS
    <3> HIDE DEF hits
    <3>2. hits # {} => Min(hits) \in hits BY <3>1, MinIsLeast
    <3>3. Sizing!Min(hits) = Min(hits) BY DEF Sizing!Min, Min
    <3> QED BY <3>1, <3>2, <3>3
  <2> HIDE DEF hits
  <2> QED BY <2>1, <2>2, <2>3
<1> QED BY <1>1, <1>2 DEF Sizing!AdjustedSize2n

\* A size that was not refused is at most 2^15.  For a request below the bits that
\* the scan misses it is a power of two and large enough; the others are larger
\* than any size that is accepted.  A small request is adjusted to no more than the
\* maximum.
LEMMA SizingInvShows == SizingInv => SizeIsUsable
<1> SUFFICES ASSUME SizingInv PROVE Sizing!SizeIsUsable BY DEF SizeIsUsable
<1>1. request \in Nat /\ MsgFifoMax \in Nat /\ MsgFifoMax <= 2^15
  BY SequentialAssumption, SizingAssumption DEF SizingInv
<1>2. PICK f \in 15 .. 27 : f = Sizing!FirstMask /\ WordBits = f + 5 BY MaskFacts
<1>3. PICK limit \in Nat : limit = 2^(f + 1) /\ 2^15 < limit /\ limit <= 2^WordBits
  <2>1. f + 1 \in 16 .. 28 /\ f + 5 = (f + 1) + 4 OBVIOUS
  <2>2. 2^(f + 1) \in Nat /\ 2^15 < 2^(f + 1)
    <3>1. f + 1 \in 0 .. 31 /\ ~(f + 1 <= 15) BY <2>1
    <3>2. 2^(f + 1) \in Nat /\ ~(2^(f + 1) <= 2^15) BY <3>1, PowersOfTwo
    <3>3. 2^15 \in Nat OBVIOUS
    <3> QED BY <3>2, <3>3
  <2>3. 2^(f + 1) <= 2^(f + 5)
    <3>1. /\ f + 1 \in 0 .. 31 /\ f + 2 \in 0 .. 31 /\ f + 3 \in 0 .. 31 /\ f + 4 \in 0 .. 31
          /\ (f + 1) + 1 = f + 2 /\ (f + 2) + 1 = f + 3 /\ (f + 3) + 1 = f + 4
          /\ (f + 4) + 1 = f + 5
      OBVIOUS
    <3>2. 2^(f + 1) \in Nat /\ 2^(f + 2) = 2 * 2^(f + 1) BY <3>1, PowersOfTwo
    <3>3. 2^(f + 2) \in Nat /\ 2^(f + 3) = 2 * 2^(f + 2) BY <3>1, PowersOfTwo
    <3>4. 2^(f + 3) \in Nat /\ 2^(f + 4) = 2 * 2^(f + 3) BY <3>1, PowersOfTwo
    <3>5. 2^(f + 4) \in Nat /\ 2^(f + 5) = 2 * 2^(f + 4) BY <3>1, PowersOfTwo
    <3> QED BY <3>2, <3>3, <3>4, <3>5
  <2> QED BY <1>2, <2>2, <2>3
<1>4. PICK n \in Nat : n = request % 2^WordBits
  <2>1. 2^WordBits \in Nat \ {0}
    <3>1. f + 4 \in 0 .. 31 /\ (f + 4) + 1 = WordBits BY <1>2
    <3>2. 2^(f + 4) \in Nat \ {0} /\ 2^WordBits = 2 * 2^(f + 4) BY <3>1, PowersOfTwo
    <3> QED BY <3>2
  <2> QED BY <1>1, <2>1
<1>5. request < limit => n = request
  <2> SUFFICES ASSUME request < limit PROVE n = request OBVIOUS
  <2>1. PICK w \in Nat \ {0} : w = 2^WordBits /\ request < w
    <3>1. 2^WordBits \in Nat \ {0}
      <4>1. f + 4 \in 0 .. 31 /\ (f + 4) + 1 = WordBits BY <1>2
      <4>2. 2^(f + 4) \in Nat \ {0} /\ 2^WordBits = 2 * 2^(f + 4) BY <4>1, PowersOfTwo
      <4> QED BY <4>2
    <3> QED BY <1>1, <1>3, <3>1
  <2>2. request % w = request BY <1>1, <2>1
  <2> QED BY <1>4, <2>1, <2>2
<1>6. ASSUME size # Sizing!Refused
      PROVE  /\ size >= request <=> request < limit
             /\ request < limit =>
                    Sizing!IsPowerOfTwo(size) /\ 2^16 % size = 0 /\ 2 * size <= 2^16
  <2>1. size \in Sizing!AdjustedSize2n(n) /\ ~(size > MsgFifoMax)
    BY <1>4, <1>6 DEF SizingInv, Sizing!CreateMsgFifo
  <2>2. size \in Nat BY <2>1, ShiftsAreNumbers
  <2>3. size <= 2^15
    <3>1. 2^15 \in Nat OBVIOUS
    <3> QED BY <1>1, <2>1, <2>2, <3>1
  <2>4. CASE ~(request < limit)
    <3>1. 2^15 \in Nat OBVIOUS
    <3>2. ~(size >= request) BY <1>1, <1>3, <2>2, <2>3, <2>4, <3>1
    <3> QED BY <2>4, <3>2
  <2>5. CASE request < limit
    <3>1. PICK i \in 0 .. WordBits - 1 : size = 2^i /\ request <= 2^i
      BY <1>2, <1>3, <1>5, <2>1, <2>5, AdjustedIsEnough
    <3>2. i \in 0 .. 31 BY <1>2, <3>1
    <3>3. 2^16 % size = 0 /\ 2 * size <= 2^16 BY <2>3, <3>1, <3>2, PowersOfTwo
    <3>4. size >= request BY <1>1, <2>2, <3>1
    <3>5. Sizing!IsPowerOfTwo(size) BY <3>1 DEF Sizing!IsPowerOfTwo
    <3> QED BY <2>5, <3>3, <3>4, <3>5
  <2> QED BY <2>4, <2>5
<1>7. ASSUME request > 0, 16 * request <= MsgFifoMax PROVE size # Sizing!Refused
  <2>1. request < limit
    <3>1. 2^15 \in Nat OBVIOUS
    <3> QED BY <1>1, <1>3, <1>7, <3>1
  <2>2. PICK i \in 0 .. WordBits - 1 :
            Sizing!AdjustedSize2n(request) = {2^i} /\ 2^i <= 16 * request
    BY <1>1, <1>2, <1>3, <1>7, <2>1, AdjustedIsEnough
  <2>3. 2^i \in Nat
    <3>1. i \in 0 .. 31 BY <1>2, <2>2
    <3> QED BY <3>1, PowersOfTwo
  <2>4. ~(2^i > MsgFifoMax) BY <1>1, <1>7, <2>2, <2>3
  <2>5. size \in Sizing!CreateMsgFifo(request) BY <1>1, <1>7 DEF SizingInv
  <2>6. Sizing!AdjustedSize2n(request % 2^WordBits) = {2^i} BY <1>4, <1>5, <2>1, <2>2
  <2>7. size = 2^i BY <2>4, <2>5, <2>6 DEF Sizing!CreateMsgFifo
  <2> QED BY <2>3, <2>7 DEF Sizing!Refused
<1> QED BY <1>2, <1>3, <1>6, <1>7 DEF Sizing!SizeIsUsable

-------------------------------------------------------------------------------
(* The programs together.                                                  *)

SequentialVars == <<program, listVars, circularVars, arrayVars, hashVars>>

\* A step is one of one program, and leaves the others alone.
LEMMA StepsApart ==
    ASSUME [SequentialNext]_SequentialVars
    PROVE  /\ Cache!Next \/ UNCHANGED lruVars
           /\ Menu!Next \/ UNCHANGED menuVars
           /\ Queues!Next \/ UNCHANGED queueVars
           /\ Circular!Next \/ UNCHANGED circularVars
           /\ Killer!Next \/ UNCHANGED killVars
           /\ Sizing!Next \/ UNCHANGED sizingVars
           /\ Dict!Next \/ UNCHANGED dictVars
<1>1. CASE UNCHANGED SequentialVars
  BY <1>1 DEF SequentialVars, arrayVars, hashVars
<1>2. CASE SequentialNext
  BY <1>2 DEF SequentialNext, arrayVars, hashVars, Queues!Next
<1> QED BY <1>1, <1>2

\* A step of another program is none of the caches.
LEMMA LruStepKeeps ==
    ASSUME LruInv, Cache!Next \/ UNCHANGED lruVars
    PROVE  LruInv' /\ [Cache!Abstract!Next]_<<capacity, recency, latest, lastCall>>
<1>1. CASE Cache!Next BY <1>1, LruNextKeeps
<1>2. CASE UNCHANGED lruVars
  <2>1. UNCHANGED <<sorts, capacity, hashTable, usedCnt, putCnt, open, lastCall, recency, latest>>
    BY <1>2 DEF lruVars
  <2>2. Cache!TypeOK' BY <2>1 DEF LruInv, Cache!TypeOK, Cache!Calls
  <2>3. LruInv' BY <2>1, <2>2 DEF LruInv
  <2> QED BY <2>1, <2>3
<1> QED BY <1>1, <1>2

\* Nor of the menu.
LEMMA MenuStepKeeps ==
    ASSUME MenuInv, Menu!Next \/ UNCHANGED menuVars
    PROVE  MenuInv'
<1>1. CASE Menu!Next BY <1>1, MenuNextKeeps
<1>2. CASE UNCHANGED menuVars BY <1>2 DEF menuVars, MenuInv
<1> QED BY <1>1, <1>2

\* The entries in the table of the menu are those in use, each there once, and
\* the number a cache compares with its capacity is that of its entries, never
\* more than the capacity (uthash.c, uthash_key_int.c).
THEOREM MenuEntriesInUse == SequentialSpec => []EntriesInUse
<1>1. SequentialInit => MenuInv /\ LruInv
  BY MenuInitKeeps, LruInitKeeps DEF SequentialInit
<1>2. MenuInv /\ LruInv /\ [SequentialNext]_SequentialVars => (MenuInv /\ LruInv)'
  BY StepsApart, MenuStepKeeps, LruStepKeeps
<1>3. MenuInv /\ LruInv => EntriesInUse
  <2>1. LruInv => Cache!TypeOK /\ Cache!CountInStep BY LruFacts DEF LruInv, Cache!CountInStep
  <2> QED BY <2>1, MenuInvShows DEF EntriesInUse
<1> QED BY <1>1, <1>2, <1>3, PTL DEF SequentialSpec, SequentialVars

\* Every call of both LRU caches answers for its own key as the keys used last do:
\* an entry is thrown out exactly when capacity other keys have been used since
\* (lRUCachePut, lRUCacheGet of uthash.c).
THEOREM CachesImplementLru == SequentialSpec => ImplementsLru
<1>1. SequentialInit => LruInv /\ Cache!Abstract!Init
  BY LruInitKeeps DEF SequentialInit
<1>2. LruInv /\ [SequentialNext]_SequentialVars
      => LruInv' /\ [Cache!Abstract!Next]_<<capacity, recency, latest, lastCall>>
  BY StepsApart, LruStepKeeps
<1> QED
  BY <1>1, <1>2, PTL
  DEF SequentialSpec, SequentialVars, ImplementsLru, Cache!ImplementsLru, Cache!Abstract!Spec

\* The indices and the status of both array queues say what was pushed and not
\* popped, and the sums are of that, with the two exceptions of the FIFO
\* (fifo.c, lifo.c).
THEOREM QueuesAlwaysHoldPushed == SequentialSpec => []QueuesHoldPushed
<1>1. SequentialInit => QueuesInv BY QueuesInitKeeps DEF SequentialInit
<1>2. QueuesInv /\ [SequentialNext]_SequentialVars => QueuesInv'
  BY StepsApart, QueuesStepKeeps
<1> QED BY <1>1, <1>2, QueuesInvShows, PTL DEF SequentialSpec, SequentialVars

\* The circular list is the same forwards and backwards, in the order of the
\* indices, and has exactly the packets in use, also while all are deleted; no
\* cursor is on a packet that was freed (list_linuxkernel_style.c).
THEOREM RingAlwaysHoldsPackets == SequentialSpec => []RingHoldsPackets
<1>1. SequentialInit => RingInv BY RingInitKeeps DEF SequentialInit
<1>2. RingInv /\ [SequentialNext]_SequentialVars => RingInv'
  BY StepsApart, RingStepKeeps
<1> QED BY <1>1, <1>2, RingInvShows, PTL DEF SequentialSpec, SequentialVars

\* A step of another program is none of killProcess.
LEMMA KillStepKeeps ==
    ASSUME KillInv, Killer!Next \/ UNCHANGED killVars
    PROVE  KillInv'
<1>1. CASE Killer!Next BY <1>1, KillNextKeeps
<1>2. CASE UNCHANGED killVars
  <2>1. UNCHANGED <<ppid, kill, pHeadEntry, killPid, stack, pRslt, killAt>>
    BY <1>2 DEF killVars
  <2>2. KillFound' = KillFound BY <2>1 DEF KillFound
  <2>3. KillTable' = KillTable BY <2>1 DEF KillTable
  <2>4. Killer!TypeOK' BY <2>1 DEF KillInv, Killer!TypeOK
  <2>5. Killer!Doomed' = Killer!Doomed BY <2>1 DEF Killer!Doomed
  <2> QED BY <2>1, <2>2, <2>3, <2>4, <2>5 DEF KillInv
<1> QED BY <1>1, <1>2

\* killProcess names the process to kill and all its descendants, each once and
\* nobody else, in a result that is never longer than there are processes
\* (uthash.c), for every tree.
THEOREM AlwaysKillsDescendants == SequentialSpec => []KillsDescendants
<1>1. SequentialInit => KillInv BY KillInitKeeps DEF SequentialInit
<1>2. KillInv /\ [SequentialNext]_SequentialVars => KillInv'
  BY StepsApart, KillStepKeeps
<1> QED BY <1>1, <1>2, KillInvShows, PTL DEF SequentialSpec, SequentialVars

\* A step of another program creates no FIFO.
LEMMA SizingStepKeeps ==
    ASSUME SizingInv, Sizing!Next \/ UNCHANGED sizingVars
    PROVE  SizingInv'
<1>1. CASE Sizing!Next BY <1>1, SizingNextKeeps
<1>2. CASE UNCHANGED sizingVars BY <1>2 DEF sizingVars, SizingInv, Sizing!CreateMsgFifo
<1> QED BY <1>1, <1>2

\* For a request below 2^28, the highest bit the scan looks for, the lock-free FIFO
\* is created with a power of two of bytes, for which 16 bit cursors do, and never
\* with fewer than it was asked for; from there on it is either refused or created
\* with fewer.  It holds for every maximum of up to 2^15 (create_msg_fifo_without_lock
\* of phy_eth_common.c).
THEOREM SizeAlwaysUsable == SequentialSpec => []SizeIsUsable
<1>1. SequentialInit => SizingInv BY SizingInitKeeps DEF SequentialInit
<1>2. SizingInv /\ [SequentialNext]_SequentialVars => SizingInv'
  BY StepsApart, SizingStepKeeps
<1> QED BY <1>1, <1>2, SizingInvShows, PTL DEF SequentialSpec, SequentialVars

\* Every node of the tree of words counts something, for itself or below it, so
\* erase frees all that it unlinks, and nothing that is in use (dict_tree.c).
THEOREM NodesAlwaysUseful == SequentialSpec => []NoUselessNodes
<1>1. SequentialInit => DictHolds BY DictInitHolds DEF SequentialInit
<1>2. DictHolds /\ [SequentialNext]_SequentialVars => DictHolds'
  BY StepsApart, DictStepKeeps
<1>3. DictHolds => NoUselessNodes BY DictInvShows DEF DictHolds, NoUselessNodes
<1> QED BY <1>1, <1>2, <1>3, PTL DEF SequentialSpec, SequentialVars

\* search finds a word exactly when it was entered more often than erased, and
\* printall prints the words in the order of the alphabet, each as often as it
\* is kept, while no number below one has been entered (update, search, erase and
\* printall of dict_tree.c).
THEOREM WordsAlwaysCounted == SequentialSpec => []WordsAreCounted
<1>1. SequentialInit => DictHolds BY DictInitHolds DEF SequentialInit
<1>2. DictHolds /\ [SequentialNext]_SequentialVars => DictHolds'
  BY StepsApart, DictStepKeeps
<1>3. DictHolds => WordsAreCounted
  BY DictTypes, DictInvFinds, DictInvPrints DEF DictHolds, WordsAreCounted
<1> QED BY <1>1, <1>2, <1>3, PTL DEF SequentialSpec, SequentialVars
===============================================================================
