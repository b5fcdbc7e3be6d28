-------------------------- MODULE KernelModulesProofs --------------------------
(***************************************************************************)
(* The results about the kernel modules.                                   *)
(*                                                                         *)
(* The drivers: whichever call of a load fails, and when they are loaded   *)
(* and unloaded again and again, they hold what was reported, release only *)
(* what is held, and let nothing outlive what it lives in.                 *)
(*                                                                         *)
(* The modules with an entry in /proc: for any number of users, and        *)
(* whenever the module is removed, it leaves behind the threads and the    *)
(* buffers it is known to leave, and nothing else.                         *)
(***************************************************************************)
EXTENDS MCKernelModules, TLAPS

-------------------------------------------------------------------------------
(* The modules with an entry in /proc.                                     *)

ProcInv == Proc!IInv /\ Proc!TypeOK

\* A bound is not passed by a count that stays below it.
LEMMA ProcBounds == MaxThreads \in Nat /\ MaxBuffers \in Nat
BY KernelAssumption

\* A module that was not loaded satisfies the invariant.
LEMMA ProcInitKeeps ==
    ASSUME Proc!Init
    PROVE  ProcInv
<1>1. threads = 0 /\ buffers = 0 /\ astray = FALSE /\ entry = FALSE /\ opened = {}
      /\ procPhase = "out" /\ module \in Proc!Modules
      /\ file = [u \in Users |-> "none"] /\ call = [u \in Users |-> "none"]
  BY DEF Proc!Init
<1>2. Proc!LeavesOnlyThreadsAndBuffers BY <1>1 DEF Proc!LeavesOnlyThreadsAndBuffers
<1>3. Proc!IInv BY <1>1, <1>2 DEF Proc!IInv
<1>4. Proc!TypeOK
  <2>1. entry \in BOOLEAN /\ astray \in BOOLEAN /\ opened \subseteq Users BY <1>1
  <2>2. threads \in 0 .. MaxThreads /\ buffers \in 0 .. MaxBuffers BY <1>1, ProcBounds
  <2>3. file \in [Users -> {"none", "open", "stale"}]
        /\ call \in [Users -> {"none", "open", "show", "write"}]
    BY <1>1
  <2>4. procPhase \in {"out", "in", "removing"} /\ module \in Proc!Modules BY <1>1
  <2> QED BY <2>1, <2>2, <2>3, <2>4 DEF Proc!TypeOK
<1> QED BY <1>3, <1>4 DEF ProcInv

\* The loading and unloading of the module.
LEMMA ModuleKeeps ==
    ASSUME ProcInv, Proc!Insmod \/ Proc!Rmmod \/ Proc!Removed
    PROVE  ProcInv'
<1> USE DEF ProcInv, Proc!IInv, Proc!TypeOK, Proc!LeavesOnlyThreadsAndBuffers
<1>1. CASE Proc!Insmod BY <1>1 DEF Proc!Insmod
<1>2. CASE Proc!Rmmod BY <1>2 DEF Proc!Rmmod
<1>3. CASE Proc!Removed
  <2>1. file' \in [Users -> {"none", "open", "stale"}]
        /\ \A u \in Users : file'[u] # "open"
    BY <1>3 DEF Proc!Removed
  <2>2. \A u \in Users : call'[u] = "none" BY <1>3 DEF Proc!Removed
  <2> QED BY <1>3, <2>1, <2>2 DEF Proc!Removed
<1> QED BY <1>1, <1>2, <1>3

\* A user gets into the module by its entry.
LEMMA EnterKeeps ==
    ASSUME ProcInv, NEW u \in Users,
           Proc!EnterOpen(u) \/ Proc!EnterShow(u) \/ Proc!EnterWrite(u)
    PROVE  ProcInv'
<1> USE DEF ProcInv, Proc!IInv, Proc!TypeOK, Proc!LeavesOnlyThreadsAndBuffers
<1>1. CASE Proc!EnterOpen(u) BY <1>1 DEF Proc!EnterOpen, Proc!Enter
<1>2. CASE Proc!EnterShow(u) BY <1>2 DEF Proc!EnterShow, Proc!Enter
<1>3. CASE Proc!EnterWrite(u) BY <1>3 DEF Proc!EnterWrite, Proc!Enter
<1> QED BY <1>1, <1>2, <1>3

\* A call returns: its code has run in a module that is there.
LEMMA ReturnKeeps ==
    ASSUME ProcInv, NEW u \in Users,
           Proc!ReturnOpen(u) \/ Proc!ReturnShow(u) \/ Proc!ReturnWrite(u)
    PROVE  ProcInv'
<1> USE DEF ProcInv, Proc!IInv, Proc!TypeOK, Proc!LeavesOnlyThreadsAndBuffers
<1>1. call[u] # "none" /\ procPhase # "out" /\ astray' = astray
      /\ UNCHANGED <<module, procPhase, entry>>
  <2>1. call[u] # "none" /\ UNCHANGED <<module, procPhase, entry>>
        /\ astray' = (astray \/ procPhase = "out")
    BY DEF Proc!ReturnOpen, Proc!ReturnShow, Proc!ReturnWrite, Proc!Return
  <2>2. procPhase # "out" BY <2>1
  <2> QED BY <2>1, <2>2
<1>2. call' \in [Users -> {"none", "open", "show", "write"}]
      /\ call'[u] = "none" /\ \A v \in Users : v # u => call'[v] = call[v]
  BY DEF Proc!ReturnOpen, Proc!ReturnShow, Proc!ReturnWrite, Proc!Return
<1>3. CASE Proc!ReturnOpen(u)
  <2>1. file' \in [Users -> {"none", "open", "stale"}]
        /\ \A v \in Users : file[v] = "open" => file'[v] = "open"
    BY <1>3 DEF Proc!ReturnOpen
  <2> QED BY <1>1, <1>2, <1>3, <2>1 DEF Proc!ReturnOpen
<1>4. CASE Proc!ReturnShow(u)
  <2>1. threads' \in 0 .. MaxThreads /\ threads' >= threads
        /\ (threads' # threads => module = "multi_thread")
    BY <1>4, ProcBounds DEF Proc!ReturnShow
  <2> QED BY <1>1, <1>2, <1>4, <2>1 DEF Proc!ReturnShow
<1>5. CASE Proc!ReturnWrite(u)
  <2>1. buffers' \in 0 .. MaxBuffers /\ module \in Proc!Writable
    BY <1>5, ProcBounds DEF Proc!ReturnWrite, Proc!Return
  <2> QED BY <1>1, <1>2, <1>5, <2>1 DEF Proc!ReturnWrite
<1> QED BY <1>3, <1>4, <1>5

\* A file is closed, with its entry there or gone, or a thread wakes up.
LEMMA OthersKeep ==
    ASSUME ProcInv,
           (\E u \in Users : Proc!Close(u) \/ Proc!CloseStale(u)) \/ Proc!ThreadWakes
    PROVE  ProcInv'
<1> USE DEF ProcInv, Proc!IInv, Proc!TypeOK, Proc!LeavesOnlyThreadsAndBuffers
<1>1. ASSUME NEW u \in Users, Proc!Close(u) PROVE ProcInv'
  <2>1. call[u] = "none" /\ file' = [file EXCEPT ![u] = "none"] /\ procPhase # "out"
    BY <1>1 DEF Proc!Close
  <2> QED BY <1>1, <2>1 DEF Proc!Close
<1>2. ASSUME NEW u \in Users, Proc!CloseStale(u) PROVE ProcInv'
  BY <1>2 DEF Proc!CloseStale
<1>3. CASE Proc!ThreadWakes BY <1>3 DEF Proc!ThreadWakes
<1> QED BY <1>1, <1>2, <1>3

\* Every step of the modules keeps the invariant.
LEMMA ProcKeeps ==
    ASSUME ProcInv, Proc!Next \/ UNCHANGED procVars
    PROVE  ProcInv'
<1>1. CASE Proc!Next
  BY <1>1, ModuleKeeps, EnterKeeps, ReturnKeeps, OthersKeep DEF Proc!Next, Proc!User
<1>2. CASE UNCHANGED procVars
  BY <1>2 DEF procVars, ProcInv, Proc!IInv, Proc!TypeOK, Proc!LeavesOnlyThreadsAndBuffers
<1> QED BY <1>1, <1>2

-------------------------------------------------------------------------------
(* The tables of the drivers.                                              *)

\* What a release takes away with it.
LEMMA FreesAre ==
    /\ Drivers!Frees("cdev_del") = {"kobj", "added"}
    /\ Drivers!Frees("unregister_chrdev_region") = {"region"}
    /\ Drivers!Frees("kfree") = {"priv"}
    /\ Drivers!Frees("class_destroy") = {"class"}
    /\ Drivers!Frees("device_destroy") = {"device", "file0", "file1"}
    /\ Drivers!Frees("remove_file0") = {"file0"}
    /\ Drivers!Frees("remove_file1") = {"file1"}
    /\ Drivers!Frees("unregister_netdev") = {"netif"}
    /\ Drivers!Frees("free_netdev") = {"ndev"}
    /\ Drivers!Frees("platform_driver_unregister") = {"driver"}
    /\ Drivers!Frees("platform_device_unregister") = {"pdev"}
BY DEF Drivers!Frees, Drivers!Subject, Drivers!Parent

\* What a release is about.
LEMMA SubjectsAre ==
    /\ Drivers!Subject["cdev_del"] = "kobj"
    /\ Drivers!Subject["unregister_chrdev_region"] = "region"
    /\ Drivers!Subject["kfree"] = "priv"
    /\ Drivers!Subject["class_destroy"] = "class"
    /\ Drivers!Subject["device_destroy"] = "device"
    /\ Drivers!Subject["remove_file0"] = "file0"
    /\ Drivers!Subject["remove_file1"] = "file1"
    /\ Drivers!Subject["unregister_netdev"] = "netif"
    /\ Drivers!Subject["free_netdev"] = "ndev"
    /\ Drivers!Subject["platform_driver_unregister"] = "driver"
    /\ Drivers!Subject["platform_device_unregister"] = "pdev"
BY DEF Drivers!Subject

\* Every module has one of three tables.
LEMMA ThreeTables ==
    ASSUME name \in DOMAIN Drivers!Driver
    PROVE  Drivers!Driver[name]
               \in {Drivers!CharDriver, Drivers!PlatformDriver, Drivers!NetDriver}
BY DEF Drivers!Driver, Drivers!RockleeKernel, Drivers!Rockpi4b, Drivers!RbtreeModule,
       Drivers!NetDevice, Drivers!Multicard

\* The calls of a plain character device.
LEMMA CharTable ==
    /\ Len(Drivers!CharSteps) = 8 /\ DOMAIN Drivers!CharSteps = 1 .. 8
    /\ Drivers!CharSteps[1] = Drivers!Call("cdev", <<>>)
    /\ Drivers!CharSteps[2] = Drivers!VoidCall("kobj")
    /\ Drivers!CharSteps[3] = Drivers!Call("region", Drivers!CharErr)
    /\ Drivers!CharSteps[4] = Drivers!Call("added", Drivers!CharErr1)
    /\ Drivers!CharSteps[5] = Drivers!Call("class", Drivers!CharErr1)
    /\ Drivers!CharSteps[6] = Drivers!Call("device", Drivers!CharErr2)
    /\ Drivers!CharSteps[7] = Drivers!Call("file0", Drivers!CharErr3)
    /\ Drivers!CharSteps[8] = Drivers!Call("file1", Drivers!CharErr3)
BY DEF Drivers!CharSteps

\* The first nine calls of the platform drivers.
PlatformFirst(T) ==
    /\ T[1] = Drivers!Call("cdev", <<>>)
    /\ T[2] = Drivers!VoidCall("kobj")
    /\ T[3] = Drivers!Call("region", Drivers!PlatformErr)
    /\ T[4] = Drivers!Call("added", Drivers!PlatformErr)
    /\ T[5] = Drivers!Call("priv", <<>>)
    /\ T[6] = Drivers!UncheckedCall("class")
    /\ T[7] = Drivers!Call("device", Drivers!PlatformErr2)
    /\ T[8] = Drivers!Call("file0", Drivers!PlatformErr3)
    /\ T[9] = Drivers!Call("file1", Drivers!PlatformErr3)

\* Two lists of calls one after the other.
LEMMA Joined ==
    ASSUME NEW S, NEW p \in Seq(S), NEW q \in Seq(S)
    PROVE  /\ p \o q \in Seq(S)
           /\ Len(p \o q) = Len(p) + Len(q)
           /\ \A i \in 1 .. Len(p) + Len(q) :
                  (p \o q)[i] = IF i <= Len(p) THEN p[i] ELSE q[i - Len(p)]
OBVIOUS

\* The tables of the platform driver and of the net device start with the same
\* steps, and how the second goes on.
LEMMA PlatformTable ==
    /\ Len(Drivers!PlatformSteps) = 9 /\ PlatformFirst(Drivers!PlatformSteps)
    /\ Len(Drivers!NetSteps) = 11 /\ PlatformFirst(Drivers!NetSteps)
    /\ DOMAIN Drivers!PlatformSteps = 1 .. 9 /\ DOMAIN Drivers!NetSteps = 1 .. 11
    /\ Drivers!NetSteps[10] = Drivers!ZeroRetCall("ndev", Drivers!NetErr4)
    /\ Drivers!NetSteps[11] = Drivers!Call("netif", Drivers!NetErr5)
<1> DEFINE P == Drivers!PlatformSteps
           Q == << Drivers!ZeroRetCall("ndev", Drivers!NetErr4),
                   Drivers!Call("netif", Drivers!NetErr5) >>
<1>1. Len(P) = 9 /\ DOMAIN P = 1 .. 9 /\ PlatformFirst(P)
  BY DEF Drivers!PlatformSteps, PlatformFirst
<1>2. P \in Seq(Range(P) \cup Range(Q)) /\ Q \in Seq(Range(P) \cup Range(Q))
  BY <1>1 DEF Drivers!PlatformSteps, Range
<1>3. Len(Q) = 2 /\ Q[1] = Drivers!ZeroRetCall("ndev", Drivers!NetErr4)
      /\ Q[2] = Drivers!Call("netif", Drivers!NetErr5)
  OBVIOUS
<1>4. Drivers!NetSteps = P \o Q BY DEF Drivers!NetSteps
<1> HIDE DEF P, Q
<1>5. /\ Len(P \o Q) = 11 /\ DOMAIN (P \o Q) = 1 .. 11
      /\ \A i \in 1 .. 11 : (P \o Q)[i] = IF i <= 9 THEN P[i] ELSE Q[i - 9]
  <2>1. /\ P \o Q \in Seq(Range(P) \cup Range(Q))
        /\ Len(P \o Q) = Len(P) + Len(Q)
        /\ \A i \in 1 .. Len(P) + Len(Q) :
               (P \o Q)[i] = IF i <= Len(P) THEN P[i] ELSE Q[i - Len(P)]
    BY <1>2, Joined
  <2> HIDE DEF P, Q
  <2> DEFINE R == P \o Q
  <2>2. DOMAIN R = 1 .. Len(R) BY <2>1
  <2>3. Len(R) = 11 BY <1>1, <1>3, <2>1
  <2> QED BY <1>1, <1>3, <2>1, <2>2, <2>3
<1>6. PlatformFirst(P \o Q)
  <2> HIDE DEF P, Q
  <2>1. ASSUME NEW i \in {1, 2, 3, 4, 5, 6, 7, 8, 9} PROVE (P \o Q)[i] = P[i]
    <3>1. i \in 1 .. 11 /\ i <= 9 OBVIOUS
    <3> QED BY <1>5, <3>1
  <2> DEFINE R == P \o Q
  <2>2. R[1] = P[1] /\ R[2] = P[2] /\ R[3] = P[3] /\ R[4] = P[4] /\ R[5] = P[5]
        /\ R[6] = P[6] /\ R[7] = P[7] /\ R[8] = P[8] /\ R[9] = P[9]
    BY <2>1
  <2> HIDE DEF R
  <2>3. PlatformFirst(R) BY <1>1, <2>2 DEF PlatformFirst
  <2> QED BY <2>3 DEF R
<1>7. (P \o Q)[10] = Q[1] /\ (P \o Q)[11] = Q[2] BY <1>5
<1> QED BY <1>1, <1>3, <1>4, <1>5, <1>6, <1>7 DEF P

-------------------------------------------------------------------------------
(* Lists of releases.                                                      *)

Releases == DOMAIN Drivers!Subject

\* Nothing outlives what it lives in.
Kept(H) == \A r \in H \cap DOMAIN Drivers!Parent : Drivers!Parent[r] \in H

\* The releases of seq, one after the other, lead from what is held to the rest:
\* each is of something held there, unless it is excused, and nothing outlives
\* its parent on the way.
Cleans(seq, H, rest, excused) ==
    \E h \in [1 .. Len(seq) + 1 -> SUBSET Drivers!Resource] :
        /\ h[1] = H
        /\ h[Len(seq) + 1] = rest
        /\ \A i \in 1 .. Len(seq) + 1 : Kept(h[i])
        /\ \A i \in 1 .. Len(seq) :
               /\ h[i + 1] = h[i] \ Drivers!Frees(seq[i])
               /\ Drivers!Subject[seq[i]] \in h[i] \/ seq[i] \in excused

\* Doing nothing cleans what was to be kept.
LEMMA CleansNothing ==
    ASSUME NEW H \in SUBSET Drivers!Resource, NEW excused, Kept(H)
    PROVE  Cleans(<<>>, H, H, excused)
<1> DEFINE h == [i \in 1 .. 1 |-> H]
<1>1. h \in [1 .. Len(<<>>) + 1 -> SUBSET Drivers!Resource] OBVIOUS
<1>2. h[1] = H /\ Kept(h[1]) OBVIOUS
<1> HIDE DEF h
<1> QED BY <1>1, <1>2 DEF Cleans

\* Release a and then the others.
Led(a, seq) == <<a>> \o seq

\* A release followed by releases is a sequence of releases.
LEMMA FirstOfReleases ==
    ASSUME NEW a \in Releases, NEW seq \in Seq(Releases)
    PROVE  Led(a, seq) \in Seq(Releases)
BY DEF Led

\* One release before the others.
LEMMA CleansFirst ==
    ASSUME NEW a \in Releases, NEW seq \in Seq(Releases), NEW rest, NEW excused,
           NEW H \in SUBSET Drivers!Resource, Kept(H),
           Drivers!Subject[a] \in H \/ a \in excused,
           Cleans(seq, H \ Drivers!Frees(a), rest, excused)
    PROVE  Cleans(Led(a, seq), H, rest, excused)
<1> DEFINE n == Len(seq)
           s == <<a>> \o seq
<1>1. PICK h \in [1 .. n + 1 -> SUBSET Drivers!Resource] :
          /\ h[1] = H \ Drivers!Frees(a)
          /\ h[n + 1] = rest
          /\ \A i \in 1 .. n + 1 : Kept(h[i])
          /\ \A i \in 1 .. n :
                 /\ h[i + 1] = h[i] \ Drivers!Frees(seq[i])
                 /\ Drivers!Subject[seq[i]] \in h[i] \/ seq[i] \in excused
  BY DEF Cleans
<1>2. n \in Nat OBVIOUS
<1>3. Len(s) = n + 1 /\ s[1] = a /\ \A i \in 1 .. n : s[i + 1] = seq[i] OBVIOUS
<1> DEFINE g == [i \in 1 .. n + 2 |-> IF i = 1 THEN H ELSE h[i - 1]]
<1> HIDE DEF n, s
<1>4. g \in [1 .. Len(s) + 1 -> SUBSET Drivers!Resource] BY <1>1, <1>2, <1>3
<1>5. g[1] = H /\ \A i \in 1 .. n + 1 : g[i + 1] = h[i] BY <1>2
<1>6. g[Len(s) + 1] = rest BY <1>1, <1>2, <1>3, <1>5
<1> HIDE DEF g
<1>7. \A i \in 1 .. Len(s) + 1 : Kept(g[i])
  <2> SUFFICES ASSUME NEW i \in 1 .. n + 2 PROVE Kept(g[i]) BY <1>2, <1>3
  <2>1. CASE i = 1 BY <2>1, <1>5
  <2>2. CASE i # 1
    <3>1. i - 1 \in 1 .. n + 1 /\ (i - 1) + 1 = i BY <2>2, <1>2
    <3> QED BY <3>1, <1>1, <1>5
  <2> QED BY <2>1, <2>2
<1>8. ASSUME NEW i \in 1 .. Len(s)
      PROVE  /\ g[i + 1] = g[i] \ Drivers!Frees(s[i])
             /\ Drivers!Subject[s[i]] \in g[i] \/ s[i] \in excused
  <2>1. CASE i = 1 BY <2>1, <1>1, <1>2, <1>3, <1>5
  <2>2. CASE i # 1
    <3>1. i - 1 \in 1 .. n /\ (i - 1) + 1 = i BY <2>2, <1>2, <1>3
    <3>2. g[i] = h[i - 1] /\ g[i + 1] = h[i] /\ s[i] = seq[i - 1] BY <3>1, <1>2, <1>3, <1>5
    <3> QED BY <3>1, <3>2, <1>1
  <2> QED BY <2>1, <2>2
<1>9. Cleans(s, H, rest, excused) BY <1>4, <1>5, <1>6, <1>7, <1>8 DEF Cleans
<1> QED BY <1>9 DEF s, Led

\* The first release of a list is right, and the others go on from there.
LEMMA CleansOn ==
    ASSUME NEW seq \in Seq(Releases), NEW H, NEW rest, NEW excused, seq # <<>>,
           Cleans(seq, H, rest, excused)
    PROVE  /\ Drivers!Subject[Head(seq)] \in H \/ Head(seq) \in excused
           /\ Cleans(Tail(seq), H \ Drivers!Frees(Head(seq)), rest, excused)
<1> DEFINE n == Len(seq)
<1>1. PICK h \in [1 .. n + 1 -> SUBSET Drivers!Resource] :
          /\ h[1] = H
          /\ h[n + 1] = rest
          /\ \A i \in 1 .. n + 1 : Kept(h[i])
          /\ \A i \in 1 .. n :
                 /\ h[i + 1] = h[i] \ Drivers!Frees(seq[i])
                 /\ Drivers!Subject[seq[i]] \in h[i] \/ seq[i] \in excused
  BY DEF Cleans
<1>2. n \in Nat \ {0} OBVIOUS
<1>3. Head(seq) = seq[1] OBVIOUS
<1> DEFINE t == Tail(seq)
           g == [i \in 1 .. n |-> h[i + 1]]
<1>4. Len(t) = n - 1 /\ \A i \in 1 .. n - 1 : t[i] = seq[i + 1] OBVIOUS
<1> HIDE DEF n, t
<1>5. g \in [1 .. Len(t) + 1 -> SUBSET Drivers!Resource] BY <1>1, <1>2, <1>4
<1>6. \A i \in 1 .. n : g[i] = h[i + 1] OBVIOUS
<1> HIDE DEF g
<1>7. g[1] = H \ Drivers!Frees(seq[1]) /\ g[Len(t) + 1] = rest BY <1>1, <1>2, <1>4, <1>6
<1>8. \A i \in 1 .. Len(t) + 1 : Kept(g[i]) BY <1>1, <1>2, <1>4, <1>6
<1>9. \A i \in 1 .. Len(t) :
          /\ g[i + 1] = g[i] \ Drivers!Frees(t[i])
          /\ Drivers!Subject[t[i]] \in g[i] \/ t[i] \in excused
  <2> SUFFICES ASSUME NEW i \in 1 .. n - 1
               PROVE  /\ g[i + 1] = g[i] \ Drivers!Frees(t[i])
                      /\ Drivers!Subject[t[i]] \in g[i] \/ t[i] \in excused
    BY <1>4
  <2>1. i \in 1 .. n /\ i + 1 \in 1 .. n BY <1>2
  <2> QED BY <2>1, <1>1, <1>4, <1>6
<1>10. Cleans(t, H \ Drivers!Frees(seq[1]), rest, excused)
  BY <1>5, <1>7, <1>8, <1>9 DEF Cleans
<1>11. Drivers!Subject[seq[1]] \in H \/ seq[1] \in excused BY <1>1, <1>2
<1> QED BY <1>3, <1>10, <1>11 DEF t

\* What is held at the beginning and at the end of a list is as it must be.
LEMMA CleansEnds ==
    ASSUME NEW seq \in Seq(Releases), NEW H, NEW rest, NEW excused,
           Cleans(seq, H, rest, excused)
    PROVE  /\ H \in SUBSET Drivers!Resource /\ Kept(H)
           /\ seq = <<>> => H = rest
BY DEF Cleans

\* One list after the other.
LEMMA CleansThen ==
    ASSUME NEW s \in Seq(Releases), NEW t \in Seq(Releases),
           NEW H, NEW M, NEW rest, NEW excused,
           Cleans(s, H, M, excused), Cleans(t, M, rest, excused)
    PROVE  Cleans(s \o t, H, rest, excused)
<1> DEFINE m == Len(s)
           n == Len(t)
           u == s \o t
<1>1. PICK h \in [1 .. m + 1 -> SUBSET Drivers!Resource] :
          /\ h[1] = H
          /\ h[m + 1] = M
          /\ \A i \in 1 .. m + 1 : Kept(h[i])
          /\ \A i \in 1 .. m :
                 /\ h[i + 1] = h[i] \ Drivers!Frees(s[i])
                 /\ Drivers!Subject[s[i]] \in h[i] \/ s[i] \in excused
  BY DEF Cleans
<1>2. PICK k \in [1 .. n + 1 -> SUBSET Drivers!Resource] :
          /\ k[1] = M
          /\ k[n + 1] = rest
          /\ \A i \in 1 .. n + 1 : Kept(k[i])
          /\ \A i \in 1 .. n :
                 /\ k[i + 1] = k[i] \ Drivers!Frees(t[i])
                 /\ Drivers!Subject[t[i]] \in k[i] \/ t[i] \in excused
  BY DEF Cleans
<1>3. m \in Nat /\ n \in Nat /\ Len(u) = m + n
      /\ \A i \in 1 .. m + n : u[i] = IF i <= m THEN s[i] ELSE t[i - m]
  BY Joined
<1> DEFINE g == [i \in 1 .. m + n + 1 |-> IF i <= m + 1 THEN h[i] ELSE k[i - m]]
<1> HIDE DEF m, n, u
<1>4. g \in [1 .. Len(u) + 1 -> SUBSET Drivers!Resource] BY <1>1, <1>2, <1>3
<1>5. \A i \in 1 .. m + 1 : g[i] = h[i] BY <1>3
<1>6. \A i \in 1 .. n + 1 : g[m + i] = k[i] BY <1>1, <1>2, <1>3
<1> HIDE DEF g
<1>7. g[1] = H /\ g[Len(u) + 1] = rest
  <2>1. n + 1 \in 1 .. n + 1 /\ m + (n + 1) = Len(u) + 1 BY <1>3
  <2> QED BY <2>1, <1>1, <1>2, <1>3, <1>5, <1>6
<1>8. ASSUME NEW i \in 1 .. Len(u) + 1 PROVE Kept(g[i])
  <2>1. CASE i <= m + 1 BY <2>1, <1>1, <1>3, <1>5
  <2>2. CASE i > m + 1
    <3>1. i - m \in 1 .. n + 1 /\ m + (i - m) = i BY <2>2, <1>3
    <3> QED BY <3>1, <1>2, <1>6
  <2> QED BY <2>1, <2>2, <1>3
<1>9. ASSUME NEW i \in 1 .. Len(u)
      PROVE  /\ g[i + 1] = g[i] \ Drivers!Frees(u[i])
             /\ Drivers!Subject[u[i]] \in g[i] \/ u[i] \in excused
  <2>1. CASE i <= m
    <3>1. i \in 1 .. m /\ i \in 1 .. m + 1 /\ i + 1 \in 1 .. m + 1 BY <2>1, <1>3
    <3>2. u[i] = s[i] /\ g[i] = h[i] /\ g[i + 1] = h[i + 1] BY <2>1, <3>1, <1>3, <1>5
    <3> QED BY <3>1, <3>2, <1>1
  <2>2. CASE i > m
    <3>1. i - m \in 1 .. n /\ i - m \in 1 .. n + 1 /\ (i - m) + 1 \in 1 .. n + 1
          /\ m + (i - m) = i /\ m + ((i - m) + 1) = i + 1
      BY <2>2, <1>3
    <3>2. u[i] = t[i - m] BY <2>2, <1>3
    <3> QED BY <3>1, <3>2, <1>2, <1>6
  <2> QED BY <2>1, <2>2, <1>3
<1>10. Cleans(u, H, rest, excused) BY <1>4, <1>7, <1>8, <1>9 DEF Cleans
<1> QED BY <1>10 DEF u

-------------------------------------------------------------------------------
(* The releases of the tables.                                             *)

\* What holds nothing that has a parent is in order.
LEMMA CleansOne ==
    ASSUME NEW a \in Releases, NEW H \in SUBSET Drivers!Resource, NEW excused,
           Kept(H), Kept(H \ Drivers!Frees(a)), Drivers!Subject[a] \in H \/ a \in excused
    PROVE  Cleans(<<a>>, H, H \ Drivers!Frees(a), excused)
<1>1. Cleans(<<>>, H \ Drivers!Frees(a), H \ Drivers!Frees(a), excused)
  BY CleansNothing
<1>2. <<>> \in Seq(Releases) /\ Led(a, <<>>) = <<a>> BY DEF Led
<1>3. Cleans(Led(a, <<>>), H, H \ Drivers!Frees(a), excused) BY <1>1, <1>2, CleansFirst
<1> QED BY <1>2, <1>3

\* The parents, as sets see them.
LEMMA KeptIs ==
    ASSUME NEW H
    PROVE  Kept(H) <=> /\ "kobj" \in H => "cdev" \in H
                       /\ "added" \in H => "kobj" \in H
                       /\ "device" \in H => "class" \in H
                       /\ "file0" \in H => "device" \in H
                       /\ "file1" \in H => "device" \in H
                       /\ "netif" \in H => "ndev" \in H
BY DEF Kept, Drivers!Parent

\* The kernel calls that release, and what there is to release.
LEMMA ReleasesAre ==
    /\ Releases = {"cdev_del", "unregister_chrdev_region", "kfree", "class_destroy",
                   "device_destroy", "remove_file0", "remove_file1", "unregister_netdev",
                   "free_netdev", "platform_driver_unregister", "platform_device_unregister"}
    /\ Drivers!Resource = {"cdev", "region", "priv", "class", "device", "file0", "file1",
                           "netif", "ndev", "driver", "pdev", "added", "kobj"}
BY SubjectsAre DEF Releases, Drivers!Resource, Drivers!Subject, Drivers!Parent

Chrdev == {"kobj", "added", "region"}

\* The last labels of all drivers: the character device with its region, and in
\* the platform drivers the private data.
LEMMA ErrCleans ==
    ASSUME NEW H \in SUBSET Drivers!Resource, NEW excused, Kept(H), "kobj" \in H
    PROVE  /\ Drivers!CharErr \in Seq(Releases) /\ Drivers!CharErr1 \in Seq(Releases)
           /\ Drivers!PlatformErr \in Seq(Releases) /\ Drivers!PlatformErr1 \in Seq(Releases)
           /\ Cleans(Drivers!CharErr, H, H \ {"kobj", "added"}, excused)
           /\ "region" \in H => Cleans(Drivers!CharErr1, H, H \ Chrdev, excused)
           /\ Cleans(Drivers!PlatformErr, H, H \ {"kobj", "added"}, excused)
           /\ {"region", "priv"} \subseteq H =>
                 Cleans(Drivers!PlatformErr1, H, H \ (Chrdev \cup {"priv"}), excused)
<1>1. ASSUME NEW G \in SUBSET H, Kept(G), "kobj" \in G
      PROVE  Cleans(<<"cdev_del">>, G, G \ {"kobj", "added"}, excused)
  <2>1. Kept(G \ {"kobj", "added"}) BY <1>1, KeptIs
  <2> QED BY <1>1, <2>1, CleansOne, ReleasesAre, FreesAre, SubjectsAre
<1>2. <<"cdev_del">> \in Seq(Releases) BY ReleasesAre
<1>3. Drivers!CharErr = <<"cdev_del">> /\ Drivers!PlatformErr = <<"cdev_del">>
  BY DEF Drivers!CharErr, Drivers!PlatformErr
<1>4. Drivers!CharErr1 = Led("unregister_chrdev_region", Drivers!CharErr)
      /\ Drivers!CharErr1 \in Seq(Releases)
  BY <1>2, <1>3, ReleasesAre, FirstOfReleases DEF Drivers!CharErr1, Led
<1>5. Drivers!PlatformErr1
          = Led("unregister_chrdev_region", Led("kfree", Drivers!PlatformErr))
  BY <1>3 DEF Drivers!PlatformErr1, Led
<1>6. Led("kfree", Drivers!PlatformErr) \in Seq(Releases)
  BY <1>2, <1>3, ReleasesAre, FirstOfReleases
<1>7. Drivers!PlatformErr1 \in Seq(Releases) BY <1>5, <1>6, ReleasesAre, FirstOfReleases
<1>8. ASSUME "region" \in H PROVE Cleans(Drivers!CharErr1, H, H \ Chrdev, excused)
  <2> DEFINE G == H \ {"region"}
  <2>1. Kept(G) BY KeptIs
  <2>2. Cleans(Drivers!CharErr, G, G \ {"kobj", "added"}, excused) BY <1>1, <1>3, <2>1
  <2>3. G \ {"kobj", "added"} = H \ Chrdev BY DEF Chrdev
  <2> QED BY <1>2, <1>3, <1>4, <1>8, <2>2, <2>3, CleansFirst, FreesAre, SubjectsAre,
             ReleasesAre
<1>9. ASSUME {"region", "priv"} \subseteq H
      PROVE  Cleans(Drivers!PlatformErr1, H, H \ (Chrdev \cup {"priv"}), excused)
  <2> DEFINE G == H \ {"region"}
             F == G \ {"priv"}
  <2>1. Kept(G) /\ Kept(F) BY KeptIs
  <2>2. Cleans(Drivers!PlatformErr, F, F \ {"kobj", "added"}, excused) BY <1>1, <1>3, <2>1
  <2>3. Cleans(Led("kfree", Drivers!PlatformErr), G, F \ {"kobj", "added"}, excused)
    BY <1>2, <1>3, <1>9, <2>1, <2>2, CleansFirst, FreesAre, SubjectsAre, ReleasesAre
  <2>4. Cleans(Drivers!PlatformErr1, H, F \ {"kobj", "added"}, excused)
    BY <1>5, <1>6, <1>9, <2>3, CleansFirst, FreesAre, SubjectsAre, ReleasesAre
  <2>5. F \ {"kobj", "added"} = H \ (Chrdev \cup {"priv"}) BY DEF Chrdev
  <2> QED BY <2>4, <2>5
<1> QED BY <1>1, <1>2, <1>3, <1>4, <1>7, <1>8, <1>9

\* The labels after the creation of the class, of all drivers.
LEMMA Err2Cleans ==
    ASSUME NEW H \in SUBSET Drivers!Resource, NEW excused, Kept(H), "device" \notin H,
           "class" \in H \/ "class_destroy" \in excused, {"kobj", "region"} \subseteq H
    PROVE  /\ Drivers!CharErr2 \in Seq(Releases) /\ Drivers!PlatformErr2 \in Seq(Releases)
           /\ Cleans(Drivers!CharErr2, H, H \ (Chrdev \cup {"class"}), excused)
           /\ "priv" \in H =>
                 Cleans(Drivers!PlatformErr2, H, H \ (Chrdev \cup {"priv", "class"}), excused)
<1> DEFINE G == H \ {"class"}
<1>1. Kept(G) /\ G \in SUBSET Drivers!Resource /\ {"kobj", "region"} \subseteq G BY KeptIs
<1>2. /\ Drivers!CharErr1 \in Seq(Releases) /\ Drivers!PlatformErr1 \in Seq(Releases)
      /\ Cleans(Drivers!CharErr1, G, G \ Chrdev, excused)
      /\ "priv" \in H => Cleans(Drivers!PlatformErr1, G, G \ (Chrdev \cup {"priv"}), excused)
  BY <1>1, ErrCleans
<1>3. G \ Chrdev = H \ (Chrdev \cup {"class"})
      /\ G \ (Chrdev \cup {"priv"}) = H \ (Chrdev \cup {"priv", "class"})
  OBVIOUS
<1>4. Drivers!CharErr2 = Led("class_destroy", Drivers!CharErr1)
      /\ Drivers!PlatformErr2 = Led("class_destroy", Drivers!PlatformErr1)
  BY DEF Drivers!CharErr2, Drivers!PlatformErr2, Led
<1>5. "class_destroy" \in Releases /\ H \ Drivers!Frees("class_destroy") = G
      /\ (Drivers!Subject["class_destroy"] \in H \/ "class_destroy" \in excused)
  BY ReleasesAre, FreesAre, SubjectsAre
<1>6. Cleans(Drivers!CharErr2, H, H \ (Chrdev \cup {"class"}), excused)
  BY <1>4, <1>2, <1>3, <1>5, CleansFirst
<1>7. ASSUME "priv" \in H
      PROVE  Cleans(Drivers!PlatformErr2, H, H \ (Chrdev \cup {"priv", "class"}), excused)
  BY <1>4, <1>2, <1>3, <1>5, <1>7, CleansFirst
<1>8. Drivers!CharErr2 \in Seq(Releases) /\ Drivers!PlatformErr2 \in Seq(Releases)
  BY <1>4, <1>2, <1>5, FirstOfReleases
<1> QED BY <1>6, <1>7, <1>8

Devices == {"class", "device", "file0", "file1"}

\* The labels after the creation of the device: it takes its files along.
LEMMA Err3Cleans ==
    ASSUME NEW H \in SUBSET Drivers!Resource, NEW excused, Kept(H),
           {"kobj", "region", "class", "device"} \subseteq H
    PROVE  /\ Drivers!CharErr3 \in Seq(Releases) /\ Drivers!PlatformErr3 \in Seq(Releases)
           /\ Cleans(Drivers!CharErr3, H, H \ (Chrdev \cup Devices), excused)
           /\ "priv" \in H =>
                 Cleans(Drivers!PlatformErr3, H, H \ (Chrdev \cup Devices \cup {"priv"}), excused)
<1> DEFINE G == H \ {"device", "file0", "file1"}
<1>1. Kept(G) /\ G \in SUBSET Drivers!Resource /\ {"kobj", "region", "class"} \subseteq G
      /\ "device" \notin G
  BY KeptIs
<1>2. /\ Drivers!CharErr2 \in Seq(Releases) /\ Drivers!PlatformErr2 \in Seq(Releases)
      /\ Cleans(Drivers!CharErr2, G, G \ (Chrdev \cup {"class"}), excused)
      /\ "priv" \in H =>
            Cleans(Drivers!PlatformErr2, G, G \ (Chrdev \cup {"priv", "class"}), excused)
  BY <1>1, Err2Cleans
<1>3. G \ (Chrdev \cup {"class"}) = H \ (Chrdev \cup Devices)
      /\ G \ (Chrdev \cup {"priv", "class"}) = H \ (Chrdev \cup Devices \cup {"priv"})
  BY DEF Devices
<1>4. Drivers!CharErr3 = Led("device_destroy", Drivers!CharErr2)
      /\ Drivers!PlatformErr3 = Led("device_destroy", Drivers!PlatformErr2)
  BY DEF Drivers!CharErr3, Drivers!PlatformErr3, Led
<1>5. "device_destroy" \in Releases /\ H \ Drivers!Frees("device_destroy") = G
      /\ (Drivers!Subject["device_destroy"] \in H \/ "device_destroy" \in excused)
  BY ReleasesAre, FreesAre, SubjectsAre
<1>6. Cleans(Drivers!CharErr3, H, H \ (Chrdev \cup Devices), excused)
  BY <1>4, <1>2, <1>3, <1>5, CleansFirst
<1>7. ASSUME "priv" \in H
      PROVE  Cleans(Drivers!PlatformErr3, H, H \ (Chrdev \cup Devices \cup {"priv"}), excused)
  BY <1>4, <1>2, <1>3, <1>5, <1>7, CleansFirst
<1>8. Drivers!CharErr3 \in Seq(Releases) /\ Drivers!PlatformErr3 \in Seq(Releases)
  BY <1>4, <1>2, <1>5, FirstOfReleases
<1> QED BY <1>6, <1>7, <1>8

\* The removal of both files before a list that takes the device.
LEMMA FilesFirst ==
    ASSUME NEW H \in SUBSET Drivers!Resource, NEW seq \in Seq(Releases), NEW rest,
           NEW excused, Kept(H), {"file0", "file1"} \subseteq H,
           Cleans(seq, H \ {"file0", "file1"}, rest, excused)
    PROVE  Cleans(Led("remove_file0", Led("remove_file1", seq)), H, rest, excused)
<1> DEFINE G == H \ {"file0"}
<1>1. Kept(G) BY KeptIs
<1>2. G \ Drivers!Frees("remove_file1") = H \ {"file0", "file1"}
      /\ H \ Drivers!Frees("remove_file0") = G
      /\ Drivers!Subject["remove_file0"] \in H /\ Drivers!Subject["remove_file1"] \in G
  BY FreesAre, SubjectsAre
<1>3. "remove_file0" \in Releases /\ "remove_file1" \in Releases BY ReleasesAre
<1>4. Led("remove_file1", seq) \in Seq(Releases) BY <1>3, FirstOfReleases
<1>5. Cleans(Led("remove_file1", seq), G, rest, excused)
  BY <1>1, <1>2, <1>3, CleansFirst
<1> QED BY <1>2, <1>3, <1>4, <1>5, CleansFirst

\* The last labels of the network drivers.
LEMMA NetErrCleans ==
    ASSUME NEW H \in SUBSET Drivers!Resource, NEW excused, Kept(H), "netif" \notin H,
           {"kobj", "region", "priv", "class", "device", "file0", "file1"} \subseteq H
    PROVE  /\ Drivers!NetErr4 \in Seq(Releases) /\ Drivers!NetErr5 \in Seq(Releases)
           /\ Cleans(Drivers!NetErr4, H, H \ (Chrdev \cup Devices \cup {"priv"}), excused)
           /\ "ndev" \in H =>
                 Cleans(Drivers!NetErr5, H,
                        H \ (Chrdev \cup Devices \cup {"priv", "ndev"}), excused)
<1>1. Drivers!NetErr4 = Led("remove_file0", Led("remove_file1", Drivers!PlatformErr3))
      /\ Drivers!NetErr5 = Led("free_netdev", Drivers!NetErr4)
  <2>1. Drivers!PlatformErr3 \in Seq(Releases) BY Err3Cleans
  <2>2. "remove_file0" \in Releases /\ "remove_file1" \in Releases BY ReleasesAre
  <2> QED BY <2>1, <2>2 DEF Drivers!NetErr4, Drivers!NetErr5, Led
<1>2. Drivers!PlatformErr3 \in Seq(Releases) BY Err3Cleans
<1>3. ASSUME NEW G \in SUBSET H, Kept(G), G \in SUBSET Drivers!Resource,
             {"kobj", "region", "priv", "class", "device", "file0", "file1"} \subseteq G
      PROVE  Cleans(Drivers!NetErr4, G, G \ (Chrdev \cup Devices \cup {"priv"}), excused)
  <2> DEFINE F == G \ {"file0", "file1"}
  <2>1. Kept(F) BY <1>3, KeptIs
  <2>2. Cleans(Drivers!PlatformErr3, F, F \ (Chrdev \cup Devices \cup {"priv"}), excused)
    BY <1>3, <2>1, Err3Cleans
  <2>3. F \ (Chrdev \cup Devices \cup {"priv"}) = G \ (Chrdev \cup Devices \cup {"priv"})
    BY DEF Devices
  <2>4. Cleans(Drivers!PlatformErr3, F, G \ (Chrdev \cup Devices \cup {"priv"}), excused)
    BY <2>2, <2>3
  <2> QED BY <1>1, <1>2, <1>3, <2>4, FilesFirst
<1>4. "free_netdev" \in Releases /\ "remove_file0" \in Releases /\ "remove_file1" \in Releases
  BY ReleasesAre
<1>5. Drivers!NetErr4 \in Seq(Releases) /\ Drivers!NetErr5 \in Seq(Releases)
  BY <1>1, <1>2, <1>4, FirstOfReleases
<1>6. ASSUME "ndev" \in H
      PROVE  Cleans(Drivers!NetErr5, H, H \ (Chrdev \cup Devices \cup {"priv", "ndev"}), excused)
  <2> DEFINE G == H \ {"ndev"}
  <2>1. Kept(G) BY KeptIs
  <2>2. Cleans(Drivers!NetErr4, G, G \ (Chrdev \cup Devices \cup {"priv"}), excused)
    BY <1>3, <2>1
  <2>3. G \ (Chrdev \cup Devices \cup {"priv"})
            = H \ (Chrdev \cup Devices \cup {"priv", "ndev"})
    OBVIOUS
  <2>4. H \ Drivers!Frees("free_netdev") = G /\ Drivers!Subject["free_netdev"] \in H
    BY <1>6, FreesAre, SubjectsAre
  <2>5. Cleans(Drivers!NetErr4, G, H \ (Chrdev \cup Devices \cup {"priv", "ndev"}), excused)
    BY <2>2, <2>3
  <2> QED BY <1>1, <1>4, <1>5, <2>4, <2>5, CleansFirst
<1> QED BY <1>3, <1>5, <1>6

\* The exit of the plain modules and the two remove functions give back all that
\* init or probe got.
LEMMA ExitCleans ==
    ASSUME NEW H \in SUBSET Drivers!Resource, NEW excused, Kept(H),
           {"kobj", "region", "class", "device", "file0", "file1"} \subseteq H
    PROVE  /\ Drivers!Exit \in Seq(Releases)
           /\ Drivers!PlatformRemove \in Seq(Releases)
           /\ Drivers!NetRemove \in Seq(Releases)
           /\ Cleans(Drivers!Exit, H, H \ (Chrdev \cup Devices), excused)
           /\ "priv" \in H =>
                 Cleans(Drivers!PlatformRemove, H, H \ (Chrdev \cup Devices \cup {"priv"}), excused)
           /\ {"priv", "ndev", "netif"} \subseteq H =>
                 Cleans(Drivers!NetRemove, H,
                        H \ (Chrdev \cup Devices \cup {"priv", "ndev", "netif"}), excused)
<1> DEFINE F == H \ {"file0", "file1"}
           M == H \ (Chrdev \cup Devices)
           N == M \ {"netif"}
           O == N \ {"ndev"}
           net == <<"unregister_netdev", "free_netdev", "kfree">>
<1>1. Kept(F) /\ Kept(M) /\ Kept(N) /\ Kept(O) /\ Kept(M \ {"priv"}) /\ Kept(O \ {"priv"})
  BY KeptIs DEF Chrdev, Devices
<1>2. Drivers!CharErr3 \in Seq(Releases)
      /\ Cleans(Drivers!CharErr3, F, F \ (Chrdev \cup Devices), excused)
  BY <1>1, Err3Cleans
<1>3. F \ (Chrdev \cup Devices) = M BY DEF Devices
<1>4. Drivers!Exit = Led("remove_file0", Led("remove_file1", Drivers!CharErr3))
  BY DEF Drivers!Exit, Led, Drivers!CharErr3, Drivers!CharErr2, Drivers!CharErr1,
         Drivers!CharErr
<1>5. Cleans(Drivers!Exit, H, M, excused) BY <1>2, <1>3, <1>4, FilesFirst
<1>6. Drivers!Exit \in Seq(Releases) BY <1>2, <1>4, ReleasesAre, FirstOfReleases
<1>7. <<"kfree">> \in Seq(Releases) /\ net \in Seq(Releases) BY ReleasesAre
<1>8. Drivers!PlatformRemove \in Seq(Releases) /\ Drivers!NetRemove \in Seq(Releases)
  BY <1>6, <1>7 DEF Drivers!PlatformRemove, Drivers!NetRemove
<1>9. ASSUME "priv" \in H PROVE Cleans(Drivers!PlatformRemove, H, M \ {"priv"}, excused)
  <2>1. "kfree" \in Releases /\ Drivers!Subject["kfree"] \in M
        /\ M \ Drivers!Frees("kfree") = M \ {"priv"}
    BY <1>9, ReleasesAre, FreesAre, SubjectsAre DEF Chrdev, Devices
  <2>2. Cleans(<<"kfree">>, M, M \ {"priv"}, excused) BY <1>1, <2>1, CleansOne
  <2> QED BY <1>5, <1>6, <1>7, <2>2, CleansThen DEF Drivers!PlatformRemove
<1>10. ASSUME {"priv", "ndev", "netif"} \subseteq H
       PROVE  Cleans(Drivers!NetRemove, H, O \ {"priv"}, excused)
  <2>1. "kfree" \in Releases /\ Drivers!Subject["kfree"] \in O
        /\ O \ Drivers!Frees("kfree") = O \ {"priv"}
    BY <1>10, ReleasesAre, FreesAre, SubjectsAre DEF Chrdev, Devices
  <2>2. Cleans(<<"kfree">>, O, O \ {"priv"}, excused) BY <1>1, <2>1, CleansOne
  <2>3. "free_netdev" \in Releases /\ Drivers!Subject["free_netdev"] \in N
        /\ N \ Drivers!Frees("free_netdev") = O
    BY <1>10, ReleasesAre, FreesAre, SubjectsAre DEF Chrdev, Devices
  <2>4. Cleans(Led("free_netdev", <<"kfree">>), N, O \ {"priv"}, excused)
    BY <1>1, <1>7, <2>2, <2>3, CleansFirst
  <2>5. "unregister_netdev" \in Releases /\ Drivers!Subject["unregister_netdev"] \in M
        /\ M \ Drivers!Frees("unregister_netdev") = N
    BY <1>10, ReleasesAre, FreesAre, SubjectsAre DEF Chrdev, Devices
  <2>6. Led("free_netdev", <<"kfree">>) \in Seq(Releases) BY <1>7, <2>3, FirstOfReleases
  <2>7. net = Led("unregister_netdev", Led("free_netdev", <<"kfree">>)) BY DEF Led
  <2>8. Cleans(net, M, O \ {"priv"}, excused) BY <1>1, <2>4, <2>5, <2>6, <2>7, CleansFirst
  <2> QED BY <1>5, <1>6, <1>7, <2>8, CleansThen DEF Drivers!NetRemove
<1>11. M \ {"priv"} = H \ (Chrdev \cup Devices \cup {"priv"})
       /\ O \ {"priv"} = H \ (Chrdev \cup Devices \cup {"priv", "ndev", "netif"})
  OBVIOUS
<1> QED BY <1>5, <1>6, <1>8, <1>9, <1>10, <1>11

\* The platform driver and its device are unregistered.
LEMMA UnregisterCleans ==
    ASSUME NEW H \in SUBSET Drivers!Resource, NEW excused, Kept(H), {"driver", "pdev"} \subseteq H
    PROVE  Cleans(<<"platform_driver_unregister", "platform_device_unregister">>, H,
                  H \ {"driver", "pdev"}, excused)
<1> DEFINE s == <<"platform_driver_unregister", "platform_device_unregister">>
           h == <<H, H \ {"driver"}, H \ {"driver", "pdev"}>>
<1>1. Len(s) = 2 /\ s[1] = "platform_driver_unregister" /\ s[2] = "platform_device_unregister"
  OBVIOUS
<1>2. /\ h \in [1 .. 3 -> SUBSET Drivers!Resource]
      /\ h[1] = H /\ h[2] = H \ {"driver"} /\ h[3] = H \ {"driver", "pdev"}
  OBVIOUS
<1>3. 1 .. 3 = {1, 2, 3} /\ 1 .. 2 = {1, 2} OBVIOUS
<1> HIDE DEF h, s
<1>4. \A i \in 1 .. 3 : Kept(h[i])
  <2>1. Kept(h[1]) /\ Kept(h[2]) /\ Kept(h[3]) BY <1>2, KeptIs
  <2> QED BY <1>3, <2>1
<1>5. \A i \in 1 .. 2 : /\ h[i + 1] = h[i] \ Drivers!Frees(s[i])
                        /\ Drivers!Subject[s[i]] \in h[i] \/ s[i] \in excused
  <2>1. /\ h[2] = h[1] \ Drivers!Frees(s[1]) /\ h[3] = h[2] \ Drivers!Frees(s[2])
        /\ Drivers!Subject[s[1]] \in h[1] /\ Drivers!Subject[s[2]] \in h[2]
    BY <1>1, <1>2, FreesAre, SubjectsAre
  <2> QED BY <1>3, <2>1
<1>6. Cleans(s, H, H \ {"driver", "pdev"}, excused) BY <1>1, <1>2, <1>4, <1>5 DEF Cleans
<1> QED BY <1>6 DEF s

\* Releases that are all excused, of things that are not there.
LEMMA ExcusedCleans ==
    ASSUME NEW H \in SUBSET Drivers!Resource, NEW seq \in Seq(Releases), Kept(H),
           \A i \in 1 .. Len(seq) : Drivers!Frees(seq[i]) \cap H = {}
    PROVE  Cleans(seq, H, H, Releases)
<1> DEFINE n == Len(seq)
           h == [i \in 1 .. n + 1 |-> H]
<1>1. n \in Nat /\ \A i \in 1 .. n : seq[i] \in Releases OBVIOUS
<1>2. h \in [1 .. n + 1 -> SUBSET Drivers!Resource] OBVIOUS
<1>3. \A i \in 1 .. n + 1 : h[i] = H OBVIOUS
<1>4. h[1] = H /\ h[n + 1] = H BY <1>1
<1> HIDE DEF h
<1>5. \A i \in 1 .. n + 1 : Kept(h[i]) BY <1>3
<1>6. \A i \in 1 .. n : h[i + 1] = h[i] \ Drivers!Frees(seq[i]) BY <1>1, <1>3
<1> QED BY <1>1, <1>2, <1>4, <1>5, <1>6 DEF Cleans

-------------------------------------------------------------------------------
(* A call that fails, in each of the tables.                               *)

\* What the calls before the n-th of a table get.
GetsBefore(T, n) == {T[i].gets : i \in 1 .. n - 1}

\* What a table has got after one step more.
LEMMA GetsOn ==
    ASSUME NEW T, NEW n \in Nat \ {0}
    PROVE  /\ GetsBefore(T, 1) = {}
           /\ GetsBefore(T, n + 1) = GetsBefore(T, n) \cup {T[n].gets}
<1>1. 1 .. 1 - 1 = {} /\ 1 .. (n + 1) - 1 = (1 .. n - 1) \cup {n} OBVIOUS
<1> QED BY <1>1 DEF GetsBefore

\* What the character device has got before each of its steps.
LEMMA CharGets ==
    LET G(n) == GetsBefore(Drivers!CharSteps, n)
    IN  /\ G(1) = {}
        /\ G(2) = {"cdev"}
        /\ G(3) = {"cdev", "kobj"}
        /\ G(4) = {"cdev", "kobj", "region"}
        /\ G(5) = {"cdev"} \cup Chrdev
        /\ G(6) = {"cdev"} \cup Chrdev \cup {"class"}
        /\ G(7) = {"cdev"} \cup Chrdev \cup {"class", "device"}
        /\ G(8) = {"cdev"} \cup Chrdev \cup {"class", "device", "file0"}
        /\ G(9) = {"cdev"} \cup Chrdev \cup Devices
<1> DEFINE T == Drivers!CharSteps
           G(n) == GetsBefore(T, n)
<1>1. T[1].gets = "cdev" /\ T[2].gets = "kobj" /\ T[3].gets = "region" /\ T[4].gets = "added"
      /\ T[5].gets = "class" /\ T[6].gets = "device" /\ T[7].gets = "file0"
      /\ T[8].gets = "file1"
  BY CharTable DEF Drivers!Call, Drivers!VoidCall
<1>2. /\ G(1) = {}
      /\ G(2) = G(1) \cup {T[1].gets} /\ G(3) = G(2) \cup {T[2].gets}
      /\ G(4) = G(3) \cup {T[3].gets} /\ G(5) = G(4) \cup {T[4].gets}
      /\ G(6) = G(5) \cup {T[5].gets} /\ G(7) = G(6) \cup {T[6].gets}
      /\ G(8) = G(7) \cup {T[7].gets} /\ G(9) = G(8) \cup {T[8].gets}
  <2> HIDE DEF T
  <2>1. ASSUME NEW n \in 1 .. 8 PROVE G(n + 1) = G(n) \cup {T[n].gets} BY GetsOn
  <2>2. G(1) = {} BY GetsOn
  <2> HIDE DEF G
  <2> QED BY <2>1, <2>2
<1> HIDE DEF G, T
<1>3. /\ G(1) = {} /\ G(2) = {"cdev"} /\ G(3) = {"cdev", "kobj"}
      /\ G(4) = {"cdev", "kobj", "region"}
  BY <1>1, <1>2
<1>4. /\ G(5) = {"cdev"} \cup Chrdev /\ G(6) = {"cdev"} \cup Chrdev \cup {"class"}
  BY <1>1, <1>2, <1>3 DEF Chrdev
<1>5. /\ G(7) = {"cdev"} \cup Chrdev \cup {"class", "device"}
      /\ G(8) = {"cdev"} \cup Chrdev \cup {"class", "device", "file0"}
  BY <1>1, <1>2, <1>4
<1>6. G(9) = {"cdev"} \cup Chrdev \cup Devices BY <1>1, <1>2, <1>5 DEF Devices
<1> QED BY <1>3, <1>4, <1>5, <1>6 DEF G, T

\* What the platform driver has got before each of its steps.
LEMMA PlatformGets ==
    ASSUME NEW T, PlatformFirst(T)
    PROVE  LET G(n) == GetsBefore(T, n)
           IN  /\ G(1) = {}
               /\ G(2) = {"cdev"}
               /\ G(3) = {"cdev", "kobj"}
               /\ G(4) = {"cdev", "kobj", "region"}
               /\ G(5) = {"cdev"} \cup Chrdev
               /\ G(6) = {"cdev", "priv"} \cup Chrdev
               /\ G(7) = {"cdev", "priv"} \cup Chrdev \cup {"class"}
               /\ G(8) = {"cdev", "priv"} \cup Chrdev \cup {"class", "device"}
               /\ G(9) = {"cdev", "priv"} \cup Chrdev \cup {"class", "device", "file0"}
               /\ G(10) = {"cdev", "priv"} \cup Chrdev \cup Devices
<1> DEFINE G(n) == GetsBefore(T, n)
<1>1. T[1].gets = "cdev" /\ T[2].gets = "kobj" /\ T[3].gets = "region" /\ T[4].gets = "added"
      /\ T[5].gets = "priv" /\ T[6].gets = "class" /\ T[7].gets = "device"
      /\ T[8].gets = "file0" /\ T[9].gets = "file1"
  BY DEF PlatformFirst, Drivers!Call, Drivers!UncheckedCall, Drivers!VoidCall
<1>2. /\ G(1) = {}
      /\ G(2) = G(1) \cup {T[1].gets} /\ G(3) = G(2) \cup {T[2].gets}
      /\ G(4) = G(3) \cup {T[3].gets} /\ G(5) = G(4) \cup {T[4].gets}
      /\ G(6) = G(5) \cup {T[5].gets} /\ G(7) = G(6) \cup {T[6].gets}
      /\ G(8) = G(7) \cup {T[7].gets} /\ G(9) = G(8) \cup {T[8].gets}
      /\ G(10) = G(9) \cup {T[9].gets}
  <2>1. ASSUME NEW n \in 1 .. 9 PROVE G(n + 1) = G(n) \cup {T[n].gets} BY GetsOn
  <2>2. G(1) = {} BY GetsOn
  <2> HIDE DEF G
  <2> QED BY <2>1, <2>2
<1> HIDE DEF G
<1>3. /\ G(1) = {} /\ G(2) = {"cdev"} /\ G(3) = {"cdev", "kobj"}
      /\ G(4) = {"cdev", "kobj", "region"}
  BY <1>1, <1>2
<1>4. G(5) = {"cdev"} \cup Chrdev /\ G(6) = {"cdev", "priv"} \cup Chrdev
  BY <1>1, <1>2, <1>3 DEF Chrdev
<1>5. /\ G(7) = {"cdev", "priv"} \cup Chrdev \cup {"class"}
      /\ G(8) = {"cdev", "priv"} \cup Chrdev \cup {"class", "device"}
  BY <1>1, <1>2, <1>4
<1>6. /\ G(9) = {"cdev", "priv"} \cup Chrdev \cup {"class", "device", "file0"}
      /\ G(10) = {"cdev", "priv"} \cup Chrdev \cup Devices
  BY <1>1, <1>2, <1>5 DEF Devices
<1> QED BY <1>3, <1>4, <1>5, <1>6 DEF G

\* What the net device has got before each of its last steps.
LEMMA NetGets ==
    /\ GetsBefore(Drivers!NetSteps, 10) = {"cdev", "priv"} \cup Chrdev \cup Devices
    /\ GetsBefore(Drivers!NetSteps, 11) = {"cdev", "priv", "ndev"} \cup Chrdev \cup Devices
    /\ GetsBefore(Drivers!NetSteps, 12)
           = {"cdev", "priv", "ndev", "netif"} \cup Chrdev \cup Devices
<1> DEFINE T == Drivers!NetSteps
           G(n) == GetsBefore(T, n)
<1>1. G(10) = {"cdev", "priv"} \cup Chrdev \cup Devices BY PlatformTable, PlatformGets
<1>2. T[10].gets = "ndev" /\ T[11].gets = "netif"
  BY PlatformTable DEF Drivers!Call, Drivers!ZeroRetCall
<1>3. G(10 + 1) = G(10) \cup {T[10].gets} /\ G(11 + 1) = G(11) \cup {T[11].gets}
  BY GetsOn
<1> HIDE DEF G, T
<1>4. G(11) = G(10) \cup {"ndev"} /\ G(12) = G(11) \cup {"netif"} BY <1>2, <1>3
<1> QED BY <1>1, <1>4 DEF G, T

\* What a failed load leaves behind, by driver and call.
LeftOf(driver, call_failed) ==
    IF ~driver.platform THEN {}
    ELSE IF call_failed = "added" THEN {"region"}
    ELSE IF call_failed = "priv" THEN {"kobj", "region", "added"}
    ELSE IF call_failed = "pdev" THEN {"driver"}
    ELSE {}

\* What a failed load leaves behind is a matter of the driver and of the step.
LEMMA LeftBehindIs ==
    /\ Drivers!LeftBehind = LeftOf(Drivers!Driver[name], failed)
    /\ Drivers!LeftBehind' = LeftOf(Drivers!Driver[name'], failed')
BY DEF Drivers!LeftBehind, LeftOf

\* The cdev that a load has lost when it has come to its n-th call.
LostAt(n) == IF n > 1 THEN {"cdev"} ELSE {}

Bus == {"driver", "pdev"}

\* A failed call of a plain module is reported, after the releases of all that
\* was there but the cdev.
LEMMA CharFails ==
    ASSUME NEW n \in (1 .. 8) \ {2}, NEW excused
    PROVE  LET c == Drivers!CharSteps[n]
           IN  /\ c.cleanup \in Seq(Releases)
               /\ Cleans(c.cleanup, GetsBefore(Drivers!CharSteps, n), LostAt(n), excused)
<1> DEFINE H == GetsBefore(Drivers!CharSteps, n)
           c == Drivers!CharSteps[n].cleanup
<1>1. n \in {1, 3, 4, 5, 6, 7, 8} OBVIOUS
<1>2. Kept(H) /\ H \in SUBSET Drivers!Resource
  BY <1>1, CharGets, KeptIs, ReleasesAre DEF Chrdev
<1>3. CASE n = 1
  <2>1. c = <<>> /\ H = {} /\ LostAt(n) = {} BY <1>3, CharTable, CharGets DEF Drivers!Call, LostAt
  <2>2. Cleans(<<>>, H, H, excused) BY <1>2, CleansNothing
  <2>3. <<>> \in Seq(Releases) OBVIOUS
  <2> QED BY <2>1, <2>2, <2>3
<1>4. n # 1 => LostAt(n) = {"cdev"} BY <1>1 DEF LostAt
<1>5. CASE n = 3
  <2>1. c = Drivers!CharErr /\ H = {"cdev", "kobj"}
    BY <1>5, CharTable, CharGets DEF Drivers!Call
  <2>2. Cleans(Drivers!CharErr, H, H \ {"kobj", "added"}, excused)
        /\ Drivers!CharErr \in Seq(Releases)
    BY <1>2, <2>1, ErrCleans
  <2>3. H \ {"kobj", "added"} = LostAt(n) BY <1>4, <1>5, <2>1
  <2> QED BY <2>1, <2>2, <2>3
<1>6. CASE n \in {4, 5}
  <2>1. c = Drivers!CharErr1 /\ {"cdev", "kobj", "region"} \subseteq H
        /\ H \subseteq {"cdev"} \cup Chrdev
    BY <1>6, CharTable, CharGets DEF Drivers!Call, Chrdev
  <2>2. Cleans(Drivers!CharErr1, H, H \ Chrdev, excused) /\ Drivers!CharErr1 \in Seq(Releases)
    BY <1>2, <2>1, ErrCleans
  <2>3. H \ Chrdev = LostAt(n) BY <1>4, <1>6, <2>1 DEF Chrdev
  <2> QED BY <2>1, <2>2, <2>3
<1>7. CASE n = 6
  <2>1. c = Drivers!CharErr2 /\ H = {"cdev"} \cup Chrdev \cup {"class"}
    BY <1>7, CharTable, CharGets DEF Drivers!Call
  <2>2. "device" \notin H /\ "class" \in H /\ {"kobj", "region"} \subseteq H
    BY <2>1 DEF Chrdev
  <2>3. Cleans(Drivers!CharErr2, H, H \ (Chrdev \cup {"class"}), excused)
        /\ Drivers!CharErr2 \in Seq(Releases)
    BY <1>2, <2>2, Err2Cleans
  <2>4. H \ (Chrdev \cup {"class"}) = LostAt(n) BY <1>4, <1>7, <2>1 DEF Chrdev
  <2> QED BY <2>1, <2>3, <2>4
<1>8. CASE n \in {7, 8}
  <2>1. c = Drivers!CharErr3 BY <1>8, CharTable DEF Drivers!Call
  <2>2. {"cdev", "kobj", "region", "class", "device"} \subseteq H
        /\ H \subseteq {"cdev"} \cup Chrdev \cup Devices
    BY <1>8, CharGets DEF Chrdev, Devices
  <2>3. Cleans(Drivers!CharErr3, H, H \ (Chrdev \cup Devices), excused)
        /\ Drivers!CharErr3 \in Seq(Releases)
    BY <1>2, <2>2, Err3Cleans
  <2>4. H \ (Chrdev \cup Devices) = LostAt(n) BY <1>4, <1>8, <2>2 DEF Chrdev, Devices
  <2> QED BY <2>1, <2>3, <2>4
<1> QED BY <1>1, <1>3, <1>5, <1>6, <1>7, <1>8

\* A failed call of a platform driver leaves the registrations, the cdev and what
\* LeftOf names: whether class_create has failed before is not known to it.
LEMMA PlatformFails ==
    ASSUME NEW T, PlatformFirst(T), NEW n \in (1 .. 9) \ {2, 6}, NEW excused, NEW H,
           \/ H = Bus \cup GetsBefore(T, n)
           \/ n = 7 /\ H = Bus \cup (GetsBefore(T, n) \ {"class"}),
           n = 7 => "class_destroy" \in excused
    PROVE  LET left == IF n = 4 THEN {"region"}
                       ELSE IF n = 5 THEN {"kobj", "region", "added"} ELSE {}
           IN  /\ T[n].cleanup \in Seq(Releases)
               /\ Cleans(T[n].cleanup, H, Bus \cup left \cup LostAt(n), excused)
<1> DEFINE G == GetsBefore(T, n)
           c == T[n].cleanup
           left == IF n = 4 THEN {"region"}
                   ELSE IF n = 5 THEN {"kobj", "region", "added"} ELSE {}
           rest == Bus \cup left \cup LostAt(n)
<1>1. n \in {1, 3, 4, 5, 7, 8, 9} OBVIOUS
<1>2. Kept(H) /\ H \in SUBSET Drivers!Resource
      /\ H \subseteq Bus \cup {"cdev", "priv"} \cup Chrdev \cup Devices
  BY <1>1, PlatformGets, KeptIs, ReleasesAre DEF Bus, Chrdev, Devices
<1>3. CASE n \in {1, 5}
  <2>1. c = <<>> BY <1>3 DEF PlatformFirst, Drivers!Call
  <2>2. H = Bus \cup G BY <1>3
  <2>3. rest = H BY <1>3, <2>2, PlatformGets DEF LostAt, Chrdev
  <2>4. Cleans(<<>>, H, H, excused) BY <1>2, CleansNothing
  <2>5. <<>> \in Seq(Releases) OBVIOUS
  <2> HIDE DEF rest
  <2>6. c \in Seq(Releases) /\ Cleans(c, H, rest, excused) BY <2>1, <2>3, <2>4, <2>5
  <2> QED BY <2>6 DEF rest
<1>4. CASE n \in {3, 4}
  <2>1. c = Drivers!PlatformErr BY <1>4 DEF PlatformFirst, Drivers!Call
  <2>2. H = Bus \cup G BY <1>4
  <2>3. "kobj" \in H BY <1>4, <2>2, PlatformGets
  <2>4. Cleans(Drivers!PlatformErr, H, H \ {"kobj", "added"}, excused)
        /\ Drivers!PlatformErr \in Seq(Releases)
    BY <1>2, <2>3, ErrCleans
  <2>5. H \ {"kobj", "added"} = rest BY <1>4, <2>2, PlatformGets DEF Bus, LostAt
  <2> HIDE DEF rest
  <2>6. c \in Seq(Releases) /\ Cleans(c, H, rest, excused) BY <2>1, <2>4, <2>5
  <2> QED BY <2>6 DEF rest
<1>5. CASE n = 7
  <2>1. c = Drivers!PlatformErr2 BY <1>5 DEF PlatformFirst, Drivers!Call
  <2>2. G = {"cdev", "priv"} \cup Chrdev \cup {"class"} BY <1>5, PlatformGets
  <2>3. "device" \notin H /\ {"kobj", "region", "priv"} \subseteq H
        /\ ("class" \in H \/ "class_destroy" \in excused)
    BY <1>5, <2>2 DEF Bus, Chrdev
  <2>4. Cleans(Drivers!PlatformErr2, H, H \ (Chrdev \cup {"priv", "class"}), excused)
        /\ Drivers!PlatformErr2 \in Seq(Releases)
    BY <1>2, <2>3, Err2Cleans
  <2>5. H \ (Chrdev \cup {"priv", "class"}) = rest
    BY <1>5, <2>2 DEF Bus, Chrdev, LostAt
  <2> HIDE DEF rest
  <2>6. c \in Seq(Releases) /\ Cleans(c, H, rest, excused) BY <2>1, <2>4, <2>5
  <2> QED BY <2>6 DEF rest
<1>6. CASE n \in {8, 9}
  <2>1. c = Drivers!PlatformErr3 BY <1>6 DEF PlatformFirst, Drivers!Call
  <2>2. H = Bus \cup G BY <1>6
  <2>3. {"cdev", "kobj", "region", "class", "device", "priv"} \subseteq H
    BY <1>6, <2>2, PlatformGets DEF Chrdev, Devices
  <2>4. Cleans(Drivers!PlatformErr3, H, H \ (Chrdev \cup Devices \cup {"priv"}), excused)
        /\ Drivers!PlatformErr3 \in Seq(Releases)
    BY <1>2, <2>3, Err3Cleans
  <2>5. H \ (Chrdev \cup Devices \cup {"priv"}) = rest
    <3>1. LostAt(n) = {"cdev"} /\ left = {} BY <1>6 DEF LostAt
    <3> HIDE DEF left
    <3> QED BY <1>2, <2>2, <2>3, <3>1 DEF Bus, Chrdev, Devices
  <2> HIDE DEF rest
  <2>6. c \in Seq(Releases) /\ Cleans(c, H, rest, excused) BY <2>1, <2>4, <2>5
  <2> QED BY <2>6 DEF rest
<1> QED BY <1>1, <1>3, <1>4, <1>5, <1>6

\* The two calls that only the network drivers make.
LEMMA NetFails ==
    ASSUME NEW n \in {10, 11}, NEW excused
    PROVE  /\ Drivers!NetSteps[n].cleanup \in Seq(Releases)
           /\ Cleans(Drivers!NetSteps[n].cleanup, Bus \cup GetsBefore(Drivers!NetSteps, n),
                     Bus \cup {"cdev"}, excused)
<1> DEFINE H == Bus \cup GetsBefore(Drivers!NetSteps, n)
           need == {"kobj", "region", "priv", "class", "device", "file0", "file1"}
<1>1. Kept(H) /\ H \in SUBSET Drivers!Resource /\ "netif" \notin H /\ need \subseteq H
  BY NetGets, KeptIs, ReleasesAre DEF Bus, Chrdev, Devices
<1>2. CASE n = 10
  <2>1. Drivers!NetSteps[n].cleanup = Drivers!NetErr4
    BY <1>2, PlatformTable DEF Drivers!ZeroRetCall
  <2>2. Cleans(Drivers!NetErr4, H, H \ (Chrdev \cup Devices \cup {"priv"}), excused)
        /\ Drivers!NetErr4 \in Seq(Releases)
    BY <1>1, NetErrCleans
  <2>3. H \ (Chrdev \cup Devices \cup {"priv"}) = Bus \cup {"cdev"}
    BY <1>2, NetGets DEF Bus, Chrdev, Devices
  <2> QED BY <2>1, <2>2, <2>3
<1>3. CASE n = 11
  <2>1. Drivers!NetSteps[n].cleanup = Drivers!NetErr5
    BY <1>3, PlatformTable DEF Drivers!Call
  <2>2. "ndev" \in H BY <1>3, NetGets
  <2>3. Cleans(Drivers!NetErr5, H, H \ (Chrdev \cup Devices \cup {"priv", "ndev"}), excused)
        /\ Drivers!NetErr5 \in Seq(Releases)
    BY <1>1, <2>2, NetErrCleans
  <2>4. H \ (Chrdev \cup Devices \cup {"priv", "ndev"}) = Bus \cup {"cdev"}
    BY <1>3, NetGets DEF Bus, Chrdev, Devices
  <2> QED BY <2>1, <2>3, <2>4
<1> QED BY <1>2, <1>3

-------------------------------------------------------------------------------
(* The invariant of the drivers.                                           *)

D == Drivers!Driver[name]

Base == IF D.platform THEN Bus ELSE {}

\* The releases that are not held to what they release.
Excuses ==
    IF failed = "ndev" /\ phase = "unload" THEN Releases
    ELSE IF failed = "device" THEN {"class_destroy"} ELSE {}

\* During init or probe all is held that the calls so far get, or all but the
\* class, whose failure nobody has seen.  During a cleanup or an unload the
\* releases to come lead to what is left and the lost cdev.
DriverInv ==
    /\ Drivers!TypeOK
    /\ todo \in Seq(Releases)
    /\ Kept(held)
    /\ phase = "out" => held = LeftOf(D, failed) \cup LostAt(step)
    /\ phase \in {"register_driver", "register_device"} =>
          D.platform /\ step = 1 /\ failed = "none"
    /\ phase = "register_driver" => held = {}
    /\ phase = "register_device" => held = {"driver"}
    /\ phase = "acquire" =>
          /\ failed = "none"
          /\ \/ held = Base \cup GetsBefore(D.steps, step)
             \/ /\ D.platform /\ step = 7
                /\ held = Bus \cup (GetsBefore(D.steps, step) \ {"class"})
    /\ phase \in {"cleanup", "in", "unload"} =>
          /\ failed \notin {"driver", "pdev"}
          /\ failed = "ndev" => D.platform
    /\ phase = "cleanup" =>
          /\ failed # "none"
          /\ ret = "zero" <=> failed = "ndev"
          /\ Cleans(todo, held, Base \cup LeftOf(D, failed) \cup LostAt(step), Excuses)
    /\ phase = "in" /\ ~bound =>
          D.platform /\ held = Bus \cup LeftOf(D, failed) \cup LostAt(step)
    /\ phase = "in" /\ bound =>
          \/ /\ failed = "none" /\ step > 1
             /\ held = Base \cup GetsBefore(D.steps, Len(D.steps) + 1)
          \/ failed = "ndev" /\ held = Bus \cup LostAt(step)
    /\ phase = "unload" => Cleans(todo, held, LeftOf(D, failed) \cup LostAt(step), Excuses)

\* The three drivers, by their tables.
LEMMA DriverIs ==
    ASSUME name \in DOMAIN Drivers!Driver
    PROVE  \/ D.platform = FALSE /\ D.steps = Drivers!CharSteps /\ D.exit = Drivers!Exit
           \/ /\ D.platform = TRUE /\ D.steps = Drivers!PlatformSteps
              /\ D.exit = Drivers!PlatformRemove
           \/ D.platform = TRUE /\ D.steps = Drivers!NetSteps /\ D.exit = Drivers!NetRemove
BY ThreeTables DEF D, Drivers!CharDriver, Drivers!PlatformDriver, Drivers!NetDriver

\* What the properties say of a state that the invariant allows.
LEMMA DriverInvShows ==
    ASSUME DriverInv
    PROVE  HeldAsReported /\ ReleasesOnlyHeld /\ NothingOutlivesParent
<1>1. Drivers!LeftBehind = LeftOf(D, failed) BY LeftBehindIs DEF D
<1>2. Drivers!Steps = D.steps BY DEF Drivers!Steps, D
<1>3. HeldAsReported
  <2> Drivers!Lost = LostAt(step) BY DEF Drivers!Lost, LostAt
  <2>1. phase = "out" => held = Drivers!LeftBehind \cup Drivers!Lost BY <1>1 DEF DriverInv
  <2>2. phase = "in" /\ ~bound =>
            held = {"driver", "pdev"} \cup Drivers!LeftBehind \cup Drivers!Lost
    BY <1>1 DEF DriverInv, Bus
  <2>3. ASSUME phase = "in", bound
        PROVE  \/ /\ failed = "none"
                  /\ held = {Drivers!Steps[i].gets : i \in DOMAIN Drivers!Steps}
                            \cup (IF Drivers!Driver[name].platform THEN {"driver", "pdev"} ELSE {})
               \/ failed = "ndev" /\ held = {"driver", "pdev"} \cup Drivers!Lost
    <3>1. DOMAIN D.steps = 1 .. (Len(D.steps) + 1) - 1
      BY DriverIs, CharTable, PlatformTable DEF DriverInv, Drivers!TypeOK
    <3>2. GetsBefore(D.steps, Len(D.steps) + 1) = {D.steps[i].gets : i \in DOMAIN D.steps}
      BY <3>1 DEF GetsBefore
    <3> QED BY <1>2, <2>3, <3>2 DEF DriverInv, Base, Bus, D
  <2> QED BY <2>1, <2>2, <2>3 DEF HeldAsReported, Drivers!HeldAsReported, DriverInv
<1>4. ReleasesOnlyHeld
  <2>1. SUFFICES ASSUME todo # <<>>
                 PROVE  \/ Drivers!Subject[Head(todo)] \in held
                        \/ Head(todo) = "class_destroy" /\ failed = "device"
                        \/ phase = "unload" /\ failed = "ndev"
    BY DEF ReleasesOnlyHeld, Drivers!ReleasesOnlyHeld
  <2>2. phase \in {"cleanup", "unload"} BY <2>1 DEF DriverInv, Drivers!TypeOK
  <2>3. PICK rest : Cleans(todo, held, rest, Excuses) BY <2>2 DEF DriverInv
  <2>4. Drivers!Subject[Head(todo)] \in held \/ Head(todo) \in Excuses
    BY <2>1, <2>3, CleansOn DEF DriverInv
  <2> QED BY <2>4 DEF Excuses
<1>5. NothingOutlivesParent
  BY DEF NothingOutlivesParent, Drivers!NothingOutlivesParent, DriverInv, Kept
<1> QED BY <1>3, <1>4, <1>5

\* A driver that was not loaded satisfies the invariant.
LEMMA DriverInitKeeps ==
    ASSUME Drivers!Init
    PROVE  DriverInv
<1>1. name \in DOMAIN Drivers!Driver /\ phase = "out" /\ step = 1 /\ todo = <<>> /\ held = {}
      /\ bound = FALSE /\ ret = "zero" /\ failed = "none"
  BY DEF Drivers!Init
<1>2. Drivers!TypeOK
  <2>1. Len(D.steps) \in Nat BY <1>1, DriverIs, CharTable, PlatformTable
  <2>2. 1 \in 1 .. Len(Drivers!Steps) + 1 BY <2>1 DEF Drivers!Steps, D
  <2> QED BY <1>1, <2>2 DEF Drivers!TypeOK
<1>3. todo \in Seq(Releases) /\ Kept(held) BY <1>1, KeptIs
<1>4. LeftOf(D, failed) = {} /\ LostAt(step) = {} BY <1>1 DEF LeftOf, LostAt
<1> QED BY <1>1, <1>2, <1>3, <1>4 DEF DriverInv

\* A call of init or probe: what it gets, and that only class_create can fail
\* unchecked.
LEMMA StepIs ==
    ASSUME name \in DOMAIN Drivers!Driver, step \in 1 .. Len(D.steps)
    PROVE  LET c == D.steps[step]
           IN  /\ c.gets \in Drivers!Resource \ {"driver", "pdev", "none"}
               /\ c.fails \in BOOLEAN /\ c.checked \in BOOLEAN
               /\ c.fails /\ ~c.checked => D.platform /\ step = 6
               /\ c.checked => step # 2 /\ ~(D.platform /\ step = 6)
               /\ D.platform /\ step = 7 => c.gets = "device"
               /\ D.platform /\ step = 6 => c.gets = "class"
               /\ c.gets = "ndev" => D.platform
               /\ c.checked => (c.honest <=> c.gets # "ndev")
<1> DEFINE c == D.steps[step]
<1>1. CASE D.steps = Drivers!CharSteps /\ D.platform = FALSE
  <2>1. step \in {1, 2, 3, 4, 5, 6, 7, 8} BY <1>1, CharTable
  <2>2. /\ c.gets \in {"cdev", "kobj", "region", "added", "class", "device", "file0", "file1"}
        /\ step = 2 => c.fails = FALSE /\ c.checked = FALSE
        /\ step # 2 => c.fails = TRUE /\ c.checked = TRUE
        /\ c.honest = TRUE
    BY <1>1, <2>1, CharTable DEF Drivers!Call, Drivers!VoidCall
  <2> QED BY <1>1, <2>1, <2>2, ReleasesAre
<1>2. CASE D.platform = TRUE /\ PlatformFirst(D.steps) /\ step \in 1 .. 9
  <2>1. step \in {1, 2, 3, 4, 5, 6, 7, 8, 9} BY <1>2
  <2>2. /\ c.gets \in {"cdev", "kobj", "region", "added", "priv", "class", "device", "file0",
                       "file1"}
        /\ c.honest = TRUE
        /\ step = 2 => c.fails = FALSE /\ c.checked = FALSE
        /\ step # 2 => c.fails = TRUE
        /\ step \notin {2, 6} => c.checked = TRUE
        /\ step = 6 => c.checked = FALSE /\ c.gets = "class"
        /\ step = 7 => c.gets = "device"
    <3> USE <1>2 DEF PlatformFirst, Drivers!Call, Drivers!UncheckedCall, Drivers!VoidCall
    <3>1. CASE step \in {1, 2, 3} BY <3>1
    <3>2. CASE step \in {4, 5, 6} BY <3>2
    <3>3. CASE step \in {7, 8, 9} BY <3>3
    <3> QED BY <2>1, <3>1, <3>2, <3>3
  <2> QED BY <1>2, <2>1, <2>2, ReleasesAre
<1>3. CASE D.platform = TRUE /\ D.steps = Drivers!NetSteps /\ step \in {10, 11}
  <2>1. /\ c.checked = TRUE /\ c.fails = TRUE
        /\ step = 10 => c.gets = "ndev" /\ c.honest = FALSE
        /\ step = 11 => c.gets = "netif" /\ c.honest = TRUE
    BY <1>3, PlatformTable DEF Drivers!Call, Drivers!ZeroRetCall
  <2>2. c.gets \in {"ndev", "netif"} /\ (c.gets = "ndev" <=> step = 10) BY <1>3, <2>1
  <2>3. c.honest <=> c.gets # "ndev"
    <3>1. CASE step = 10 BY <2>1, <3>1
    <3>2. CASE step = 11
      <4>1. c.honest = TRUE /\ c.gets = "netif" BY <2>1, <3>2
      <4> QED BY <4>1
    <3> QED BY <1>3, <3>1, <3>2
  <2>4. c.gets \in Drivers!Resource \ {"driver", "pdev", "none"} BY <2>2, ReleasesAre
  <2>5. c.checked = TRUE /\ c.fails = TRUE /\ D.platform /\ step \notin {2, 6, 7}
    BY <1>3, <2>1
  <2> QED BY <2>3, <2>4, <2>5
<1>4. ASSUME D.steps = Drivers!NetSteps PROVE step \in 1 .. 9 \/ step \in {10, 11}
  <2>1. Len(D.steps) = 11 BY <1>4, PlatformTable
  <2> QED BY <2>1
<1>5. D.steps = Drivers!PlatformSteps => step \in 1 .. 9 BY PlatformTable
<1> QED BY <1>1, <1>2, <1>3, <1>4, <1>5, DriverIs, PlatformTable

\* insmod begins.
LEMMA LoadKeeps ==
    ASSUME DriverInv, Drivers!Load
    PROVE  DriverInv'
<1>1. /\ held' = {} /\ todo' = <<>> /\ name' = name /\ step' = 1 /\ ret' = "zero"
      /\ failed' = "none" /\ bound' = bound /\ bound = FALSE
      /\ phase' = IF D.platform THEN "register_driver" ELSE "acquire"
  <2>1. todo = <<>> /\ bound = FALSE BY DEF Drivers!Load, DriverInv, Drivers!TypeOK
  <2> QED BY <2>1 DEF Drivers!Load, D
<1>2. Drivers!TypeOK' BY <1>1 DEF Drivers!TypeOK, DriverInv, Drivers!Steps, D
<1>3. D' = D BY <1>1 DEF D
<1>4. Kept({}) /\ <<>> \in Seq(Releases) BY KeptIs
<1>5. GetsBefore(D.steps, 1) = {} BY GetsOn
<1>6. phase' = "acquire" => held' = Base' \cup GetsBefore(D'.steps, step')
  BY <1>1, <1>3, <1>5 DEF Base
<1> QED BY <1>1, <1>2, <1>3, <1>4, <1>6 DEF DriverInv

\* The driver or the device is registered, or the insmod has failed.
LEMMA RegisterKeeps ==
    ASSUME DriverInv, Drivers!RegisterDriver \/ Drivers!RegisterDevice
    PROVE  DriverInv'
<1> DEFINE gets == IF phase = "register_driver" THEN "driver" ELSE "pdev"
<1>1. /\ phase \in {"register_driver", "register_device"}
      /\ UNCHANGED <<name, step, todo, bound, ret>>
      /\ \/ /\ held' = held \cup {gets}
            /\ phase' = IF phase = "register_driver" THEN "register_device" ELSE "acquire"
            /\ failed' = failed
         \/ phase' = "out" /\ failed' = gets /\ held' = held
  BY DEF Drivers!RegisterDriver, Drivers!RegisterDevice, Drivers!Register
<1>2. D.platform /\ step = 1 /\ failed = "none" /\ bound = FALSE /\ todo = <<>>
      /\ held = IF phase = "register_driver" THEN {} ELSE {"driver"}
  BY <1>1 DEF DriverInv, Drivers!TypeOK
<1>3. D' = D BY <1>1 DEF D
<1>4. held' \in SUBSET Drivers!Resource /\ failed' \in Drivers!Resource \cup {"none"}
  BY <1>1, <1>2, ReleasesAre
<1>5. Drivers!TypeOK' BY <1>1, <1>2, <1>4 DEF Drivers!TypeOK, DriverInv, Drivers!Steps
<1>6. Kept(held') /\ <<>> \in Seq(Releases) BY <1>1, <1>2, KeptIs
<1>7. phase' = "acquire" => held' = Base' \cup GetsBefore(D'.steps, step')
  <2>1. GetsBefore(D.steps, 1) = {} BY GetsOn
  <2> QED BY <1>1, <1>2, <1>3, <2>1 DEF Base, Bus
<1>8. phase' = "out" => held' = LeftOf(D', failed') \cup LostAt(step')
  BY <1>1, <1>2, <1>3 DEF LeftOf, LostAt
<1> QED BY <1>1, <1>2, <1>3, <1>5, <1>6, <1>7, <1>8 DEF DriverInv

\* A call of init or probe has succeeded.
LEMMA AcquireKeeps ==
    ASSUME DriverInv, Drivers!Acquire
    PROVE  DriverInv'
<1> DEFINE r == D.steps[step].gets
<1>1. /\ phase = "acquire" /\ step <= Len(D.steps)
      /\ r \in DOMAIN Drivers!Parent => Drivers!Parent[r] \in held
      /\ held' = held \cup {r} /\ step' = step + 1
      /\ UNCHANGED <<name, phase, todo, bound, ret, failed>>
  BY DEF Drivers!Acquire, Drivers!Steps, D
<1>2. step \in 1 .. Len(D.steps) /\ step \in Nat \ {0} /\ name \in DOMAIN Drivers!Driver
  <2>1. Len(D.steps) \in Nat BY DriverIs, CharTable, PlatformTable DEF DriverInv, Drivers!TypeOK
  <2> QED BY <1>1, <2>1 DEF DriverInv, Drivers!TypeOK, Drivers!Steps, D
<1>3. r \in Drivers!Resource BY <1>2, StepIs
<1>4. D' = D BY <1>1 DEF D
<1>5. Drivers!TypeOK'
  <2>1. Len(D.steps) \in Nat BY DriverIs, CharTable, PlatformTable DEF DriverInv, Drivers!TypeOK
  <2>2. step' \in 1 .. Len(D.steps) + 1 BY <1>1, <1>2, <2>1
  <2> QED BY <1>1, <1>3, <2>2 DEF Drivers!TypeOK, DriverInv, Drivers!Steps, D
<1>6. Kept(held') BY <1>1 DEF Kept, DriverInv
<1>7. ~(D.platform /\ step = 7 /\ held = Bus \cup (GetsBefore(D.steps, step) \ {"class"}))
  <2>1. SUFFICES ASSUME D.platform, step = 7,
                        held = Bus \cup (GetsBefore(D.steps, step) \ {"class"})
                 PROVE  FALSE
    OBVIOUS
  <2>2. r = "device" BY <1>2, <2>1, StepIs
  <2> QED BY <1>1, <2>1, <2>2 DEF Drivers!Parent, Bus
<1>8. held' = Base' \cup GetsBefore(D'.steps, step')
  <2>1. held = Base \cup GetsBefore(D.steps, step) BY <1>1, <1>7 DEF DriverInv
  <2>2. GetsBefore(D.steps, step + 1) = GetsBefore(D.steps, step) \cup {r} BY <1>2, GetsOn
  <2>3. Base' = Base BY <1>4 DEF Base
  <2> QED BY <1>1, <1>4, <2>1, <2>2, <2>3
<1> QED BY <1>1, <1>5, <1>6, <1>8 DEF DriverInv

\* class_create has failed and nobody has seen it.
LEMMA FailUnseenKeeps ==
    ASSUME DriverInv, Drivers!FailUnseen
    PROVE  DriverInv'
<1>1. /\ phase = "acquire" /\ step <= Len(D.steps)
      /\ D.steps[step].fails /\ ~D.steps[step].checked
      /\ step' = step + 1
      /\ UNCHANGED <<name, phase, todo, held, bound, ret, failed>>
  BY DEF Drivers!FailUnseen, Drivers!Steps, D
<1>2. step \in 1 .. Len(D.steps) /\ name \in DOMAIN Drivers!Driver /\ Len(D.steps) \in Nat
  <2>1. Len(D.steps) \in Nat BY DriverIs, CharTable, PlatformTable DEF DriverInv, Drivers!TypeOK
  <2> QED BY <1>1, <2>1 DEF DriverInv, Drivers!TypeOK, Drivers!Steps, D
<1>3. D.platform /\ step = 6 /\ D.steps[step].gets = "class" BY <1>1, <1>2, StepIs
<1>4. D' = D BY <1>1 DEF D
<1>5. Drivers!TypeOK'
  <2>1. step' \in 1 .. Len(D.steps) + 1 BY <1>1, <1>2
  <2> QED BY <1>1, <2>1 DEF Drivers!TypeOK, DriverInv, Drivers!Steps, D
<1>6. Kept(held') BY <1>1 DEF DriverInv
<1>7. held' = Bus \cup (GetsBefore(D.steps, step') \ {"class"})
  <2>1. held = Bus \cup GetsBefore(D.steps, 6) BY <1>1, <1>3 DEF DriverInv, Base
  <2>2. PlatformFirst(D.steps) BY <1>2, <1>3, DriverIs, PlatformTable
  <2>3. GetsBefore(D.steps, 7) \ {"class"} = GetsBefore(D.steps, 6)
    BY <2>2, PlatformGets DEF Chrdev
  <2> QED BY <1>1, <1>3, <2>1, <2>3
<1> QED BY <1>1, <1>3, <1>4, <1>5, <1>6, <1>7 DEF DriverInv

\* A call of init or probe has failed, and the releases of its label begin.
LEMMA FailKeeps ==
    ASSUME DriverInv, Drivers!Fail
    PROVE  DriverInv'
<1> DEFINE c == D.steps[step]
<1>1. /\ phase = "acquire" /\ step <= Len(D.steps) /\ c.checked
      /\ phase' = "cleanup" /\ todo' = c.cleanup
      /\ ret' = IF c.honest THEN "error" ELSE "zero"
      /\ failed' = c.gets
      /\ UNCHANGED <<name, step, held, bound>>
  BY DEF Drivers!Fail, Drivers!Steps, D
<1>2. step \in 1 .. Len(D.steps) /\ name \in DOMAIN Drivers!Driver /\ bound = FALSE
      /\ held \in SUBSET Drivers!Resource
  <2>1. Len(D.steps) \in Nat BY DriverIs, CharTable, PlatformTable DEF DriverInv, Drivers!TypeOK
  <2> QED BY <1>1, <2>1 DEF DriverInv, Drivers!TypeOK, Drivers!Steps, D
<1>3. /\ failed' \in Drivers!Resource \ {"driver", "pdev", "none"}
      /\ ret' = "zero" <=> failed' = "ndev"
      /\ ret' \in {"zero", "error"}
      /\ failed' = "ndev" => D.platform
  BY <1>1, <1>2, StepIs
<1>4. D' = D BY <1>1 DEF D
<1>5. Base' = Base BY <1>4 DEF Base
<1>6. /\ todo' \in Seq(Releases)
      /\ Cleans(todo', held, Base \cup LeftOf(D, failed') \cup LostAt(step), Excuses')
  <2>1. CASE D.platform = FALSE /\ D.steps = Drivers!CharSteps
    <3>1. step \in (1 .. 8) \ {2} BY <1>1, <1>2, <2>1, CharTable, StepIs
    <3>2. held = GetsBefore(D.steps, step) BY <1>1, <2>1 DEF DriverInv, Base
    <3>3. Base \cup LeftOf(D, failed') \cup LostAt(step) = LostAt(step)
      BY <2>1 DEF Base, LeftOf
    <3> QED BY <1>1, <2>1, <3>1, <3>2, <3>3, CharFails
  <2>2. CASE D.platform = TRUE /\ PlatformFirst(D.steps) /\ step \in 1 .. 9
    <3>1. step \in (1 .. 9) \ {2, 6} BY <1>1, <1>2, <2>2, StepIs
    <3>2. step = 7 => "class_destroy" \in Excuses'
      <4>1. step = 7 => failed' = "device" BY <1>1, <1>2, <2>2, StepIs
      <4> QED BY <1>1, <4>1 DEF Excuses
    <3>3. \/ held = Bus \cup GetsBefore(D.steps, step)
          \/ step = 7 /\ held = Bus \cup (GetsBefore(D.steps, step) \ {"class"})
      BY <1>1, <2>2 DEF DriverInv, Base
    <3> DEFINE left == IF step = 4 THEN {"region"}
                       ELSE IF step = 5 THEN {"kobj", "region", "added"} ELSE {}
    <3>4. Base \cup LeftOf(D, failed') = Bus \cup left
      <4>1. step \in {1, 3, 4, 5, 7, 8, 9} BY <3>1
      <4>2. /\ step = 4 <=> failed' = "added"
            /\ step = 5 <=> failed' = "priv"
            /\ failed' # "pdev"
        BY <1>1, <2>2, <4>1 DEF PlatformFirst, Drivers!Call
      <4> QED BY <2>2, <4>2 DEF Base, LeftOf
    <3>5. c.cleanup \in Seq(Releases)
          /\ Cleans(c.cleanup, held, Bus \cup left \cup LostAt(step), Excuses')
      BY <2>2, <3>1, <3>2, <3>3, PlatformFails
    <3> QED BY <1>1, <3>4, <3>5
  <2>3. CASE D.platform = TRUE /\ D.steps = Drivers!NetSteps /\ step \in {10, 11}
    <3>1. held = Bus \cup GetsBefore(D.steps, step) BY <1>1, <2>3 DEF DriverInv, Base
    <3>2. failed' \in {"ndev", "netif"}
      BY <1>1, <2>3, PlatformTable DEF Drivers!Call, Drivers!ZeroRetCall
    <3>3. Base \cup LeftOf(D, failed') \cup LostAt(step) = Bus \cup {"cdev"}
      BY <2>3, <3>2 DEF Base, LeftOf, LostAt
    <3> QED BY <1>1, <2>3, <3>1, <3>3, NetFails
  <2>4. ASSUME D.steps = Drivers!NetSteps PROVE step \in 1 .. 9 \/ step \in {10, 11}
    <3>1. Len(D.steps) = 11 BY <2>4, PlatformTable
    <3> QED BY <1>2, <3>1
  <2>5. D.steps = Drivers!PlatformSteps => step \in 1 .. 9 BY <1>2, PlatformTable
  <2> QED BY <1>2, <2>1, <2>2, <2>3, <2>4, <2>5, DriverIs, PlatformTable
<1>7. Drivers!TypeOK'
  <2>1. step' \in 1 .. Len(D.steps) + 1 BY <1>1 DEF DriverInv, Drivers!TypeOK, Drivers!Steps, D
  <2> QED BY <1>1, <1>2, <1>3, <2>1 DEF Drivers!TypeOK, DriverInv, Drivers!Steps, D
<1>8. Kept(held') BY <1>1 DEF DriverInv
<1> QED BY <1>1, <1>3, <1>4, <1>5, <1>6, <1>7, <1>8 DEF DriverInv

\* All calls of init or probe have been made.
LEMMA AcquiredKeeps ==
    ASSUME DriverInv, Drivers!Acquired
    PROVE  DriverInv'
<1>1. /\ phase = "acquire" /\ step > Len(D.steps) /\ phase' = "in" /\ bound' = TRUE
      /\ UNCHANGED <<name, step, todo, held, ret, failed>>
  BY DEF Drivers!Acquired, Drivers!Steps, D
<1>2. Len(D.steps) = 8 \/ Len(D.steps) = 9 \/ Len(D.steps) = 11
  BY DriverIs, CharTable, PlatformTable DEF DriverInv, Drivers!TypeOK
<1>3. step = Len(D.steps) + 1 /\ step > 7
  <2>1. step \in 1 .. Len(D.steps) + 1 BY DEF DriverInv, Drivers!TypeOK, Drivers!Steps, D
  <2> DEFINE n == Len(D.steps)
  <2>2. n = 8 \/ n = 9 \/ n = 11 BY <1>2
  <2>3. step > n /\ step \in 1 .. n + 1 BY <1>1, <2>1
  <2> HIDE DEF n
  <2>4. step = n + 1 BY <2>2, <2>3
  <2>5. step > 7 BY <2>2, <2>4
  <2> QED BY <2>4, <2>5 DEF n
<1>4. D' = D BY <1>1 DEF D
<1>5. Base' = Base BY <1>4 DEF Base
<1>6. failed' = "none" /\ step' > 1
      /\ held' = Base' \cup GetsBefore(D'.steps, Len(D'.steps) + 1)
  BY <1>1, <1>3, <1>4, <1>5 DEF DriverInv
<1>7. Drivers!TypeOK' BY <1>1 DEF Drivers!TypeOK, DriverInv, Drivers!Steps
<1>8. Kept(held') /\ todo' \in Seq(Releases) BY <1>1 DEF DriverInv
<1> QED BY <1>1, <1>6, <1>7, <1>8 DEF DriverInv

\* One release of a cleanup or an unload.
LEMMA ReleaseKeeps ==
    ASSUME DriverInv, Drivers!Release
    PROVE  DriverInv'
<1>1. /\ todo # <<>> /\ todo' = Tail(todo) /\ held' = held \ Drivers!Frees(Head(todo))
      /\ UNCHANGED <<name, phase, step, bound, ret, failed>>
  BY DEF Drivers!Release
<1>2. phase \in {"cleanup", "unload"} /\ todo \in Seq(Releases)
  BY <1>1 DEF DriverInv, Drivers!TypeOK
<1>3. todo' \in Seq(Releases) BY <1>1, <1>2
<1>4. D' = D BY <1>1 DEF D
<1>5. Base' = Base /\ Excuses' = Excuses BY <1>1, <1>4 DEF Base, Excuses
<1>6. ASSUME NEW rest, Cleans(todo, held, rest, Excuses)
      PROVE  Cleans(todo', held', rest, Excuses) /\ Kept(held')
  BY <1>1, <1>2, <1>3, <1>6, CleansOn, CleansEnds
<1>7. Kept(held') BY <1>2, <1>6 DEF DriverInv
<1>8. Drivers!TypeOK' BY <1>1, <1>2 DEF Drivers!TypeOK, DriverInv, Drivers!Steps
<1> QED BY <1>1, <1>2, <1>3, <1>4, <1>5, <1>6, <1>7, <1>8 DEF DriverInv

\* The init or probe that failed returns.
LEMMA CleanedUpKeeps ==
    ASSUME DriverInv, Drivers!CleanedUp
    PROVE  DriverInv'
<1>1. /\ phase = "cleanup" /\ todo = <<>> /\ bound' = (ret = "zero")
      /\ phase' = IF D.platform \/ ret = "zero" THEN "in" ELSE "out"
      /\ UNCHANGED <<name, step, todo, held, ret, failed>>
  BY DEF Drivers!CleanedUp, D
<1>2. held = Base \cup LeftOf(D, failed) \cup LostAt(step)
  <2> DEFINE rest == Base \cup LeftOf(D, failed) \cup LostAt(step)
  <2>1. Cleans(todo, held, rest, Excuses) /\ todo \in Seq(Releases) BY <1>1 DEF DriverInv
  <2> HIDE DEF rest
  <2>2. held = rest BY <1>1, <2>1, CleansEnds
  <2> QED BY <2>2 DEF rest
<1>3. /\ ret = "zero" <=> failed = "ndev"
      /\ failed = "ndev" => D.platform
      /\ failed \notin {"none", "driver", "pdev"}
  BY <1>1 DEF DriverInv
<1>4. D' = D BY <1>1 DEF D
<1>5. ret = "zero" => held = Bus \cup LostAt(step) BY <1>2, <1>3 DEF Base, LeftOf
<1>6. ret # "zero" /\ D.platform => held = Bus \cup LeftOf(D, failed) \cup LostAt(step)
  BY <1>2 DEF Base
<1>7. ~D.platform => held = LeftOf(D, failed) \cup LostAt(step) BY <1>2 DEF Base
<1>8. Drivers!TypeOK'
  <2>1. bound' \in BOOLEAN /\ (bound' => phase' = "in") BY <1>1
  <2> QED BY <1>1, <2>1 DEF Drivers!TypeOK, DriverInv, Drivers!Steps
<1>9. Kept(held') /\ todo' \in Seq(Releases) BY <1>1 DEF DriverInv
<1> QED BY <1>1, <1>3, <1>4, <1>5, <1>6, <1>7, <1>8, <1>9 DEF DriverInv

\* A remove touches neither the registrations nor the memory of the cdev.
LEMMA RemoveKeepsBus ==
    ASSUME name \in DOMAIN Drivers!Driver, D.platform
    PROVE  \A i \in 1 .. Len(D.exit) :
               Drivers!Frees(D.exit[i]) \cap (Bus \cup {"cdev"}) = {}
<1> DEFINE Own == Releases \ {"platform_driver_unregister", "platform_device_unregister"}
<1>1. \A r \in Own : Drivers!Frees(r) \cap (Bus \cup {"cdev"}) = {}
  BY ReleasesAre, FreesAre DEF Bus
<1>2. Drivers!Exit \in Seq(Own) /\ <<"kfree">> \in Seq(Own)
      /\ <<"unregister_netdev", "free_netdev", "kfree">> \in Seq(Own)
  BY ReleasesAre DEF Drivers!Exit
<1>3. Drivers!PlatformRemove \in Seq(Own) /\ Drivers!NetRemove \in Seq(Own)
  BY <1>2, Joined DEF Drivers!PlatformRemove, Drivers!NetRemove
<1>4. D.exit \in Seq(Own) BY <1>3, DriverIs
<1> HIDE DEF Own
<1> QED BY <1>1, <1>4

\* The exit or remove of a module gives back all that its calls get but the
\* memory of the cdev.
LEMMA ExitCleansAll ==
    ASSUME name \in DOMAIN Drivers!Driver, NEW H, NEW excused,
           H = Base \cup GetsBefore(D.steps, Len(D.steps) + 1)
    PROVE  Cleans(D.exit, H, Base \cup {"cdev"}, excused)
<1>1. CASE D.steps = Drivers!CharSteps /\ D.platform = FALSE /\ D.exit = Drivers!Exit
  <2>1. H = {"cdev"} \cup Chrdev \cup Devices BY <1>1, CharTable, CharGets DEF Base
  <2>2. Kept(H) /\ H \in SUBSET Drivers!Resource
        /\ {"kobj", "region", "class", "device", "file0", "file1"} \subseteq H
    BY <2>1, KeptIs, ReleasesAre DEF Chrdev, Devices
  <2>3. Cleans(Drivers!Exit, H, H \ (Chrdev \cup Devices), excused) BY <2>2, ExitCleans
  <2>4. H \ (Chrdev \cup Devices) = Base \cup {"cdev"}
    BY <1>1, <2>1 DEF Base, Chrdev, Devices
  <2> QED BY <1>1, <2>3, <2>4
<1>2. CASE D.steps = Drivers!PlatformSteps /\ D.platform = TRUE
           /\ D.exit = Drivers!PlatformRemove
  <2>1. H = Bus \cup {"cdev", "priv"} \cup Chrdev \cup Devices
    BY <1>2, PlatformTable, PlatformGets DEF Base
  <2>2. Kept(H) /\ H \in SUBSET Drivers!Resource /\ "priv" \in H
        /\ {"kobj", "region", "class", "device", "file0", "file1"} \subseteq H
    BY <2>1, KeptIs, ReleasesAre DEF Bus, Chrdev, Devices
  <2>3. Cleans(Drivers!PlatformRemove, H, H \ (Chrdev \cup Devices \cup {"priv"}), excused)
    BY <2>2, ExitCleans
  <2>4. H \ (Chrdev \cup Devices \cup {"priv"}) = Base \cup {"cdev"}
    BY <1>2, <2>1 DEF Base, Bus, Chrdev, Devices
  <2> QED BY <1>2, <2>3, <2>4
<1>3. CASE D.steps = Drivers!NetSteps /\ D.platform = TRUE /\ D.exit = Drivers!NetRemove
  <2>1. H = Bus \cup {"cdev", "priv", "ndev", "netif"} \cup Chrdev \cup Devices
    BY <1>3, PlatformTable, NetGets DEF Base
  <2>2. Kept(H) /\ H \in SUBSET Drivers!Resource /\ {"priv", "ndev", "netif"} \subseteq H
        /\ {"kobj", "region", "class", "device", "file0", "file1"} \subseteq H
    BY <2>1, KeptIs, ReleasesAre DEF Bus, Chrdev, Devices
  <2>3. Cleans(Drivers!NetRemove, H, H \ (Chrdev \cup Devices \cup {"priv", "ndev", "netif"}),
               excused)
    BY <2>2, ExitCleans
  <2>4. H \ (Chrdev \cup Devices \cup {"priv", "ndev", "netif"}) = Base \cup {"cdev"}
    BY <1>3, <2>1 DEF Base, Bus, Chrdev, Devices
  <2> QED BY <1>3, <2>3, <2>4
<1> QED BY <1>1, <1>2, <1>3, DriverIs

\* rmmod begins.
LEMMA UnloadKeeps ==
    ASSUME DriverInv, Drivers!Unload
    PROVE  DriverInv'
<1> DEFINE pair == <<"platform_driver_unregister", "platform_device_unregister">>
           first == IF bound THEN D.exit ELSE <<>>
           second == IF D.platform THEN pair ELSE <<>>
           left == LeftOf(D, failed) \cup LostAt(step)
<1>1. /\ phase = "in" /\ phase' = "unload" /\ todo' = first \o second
      /\ UNCHANGED <<name, step, held, bound, ret, failed>>
  BY DEF Drivers!Unload, D
<1>2. name \in DOMAIN Drivers!Driver /\ held \in SUBSET Drivers!Resource /\ Kept(held)
      /\ bound \in BOOLEAN
  BY DEF DriverInv, Drivers!TypeOK
<1>3. D' = D BY <1>1 DEF D
<1>4. pair \in Seq(Releases) /\ <<>> \in Seq(Releases) BY ReleasesAre
<1>5. D.exit \in Seq(Releases)
  <2> DEFINE all == {"cdev"} \cup Chrdev \cup Devices
  <2>1. all \in SUBSET Drivers!Resource /\ Kept(all)
        /\ {"kobj", "region", "class", "device", "file0", "file1"} \subseteq all
    BY ReleasesAre, KeptIs DEF Chrdev, Devices
  <2>2. Drivers!Exit \in Seq(Releases) /\ Drivers!PlatformRemove \in Seq(Releases)
        /\ Drivers!NetRemove \in Seq(Releases)
    BY <2>1, ExitCleans
  <2> QED BY <1>2, <2>2, DriverIs
<1>6. first \in Seq(Releases) /\ second \in Seq(Releases) BY <1>4, <1>5
<1>7. todo' \in Seq(Releases) BY <1>1, <1>6, Joined
<1>8. failed \notin {"driver", "pdev"} /\ (failed = "ndev" => D.platform)
  BY <1>1 DEF DriverInv
<1>9. Cleans(second, Base \cup left, left, Excuses')
  <2>1. CASE D.platform
    <3>1. Base = Bus /\ left \in SUBSET {"region", "cdev", "kobj", "added"}
      BY <1>8, <2>1 DEF Base, LeftOf, LostAt
    <3>2. Kept(Bus \cup left)
      <4>1. CASE bound
        <5>1. failed \in {"none", "ndev"} BY <1>1, <4>1 DEF DriverInv
        <5> QED BY <5>1, KeptIs DEF Bus, LeftOf, LostAt
      <4>2. CASE ~bound
        <5>1. held = Bus \cup left BY <1>1, <4>2 DEF DriverInv
        <5> QED BY <1>2, <5>1
      <4> QED BY <4>1, <4>2
    <3>3. Bus \cup left \in SUBSET Drivers!Resource BY <3>1, ReleasesAre DEF Bus
    <3>4. (Bus \cup left) \ {"driver", "pdev"} = left BY <3>1 DEF Bus
    <3>5. {"driver", "pdev"} \subseteq Bus \cup left BY DEF Bus
    <3> HIDE DEF left, pair
    <3>6. Cleans(pair, Bus \cup left, (Bus \cup left) \ {"driver", "pdev"}, Excuses')
      BY <3>2, <3>3, <3>5, UnregisterCleans DEF pair
    <3> QED BY <2>1, <3>1, <3>4, <3>6
  <2>2. CASE ~D.platform
    <3>1. Base \cup left = left BY <2>2 DEF Base
    <3>2. Kept(left) /\ left \in SUBSET Drivers!Resource
      BY <2>2, KeptIs, ReleasesAre DEF LeftOf, LostAt
    <3> HIDE DEF left
    <3>3. Cleans(<<>>, left, left, Excuses') BY <3>2, CleansNothing
    <3> QED BY <2>2, <3>1, <3>3
  <2> QED BY <2>1, <2>2
<1>10. Cleans(first, held, Base \cup left, Excuses')
  <2>1. CASE ~bound
    <3>1. held = Base \cup left BY <1>1, <2>1 DEF DriverInv, Base
    <3>2. Cleans(<<>>, held, held, Excuses') BY <1>2, CleansNothing
    <3> QED BY <2>1, <3>1, <3>2
  <2>2. CASE bound /\ failed = "ndev"
    <3>1. held = Bus \cup LostAt(step) /\ Base = Bus /\ left = LostAt(step)
      BY <1>1, <1>8, <2>2 DEF DriverInv, Base, LeftOf
    <3>2. Excuses' = Releases BY <1>1, <2>2 DEF Excuses
    <3>3. \A i \in 1 .. Len(D.exit) : Drivers!Frees(D.exit[i]) \cap held = {}
      BY <1>2, <1>8, <2>2, <3>1, RemoveKeepsBus DEF LostAt
    <3>4. Cleans(D.exit, held, held, Releases) BY <1>2, <1>5, <3>3, ExcusedCleans
    <3> QED BY <2>2, <3>1, <3>2, <3>4
  <2>3. CASE bound /\ failed # "ndev"
    <3>1. failed = "none" /\ step > 1
          /\ held = Base \cup GetsBefore(D.steps, Len(D.steps) + 1)
      BY <1>1, <2>3 DEF DriverInv
    <3>2. left = {"cdev"} BY <3>1 DEF LeftOf, LostAt
    <3>3. Cleans(D.exit, held, Base \cup {"cdev"}, Excuses') BY <1>2, <3>1, ExitCleansAll
    <3> QED BY <2>3, <3>2, <3>3
  <2> QED BY <1>2, <2>1, <2>2, <2>3
<1>11. Cleans(todo', held, left, Excuses') BY <1>1, <1>6, <1>9, <1>10, CleansThen
<1>12. Drivers!TypeOK' BY <1>1, <1>2 DEF Drivers!TypeOK, DriverInv, Drivers!Steps
<1> QED BY <1>1, <1>2, <1>3, <1>7, <1>8, <1>11, <1>12 DEF DriverInv

\* rmmod is done.
LEMMA UnloadedKeeps ==
    ASSUME DriverInv, Drivers!Unloaded
    PROVE  DriverInv'
<1>1. /\ phase = "unload" /\ todo = <<>> /\ phase' = "out" /\ bound' = FALSE
      /\ UNCHANGED <<name, step, todo, held, ret, failed>>
  BY DEF Drivers!Unloaded
<1>2. held = LeftOf(D, failed) \cup LostAt(step)
  <2> DEFINE rest == LeftOf(D, failed) \cup LostAt(step)
  <2>1. Cleans(todo, held, rest, Excuses) /\ todo \in Seq(Releases) BY <1>1 DEF DriverInv
  <2> HIDE DEF rest
  <2>2. held = rest BY <1>1, <2>1, CleansEnds
  <2> QED BY <2>2 DEF rest
<1>3. D' = D BY <1>1 DEF D
<1>4. Drivers!TypeOK' BY <1>1 DEF Drivers!TypeOK, DriverInv, Drivers!Steps
<1>5. Kept(held') /\ todo' \in Seq(Releases) BY <1>1 DEF DriverInv
<1> QED BY <1>1, <1>2, <1>3, <1>4, <1>5 DEF DriverInv

\* Every step of a driver keeps the invariant.
LEMMA DriverKeeps ==
    ASSUME DriverInv, Drivers!Next \/ UNCHANGED driverVars
    PROVE  DriverInv'
<1>1. CASE Drivers!Next
  BY <1>1, LoadKeeps, RegisterKeeps, AcquireKeeps, FailKeeps, FailUnseenKeeps, AcquiredKeeps,
     ReleaseKeeps, CleanedUpKeeps, UnloadKeeps, UnloadedKeeps DEF Drivers!Next
<1>2. CASE UNCHANGED driverVars
  <2>1. UNCHANGED <<name, phase, step, todo, held, bound, ret, failed>>
    BY <1>2 DEF driverVars
  <2>2. D' = D BY <2>1 DEF D
  <2>3. Base' = Base /\ Excuses' = Excuses BY <2>1, <2>2 DEF Base, Excuses
  <2>4. Drivers!TypeOK' BY <2>1 DEF DriverInv, Drivers!TypeOK, Drivers!Steps
  <2> QED BY <2>1, <2>2, <2>3, <2>4 DEF DriverInv
<1> QED BY <1>1, <1>2

-------------------------------------------------------------------------------
(* The kernel modules together.                                            *)

\* A step is one of its program or leaves the program's variables alone.
LEMMA StepsApart ==
    ASSUME [KernelNext]_<<program, rbVars, driverVars, procVars>>
    PROVE  /\ Drivers!Next \/ UNCHANGED driverVars
           /\ Proc!Next \/ UNCHANGED procVars
BY DEF KernelNext

\* A removed module has left its threads or its buffers and nothing else, and
\* its code runs again only in one of those threads.
THEOREM AlwaysLeavesOnlyThreadsAndBuffers == KernelSpec => []LeavesOnlyThreadsAndBuffers
<1>1. KernelInit => ProcInv BY ProcInitKeeps DEF KernelInit
<1>2. ProcInv /\ [KernelNext]_<<program, rbVars, driverVars, procVars>> => ProcInv'
  BY StepsApart, ProcKeeps
<1>3. ProcInv => LeavesOnlyThreadsAndBuffers
  BY DEF ProcInv, Proc!IInv, LeavesOnlyThreadsAndBuffers
<1> QED BY <1>1, <1>2, <1>3, PTL DEF KernelSpec

\* A module holds after a load what was reported, whichever call failed, with
\* the exceptions of LeftBehind and alloc_netdev: all of it between insmod and
\* rmmod if its init or probe returned 0, and otherwise, as after rmmod, nothing
\* of its own but the memory of the cdev, which every load that got it loses.
THEOREM AlwaysHeldAsReported == KernelSpec => []HeldAsReported
<1>1. KernelInit => DriverInv BY DriverInitKeeps DEF KernelInit
<1>2. DriverInv /\ [KernelNext]_<<program, rbVars, driverVars, procVars>> => DriverInv'
  BY StepsApart, DriverKeeps
<1> QED BY <1>1, <1>2, DriverInvShows, PTL DEF KernelSpec

\* No goto label, exit or remove releases what is not held.
THEOREM AlwaysReleasesOnlyHeld == KernelSpec => []ReleasesOnlyHeld
<1>1. KernelInit => DriverInv BY DriverInitKeeps DEF KernelInit
<1>2. DriverInv /\ [KernelNext]_<<program, rbVars, driverVars, procVars>> => DriverInv'
  BY StepsApart, DriverKeeps
<1> QED BY <1>1, <1>2, DriverInvShows, PTL DEF KernelSpec

\* No device outlives its class, no sysfs file its device and no network
\* interface its memory, at any point of any cleanup.
THEOREM NothingEverOutlivesParent == KernelSpec => []NothingOutlivesParent
<1>1. KernelInit => DriverInv BY DriverInitKeeps DEF KernelInit
<1>2. DriverInv /\ [KernelNext]_<<program, rbVars, driverVars, procVars>> => DriverInv'
  BY StepsApart, DriverKeeps
<1> QED BY <1>1, <1>2, DriverInvShows, PTL DEF KernelSpec
===============================================================================
