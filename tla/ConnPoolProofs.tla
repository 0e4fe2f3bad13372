--------------------------- MODULE ConnPoolProofs ---------------------------
(***************************************************************************)
(* Proofs about ConnPool, for every size of the pool, every set of threads *)
(* and descriptors and every pair of delays with MaxHold < RecyWait.  The  *)
(* properties follow from IndInv; IndInv is preserved by each action, with *)
(* one lemma per action.  The heart of it is DueIsForgotten: an object     *)
(* that has waited RecyWait seconds is held by nobody.                     *)
(***************************************************************************)
EXTENDS ConnPool, FiniteSetTheorems, TLAPS

USE DEF NoConn, NoFd, listVars, connVars, kernelVars, queueVars, threadVars, recyVars, clockVars

(* m_freeconnectionList.push_back: the elements after Append, and that they*)
(* stay distinct.                                                          *)
LEMMA AppendRange ==
  ASSUME NEW S, NEW s \in Seq(S), NEW c \in S
  PROVE  /\ {Append(s, c)[i] : i \in DOMAIN Append(s, c)} = {s[i] : i \in DOMAIN s} \cup {c}
         /\ (c \notin {s[i] : i \in DOMAIN s} /\ \A i, j \in DOMAIN s : s[i] = s[j] => i = j)
               => \A i, j \in DOMAIN Append(s, c) : Append(s, c)[i] = Append(s, c)[j] => i = j
  <1> DEFINE a == Append(s, c)
  <1>1. /\ DOMAIN s = 1 .. Len(s) /\ Len(s) \in Nat
        /\ DOMAIN a = 1 .. (Len(s) + 1)
        /\ \A i \in 1 .. Len(s) : a[i] = s[i]
        /\ a[Len(s) + 1] = c
    OBVIOUS
  <1> HIDE DEF a
  <1>2. {a[i] : i \in DOMAIN a} \subseteq {s[i] : i \in DOMAIN s} \cup {c}
    BY <1>1
  <1>3. \A i \in DOMAIN s : s[i] \in {a[j] : j \in DOMAIN a}
    BY <1>1
  <1>4. c \in {a[j] : j \in DOMAIN a}
    BY <1>1
  <1>5. (c \notin {s[i] : i \in DOMAIN s} /\ \A i, j \in DOMAIN s : s[i] = s[j] => i = j)
           => \A i, j \in DOMAIN a : a[i] = a[j] => i = j
    BY <1>1
  <1> QED BY <1>2, <1>3, <1>4, <1>5 DEF a

(* m_freeconnectionList.pop_front: the elements after Tail, and that they  *)
(* stay distinct.                                                          *)
LEMMA TailRange ==
  ASSUME NEW S, NEW s \in Seq(S), s # <<>>, \A i, j \in DOMAIN s : s[i] = s[j] => i = j
  PROVE  /\ {Tail(s)[i] : i \in DOMAIN Tail(s)} = {s[i] : i \in DOMAIN s} \ {Head(s)}
         /\ Head(s) \in {s[i] : i \in DOMAIN s}
         /\ \A i, j \in DOMAIN Tail(s) : Tail(s)[i] = Tail(s)[j] => i = j
  <1> DEFINE r == Tail(s)
  <1>1. /\ DOMAIN s = 1 .. Len(s) /\ Len(s) \in Nat \ {0}
        /\ DOMAIN r = 1 .. (Len(s) - 1)
        /\ \A i \in 1 .. (Len(s) - 1) : r[i] = s[i + 1]
        /\ Head(s) = s[1]
    OBVIOUS
  <1> HIDE DEF r
  <1>2. \A i \in DOMAIN r : r[i] \in {s[j] : j \in DOMAIN s} \ {Head(s)}
    <2> SUFFICES ASSUME NEW i \in DOMAIN r PROVE r[i] \in {s[j] : j \in DOMAIN s} \ {Head(s)}
      OBVIOUS
    <2>1. i + 1 \in DOMAIN s /\ i + 1 # 1 /\ 1 \in DOMAIN s
      BY <1>1
    <2> QED BY <1>1, <2>1
  <1>3. \A j \in DOMAIN s : s[j] # Head(s) => s[j] \in {r[i] : i \in DOMAIN r}
    <2> SUFFICES ASSUME NEW j \in DOMAIN s, s[j] # Head(s) PROVE s[j] \in {r[i] : i \in DOMAIN r}
      OBVIOUS
    <2>1. j - 1 \in DOMAIN r /\ r[j - 1] = s[j]
      BY <1>1
    <2> QED BY <2>1
  <1>4. Head(s) \in {s[i] : i \in DOMAIN s}
    BY <1>1
  <1>5. \A i, j \in DOMAIN r : r[i] = r[j] => i = j
    <2> SUFFICES ASSUME NEW i \in DOMAIN r, NEW j \in DOMAIN r, r[i] = r[j] PROVE i = j
      OBVIOUS
    <2>1. i + 1 \in DOMAIN s /\ j + 1 \in DOMAIN s /\ s[i + 1] = s[j + 1]
      BY <1>1
    <2> QED BY <1>1, <2>1
  <1> QED BY <1>2, <1>3, <1>4, <1>5 DEF r

(* Letting go of a pointer keeps the types of the thread variables.        *)
LEMMA ReleaseType ==
  ASSUME TypeOK, NEW t \in Threads, Release(t)
  PROVE  /\ pc' \in [Threads -> {"idle", "stamp", "handle"} \cup ClosePcs \cup AcceptPcs]
         /\ conn' \in [Threads -> Conns \cup {NoConn}]
         /\ local' \in [Threads -> Fds \cup {NoFd}]
         /\ since' \in [Threads -> Nat]
  BY DEF TypeOK, Release

(* The objects created at the start are within the bound on objects, and   *)
(* so is the bound of the test in qc_event_accept.                         *)
LEMMA PoolHasRoom ==
  /\ InitialConns \in Nat /\ PoolLimit \in Nat /\ InitialConns <= PoolLimit
  /\ \A i \in 1 .. InitialConns : i \in Conns
  <1>1. \A w, p \in Nat \ {0} : w * p \in Nat /\ w <= w * p
    OBVIOUS
  <1> DEFINE N == WorkerConnections * PoolFactor
  <1>2. N \in Nat /\ WorkerConnections <= N
    BY <1>1, PoolAssumption
  <1>3. PoolLimit = N - ListenPortCount
    BY DEF PoolLimit
  <1> HIDE DEF N
  <1>4. InitialConns \in Nat /\ PoolLimit \in Nat /\ InitialConns <= PoolLimit
    BY <1>2, <1>3, PoolAssumption DEF InitialConns
  <1> QED BY <1>4, PoolAssumption

(* Every existing object is in exactly one place, and threads hold objects.*)
Places ==
    /\ Main \in Threads /\ Timer \in Threads
    /\ \A t \in PoolThreads : t \in Threads /\ t # Main /\ t # Timer
    /\ 1 .. totalConn \subseteq Conns /\ Conns \subseteq Nat \ {0}
    /\ MaxHold \in Nat /\ Fds \subseteq Nat
    /\ InUse \cap (FreeSet \cup recyList \cup Fresh \cup leaked) = {}
    /\ InUse \cup FreeSet \cup recyList \cup Fresh \cup leaked = 1 .. totalConn
    /\ \A t \in Threads : Holding(t) => conn[t] \in Conns /\ conn[t] \notin Fresh

(* The bound on objects, as the source and as the model count them.        *)
LEMMA LimitMeaning ==
  \A n \in Nat : n + ListenPortCount <= WorkerConnections * PoolFactor + 1 <=> n <= PoolLimit + 1
  <1>1. WorkerConnections * PoolFactor \in Nat /\ ListenPortCount \in Nat
    BY PoolAssumption
  <1> QED BY <1>1 DEF PoolLimit

(* What every proof below uses of the invariant: the objects in use are    *)
(* exactly those in no list, and what a thread holds is an object.         *)
LEMMA PlacesHold == ASSUME IndInv PROVE Places
  <1>1. Main \in Threads /\ Timer \in Threads
    BY DEF Threads
  <1>2. \A t \in PoolThreads : t \in Threads /\ t # Main /\ t # Timer
    BY PoolAssumption DEF Threads
  <1>3. 1 .. totalConn \subseteq Conns /\ Conns \subseteq Nat \ {0}
    <2>1. totalConn \in Nat /\ totalConn <= PoolLimit + 1
      BY LimitMeaning DEF IndInv, TypeOK, PoolBounded
    <2> QED BY <2>1, PoolAssumption, PoolHasRoom
  <1>4. MaxHold \in Nat /\ Fds \subseteq Nat
    BY TimeAssumption, KernelAssumption
  <1>5. InUse \cap (FreeSet \cup recyList \cup Fresh \cup leaked) = {}
    BY DEF InUse
  <1>6. InUse \cup FreeSet \cup recyList \cup Fresh \cup leaked = 1 .. totalConn
    BY DEF IndInv, ListInv, TypeOK, InUse
  <1>7. \A t \in Threads : Holding(t) => conn[t] \in Conns /\ conn[t] \notin Fresh
    BY <1>3, <1>5, <1>6 DEF IndInv, HoldInv, OnePlace
  <1> QED BY <1>1, <1>2, <1>3, <1>4, <1>5, <1>6, <1>7 DEF Places

(* The ENOSYS fallback only flips use_accept4.                             *)
LEMMA AcceptNoSysPreserves == ASSUME IndInv, AcceptNoSys PROVE IndInv'
  <1>1. Places BY PlacesHold
  <1>2. FreeSet' = FreeSet /\ Fresh' = Fresh /\ InUse' = InUse
    BY DEF IndInv, TypeOK, AcceptNoSys, FreeSet, Fresh, InUse, Threads
  <1>3. TypeOK'
    BY <1>1, <1>2 DEF IndInv, TypeOK, ClosePcs, AcceptPcs, AcceptNoSys
  <1>4. ListInv' /\ OnePlace' /\ TimeInv' /\ UserInv' /\ PoolBounded' /\ OnlineExact'
    <2>1. pc'[Main] = "count" <=> pc[Main] = "count"
      BY <1>1 DEF Places, IndInv, TypeOK, ClosePcs, AcceptNoSys
    <2>2. ListInv' /\ OnePlace' /\ TimeInv'
      BY <1>2 DEF IndInv, TypeOK, ListInv, OnePlace, TimeInv, AcceptNoSys
    <2>3. UserInv' /\ PoolBounded' /\ OnlineExact'
      BY <1>2, <2>1 DEF IndInv, UserInv, PoolBounded, OnlineExact, AcceptNoSys
    <2> QED BY <2>2, <2>3
  <1>5. HoldInv' /\ BatchInv'
    BY <1>1, <1>2 DEF Places, IndInv, TypeOK, HoldInv, Holding, ClosePcs, AcceptPcs, Fresh,
       AcceptNoSys, BatchInv
  <1>6. MessageInv' /\ IdleInv'
    BY <1>1, <1>2 DEF Places, IndInv, TypeOK, HoldInv, Holding, ClosePcs, AcceptPcs, Fresh,
       AcceptNoSys, MessageInv, IdleInv
  <1>7. CloseInv' /\ AcceptInv'
    BY <1>1, <1>2 DEF Places, IndInv, TypeOK, HoldInv, Holding, ClosePcs, AcceptPcs, Fresh,
       AcceptNoSys, CloseInv, AcceptInv
  <1>8. TimerEntriesLive' /\ RegisteredInUse'
    BY <1>1, <1>2 DEF Places, IndInv, TypeOK, HoldInv, Holding, ClosePcs, AcceptPcs, Fresh,
       AcceptNoSys, TimerEntriesLive, RegisteredInUse
  <1>9. OwnerInv'
    BY <1>1, <1>2 DEF Places, IndInv, TypeOK, HoldInv, Holding, ClosePcs, AcceptPcs, Fresh,
       AcceptNoSys, OwnerInv
  <1> QED BY <1>3, <1>4, <1>5, <1>6, <1>7, <1>8, <1>9 DEF IndInv

(* accept: the new descriptor was closed, so no object had it registered,  *)
(* and accept's local owns it.                                             *)
LEMMA AcceptPreserves == ASSUME IndInv, Accept PROVE IndInv'
  <1>1. Places BY PlacesHold
  <1>2. FreeSet' = FreeSet /\ Fresh' = Fresh /\ InUse' = InUse
    BY DEF IndInv, TypeOK, Accept, FreeSet, Fresh, InUse, Threads
  <1>3. TypeOK'
    <2>1. PICK s \in Fds : /\ openFds' = openFds \cup {s}
                           /\ epoll' = [epoll EXCEPT ![s] = NoConn]
                           /\ local' = [local EXCEPT ![Main] = s]
      BY DEF Accept
    <2>2. pc' \in [Threads -> {"idle", "stamp", "handle"} \cup ClosePcs \cup AcceptPcs]
      BY DEF IndInv, TypeOK, Accept, AcceptPcs
    <2>3. /\ openFds' \subseteq Fds /\ epoll' \in [Fds -> Conns \cup {NoConn}]
          /\ local' \in [Threads -> Fds \cup {NoFd}]
      BY <2>1 DEF IndInv, TypeOK
    <2>4. /\ conn' = conn /\ since' = since /\ accepts' = accepts + 1
          /\ UNCHANGED <<listVars, connVars, queueVars, recyVars, useAccept4, clock>>
      BY DEF Accept
    <2> QED BY <2>2, <2>3, <2>4 DEF IndInv, TypeOK, listVars, connVars, queueVars, recyVars
  <1>4. ListInv' /\ OnePlace' /\ TimeInv' /\ UserInv' /\ PoolBounded' /\ OnlineExact'
    <2>1. pc'[Main] = "count" <=> pc[Main] = "count"
      BY <1>1 DEF Places, IndInv, TypeOK, ClosePcs, Accept
    <2>2. ListInv' /\ OnePlace' /\ TimeInv'
      BY <1>2 DEF IndInv, TypeOK, ListInv, OnePlace, TimeInv, Accept
    <2>3. UserInv' /\ PoolBounded' /\ OnlineExact'
      BY <1>2, <2>1 DEF IndInv, UserInv, PoolBounded, OnlineExact, Accept
    <2> QED BY <2>2, <2>3
  <1>5. HoldInv' /\ BatchInv'
    BY <1>1, <1>2 DEF Places, IndInv, TypeOK, HoldInv, Holding, ClosePcs, AcceptPcs, Fresh,
       Accept, BatchInv
  <1>6. MessageInv' /\ IdleInv'
    BY <1>1, <1>2 DEF Places, IndInv, TypeOK, HoldInv, Holding, ClosePcs, AcceptPcs, Fresh,
       Accept, MessageInv, IdleInv
  <1>7. CloseInv' /\ AcceptInv'
    <2>1. PICK s \in Fds : epoll' = [epoll EXCEPT ![s] = NoConn] /\ local' = [local EXCEPT ![Main] = s]
      BY DEF Accept
    <2>2. \A t \in Threads : pc[t] \in ClosePcs => conn[t] # NoConn
      BY <1>1 DEF Places, Holding
    <2>3. CloseInv'
      BY <1>1, <2>1, <2>2 DEF Places, IndInv, TypeOK, ClosePcs, Accept, CloseInv
    <2>4. AcceptInv'
      BY <1>1, <2>1 DEF Places, IndInv, TypeOK, Accept, AcceptInv
    <2> QED BY <2>3, <2>4
  <1>8. TimerEntriesLive' /\ RegisteredInUse'
    BY <1>1, <1>2 DEF Places, IndInv, TypeOK, HoldInv, Holding, ClosePcs, AcceptPcs, Fresh,
       Accept, TimerEntriesLive, RegisteredInUse
  <1>9. OwnerInv'
    BY <1>1, <1>2 DEF Places, IndInv, TypeOK, HoldInv, Holding, ClosePcs, AcceptPcs, Fresh,
       Accept, OwnerInv
  <1> QED BY <1>3, <1>4, <1>5, <1>6, <1>7, <1>8, <1>9 DEF IndInv

(* close(s) of a refused client closes no descriptor that an object owns.  *)
LEMMA AcceptRefusePreserves == ASSUME IndInv, AcceptRefuse PROVE IndInv'
  <1>1. Places BY PlacesHold
  <1>2. FreeSet' = FreeSet /\ Fresh' = Fresh /\ InUse' = InUse
    BY DEF IndInv, TypeOK, AcceptRefuse, CloseFd, Release, FreeSet, Fresh, InUse, Threads
  <1>3. TypeOK'
    BY <1>1, <1>2 DEF IndInv, TypeOK, ClosePcs, AcceptPcs, AcceptRefuse, CloseFd, Release
  <1>4. ListInv' /\ OnePlace' /\ TimeInv' /\ UserInv' /\ PoolBounded' /\ OnlineExact'
    BY <1>1, <1>2 DEF Places, IndInv, TypeOK, HoldInv, Holding, ClosePcs, AcceptPcs, Fresh,
       AcceptRefuse, CloseFd, Release, ListInv, OnePlace, TimeInv, UserInv, PoolBounded,
       OnlineExact
  <1>5. HoldInv' /\ BatchInv'
    BY <1>1, <1>2 DEF Places, IndInv, TypeOK, HoldInv, Holding, ClosePcs, AcceptPcs, Fresh,
       AcceptRefuse, CloseFd, Release, BatchInv
  <1>6. MessageInv' /\ IdleInv'
    BY <1>1, <1>2 DEF Places, IndInv, TypeOK, HoldInv, Holding, ClosePcs, AcceptPcs, Fresh,
       AcceptRefuse, CloseFd, Release, MessageInv, IdleInv
  <1>7. CloseInv' /\ AcceptInv'
    BY <1>1, <1>2 DEF Places, IndInv, TypeOK, HoldInv, Holding, ClosePcs, AcceptPcs, Fresh,
       AcceptRefuse, CloseFd, Release, CloseInv, AcceptInv
  <1>8. TimerEntriesLive' /\ RegisteredInUse'
    BY <1>1, <1>2 DEF Places, IndInv, TypeOK, HoldInv, Holding, ClosePcs, AcceptPcs, Fresh,
       AcceptRefuse, CloseFd, Release, TimerEntriesLive, RegisteredInUse
  <1>9. OwnerInv'
    BY <1>1, <1>2 DEF Places, IndInv, TypeOK, HoldInv, Holding, ClosePcs, AcceptPcs, Fresh,
       AcceptRefuse, CloseFd, Release, OwnerInv
  <1> QED BY <1>3, <1>4, <1>5, <1>6, <1>7, <1>8, <1>9 DEF IndInv

(* epoll_wait returns objects in use, because of RegisteredInUse.          *)
LEMMA EpollWaitPreserves == ASSUME IndInv, EpollWait PROVE IndInv'
  <1>1. Places BY PlacesHold
  <1>2. FreeSet' = FreeSet /\ Fresh' = Fresh /\ InUse' = InUse
    BY DEF IndInv, TypeOK, EpollWait, FreeSet, Fresh, InUse, Threads
  <1>3. TypeOK'
    <2>1. batch' \subseteq Conns
      <3> SUFFICES ASSUME NEW c \in batch' PROVE c \in Conns OBVIOUS
      <3>1. PICK f \in openFds : c = epoll[f] BY DEF EpollWait
      <3> QED BY <3>1 DEF EpollWait, IndInv, TypeOK
    <2> QED BY <2>1 DEF IndInv, TypeOK, EpollWait
  <1>4. ListInv' /\ OnePlace' /\ TimeInv' /\ UserInv' /\ PoolBounded' /\ OnlineExact'
    <2>1. pc'[Main] = "count" <=> pc[Main] = "count"
      BY <1>1 DEF Places, IndInv, TypeOK, ClosePcs, EpollWait
    <2>2. ListInv' /\ OnePlace' /\ TimeInv'
      BY <1>2 DEF IndInv, TypeOK, ListInv, OnePlace, TimeInv, EpollWait
    <2>3. UserInv' /\ PoolBounded' /\ OnlineExact'
      BY <1>2, <2>1 DEF IndInv, UserInv, PoolBounded, OnlineExact, EpollWait
    <2> QED BY <2>2, <2>3
  <1>5. HoldInv' /\ BatchInv'
    BY <1>1, <1>2 DEF Places, IndInv, TypeOK, HoldInv, Holding, ClosePcs, AcceptPcs, Fresh,
       EpollWait, RegisteredInUse, BatchInv
  <1>6. MessageInv' /\ IdleInv'
    BY <1>1, <1>2 DEF Places, IndInv, TypeOK, HoldInv, Holding, ClosePcs, AcceptPcs, Fresh,
       EpollWait, MessageInv, IdleInv
  <1>7. CloseInv' /\ AcceptInv'
    BY <1>1, <1>2 DEF Places, IndInv, TypeOK, HoldInv, Holding, ClosePcs, AcceptPcs, Fresh,
       EpollWait, CloseInv, AcceptInv
  <1>8. TimerEntriesLive' /\ RegisteredInUse'
    BY <1>1, <1>2 DEF Places, IndInv, TypeOK, HoldInv, Holding, ClosePcs, AcceptPcs, Fresh,
       EpollWait, TimerEntriesLive, RegisteredInUse
  <1>9. OwnerInv'
    BY <1>1, <1>2 DEF Places, IndInv, TypeOK, HoldInv, Holding, ClosePcs, AcceptPcs, Fresh,
       EpollWait, OwnerInv
  <1> QED BY <1>3, <1>4, <1>5, <1>6, <1>7, <1>8, <1>9 DEF IndInv

(* An event that leaves a packet unfinished changes the batch only.        *)
LEMMA ReadPartPreserves == ASSUME IndInv, ReadPart PROVE IndInv'
  <1>1. Places BY PlacesHold
  <1>2. FreeSet' = FreeSet /\ Fresh' = Fresh /\ InUse' = InUse
    BY DEF IndInv, TypeOK, ReadPart, NextEvent, FreeSet, Fresh, InUse, Threads
  <1>3. TypeOK'
    BY SMTT(30) DEF IndInv, TypeOK, ReadPart, NextEvent
  <1>4. ListInv' /\ OnePlace' /\ TimeInv' /\ UserInv' /\ PoolBounded' /\ OnlineExact'
    <2>1. pc'[Main] = "count" <=> pc[Main] = "count"
      BY <1>1 DEF Places, IndInv, TypeOK, ClosePcs, ReadPart, NextEvent
    <2>2. ListInv' /\ OnePlace' /\ TimeInv'
      BY <1>2 DEF IndInv, TypeOK, ListInv, OnePlace, TimeInv, ReadPart, NextEvent
    <2>3. UserInv' /\ PoolBounded' /\ OnlineExact'
      BY <1>2, <2>1 DEF IndInv, UserInv, PoolBounded, OnlineExact, ReadPart, NextEvent
    <2> QED BY <2>2, <2>3
  <1>5. HoldInv' /\ BatchInv'
    BY <1>1, <1>2 DEF Places, IndInv, TypeOK, HoldInv, Holding, ClosePcs, AcceptPcs, Fresh,
       ReadPart, NextEvent, BatchInv
  <1>6. MessageInv' /\ IdleInv'
    BY <1>1, <1>2 DEF Places, IndInv, TypeOK, HoldInv, Holding, ClosePcs, AcceptPcs, Fresh,
       ReadPart, NextEvent, MessageInv, IdleInv
  <1>7. CloseInv' /\ AcceptInv'
    BY <1>1, <1>2 DEF Places, IndInv, TypeOK, HoldInv, Holding, ClosePcs, AcceptPcs, Fresh,
       ReadPart, NextEvent, CloseInv, AcceptInv
  <1>8. TimerEntriesLive' /\ RegisteredInUse'
    BY <1>1, <1>2 DEF Places, IndInv, TypeOK, HoldInv, Holding, ClosePcs, AcceptPcs, Fresh,
       ReadPart, NextEvent, TimerEntriesLive, RegisteredInUse
  <1>9. OwnerInv'
    BY <1>1, <1>2 DEF Places, IndInv, TypeOK, HoldInv, Holding, ClosePcs, AcceptPcs, Fresh,
       ReadPart, NextEvent, OwnerInv
  <1> QED BY <1>3, <1>4, <1>5, <1>6, <1>7, <1>8, <1>9 DEF IndInv

(* The message queued carries the age of its event, so MessageInv holds of *)
(* it.                                                                     *)
LEMMA ReadBodyPreserves == ASSUME IndInv, ReadBody PROVE IndInv'
  <1>1. Places BY PlacesHold
  <1>2. FreeSet' = FreeSet /\ Fresh' = Fresh /\ InUse' = InUse
    BY DEF IndInv, TypeOK, ReadBody, NextEvent, Message, FreeSet, Fresh, InUse, Threads
  <1>3. TypeOK'
    <2>1. recvQueue' \subseteq [conn : Conns, sequence : Nat, since : Nat]
      BY <1>1 DEF Places, IndInv, TypeOK, ReadBody, Message
    <2> QED BY <1>1, <1>2, <2>1, SMTT(30) DEF IndInv, TypeOK, ReadBody, NextEvent
  <1>4. ListInv' /\ OnePlace' /\ TimeInv' /\ UserInv' /\ PoolBounded' /\ OnlineExact'
    BY <1>1, <1>2 DEF Places, IndInv, TypeOK, HoldInv, Holding, ClosePcs, AcceptPcs, Fresh,
       ReadBody, NextEvent, Message, ListInv, OnePlace, TimeInv, UserInv, PoolBounded,
       OnlineExact
  <1>5. HoldInv' /\ BatchInv'
    <2>1. HoldInv'
      BY <1>1, <1>2 DEF Places, IndInv, TypeOK, HoldInv, Holding, ClosePcs, AcceptPcs, Fresh,
         ReadBody, NextEvent, Message, BatchInv
    <2>2. batch' \subseteq batch /\ (batch' # {} => batchSince' = batchSince)
      BY DEF ReadBody, NextEvent
    <2>3. recyList' = recyList /\ inRecyTime' = inRecyTime /\ clock' = clock
      BY DEF ReadBody
    <2>4. BatchInv'
      BY <1>2, <2>2, <2>3 DEF IndInv, BatchInv
    <2> QED BY <2>1, <2>4
  <1>6. MessageInv' /\ IdleInv'
    BY <1>1, <1>2 DEF Places, IndInv, TypeOK, HoldInv, Holding, ClosePcs, AcceptPcs, Fresh,
       ReadBody, NextEvent, Message, MessageInv, BatchInv, IdleInv
  <1>7. CloseInv' /\ AcceptInv'
    BY <1>1, <1>2 DEF Places, IndInv, TypeOK, HoldInv, Holding, ClosePcs, AcceptPcs, Fresh,
       ReadBody, NextEvent, Message, CloseInv, AcceptInv
  <1>8. TimerEntriesLive' /\ RegisteredInUse'
    BY <1>1, <1>2 DEF Places, IndInv, TypeOK, HoldInv, Holding, ClosePcs, AcceptPcs, Fresh,
       ReadBody, NextEvent, Message, TimerEntriesLive, RegisteredInUse
  <1>9. OwnerInv'
    BY <1>1, <1>2 DEF Places, IndInv, TypeOK, HoldInv, Holding, ClosePcs, AcceptPcs, Fresh,
       ReadBody, NextEvent, Message, OwnerInv
  <1> QED BY <1>3, <1>4, <1>5, <1>6, <1>7, <1>8, <1>9 DEF IndInv

(* The read handler takes its object over from the batch.                  *)
LEMMA ReadHeaderPreserves == ASSUME IndInv, ReadHeader PROVE IndInv'
  <1>1. Places BY PlacesHold
  <1>2. FreeSet' = FreeSet /\ Fresh' = Fresh /\ InUse' = InUse
    BY DEF IndInv, TypeOK, ReadHeader, StartHandler, NextEvent, FreeSet, Fresh, InUse,
       Threads
  <1>3. TypeOK'
    <2>1. PICK c \in batch : StartHandler(c, "stamp")
      BY DEF ReadHeader
    <2> QED BY <2>1 DEF IndInv, TypeOK, ReadHeader, StartHandler, NextEvent, ClosePcs
  <1>4. ListInv' /\ OnePlace' /\ TimeInv' /\ UserInv' /\ PoolBounded' /\ OnlineExact'
    BY <1>1, <1>2 DEF Places, IndInv, TypeOK, HoldInv, Holding, ClosePcs, AcceptPcs, Fresh,
       ReadHeader, StartHandler, NextEvent, ListInv, OnePlace, TimeInv, UserInv,
       PoolBounded, OnlineExact
  <1>5. HoldInv' /\ BatchInv'
    <2>1. HoldInv'
      BY <1>1, <1>2 DEF Places, IndInv, TypeOK, HoldInv, Holding, ClosePcs, AcceptPcs, Fresh,
         ReadHeader, StartHandler, NextEvent, BatchInv
    <2>2. batch' \subseteq batch /\ (batch' # {} => batchSince' = batchSince)
      BY DEF ReadHeader, StartHandler, NextEvent
    <2>3. recyList' = recyList /\ inRecyTime' = inRecyTime /\ clock' = clock
      BY DEF ReadHeader
    <2>4. BatchInv'
      BY <1>2, <2>2, <2>3 DEF IndInv, BatchInv
    <2> QED BY <2>1, <2>4
  <1>6. MessageInv' /\ IdleInv'
    BY <1>1, <1>2 DEF Places, IndInv, TypeOK, HoldInv, Holding, ClosePcs, AcceptPcs, Fresh,
       ReadHeader, StartHandler, NextEvent, MessageInv, IdleInv
  <1>7. CloseInv' /\ AcceptInv'
    BY <1>1, <1>2 DEF Places, IndInv, TypeOK, HoldInv, Holding, ClosePcs, AcceptPcs, Fresh,
       ReadHeader, StartHandler, NextEvent, CloseInv, AcceptInv
  <1>8. TimerEntriesLive' /\ RegisteredInUse'
    BY <1>1, <1>2 DEF Places, IndInv, TypeOK, HoldInv, Holding, ClosePcs, AcceptPcs, Fresh,
       ReadHeader, StartHandler, NextEvent, TimerEntriesLive, RegisteredInUse
  <1>9. OwnerInv'
    BY <1>1, <1>2 DEF Places, IndInv, TypeOK, HoldInv, Holding, ClosePcs, AcceptPcs, Fresh,
       ReadHeader, StartHandler, NextEvent, OwnerInv
  <1> QED BY <1>3, <1>4, <1>5, <1>6, <1>7, <1>8, <1>9 DEF IndInv

(* proc_p1 copies iCurrsequence late, perhaps after the object was         *)
(* recycled: since <= inRecyTime is what MessageInv still knows of it.     *)
LEMMA StampHeaderPreserves == ASSUME IndInv, StampHeader PROVE IndInv'
  <1>1. Places BY PlacesHold
  <1>2. FreeSet' = FreeSet /\ Fresh' = Fresh /\ InUse' = InUse
    BY DEF IndInv, TypeOK, StampHeader, Release, Message, FreeSet, Fresh, InUse, Threads
  <1>3. TypeOK'
    <2>1. conn[Main] \in Conns /\ Main \in Threads
      BY <1>1 DEF Places, StampHeader, Holding
    <2>2. Message(conn[Main], since[Main]) \in [conn : Conns, sequence : Nat, since : Nat]
      BY <2>1 DEF IndInv, TypeOK, Message
    <2> QED BY <2>2 DEF IndInv, TypeOK, StampHeader, Release
  <1>4. ListInv' /\ OnePlace' /\ TimeInv' /\ UserInv' /\ PoolBounded' /\ OnlineExact'
    BY <1>1, <1>2 DEF Places, IndInv, TypeOK, HoldInv, Holding, ClosePcs, AcceptPcs, Fresh,
       StampHeader, Release, Message, ListInv, OnePlace, TimeInv, UserInv, PoolBounded,
       OnlineExact
  <1>5. HoldInv' /\ BatchInv'
    BY <1>1, <1>2 DEF Places, IndInv, TypeOK, HoldInv, Holding, ClosePcs, AcceptPcs, Fresh,
       StampHeader, Release, Message, BatchInv
  <1>6. MessageInv' /\ IdleInv'
    <2>1. Holding(Main) /\ conn[Main] \in Conns /\ Main \in Threads
      BY <1>1 DEF Places, StampHeader, Holding
    <2>2. \A m \in recvQueue' : m \in recvQueue \/ m = Message(conn[Main], since[Main])
      BY DEF StampHeader
    <2>3. since[Main] <= clock /\ clock <= since[Main] + MaxHold
      BY <2>1 DEF IndInv, HoldInv
    <2>4. /\ conn[Main] \in InUse \cup recyList
          /\ conn[Main] \in recyList => since[Main] <= inRecyTime[conn[Main]]
      BY <2>1 DEF IndInv, HoldInv
    <2>5. sequence[conn[Main]] \in Nat
      BY <2>1 DEF IndInv, TypeOK
    <2>6. MessageInv'
      BY <1>2, <2>2, <2>3, <2>4, <2>5 DEF IndInv, StampHeader, Message, MessageInv
    <2> QED BY <1>2, <2>6 DEF IndInv, StampHeader, IdleInv
  <1>7. CloseInv' /\ AcceptInv'
    BY <1>1, <1>2 DEF Places, IndInv, TypeOK, HoldInv, Holding, ClosePcs, AcceptPcs, Fresh,
       StampHeader, Release, Message, CloseInv, AcceptInv
  <1>8. TimerEntriesLive' /\ RegisteredInUse'
    BY <1>1, <1>2 DEF Places, IndInv, TypeOK, HoldInv, Holding, ClosePcs, AcceptPcs, Fresh,
       StampHeader, Release, Message, TimerEntriesLive, RegisteredInUse
  <1>9. OwnerInv'
    BY <1>1, <1>2 DEF Places, IndInv, TypeOK, HoldInv, Holding, ClosePcs, AcceptPcs, Fresh,
       StampHeader, Release, Message, OwnerInv
  <1> QED BY <1>3, <1>4, <1>5, <1>6, <1>7, <1>8, <1>9 DEF IndInv

(* zdClosesocketProc starts on an object of the batch.                     *)
LEMMA ReadClosesPreserves == ASSUME IndInv, ReadCloses PROVE IndInv'
  <1>1. Places BY PlacesHold
  <1>2. FreeSet' = FreeSet /\ Fresh' = Fresh /\ InUse' = InUse
    BY DEF IndInv, TypeOK, ReadCloses, StartHandler, NextEvent, FreeSet, Fresh, InUse,
       Threads
  <1>3. TypeOK'
    <2>1. PICK c \in batch : StartHandler(c, "zd")
      BY DEF ReadCloses
    <2> QED BY <2>1 DEF IndInv, TypeOK, ReadCloses, StartHandler, NextEvent, ClosePcs
  <1>4. ListInv' /\ OnePlace' /\ TimeInv' /\ UserInv' /\ PoolBounded' /\ OnlineExact'
    BY <1>1, <1>2 DEF Places, IndInv, TypeOK, HoldInv, Holding, ClosePcs, AcceptPcs, Fresh,
       ReadCloses, StartHandler, NextEvent, ListInv, OnePlace, TimeInv, UserInv,
       PoolBounded, OnlineExact
  <1>5. HoldInv' /\ BatchInv'
    BY <1>1, <1>2 DEF Places, IndInv, TypeOK, HoldInv, Holding, ClosePcs, AcceptPcs, Fresh,
       ReadCloses, StartHandler, NextEvent, BatchInv
  <1>6. MessageInv' /\ IdleInv'
    BY <1>1, <1>2 DEF Places, IndInv, TypeOK, HoldInv, Holding, ClosePcs, AcceptPcs, Fresh,
       ReadCloses, StartHandler, NextEvent, MessageInv, IdleInv
  <1>7. CloseInv' /\ AcceptInv'
    BY <1>1, <1>2 DEF Places, IndInv, TypeOK, HoldInv, Holding, ClosePcs, AcceptPcs, Fresh,
       ReadCloses, StartHandler, NextEvent, CloseInv, AcceptInv
  <1>8. TimerEntriesLive' /\ RegisteredInUse'
    BY <1>1, <1>2 DEF Places, IndInv, TypeOK, HoldInv, Holding, ClosePcs, AcceptPcs, Fresh,
       ReadCloses, StartHandler, NextEvent, TimerEntriesLive, RegisteredInUse
  <1>9. OwnerInv'
    BY <1>1, <1>2 DEF Places, IndInv, TypeOK, HoldInv, Holding, ClosePcs, AcceptPcs, Fresh,
       ReadCloses, StartHandler, NextEvent, OwnerInv
  <1> QED BY <1>3, <1>4, <1>5, <1>6, <1>7, <1>8, <1>9 DEF IndInv

(* A message whose sequence is old disappears.                             *)
LEMMA DropMessagePreserves == ASSUME IndInv, NEW t \in PoolThreads, DropMessage(t) PROVE IndInv'
  <1>1. Places BY PlacesHold
  <1>2. FreeSet' = FreeSet /\ Fresh' = Fresh /\ InUse' = InUse
    <2>1. Main \in Threads /\ t \in Threads /\ t # Main BY <1>1 DEF Places
    <2>2. Fresh' = Fresh BY <2>1 DEF Fresh, IndInv, TypeOK, DropMessage
    <2> QED BY <2>2 DEF DropMessage, FreeSet, InUse
  <1>3. TypeOK'
    BY <1>1, <1>2 DEF IndInv, TypeOK, ClosePcs, AcceptPcs, DropMessage
  <1>4. ListInv' /\ OnePlace' /\ TimeInv' /\ UserInv' /\ PoolBounded' /\ OnlineExact'
    <2>1. pc'[Main] = "count" <=> pc[Main] = "count"
      BY <1>1 DEF Places, IndInv, TypeOK, ClosePcs, DropMessage
    <2>2. ListInv' /\ OnePlace' /\ TimeInv'
      BY <1>2 DEF IndInv, TypeOK, ListInv, OnePlace, TimeInv, DropMessage
    <2>3. UserInv' /\ PoolBounded' /\ OnlineExact'
      BY <1>2, <2>1 DEF IndInv, UserInv, PoolBounded, OnlineExact, DropMessage
    <2> QED BY <2>2, <2>3
  <1>5. HoldInv' /\ BatchInv'
    BY <1>1, <1>2 DEF Places, IndInv, TypeOK, HoldInv, Holding, ClosePcs, AcceptPcs, Fresh,
       DropMessage, BatchInv
  <1>6. MessageInv' /\ IdleInv'
    BY <1>1, <1>2 DEF Places, IndInv, TypeOK, HoldInv, Holding, ClosePcs, AcceptPcs, Fresh,
       DropMessage, MessageInv, IdleInv
  <1>7. CloseInv' /\ AcceptInv'
    BY <1>1, <1>2 DEF Places, IndInv, TypeOK, HoldInv, Holding, ClosePcs, AcceptPcs, Fresh,
       DropMessage, CloseInv, AcceptInv
  <1>8. TimerEntriesLive' /\ RegisteredInUse'
    BY <1>1, <1>2 DEF Places, IndInv, TypeOK, HoldInv, Holding, ClosePcs, AcceptPcs, Fresh,
       DropMessage, TimerEntriesLive, RegisteredInUse
  <1>9. OwnerInv'
    BY <1>1, <1>2 DEF Places, IndInv, TypeOK, HoldInv, Holding, ClosePcs, AcceptPcs, Fresh,
       DropMessage, OwnerInv
  <1> QED BY <1>3, <1>4, <1>5, <1>6, <1>7, <1>8, <1>9 DEF IndInv

(* The sequence test of threadRecvProcFunc: the object held is in use or   *)
(* waits for recycling, and HoldInv follows from MessageInv.               *)
LEMMA TakeMessagePreserves == ASSUME IndInv, NEW t \in PoolThreads, TakeMessage(t) PROVE IndInv'
  <1>1. Places BY PlacesHold
  <1>2. FreeSet' = FreeSet /\ Fresh' = Fresh /\ InUse' = InUse
    <2>1. Main \in Threads /\ t \in Threads /\ t # Main BY <1>1 DEF Places
    <2>2. Fresh' = Fresh BY <2>1 DEF Fresh, IndInv, TypeOK, TakeMessage
    <2> QED BY <2>2 DEF TakeMessage, FreeSet, InUse
  <1>3. TypeOK'
    BY <1>1, <1>2 DEF IndInv, TypeOK, ClosePcs, AcceptPcs, TakeMessage
  <1>4. ListInv' /\ OnePlace' /\ TimeInv' /\ UserInv' /\ PoolBounded' /\ OnlineExact'
    <2>1. pc'[Main] = "count" <=> pc[Main] = "count"
      BY <1>1 DEF Places, IndInv, TypeOK, ClosePcs, TakeMessage
    <2>2. ListInv' /\ OnePlace' /\ TimeInv'
      BY <1>2 DEF IndInv, TypeOK, ListInv, OnePlace, TimeInv, TakeMessage
    <2>3. UserInv' /\ PoolBounded' /\ OnlineExact'
      BY <1>2, <2>1 DEF IndInv, UserInv, PoolBounded, OnlineExact, TakeMessage
    <2> QED BY <2>2, <2>3
  <1>5. HoldInv' /\ BatchInv'
    <2>1. HoldInv'
      BY <1>1, <1>2 DEF Places, IndInv, TypeOK, HoldInv, Holding, ClosePcs, AcceptPcs, Fresh,
         TakeMessage, MessageInv
    <2>2. BatchInv'
      BY <1>1, <1>2 DEF Places, IndInv, TypeOK, TakeMessage, BatchInv
    <2> QED BY <2>1, <2>2
  <1>6. MessageInv' /\ IdleInv'
    BY <1>1, <1>2 DEF Places, IndInv, TypeOK, HoldInv, Holding, ClosePcs, AcceptPcs, Fresh,
       TakeMessage, MessageInv, IdleInv
  <1>7. CloseInv' /\ AcceptInv'
    BY <1>1, <1>2 DEF Places, IndInv, TypeOK, HoldInv, Holding, ClosePcs, AcceptPcs, Fresh,
       TakeMessage, CloseInv, AcceptInv
  <1>8. TimerEntriesLive' /\ RegisteredInUse'
    BY <1>1, <1>2 DEF Places, IndInv, TypeOK, HoldInv, Holding, ClosePcs, AcceptPcs, Fresh,
       TakeMessage, TimerEntriesLive, RegisteredInUse
  <1>9. OwnerInv'
    <2> SUFFICES ASSUME NEW f \in openFds'
                 PROVE  \/ \E c \in InUse' \cup Fresh' \cup leaked' :
                              fd'[c] = f /\ \A u \in Threads : pc'[u] = "unset" => conn'[u] # c
                        \/ pc'[Main] = "accepted" /\ local'[Main] = f
      BY DEF OwnerInv
    <2>1. CASE pc[Main] = "accepted" /\ local[Main] = f
      BY <1>1, <2>1 DEF Places, IndInv, TypeOK, TakeMessage
    <2>2. CASE \E c \in InUse \cup Fresh \cup leaked :
                  fd[c] = f /\ \A u \in Threads : pc[u] = "unset" => conn[u] # c
      <3>1. PICK c \in InUse \cup Fresh \cup leaked :
                  fd[c] = f /\ \A u \in Threads : pc[u] = "unset" => conn[u] # c
        BY <2>2
      <3>2. \A u \in Threads : pc'[u] = "unset" => conn'[u] # c
        BY <1>1, <3>1 DEF Places, IndInv, TypeOK, TakeMessage
      <3> QED BY <1>2, <3>1, <3>2 DEF TakeMessage
    <2> QED BY <2>1, <2>2 DEF IndInv, OwnerInv, TakeMessage
  <1> QED BY <1>3, <1>4, <1>5, <1>6, <1>7, <1>8, <1>9 DEF IndInv

(* The pool thread lets its object go.                                     *)
LEMMA HandleMessagePreserves == ASSUME IndInv, NEW t \in PoolThreads, HandleMessage(t) PROVE IndInv'
  <1>1. Places BY PlacesHold
  <1>2. FreeSet' = FreeSet /\ Fresh' = Fresh /\ InUse' = InUse
    <2>1. Main \in Threads /\ t \in Threads /\ t # Main BY <1>1 DEF Places
    <2>2. Fresh' = Fresh BY <2>1 DEF Fresh, IndInv, TypeOK, HandleMessage, Release
    <2> QED BY <2>2 DEF HandleMessage, Release, FreeSet, InUse
  <1>3. TypeOK'
    BY <1>1, <1>2 DEF IndInv, TypeOK, ClosePcs, AcceptPcs, HandleMessage, Release
  <1>4. ListInv' /\ OnePlace' /\ TimeInv' /\ UserInv' /\ PoolBounded' /\ OnlineExact'
    <2>1. pc'[Main] = "count" <=> pc[Main] = "count"
      BY <1>1 DEF Places, IndInv, TypeOK, ClosePcs, HandleMessage, Release
    <2>2. ListInv' /\ OnePlace' /\ TimeInv'
      BY <1>2 DEF IndInv, TypeOK, ListInv, OnePlace, TimeInv, HandleMessage, Release
    <2>3. UserInv' /\ PoolBounded' /\ OnlineExact'
      BY <1>2, <2>1 DEF IndInv, UserInv, PoolBounded, OnlineExact, HandleMessage, Release
    <2> QED BY <2>2, <2>3
  <1>5. HoldInv' /\ BatchInv'
    BY <1>1, <1>2 DEF Places, IndInv, TypeOK, HoldInv, Holding, ClosePcs, AcceptPcs, Fresh,
       HandleMessage, Release, BatchInv
  <1>6. MessageInv' /\ IdleInv'
    BY <1>1, <1>2 DEF Places, IndInv, TypeOK, HoldInv, Holding, ClosePcs, AcceptPcs, Fresh,
       HandleMessage, Release, MessageInv, IdleInv
  <1>7. CloseInv' /\ AcceptInv'
    BY <1>1, <1>2 DEF Places, IndInv, TypeOK, HoldInv, Holding, ClosePcs, AcceptPcs, Fresh,
       HandleMessage, Release, CloseInv, AcceptInv
  <1>8. TimerEntriesLive' /\ RegisteredInUse'
    BY <1>1, <1>2 DEF Places, IndInv, TypeOK, HoldInv, Holding, ClosePcs, AcceptPcs, Fresh,
       HandleMessage, Release, TimerEntriesLive, RegisteredInUse
  <1>9. OwnerInv'
    <2>1. \A u \in Threads : pc'[u] = "unset" => pc[u] = "unset" /\ conn'[u] = conn[u]
      BY <1>1 DEF Places, IndInv, TypeOK, HandleMessage, Release
    <2>2. pc[Main] = "accepted" => pc'[Main] = "accepted" /\ local'[Main] = local[Main]
      BY <1>1 DEF Places, IndInv, TypeOK, Holding, ClosePcs, HandleMessage, Release
    <2> QED BY <1>2, <2>1, <2>2 DEF IndInv, OwnerInv, HandleMessage, Release
  <1> QED BY <1>3, <1>4, <1>5, <1>6, <1>7, <1>8, <1>9 DEF IndInv

(* msgSend cuts a client off: the thread that holds the object goes on to  *)
(* close it.                                                               *)
LEMMA CutOffPreserves == ASSUME IndInv, NEW t \in PoolThreads, CutOff(t) PROVE IndInv'
  <1>1. Places BY PlacesHold
  <1>2. FreeSet' = FreeSet /\ Fresh' = Fresh /\ InUse' = InUse
    <2>1. Main \in Threads /\ t \in Threads /\ t # Main BY <1>1 DEF Places
    <2>2. Fresh' = Fresh BY <2>1 DEF Fresh, IndInv, TypeOK, CutOff
    <2> QED BY <2>2 DEF CutOff, FreeSet, InUse
  <1>3. TypeOK'
    BY <1>1, <1>2 DEF IndInv, TypeOK, ClosePcs, AcceptPcs, CutOff
  <1>4. ListInv' /\ OnePlace' /\ TimeInv' /\ UserInv' /\ PoolBounded' /\ OnlineExact'
    <2>1. pc'[Main] = "count" <=> pc[Main] = "count"
      BY <1>1 DEF Places, IndInv, TypeOK, ClosePcs, CutOff
    <2>2. ListInv' /\ OnePlace' /\ TimeInv'
      BY <1>2 DEF IndInv, TypeOK, ListInv, OnePlace, TimeInv, CutOff
    <2>3. UserInv' /\ PoolBounded' /\ OnlineExact'
      BY <1>2, <2>1 DEF IndInv, UserInv, PoolBounded, OnlineExact, CutOff
    <2> QED BY <2>2, <2>3
  <1>5. HoldInv' /\ BatchInv'
    BY <1>1, <1>2 DEF Places, IndInv, TypeOK, HoldInv, Holding, ClosePcs, AcceptPcs, Fresh,
       CutOff, BatchInv
  <1>6. MessageInv' /\ IdleInv'
    BY <1>1, <1>2 DEF Places, IndInv, TypeOK, HoldInv, Holding, ClosePcs, AcceptPcs, Fresh,
       CutOff, MessageInv, IdleInv
  <1>7. CloseInv' /\ AcceptInv'
    BY <1>1, <1>2 DEF Places, IndInv, TypeOK, HoldInv, Holding, ClosePcs, AcceptPcs, Fresh,
       CutOff, CloseInv, AcceptInv
  <1>8. TimerEntriesLive' /\ RegisteredInUse'
    BY <1>1, <1>2 DEF Places, IndInv, TypeOK, HoldInv, Holding, ClosePcs, AcceptPcs, Fresh,
       CutOff, TimerEntriesLive, RegisteredInUse
  <1>9. OwnerInv'
    <2> SUFFICES ASSUME NEW f \in openFds'
                 PROVE  \/ \E c \in InUse' \cup Fresh' \cup leaked' :
                              fd'[c] = f /\ \A u \in Threads : pc'[u] = "unset" => conn'[u] # c
                        \/ pc'[Main] = "accepted" /\ local'[Main] = f
      BY DEF OwnerInv
    <2>1. CASE pc[Main] = "accepted" /\ local[Main] = f
      BY <1>1, <2>1 DEF Places, IndInv, TypeOK, CutOff
    <2>2. CASE \E c \in InUse \cup Fresh \cup leaked :
                  fd[c] = f /\ \A u \in Threads : pc[u] = "unset" => conn[u] # c
      <3>1. PICK c \in InUse \cup Fresh \cup leaked :
                  fd[c] = f /\ \A u \in Threads : pc[u] = "unset" => conn[u] # c
        BY <2>2
      <3>2. \A u \in Threads : pc'[u] = "unset" => conn'[u] # c
        BY <1>1, <3>1 DEF Places, IndInv, TypeOK, CutOff
      <3> QED BY <1>2, <3>1, <3>2 DEF CutOff
    <2> QED BY <2>1, <2>2 DEF IndInv, OwnerInv, CutOff
  <1> QED BY <1>3, <1>4, <1>5, <1>6, <1>7, <1>8, <1>9 DEF IndInv

(* The entries found due were live in the heartbeat queue.                 *)
LEMMA CollectTimeoutsPreserves == ASSUME IndInv, CollectTimeouts PROVE IndInv'
  <1>1. Places BY PlacesHold
  <1>2. FreeSet' = FreeSet /\ Fresh' = Fresh /\ InUse' = InUse
    BY DEF IndInv, TypeOK, CollectTimeouts, FreeSet, Fresh, InUse, Threads
  <1>3. TypeOK'
    BY <1>1, <1>2 DEF IndInv, TypeOK, ClosePcs, AcceptPcs, CollectTimeouts
  <1>4. ListInv' /\ OnePlace' /\ TimeInv' /\ UserInv' /\ PoolBounded' /\ OnlineExact'
    <2>1. pc'[Main] = "count" <=> pc[Main] = "count"
      BY <1>1 DEF Places, IndInv, TypeOK, ClosePcs, CollectTimeouts
    <2>2. ListInv' /\ OnePlace' /\ TimeInv'
      BY <1>2 DEF IndInv, TypeOK, ListInv, OnePlace, TimeInv, CollectTimeouts
    <2>3. UserInv' /\ PoolBounded' /\ OnlineExact'
      BY <1>2, <2>1 DEF IndInv, UserInv, PoolBounded, OnlineExact, CollectTimeouts
    <2> QED BY <2>2, <2>3
  <1>5. HoldInv' /\ BatchInv'
    BY <1>1, <1>2 DEF Places, IndInv, TypeOK, HoldInv, Holding, ClosePcs, AcceptPcs, Fresh,
       CollectTimeouts, BatchInv
  <1>6. MessageInv' /\ IdleInv'
    BY <1>1, <1>2 DEF Places, IndInv, TypeOK, HoldInv, Holding, ClosePcs, AcceptPcs, Fresh,
       CollectTimeouts, MessageInv, TimerEntriesLive, IdleInv
  <1>7. CloseInv' /\ AcceptInv'
    BY <1>1, <1>2 DEF Places, IndInv, TypeOK, HoldInv, Holding, ClosePcs, AcceptPcs, Fresh,
       CollectTimeouts, CloseInv, AcceptInv
  <1>8. TimerEntriesLive' /\ RegisteredInUse'
    BY <1>1, <1>2 DEF Places, IndInv, TypeOK, HoldInv, Holding, ClosePcs, AcceptPcs, Fresh,
       CollectTimeouts, TimerEntriesLive, RegisteredInUse
  <1>9. OwnerInv'
    BY <1>1, <1>2 DEF Places, IndInv, TypeOK, HoldInv, Holding, ClosePcs, AcceptPcs, Fresh,
       CollectTimeouts, OwnerInv
  <1> QED BY <1>3, <1>4, <1>5, <1>6, <1>7, <1>8, <1>9 DEF IndInv

(* An entry leaves m_lsIdleList.                                           *)
LEMMA KeepClientPreserves == ASSUME IndInv, KeepClient PROVE IndInv'
  <1>1. Places BY PlacesHold
  <1>2. FreeSet' = FreeSet /\ Fresh' = Fresh /\ InUse' = InUse
    BY DEF IndInv, TypeOK, KeepClient, FreeSet, Fresh, InUse, Threads
  <1>3. TypeOK'
    BY <1>1, <1>2 DEF IndInv, TypeOK, ClosePcs, AcceptPcs, KeepClient
  <1>4. ListInv' /\ OnePlace' /\ TimeInv' /\ UserInv' /\ PoolBounded' /\ OnlineExact'
    <2>1. pc'[Main] = "count" <=> pc[Main] = "count"
      BY <1>1 DEF Places, IndInv, TypeOK, ClosePcs, KeepClient
    <2>2. ListInv' /\ OnePlace' /\ TimeInv'
      BY <1>2 DEF IndInv, TypeOK, ListInv, OnePlace, TimeInv, KeepClient
    <2>3. UserInv' /\ PoolBounded' /\ OnlineExact'
      BY <1>2, <2>1 DEF IndInv, UserInv, PoolBounded, OnlineExact, KeepClient
    <2> QED BY <2>2, <2>3
  <1>5. HoldInv' /\ BatchInv'
    BY <1>1, <1>2 DEF Places, IndInv, TypeOK, HoldInv, Holding, ClosePcs, AcceptPcs, Fresh,
       KeepClient, BatchInv
  <1>6. MessageInv' /\ IdleInv'
    BY <1>1, <1>2 DEF Places, IndInv, TypeOK, HoldInv, Holding, ClosePcs, AcceptPcs, Fresh,
       KeepClient, MessageInv, IdleInv
  <1>7. CloseInv' /\ AcceptInv'
    BY <1>1, <1>2 DEF Places, IndInv, TypeOK, HoldInv, Holding, ClosePcs, AcceptPcs, Fresh,
       KeepClient, CloseInv, AcceptInv
  <1>8. TimerEntriesLive' /\ RegisteredInUse'
    BY <1>1, <1>2 DEF Places, IndInv, TypeOK, HoldInv, Holding, ClosePcs, AcceptPcs, Fresh,
       KeepClient, TimerEntriesLive, RegisteredInUse
  <1>9. OwnerInv'
    BY <1>1, <1>2 DEF Places, IndInv, TypeOK, HoldInv, Holding, ClosePcs, AcceptPcs, Fresh,
       KeepClient, OwnerInv
  <1> QED BY <1>3, <1>4, <1>5, <1>6, <1>7, <1>8, <1>9 DEF IndInv

(* The sequence test of procPingTimeOutChecking: the timer thread holds an *)
(* object in use.                                                          *)
LEMMA KickClientPreserves == ASSUME IndInv, KickClient PROVE IndInv'
  <1>1. Places BY PlacesHold
  <1>2. FreeSet' = FreeSet /\ Fresh' = Fresh /\ InUse' = InUse
    <2>1. Main \in Threads /\ Timer \in Threads /\ Timer # Main BY DEF Threads, Main, Timer
    <2>2. Fresh' = Fresh BY <2>1 DEF Fresh, IndInv, TypeOK, KickClient
    <2> QED BY <2>2 DEF KickClient, FreeSet, InUse
  <1>3. TypeOK'
    BY <1>1, <1>2 DEF IndInv, TypeOK, ClosePcs, AcceptPcs, KickClient
  <1>4. ListInv' /\ OnePlace' /\ TimeInv' /\ UserInv' /\ PoolBounded' /\ OnlineExact'
    <2>1. pc'[Main] = "count" <=> pc[Main] = "count"
      BY <1>1 DEF Places, IndInv, TypeOK, ClosePcs, KickClient
    <2>2. ListInv' /\ OnePlace' /\ TimeInv'
      BY <1>2 DEF IndInv, TypeOK, ListInv, OnePlace, TimeInv, KickClient
    <2>3. UserInv' /\ PoolBounded' /\ OnlineExact'
      BY <1>2, <2>1 DEF IndInv, UserInv, PoolBounded, OnlineExact, KickClient
    <2> QED BY <2>2, <2>3
  <1>5. HoldInv' /\ BatchInv'
    BY <1>1, <1>2 DEF Places, IndInv, TypeOK, HoldInv, Holding, ClosePcs, AcceptPcs, Fresh,
       KickClient, IdleInv, BatchInv
  <1>6. MessageInv' /\ IdleInv'
    BY <1>1, <1>2 DEF Places, IndInv, TypeOK, HoldInv, Holding, ClosePcs, AcceptPcs, Fresh,
       KickClient, MessageInv, IdleInv
  <1>7. CloseInv' /\ AcceptInv'
    BY <1>1, <1>2 DEF Places, IndInv, TypeOK, HoldInv, Holding, ClosePcs, AcceptPcs, Fresh,
       KickClient, CloseInv, AcceptInv
  <1>8. TimerEntriesLive' /\ RegisteredInUse'
    BY <1>1, <1>2 DEF Places, IndInv, TypeOK, HoldInv, Holding, ClosePcs, AcceptPcs, Fresh,
       KickClient, TimerEntriesLive, RegisteredInUse
  <1>9. OwnerInv'
    <2> SUFFICES ASSUME NEW f \in openFds'
                 PROVE  \/ \E c \in InUse' \cup Fresh' \cup leaked' :
                              fd'[c] = f /\ \A u \in Threads : pc'[u] = "unset" => conn'[u] # c
                        \/ pc'[Main] = "accepted" /\ local'[Main] = f
      BY DEF OwnerInv
    <2>1. CASE pc[Main] = "accepted" /\ local[Main] = f
      BY <1>1, <2>1 DEF Places, IndInv, TypeOK, KickClient
    <2>2. CASE \E c \in InUse \cup Fresh \cup leaked :
                  fd[c] = f /\ \A u \in Threads : pc[u] = "unset" => conn[u] # c
      <3>1. PICK c \in InUse \cup Fresh \cup leaked :
                  fd[c] = f /\ \A u \in Threads : pc[u] = "unset" => conn[u] # c
        BY <2>2
      <3>2. \A u \in Threads : pc'[u] = "unset" => conn'[u] # c
        BY <1>1, <3>1 DEF Places, IndInv, TypeOK, KickClient
      <3> QED BY <1>2, <3>1, <3>2 DEF KickClient
    <2> QED BY <2>1, <2>2 DEF IndInv, OwnerInv, KickClient
  <1> QED BY <1>3, <1>4, <1>5, <1>6, <1>7, <1>8, <1>9 DEF IndInv

(* After DeleteFromTimerQueue no entry names the object.                   *)
LEMMA ZdDeleteTimerPreserves == ASSUME IndInv, NEW t \in Threads, ZdDeleteTimer(t) PROVE IndInv'
  <1>1. Places BY PlacesHold
  <1>2. FreeSet' = FreeSet /\ Fresh' = Fresh /\ InUse' = InUse
    <2>1. Main \in Threads /\ Timer \in Threads /\ Timer # Main BY DEF Threads, Main, Timer
    <2>2. Fresh' = Fresh BY <2>1 DEF Fresh, IndInv, TypeOK, ZdDeleteTimer
    <2> QED BY <2>2 DEF ZdDeleteTimer, FreeSet, InUse
  <1>3. TypeOK'
    BY <1>1, <1>2 DEF IndInv, TypeOK, ClosePcs, AcceptPcs, ZdDeleteTimer
  <1>4. ListInv' /\ OnePlace' /\ TimeInv' /\ UserInv' /\ PoolBounded' /\ OnlineExact'
    <2>1. pc'[Main] = "count" <=> pc[Main] = "count"
      BY <1>1 DEF Places, IndInv, TypeOK, ClosePcs, ZdDeleteTimer
    <2>2. ListInv' /\ OnePlace' /\ TimeInv'
      BY <1>2 DEF IndInv, TypeOK, ListInv, OnePlace, TimeInv, ZdDeleteTimer
    <2>3. UserInv' /\ PoolBounded' /\ OnlineExact'
      BY <1>2, <2>1 DEF IndInv, UserInv, PoolBounded, OnlineExact, ZdDeleteTimer
    <2> QED BY <2>2, <2>3
  <1>5. HoldInv' /\ BatchInv'
    BY <1>1, <1>2 DEF Places, IndInv, TypeOK, HoldInv, Holding, ClosePcs, AcceptPcs, Fresh,
       ZdDeleteTimer, BatchInv
  <1>6. MessageInv' /\ IdleInv'
    BY <1>1, <1>2 DEF Places, IndInv, TypeOK, HoldInv, Holding, ClosePcs, AcceptPcs, Fresh,
       ZdDeleteTimer, MessageInv, IdleInv
  <1>7. CloseInv' /\ AcceptInv'
    BY <1>1, <1>2 DEF Places, IndInv, TypeOK, HoldInv, Holding, ClosePcs, AcceptPcs, Fresh,
       ZdDeleteTimer, CloseInv, AcceptInv
  <1>8. TimerEntriesLive' /\ RegisteredInUse'
    BY <1>1, <1>2 DEF Places, IndInv, TypeOK, HoldInv, Holding, ClosePcs, AcceptPcs, Fresh,
       ZdDeleteTimer, TimerEntriesLive, RegisteredInUse
  <1>9. OwnerInv'
    <2>1. \A u \in Threads : pc'[u] = "unset" => pc[u] = "unset" /\ conn'[u] = conn[u]
      BY <1>1 DEF Places, IndInv, TypeOK, ZdDeleteTimer
    <2>2. pc[Main] = "accepted" => pc'[Main] = "accepted" /\ local'[Main] = local[Main]
      BY <1>1 DEF Places, IndInv, TypeOK, Holding, ClosePcs, ZdDeleteTimer
    <2> QED BY <1>2, <2>1, <2>2 DEF IndInv, OwnerInv, ZdDeleteTimer
  <1> QED BY <1>3, <1>4, <1>5, <1>6, <1>7, <1>8, <1>9 DEF IndInv

(* c->fd is -1 only if another closer has unregistered the object.         *)
LEMMA ZdTestFdPreserves == ASSUME IndInv, NEW t \in Threads, ZdTestFd(t) PROVE IndInv'
  <1>1. Places BY PlacesHold
  <1>2. FreeSet' = FreeSet /\ Fresh' = Fresh /\ InUse' = InUse
    <2>1. Main \in Threads /\ Timer \in Threads /\ Timer # Main BY DEF Threads, Main, Timer
    <2>2. Fresh' = Fresh BY <2>1 DEF Fresh, IndInv, TypeOK, ZdTestFd
    <2> QED BY <2>2 DEF ZdTestFd, FreeSet, InUse
  <1>3. TypeOK'
    <2>1. conn[t] \in Conns
      BY <1>1 DEF Places, ZdTestFd, Holding, ClosePcs
    <2> QED BY <2>1 DEF IndInv, TypeOK, ZdTestFd, ClosePcs, AcceptPcs
  <1>4. ListInv' /\ OnePlace' /\ TimeInv' /\ UserInv' /\ PoolBounded' /\ OnlineExact'
    <2>1. pc'[Main] = "count" <=> pc[Main] = "count"
      BY <1>1 DEF Places, IndInv, TypeOK, ClosePcs, ZdTestFd
    <2>2. ListInv' /\ OnePlace' /\ TimeInv'
      BY <1>2 DEF IndInv, TypeOK, ListInv, OnePlace, TimeInv, ZdTestFd
    <2>3. UserInv' /\ PoolBounded' /\ OnlineExact'
      BY <1>2, <2>1 DEF IndInv, UserInv, PoolBounded, OnlineExact, ZdTestFd
    <2> QED BY <2>2, <2>3
  <1>5. HoldInv' /\ BatchInv'
    BY <1>1, <1>2 DEF Places, IndInv, TypeOK, HoldInv, Holding, ClosePcs, AcceptPcs, Fresh,
       ZdTestFd, BatchInv
  <1>6. MessageInv' /\ IdleInv'
    BY <1>1, <1>2 DEF Places, IndInv, TypeOK, HoldInv, Holding, ClosePcs, AcceptPcs, Fresh,
       ZdTestFd, MessageInv, IdleInv
  <1>7. CloseInv' /\ AcceptInv'
    <2>1. fd[conn[t]] = NoFd => \A f \in Fds : epoll[f] # conn[t]
      BY <1>1 DEF Places, IndInv, RegisteredInUse, ZdTestFd, Holding, ClosePcs
    <2> QED BY <1>1, <2>1 DEF Places, IndInv, TypeOK, ClosePcs, ZdTestFd, CloseInv, AcceptInv
  <1>8. TimerEntriesLive' /\ RegisteredInUse'
    BY <1>1, <1>2 DEF Places, IndInv, TypeOK, HoldInv, Holding, ClosePcs, AcceptPcs, Fresh,
       ZdTestFd, TimerEntriesLive, RegisteredInUse
  <1>9. OwnerInv'
    <2> SUFFICES ASSUME NEW f \in openFds'
                 PROVE  \/ \E c \in InUse' \cup Fresh' \cup leaked' :
                              fd'[c] = f /\ \A u \in Threads : pc'[u] = "unset" => conn'[u] # c
                        \/ pc'[Main] = "accepted" /\ local'[Main] = f
      BY DEF OwnerInv
    <2>1. CASE pc[Main] = "accepted" /\ local[Main] = f
      BY <1>1, <2>1 DEF Places, IndInv, TypeOK, ZdTestFd
    <2>2. CASE \E c \in InUse \cup Fresh \cup leaked :
                  fd[c] = f /\ \A u \in Threads : pc[u] = "unset" => conn[u] # c
      <3>1. PICK c \in InUse \cup Fresh \cup leaked :
                  fd[c] = f /\ \A u \in Threads : pc[u] = "unset" => conn[u] # c
        BY <2>2
      <3>2. \A u \in Threads : pc'[u] = "unset" => conn'[u] # c
        BY <1>1, <3>1 DEF Places, IndInv, TypeOK, ZdTestFd
      <3> QED BY <1>2, <3>1, <3>2 DEF ZdTestFd
    <2> QED BY <2>1, <2>2 DEF IndInv, OwnerInv, ZdTestFd
  <1> QED BY <1>3, <1>4, <1>5, <1>6, <1>7, <1>8, <1>9 DEF IndInv

(* close: the descriptor closed may belong to the object's own life or,    *)
(* when another closer was faster, to another object; every open descriptor*)
(* still has an owner.                                                     *)
LEMMA ZdCloseFdPreserves == ASSUME IndInv, NEW t \in Threads, ZdCloseFd(t) PROVE IndInv'
  <1>1. Places BY PlacesHold
  <1>2. FreeSet' = FreeSet /\ Fresh' = Fresh /\ InUse' = InUse
    <2>1. Main \in Threads /\ Timer \in Threads /\ Timer # Main BY DEF Threads, Main, Timer
    <2>2. Fresh' = Fresh BY <2>1 DEF Fresh, IndInv, TypeOK, ZdCloseFd, CloseFd
    <2> QED BY <2>2 DEF ZdCloseFd, CloseFd, FreeSet, InUse
  <1>3. TypeOK'
    BY <1>1, <1>2 DEF IndInv, TypeOK, ClosePcs, AcceptPcs, ZdCloseFd, CloseFd
  <1>4. ListInv' /\ OnePlace' /\ TimeInv' /\ UserInv' /\ PoolBounded' /\ OnlineExact'
    <2>1. pc'[Main] = "count" <=> pc[Main] = "count"
      BY <1>1 DEF Places, IndInv, TypeOK, ClosePcs, ZdCloseFd, CloseFd
    <2>2. ListInv' /\ OnePlace' /\ TimeInv'
      BY <1>2 DEF IndInv, TypeOK, ListInv, OnePlace, TimeInv, ZdCloseFd, CloseFd
    <2>3. UserInv' /\ PoolBounded' /\ OnlineExact'
      BY <1>2, <2>1 DEF IndInv, UserInv, PoolBounded, OnlineExact, ZdCloseFd, CloseFd
    <2> QED BY <2>2, <2>3
  <1>5. HoldInv' /\ BatchInv'
    BY <1>1, <1>2 DEF Places, IndInv, TypeOK, HoldInv, Holding, ClosePcs, AcceptPcs, Fresh,
       ZdCloseFd, CloseFd, BatchInv
  <1>6. MessageInv' /\ IdleInv'
    BY <1>1, <1>2 DEF Places, IndInv, TypeOK, HoldInv, Holding, ClosePcs, AcceptPcs, Fresh,
       ZdCloseFd, CloseFd, MessageInv, IdleInv
  <1>7. CloseInv' /\ AcceptInv'
    <2>1. PICK g \in {local[t], fd[conn[t]]} : CloseFd(g)
      BY DEF ZdCloseFd
    <2>2. conn[t] \in Conns /\ conn[t] # NoConn /\ conn[t] \notin Fresh
      BY <1>1 DEF Places, ZdCloseFd, Holding, ClosePcs
    <2>3. \A f \in Fds : epoll'[f] # conn[t]
      <3> SUFFICES ASSUME NEW f \in Fds, epoll[f] = conn[t] PROVE epoll'[f] # conn[t]
        BY <2>1, <2>2 DEF CloseFd
      <3>1. fd[conn[t]] = f /\ local[t] = f
        BY <1>1, <2>2 DEF Places, IndInv, RegisteredInUse, CloseInv, ZdCloseFd
      <3> QED BY <2>1, <2>2, <3>1 DEF CloseFd
    <2>4. \A f \in Fds : epoll'[f] \in {epoll[f], NoConn}
      BY <2>1 DEF CloseFd
    <2>5. /\ pc' = [pc EXCEPT ![t] = "unset"] /\ pc[t] = "close"
          /\ UNCHANGED <<timerQueue, conn, local, fd>>
      BY DEF ZdCloseFd
    <2>6. CloseInv'
      <3> SUFFICES ASSUME NEW u \in Threads
                   PROVE  /\ pc'[u] \in ClosePcs \ {"zd"} => \A e \in timerQueue : e.conn # conn[u]
                          /\ pc'[u] = "close" => local[u] # NoFd /\ fd[conn[u]] \in {local[u], NoFd}
                          /\ pc'[u] \in {"unset", "recycle"} => \A f \in Fds : epoll'[f] # conn[u]
                          /\ pc'[u] = "recycle" => fd[conn[u]] = NoFd
        BY <2>5 DEF IndInv, CloseInv
      <3>1. CASE u = t
        BY <2>3, <2>5, <3>1 DEF IndInv, TypeOK, CloseInv, ClosePcs
      <3>2. CASE u # t
        <4>1. pc'[u] = pc[u]
          BY <2>5, <3>2 DEF IndInv, TypeOK
        <4>2. pc[u] \in ClosePcs => conn[u] # NoConn
          BY <1>1 DEF Places, Holding
        <4> QED BY <2>4, <2>5, <4>1, <4>2 DEF IndInv, CloseInv, ClosePcs
      <3> QED BY <3>1, <3>2
    <2>7. AcceptInv'
      <3>1. pc[Main] \in {"got", "control"} => conn[Main] # NoConn
        BY <1>1 DEF Places, Fresh
      <3>2. t # Main => pc'[Main] = pc[Main]
        BY <1>1, <2>5 DEF Places, IndInv, TypeOK
      <3>3. t = Main => pc'[Main] = "unset"
        BY <1>1, <2>5 DEF Places, IndInv, TypeOK
      <3> QED BY <2>4, <2>5, <3>1, <3>2, <3>3 DEF IndInv, AcceptInv
    <2> QED BY <2>6, <2>7
  <1>8. TimerEntriesLive' /\ RegisteredInUse'
    BY <1>1, <1>2 DEF Places, IndInv, TypeOK, HoldInv, Holding, ClosePcs, AcceptPcs, Fresh,
       ZdCloseFd, CloseFd, TimerEntriesLive, RegisteredInUse
  <1>9. OwnerInv'
    <2> SUFFICES ASSUME NEW f \in openFds'
                 PROVE  \/ \E c \in InUse' \cup Fresh' \cup leaked' :
                              fd'[c] = f /\ \A u \in Threads : pc'[u] = "unset" => conn'[u] # c
                        \/ pc'[Main] = "accepted" /\ local'[Main] = f
      BY DEF OwnerInv
    <2>1. openFds' \subseteq openFds /\ UNCHANGED <<local, fd, conn, leaked>>
      BY DEF ZdCloseFd, CloseFd
    <2>2. CASE pc[Main] = "accepted" /\ local[Main] = f
      BY <1>1, <2>2 DEF Places, IndInv, TypeOK, ZdCloseFd
    <2>3. CASE \E c \in InUse \cup Fresh \cup leaked :
                  fd[c] = f /\ \A u \in Threads : pc[u] = "unset" => conn[u] # c
      <3>1. PICK c \in InUse \cup Fresh \cup leaked :
                  fd[c] = f /\ \A u \in Threads : pc[u] = "unset" => conn[u] # c
        BY <2>3
      <3>2. conn[t] # c
        <4> SUFFICES ASSUME conn[t] = c PROVE FALSE OBVIOUS
        <4>1. f \in Fds /\ f # NoFd
          BY <1>1, <2>1 DEF Places, IndInv, TypeOK
        <4>2. local[t] = f
          BY <3>1, <4>1 DEF IndInv, CloseInv, ZdCloseFd
        <4> QED BY <3>1, <4>2 DEF ZdCloseFd, CloseFd
      <3>3. \A u \in Threads : pc'[u] = "unset" => conn'[u] # c
        BY <2>1, <3>1, <3>2 DEF IndInv, TypeOK, ZdCloseFd
      <3> QED BY <1>2, <2>1, <3>1, <3>3
    <2> QED BY <2>1, <2>2, <2>3 DEF IndInv, OwnerInv
  <1> QED BY <1>3, <1>4, <1>5, <1>6, <1>7, <1>8, <1>9 DEF IndInv

(* c->fd = -1 after close: the object no longer owns an open descriptor.   *)
LEMMA ZdUnsetFdPreserves == ASSUME IndInv, NEW t \in Threads, ZdUnsetFd(t) PROVE IndInv'
  <1>1. Places BY PlacesHold
  <1>2. FreeSet' = FreeSet /\ Fresh' = Fresh /\ InUse' = InUse
    <2>1. Main \in Threads /\ Timer \in Threads /\ Timer # Main BY DEF Threads, Main, Timer
    <2>2. Fresh' = Fresh BY <2>1 DEF Fresh, IndInv, TypeOK, ZdUnsetFd
    <2> QED BY <2>2 DEF ZdUnsetFd, FreeSet, InUse
  <1>3. TypeOK'
    BY <1>1, <1>2 DEF IndInv, TypeOK, ClosePcs, AcceptPcs, ZdUnsetFd
  <1>4. ListInv' /\ OnePlace' /\ TimeInv' /\ UserInv' /\ PoolBounded' /\ OnlineExact'
    <2>1. pc'[Main] = "count" <=> pc[Main] = "count"
      BY <1>1 DEF Places, IndInv, TypeOK, ClosePcs, ZdUnsetFd
    <2>2. ListInv' /\ OnePlace' /\ TimeInv'
      BY <1>2 DEF IndInv, TypeOK, ListInv, OnePlace, TimeInv, ZdUnsetFd
    <2>3. UserInv' /\ PoolBounded' /\ OnlineExact'
      BY <1>2, <2>1 DEF IndInv, UserInv, PoolBounded, OnlineExact, ZdUnsetFd
    <2> QED BY <2>2, <2>3
  <1>5. HoldInv' /\ BatchInv'
    BY <1>1, <1>2 DEF Places, IndInv, TypeOK, HoldInv, Holding, ClosePcs, AcceptPcs, Fresh,
       ZdUnsetFd, BatchInv
  <1>6. MessageInv' /\ IdleInv'
    BY <1>1, <1>2 DEF Places, IndInv, TypeOK, HoldInv, Holding, ClosePcs, AcceptPcs, Fresh,
       ZdUnsetFd, MessageInv, IdleInv
  <1>7. CloseInv' /\ AcceptInv'
    BY <1>1, <1>2 DEF Places, IndInv, TypeOK, HoldInv, Holding, ClosePcs, AcceptPcs, Fresh,
       ZdUnsetFd, CloseInv, AcceptInv
  <1>8. TimerEntriesLive' /\ RegisteredInUse'
    BY <1>1, <1>2 DEF Places, IndInv, TypeOK, HoldInv, Holding, ClosePcs, AcceptPcs, Fresh,
       ZdUnsetFd, TimerEntriesLive, CloseInv, RegisteredInUse
  <1>9. OwnerInv'
    <2> SUFFICES ASSUME NEW f \in openFds'
                 PROVE  \/ \E c \in InUse' \cup Fresh' \cup leaked' :
                              fd'[c] = f /\ \A u \in Threads : pc'[u] = "unset" => conn'[u] # c
                        \/ pc'[Main] = "accepted" /\ local'[Main] = f
      BY DEF OwnerInv
    <2>1. CASE pc[Main] = "accepted" /\ local[Main] = f
      BY <1>1, <2>1 DEF Places, IndInv, TypeOK, ZdUnsetFd
    <2>2. CASE \E c \in InUse \cup Fresh \cup leaked :
                  fd[c] = f /\ \A u \in Threads : pc[u] = "unset" => conn[u] # c
      <3>1. PICK c \in InUse \cup Fresh \cup leaked :
                  fd[c] = f /\ \A u \in Threads : pc[u] = "unset" => conn[u] # c
        BY <2>2
      <3>2. conn[t] # c /\ fd'[c] = f
        BY <3>1 DEF IndInv, TypeOK, ZdUnsetFd
      <3>3. \A u \in Threads : pc'[u] = "unset" => conn'[u] # c
        BY <3>1 DEF IndInv, TypeOK, ZdUnsetFd
      <3> QED BY <1>2, <3>2, <3>3 DEF ZdUnsetFd
    <2> QED BY <2>1, <2>2 DEF IndInv, OwnerInv, ZdUnsetFd
  <1> QED BY <1>3, <1>4, <1>5, <1>6, <1>7, <1>8, <1>9 DEF IndInv

(* The recycling thread reads the clock.                                   *)
LEMMA RecyWakePreserves == ASSUME IndInv, RecyWake PROVE IndInv'
  <1>1. Places BY PlacesHold
  <1>2. FreeSet' = FreeSet /\ Fresh' = Fresh /\ InUse' = InUse
    BY DEF IndInv, TypeOK, RecyWake, FreeSet, Fresh, InUse, Threads
  <1>3. TypeOK'
    BY <1>1, <1>2 DEF IndInv, TypeOK, ClosePcs, AcceptPcs, RecyWake
  <1>4. ListInv' /\ OnePlace' /\ TimeInv' /\ UserInv' /\ PoolBounded' /\ OnlineExact'
    <2>1. pc'[Main] = "count" <=> pc[Main] = "count"
      BY <1>1 DEF Places, IndInv, TypeOK, ClosePcs, RecyWake
    <2>2. ListInv' /\ OnePlace' /\ TimeInv'
      BY <1>2 DEF IndInv, TypeOK, ListInv, OnePlace, TimeInv, RecyWake
    <2>3. UserInv' /\ PoolBounded' /\ OnlineExact'
      BY <1>2, <2>1 DEF IndInv, UserInv, PoolBounded, OnlineExact, RecyWake
    <2> QED BY <2>2, <2>3
  <1>5. HoldInv' /\ BatchInv'
    BY <1>1, <1>2 DEF Places, IndInv, TypeOK, HoldInv, Holding, ClosePcs, AcceptPcs, Fresh,
       RecyWake, BatchInv
  <1>6. MessageInv' /\ IdleInv'
    BY <1>1, <1>2 DEF Places, IndInv, TypeOK, HoldInv, Holding, ClosePcs, AcceptPcs, Fresh,
       RecyWake, MessageInv, IdleInv
  <1>7. CloseInv' /\ AcceptInv'
    BY <1>1, <1>2 DEF Places, IndInv, TypeOK, HoldInv, Holding, ClosePcs, AcceptPcs, Fresh,
       RecyWake, CloseInv, AcceptInv
  <1>8. TimerEntriesLive' /\ RegisteredInUse'
    BY <1>1, <1>2 DEF Places, IndInv, TypeOK, HoldInv, Holding, ClosePcs, AcceptPcs, Fresh,
       RecyWake, TimerEntriesLive, RegisteredInUse
  <1>9. OwnerInv'
    BY <1>1, <1>2 DEF Places, IndInv, TypeOK, HoldInv, Holding, ClosePcs, AcceptPcs, Fresh,
       RecyWake, OwnerInv
  <1> QED BY <1>3, <1>4, <1>5, <1>6, <1>7, <1>8, <1>9 DEF IndInv

(* The recycling thread takes the mutex.                                   *)
LEMMA RecyLockPreserves == ASSUME IndInv, RecyLock PROVE IndInv'
  <1>1. Places BY PlacesHold
  <1>2. FreeSet' = FreeSet /\ Fresh' = Fresh /\ InUse' = InUse
    BY DEF IndInv, TypeOK, RecyLock, FreeSet, Fresh, InUse, Threads
  <1>3. TypeOK'
    BY <1>1, <1>2 DEF IndInv, TypeOK, ClosePcs, AcceptPcs, RecyLock
  <1>4. ListInv' /\ OnePlace' /\ TimeInv' /\ UserInv' /\ PoolBounded' /\ OnlineExact'
    <2>1. pc'[Main] = "count" <=> pc[Main] = "count"
      BY <1>1 DEF Places, IndInv, TypeOK, ClosePcs, RecyLock
    <2>2. ListInv' /\ OnePlace' /\ TimeInv'
      BY <1>2 DEF IndInv, TypeOK, ListInv, OnePlace, TimeInv, RecyLock
    <2>3. UserInv' /\ PoolBounded' /\ OnlineExact'
      BY <1>2, <2>1 DEF IndInv, UserInv, PoolBounded, OnlineExact, RecyLock
    <2> QED BY <2>2, <2>3
  <1>5. HoldInv' /\ BatchInv'
    BY <1>1, <1>2 DEF Places, IndInv, TypeOK, HoldInv, Holding, ClosePcs, AcceptPcs, Fresh,
       RecyLock, BatchInv
  <1>6. MessageInv' /\ IdleInv'
    BY <1>1, <1>2 DEF Places, IndInv, TypeOK, HoldInv, Holding, ClosePcs, AcceptPcs, Fresh,
       RecyLock, MessageInv, IdleInv
  <1>7. CloseInv' /\ AcceptInv'
    BY <1>1, <1>2 DEF Places, IndInv, TypeOK, HoldInv, Holding, ClosePcs, AcceptPcs, Fresh,
       RecyLock, CloseInv, AcceptInv
  <1>8. TimerEntriesLive' /\ RegisteredInUse'
    BY <1>1, <1>2 DEF Places, IndInv, TypeOK, HoldInv, Holding, ClosePcs, AcceptPcs, Fresh,
       RecyLock, TimerEntriesLive, RegisteredInUse
  <1>9. OwnerInv'
    BY <1>1, <1>2 DEF Places, IndInv, TypeOK, HoldInv, Holding, ClosePcs, AcceptPcs, Fresh,
       RecyLock, OwnerInv
  <1> QED BY <1>3, <1>4, <1>5, <1>6, <1>7, <1>8, <1>9 DEF IndInv

(* The recycling thread releases the mutex.                                *)
LEMMA RecyUnlockPreserves == ASSUME IndInv, RecyUnlock PROVE IndInv'
  <1>1. Places BY PlacesHold
  <1>2. FreeSet' = FreeSet /\ Fresh' = Fresh /\ InUse' = InUse
    BY DEF IndInv, TypeOK, RecyUnlock, FreeSet, Fresh, InUse, Threads
  <1>3. TypeOK'
    BY <1>1, <1>2 DEF IndInv, TypeOK, ClosePcs, AcceptPcs, RecyUnlock
  <1>4. ListInv' /\ OnePlace' /\ TimeInv' /\ UserInv' /\ PoolBounded' /\ OnlineExact'
    <2>1. pc'[Main] = "count" <=> pc[Main] = "count"
      BY <1>1 DEF Places, IndInv, TypeOK, ClosePcs, RecyUnlock
    <2>2. ListInv' /\ OnePlace' /\ TimeInv'
      BY <1>2 DEF IndInv, TypeOK, ListInv, OnePlace, TimeInv, RecyUnlock
    <2>3. UserInv' /\ PoolBounded' /\ OnlineExact'
      BY <1>2, <2>1 DEF IndInv, UserInv, PoolBounded, OnlineExact, RecyUnlock
    <2> QED BY <2>2, <2>3
  <1>5. HoldInv' /\ BatchInv'
    BY <1>1, <1>2 DEF Places, IndInv, TypeOK, HoldInv, Holding, ClosePcs, AcceptPcs, Fresh,
       RecyUnlock, BatchInv
  <1>6. MessageInv' /\ IdleInv'
    BY <1>1, <1>2 DEF Places, IndInv, TypeOK, HoldInv, Holding, ClosePcs, AcceptPcs, Fresh,
       RecyUnlock, MessageInv, IdleInv
  <1>7. CloseInv' /\ AcceptInv'
    BY <1>1, <1>2 DEF Places, IndInv, TypeOK, HoldInv, Holding, ClosePcs, AcceptPcs, Fresh,
       RecyUnlock, CloseInv, AcceptInv
  <1>8. TimerEntriesLive' /\ RegisteredInUse'
    BY <1>1, <1>2 DEF Places, IndInv, TypeOK, HoldInv, Holding, ClosePcs, AcceptPcs, Fresh,
       RecyUnlock, TimerEntriesLive, RegisteredInUse
  <1>9. OwnerInv'
    BY <1>1, <1>2 DEF Places, IndInv, TypeOK, HoldInv, Holding, ClosePcs, AcceptPcs, Fresh,
       RecyUnlock, OwnerInv
  <1> QED BY <1>3, <1>4, <1>5, <1>6, <1>7, <1>8, <1>9 DEF IndInv

(* Time passes, within MaxHold of every event in hand.                     *)
LEMMA TickPreserves == ASSUME IndInv, Tick PROVE IndInv'
  <1>1. Places BY PlacesHold
  <1>2. FreeSet' = FreeSet /\ Fresh' = Fresh /\ InUse' = InUse
    BY DEF IndInv, TypeOK, Tick, FreeSet, Fresh, InUse, Threads
  <1>3. TypeOK'
    BY <1>1, <1>2 DEF IndInv, TypeOK, ClosePcs, AcceptPcs, Tick
  <1>4. ListInv' /\ OnePlace' /\ TimeInv' /\ UserInv' /\ PoolBounded' /\ OnlineExact'
    <2>1. pc'[Main] = "count" <=> pc[Main] = "count"
      BY <1>1 DEF Places, IndInv, TypeOK, ClosePcs, Tick
    <2>2. ListInv' /\ OnePlace' /\ TimeInv'
      BY <1>2 DEF IndInv, TypeOK, ListInv, OnePlace, TimeInv, Tick
    <2>3. UserInv' /\ PoolBounded' /\ OnlineExact'
      BY <1>2, <2>1 DEF IndInv, UserInv, PoolBounded, OnlineExact, Tick
    <2> QED BY <2>2, <2>3
  <1>5. HoldInv' /\ BatchInv'
    BY <1>1, <1>2 DEF Places, IndInv, TypeOK, HoldInv, Holding, ClosePcs, AcceptPcs, Fresh,
       Tick, BatchInv
  <1>6. MessageInv' /\ IdleInv'
    BY <1>1, <1>2 DEF Places, IndInv, TypeOK, HoldInv, Holding, ClosePcs, AcceptPcs, Fresh,
       Tick, MessageInv, IdleInv
  <1>7. CloseInv' /\ AcceptInv'
    BY <1>1, <1>2 DEF Places, IndInv, TypeOK, HoldInv, Holding, ClosePcs, AcceptPcs, Fresh,
       Tick, CloseInv, AcceptInv
  <1>8. TimerEntriesLive' /\ RegisteredInUse'
    BY <1>1, <1>2 DEF Places, IndInv, TypeOK, HoldInv, Holding, ClosePcs, AcceptPcs, Fresh,
       Tick, TimerEntriesLive, RegisteredInUse
  <1>9. OwnerInv'
    BY <1>1, <1>2 DEF Places, IndInv, TypeOK, HoldInv, Holding, ClosePcs, AcceptPcs, Fresh,
       Tick, OwnerInv
  <1> QED BY <1>3, <1>4, <1>5, <1>6, <1>7, <1>8, <1>9 DEF IndInv

(* The end of the bounded model changes nothing.                           *)
LEMMA StoppedPreserves == ASSUME IndInv, Stopped PROVE IndInv'
  <1>1. Places BY PlacesHold
  <1>2. FreeSet' = FreeSet /\ Fresh' = Fresh /\ InUse' = InUse
    BY DEF IndInv, TypeOK, Stopped, vars, FreeSet, Fresh, InUse, Threads
  <1>3. TypeOK'
    BY <1>1, <1>2 DEF IndInv, TypeOK, ClosePcs, AcceptPcs, Stopped, vars
  <1>4. ListInv' /\ OnePlace' /\ TimeInv' /\ UserInv' /\ PoolBounded' /\ OnlineExact'
    <2>1. pc'[Main] = "count" <=> pc[Main] = "count"
      BY <1>1 DEF Places, IndInv, TypeOK, ClosePcs, Stopped, vars
    <2>2. ListInv' /\ OnePlace' /\ TimeInv'
      BY <1>2 DEF IndInv, TypeOK, ListInv, OnePlace, TimeInv, Stopped, vars
    <2>3. UserInv' /\ PoolBounded' /\ OnlineExact'
      BY <1>2, <2>1 DEF IndInv, UserInv, PoolBounded, OnlineExact, Stopped, vars
    <2> QED BY <2>2, <2>3
  <1>5. HoldInv' /\ BatchInv'
    BY <1>1, <1>2 DEF Places, IndInv, TypeOK, HoldInv, Holding, ClosePcs, AcceptPcs, Fresh,
       Stopped, vars, BatchInv
  <1>6. MessageInv' /\ IdleInv'
    BY <1>1, <1>2 DEF Places, IndInv, TypeOK, HoldInv, Holding, ClosePcs, AcceptPcs, Fresh,
       Stopped, vars, MessageInv, IdleInv
  <1>7. CloseInv' /\ AcceptInv'
    BY <1>1, <1>2 DEF Places, IndInv, TypeOK, HoldInv, Holding, ClosePcs, AcceptPcs, Fresh,
       Stopped, vars, CloseInv, AcceptInv
  <1>8. TimerEntriesLive' /\ RegisteredInUse'
    BY <1>1, <1>2 DEF Places, IndInv, TypeOK, HoldInv, Holding, ClosePcs, AcceptPcs, Fresh,
       Stopped, vars, TimerEntriesLive, RegisteredInUse
  <1>9. OwnerInv'
    BY <1>1, <1>2 DEF Places, IndInv, TypeOK, HoldInv, Holding, ClosePcs, AcceptPcs, Fresh,
       Stopped, vars, OwnerInv
  <1> QED BY <1>3, <1>4, <1>5, <1>6, <1>7, <1>8, <1>9 DEF IndInv

(* The users can be counted.                                               *)
LEMMA InUseFinite == ASSUME IndInv PROVE IsFiniteSet(InUse) /\ Cardinality(InUse) \in Nat
  <1>1. totalConn \in Nat
    BY DEF IndInv, TypeOK
  <1>2. IsFiniteSet(1 .. totalConn) /\ InUse \subseteq 1 .. totalConn
    BY <1>1, FS_Interval DEF InUse
  <1> QED BY <1>2, FS_Subset, FS_CardinalityType

(* The object handed out was free, or is new; nobody else knows it.        *)
LEMMA GetConnectionPlaces ==
  ASSUME IndInv, GetConnection
  PROVE  \E c \in Conns :
            /\ c \notin InUse \cup recyList \cup leaked \cup Fresh
            /\ sequence' = [sequence EXCEPT ![c] = @ + 1]
            /\ fd' = [fd EXCEPT ![c] = local[Main]]
            /\ conn' = [conn EXCEPT ![Main] = c]
            /\ Fresh = {} /\ Fresh' = {c}
            /\ InUse' = InUse /\ FreeSet' = FreeSet \ {c}
            /\ freeList' \in Seq(Conns)
            /\ \A i, j \in DOMAIN freeList' : freeList'[i] = freeList'[j] => i = j
            /\ totalConn' \in Nat /\ totalConn' <= PoolLimit + 1
            /\ 1 .. totalConn' = (1 .. totalConn) \cup {c}
  <1> DEFINE c == IF freeList # <<>> THEN Head(freeList) ELSE totalConn + 1
  <1>1. Places BY PlacesHold
  <1>2. /\ sequence' = [sequence EXCEPT ![c] = @ + 1]
        /\ fd' = [fd EXCEPT ![c] = local[Main]]
        /\ conn' = [conn EXCEPT ![Main] = c]
        /\ pc[Main] = "accepted" /\ pc'[Main] \in {"got", "control"}
        /\ UNCHANGED <<recyList, leaked>>
    BY <1>1 DEF GetConnection, IndInv, TypeOK, Places
  <1>3. Fresh = {} /\ Fresh' = {c}
    BY <1>1, <1>2 DEF Fresh, IndInv, TypeOK, Places
  <1>4. CASE freeList # <<>>
    <2>1. /\ freeList \in Seq(Conns) /\ freeList' = Tail(freeList) /\ totalConn' = totalConn
          /\ \A i, j \in DOMAIN freeList : freeList[i] = freeList[j] => i = j
          /\ c = Head(freeList)
      BY <1>4 DEF GetConnection, IndInv, TypeOK, OnePlace
    <2>2. /\ FreeSet' = FreeSet \ {c} /\ c \in FreeSet
          /\ \A i, j \in DOMAIN freeList' : freeList'[i] = freeList'[j] => i = j
      BY <1>4, <2>1, TailRange DEF FreeSet
    <2>3. freeList' \in Seq(Conns)
      BY <1>4, <2>1
    <2>4. c \in 1 .. totalConn /\ c \in Conns /\ c \notin InUse \cup recyList \cup leaked
      BY <1>1, <2>2 DEF Places, IndInv, OnePlace
    <2>5. InUse' = InUse
      BY <1>2, <1>3, <2>1, <2>2 DEF InUse
    <2>6. totalConn' \in Nat /\ totalConn' <= PoolLimit + 1
      BY <2>1, PoolAssumption, PoolHasRoom, LimitMeaning DEF IndInv, TypeOK, PoolBounded
    <2>7. 1 .. totalConn' = (1 .. totalConn) \cup {c}
      BY <2>1, <2>4
    <2> HIDE DEF c
    <2> QED BY <1>2, <1>3, <2>2, <2>3, <2>4, <2>5, <2>6, <2>7
  <1>5. CASE freeList = <<>>
    <2>1. freeList' = freeList /\ totalConn' = totalConn + 1 /\ c = totalConn + 1
      BY <1>5 DEF GetConnection
    <2>2. totalConn \in Nat /\ totalConn <= PoolLimit
      BY <1>5, PoolAssumption, PoolHasRoom DEF GetConnection, PoolTooLarge, IndInv, TypeOK
    <2>3. c \in Conns /\ c \notin 1 .. totalConn /\ 1 .. totalConn' = (1 .. totalConn) \cup {c}
      BY <2>1, <2>2, PoolAssumption, PoolHasRoom
    <2>4. FreeSet = {} /\ FreeSet' = {}
      BY <1>5, <2>1 DEF FreeSet
    <2>5. InUse' = InUse /\ c \notin InUse \cup recyList \cup leaked
      BY <1>1, <1>2, <1>3, <2>3, <2>4 DEF InUse, Places
    <2>6. totalConn' \in Nat /\ totalConn' <= PoolLimit + 1
      BY <2>1, <2>2, PoolAssumption, PoolHasRoom
    <2>7. freeList' \in Seq(Conns) /\ \A i, j \in DOMAIN freeList' : freeList'[i] = freeList'[j] => i = j
      BY <1>5, <2>1 DEF IndInv, TypeOK
    <2> HIDE DEF c
    <2> QED BY <1>2, <1>3, <2>1, <2>3, <2>4, <2>5, <2>6, <2>7
  <1> QED BY <1>4, <1>5

(* qc_get_connection: the object leaves the free list, or is new within the*)
(* bound of the test made before, and becomes accept's own.                *)
LEMMA GetConnectionPreserves == ASSUME IndInv, GetConnection PROVE IndInv'
  <1>1. Places BY PlacesHold
  <1>2. PICK c \in Conns :
            /\ c \notin InUse \cup recyList \cup leaked \cup Fresh
            /\ sequence' = [sequence EXCEPT ![c] = @ + 1]
            /\ fd' = [fd EXCEPT ![c] = local[Main]]
            /\ conn' = [conn EXCEPT ![Main] = c]
            /\ Fresh = {} /\ Fresh' = {c}
            /\ InUse' = InUse /\ FreeSet' = FreeSet \ {c}
            /\ freeList' \in Seq(Conns)
            /\ \A i, j \in DOMAIN freeList' : freeList'[i] = freeList'[j] => i = j
            /\ totalConn' \in Nat /\ totalConn' <= PoolLimit + 1
            /\ 1 .. totalConn' = (1 .. totalConn) \cup {c}
    BY GetConnectionPlaces
  <1>3. \A t \in Threads : Holding(t) => conn[t] # c /\ t # Main
    BY <1>1, <1>2 DEF Places, IndInv, HoldInv, Holding, GetConnection, ClosePcs
  <1>4. pc' = [pc EXCEPT ![Main] = IF useAccept4 THEN "control" ELSE "got"] /\ pc[Main] = "accepted"
    BY DEF GetConnection
  <1>5. TypeOK'
    <2>1. /\ Main \in Threads /\ local[Main] \in Fds \cup {NoFd}
          /\ recyList \cup leaked \subseteq 1 .. totalConn'
      BY <1>1, <1>2 DEF Places, IndInv, TypeOK
    <2>2. pc' \in [Threads -> {"idle", "stamp", "handle"} \cup ClosePcs \cup AcceptPcs]
      BY <1>4 DEF IndInv, TypeOK, AcceptPcs
    <2>3. /\ sequence' \in [Conns -> Nat] /\ fd' \in [Conns -> Fds \cup {NoFd}]
          /\ conn' \in [Threads -> Conns \cup {NoConn}]
      BY <1>2, <2>1 DEF IndInv, TypeOK
    <2> QED BY <1>2, <2>1, <2>2, <2>3 DEF IndInv, TypeOK, GetConnection
  <1>6. ListInv' /\ OnePlace' /\ TimeInv'
    BY <1>2 DEF IndInv, ListInv, OnePlace, TimeInv, GetConnection
  <1>7. HoldInv' /\ BatchInv'
    BY <1>1, <1>2, <1>3, <1>4 DEF Places, IndInv, TypeOK, HoldInv, BatchInv, Holding, GetConnection, ClosePcs
  <1>8. MessageInv' /\ IdleInv'
    <2>1. /\ UNCHANGED <<recvQueue, idleList, inRecyTime, clock, recyList>>
          /\ InUse' = InUse /\ c \in Conns /\ c \notin InUse \cup recyList
          /\ sequence' = [sequence EXCEPT ![c] = @ + 1] /\ sequence \in [Conns -> Nat]
          /\ recvQueue \subseteq [conn : Conns, sequence : Nat, since : Nat]
          /\ idleList \subseteq [conn : Conns, sequence : Nat]
      BY <1>2 DEF GetConnection, IndInv, TypeOK
    <2>2. MessageInv'
      BY <2>1 DEF IndInv, MessageInv
    <2>3. IdleInv'
      BY <2>1 DEF IndInv, IdleInv
    <2> QED BY <2>2, <2>3
  <1>9. CloseInv'
    BY <1>1, <1>2, <1>3, <1>4 DEF Places, IndInv, TypeOK, CloseInv, GetConnection, Holding, ClosePcs
  <1>10. AcceptInv'
    BY <1>1, <1>2, <1>4 DEF Places, IndInv, TypeOK, AcceptInv, RegisteredInUse, GetConnection
  <1>11. TimerEntriesLive' /\ RegisteredInUse'
    <2>1. TimerEntriesLive'
      BY <1>1, <1>2, SMTT(30) DEF Places, IndInv, TypeOK, TimerEntriesLive, GetConnection
    <2>2. RegisteredInUse'
      <3>1. /\ epoll' = epoll /\ openFds' = openFds /\ epoll \in [Fds -> Conns \cup {NoConn}]
            /\ NoConn \notin Conns
        BY <1>1 DEF Places, NoConn, IndInv, TypeOK, GetConnection, kernelVars
      <3>2. \A f \in Fds : epoll[f] # NoConn => epoll[f] \in InUse /\ f \in openFds /\ fd[epoll[f]] = f
        BY <1>4 DEF IndInv, RegisteredInUse
      <3>3. \A d \in InUse \cap Conns : fd'[d] = fd[d]
        BY <1>2 DEF IndInv, TypeOK
      <3> QED BY <1>2, <3>1, <3>2, <3>3 DEF RegisteredInUse
    <2> QED BY <2>1, <2>2
  <1>12. OnlineExact' /\ UserInv' /\ PoolBounded'
    <2>1. IsFiniteSet(InUse) /\ Cardinality(InUse) \in Nat
      BY InUseFinite
    <2>2. onlineUserCount = Cardinality(InUse) /\ Cardinality(InUse) < WorkerConnections
      BY <1>4, <2>1, PoolAssumption DEF GetConnection, TooManyUsers, IndInv, TypeOK, OnlineExact
    <2>3. Cardinality(InUse' \cup Fresh') = Cardinality(InUse) + 1
      BY <1>2, <2>1, FS_AddElement
    <2>4. pc'[Main] # "count" /\ onlineUserCount' = onlineUserCount
      BY <1>1, <1>4 DEF Places, GetConnection, IndInv, TypeOK
    <2>5. totalConn' + ListenPortCount <= WorkerConnections * PoolFactor + 1
      BY <1>2, PoolAssumption, PoolHasRoom, LimitMeaning
    <2> QED BY <1>2, <2>1, <2>2, <2>3, <2>4, <2>5, PoolAssumption DEF OnlineExact, UserInv, PoolBounded
  <1>13. OwnerInv'
    <2> SUFFICES ASSUME NEW f \in openFds
                 PROVE  \E d \in InUse' \cup Fresh' \cup leaked' :
                              fd'[d] = f /\ \A u \in Threads : pc'[u] = "unset" => conn'[u] # d
      BY DEF OwnerInv, GetConnection
    <2>1. \A u \in Threads : pc'[u] = "unset" => pc[u] = "unset" /\ conn'[u] = conn[u] /\ conn[u] # c
      BY <1>1, <1>2, <1>3, <1>4 DEF Places, IndInv, TypeOK, Holding, ClosePcs
    <2>2. CASE local[Main] = f
      <3>1. fd'[c] = f /\ c \in Fresh'
        BY <1>2, <2>2 DEF IndInv, TypeOK
      <3> QED BY <2>1, <3>1
    <2>3. CASE \E d \in InUse \cup Fresh \cup leaked :
                  fd[d] = f /\ \A u \in Threads : pc[u] = "unset" => conn[u] # d
      <3>1. PICK d \in InUse \cup Fresh \cup leaked :
                  fd[d] = f /\ \A u \in Threads : pc[u] = "unset" => conn[u] # d
        BY <2>3
      <3>2. d # c /\ fd'[d] = f
        BY <1>2, <3>1 DEF IndInv, TypeOK
      <3>3. d \in InUse' \cup leaked'
        BY <1>2, <3>1 DEF GetConnection
      <3> QED BY <2>1, <3>1, <3>2, <3>3
    <2> QED BY <2>2, <2>3 DEF IndInv, OwnerInv
  <1> QED BY <1>5, <1>6, <1>7, <1>8, <1>9, <1>10, <1>11, <1>12, <1>13 DEF IndInv

(* setnonblocking fails: the object accept owned is in leaked, with its    *)
(* descriptor.                                                             *)
LEMMA SetNonblockingPreserves == ASSUME IndInv, SetNonblocking PROVE IndInv'
  <1>1. Places BY PlacesHold
  <1>2. FreeSet' = FreeSet /\ pc[Main] = "got" /\ Fresh = {conn[Main]}
    BY DEF SetNonblocking, FreeSet, Fresh
  <1>3. CASE pc' = [pc EXCEPT ![Main] = "control"] /\ UNCHANGED <<conn, local, since, leaked>>
    <2>1. Fresh' = Fresh /\ InUse' = InUse
      BY <1>1, <1>2, <1>3 DEF Places, Fresh, InUse, IndInv, TypeOK, SetNonblocking
    <2>2. TypeOK'
      BY <1>3 DEF IndInv, TypeOK, SetNonblocking, AcceptPcs
    <2>3. ListInv' /\ OnePlace' /\ TimeInv' /\ UserInv' /\ PoolBounded' /\ OnlineExact'
      BY <1>1, <1>2, <1>3, <2>1 DEF Places, IndInv, TypeOK, ListInv, OnePlace, TimeInv, UserInv,
         PoolBounded, OnlineExact, SetNonblocking
    <2>4. HoldInv' /\ BatchInv' /\ MessageInv' /\ IdleInv'
      BY <1>1, <1>3, <2>1 DEF Places, IndInv, TypeOK, HoldInv, Holding, ClosePcs, BatchInv, MessageInv,
         IdleInv, SetNonblocking
    <2>5. CloseInv' /\ AcceptInv'
      BY <1>1, <1>2, <1>3 DEF Places, IndInv, TypeOK, ClosePcs, CloseInv, AcceptInv, SetNonblocking
    <2>6. TimerEntriesLive' /\ RegisteredInUse' /\ OwnerInv'
      BY <1>1, <1>2, <1>3, <2>1 DEF Places, IndInv, TypeOK, TimerEntriesLive, RegisteredInUse, OwnerInv,
         SetNonblocking
    <2> QED BY <2>2, <2>3, <2>4, <2>5, <2>6 DEF IndInv
  <1>4. CASE Release(Main) /\ leaked' = leaked \cup {conn[Main]}
    <2>1. Fresh' = {} /\ InUse' = InUse
      BY <1>1, <1>2, <1>4 DEF Places, Fresh, InUse, IndInv, TypeOK, SetNonblocking, Release
    <2>2. TypeOK'
      BY <1>1, <1>2, <1>4 DEF Places, IndInv, TypeOK, SetNonblocking, Release
    <2>3. ListInv' /\ OnePlace' /\ TimeInv' /\ PoolBounded' /\ OnlineExact'
      BY <1>1, <1>2, <1>4, <2>1 DEF Places, IndInv, TypeOK, ListInv, OnePlace, TimeInv,
         PoolBounded, OnlineExact, SetNonblocking, Release
    <2>4. UserInv'
      <3>1. InUse' \cup Fresh' = InUse
        BY <2>1
      <3> QED BY <1>4, <2>1, <3>1 DEF IndInv, PoolBounded, UserInv
    <2>5. HoldInv' /\ BatchInv' /\ MessageInv' /\ IdleInv'
      BY <1>1, <1>4, <2>1 DEF Places, IndInv, TypeOK, HoldInv, Holding, ClosePcs, BatchInv, MessageInv,
         IdleInv, SetNonblocking, Release
    <2>6. CloseInv' /\ AcceptInv'
      BY <1>1, <1>2, <1>4 DEF Places, IndInv, TypeOK, ClosePcs, CloseInv, AcceptInv, SetNonblocking, Release
    <2>7. TimerEntriesLive' /\ RegisteredInUse'
      BY <1>1, <1>2, <1>4, <2>1 DEF Places, IndInv, TypeOK, TimerEntriesLive, RegisteredInUse,
         SetNonblocking, Release
    <2>8. OwnerInv'
      <3>1. \A u \in Threads : pc'[u] = "unset" => pc[u] = "unset" /\ conn'[u] = conn[u]
        BY <1>1, <1>4 DEF Places, IndInv, TypeOK, Release
      <3>2. InUse' \cup Fresh' \cup leaked' = InUse \cup Fresh \cup leaked
        BY <1>2, <1>4, <2>1
      <3> QED BY <1>2, <3>1, <3>2 DEF IndInv, OwnerInv, SetNonblocking
    <2> QED BY <2>2, <2>3, <2>4, <2>5, <2>6, <2>7, <2>8 DEF IndInv
  <1> QED BY <1>3, <1>4 DEF SetNonblocking

(* qc_close_connection frees an object no other thread has seen.           *)
LEMMA EpollAddFailsPreserves == ASSUME IndInv, EpollAddFails PROVE IndInv'
  <1> DEFINE c == conn[Main]
  <1>1. Places BY PlacesHold
  <1>2. /\ pc[Main] = "control" /\ Fresh = {c} /\ Fresh' = {}
        /\ c \in 1 .. totalConn /\ c \in Conns /\ c \notin FreeSet \cup recyList \cup InUse \cup leaked
        /\ fd[c] = local[Main] /\ local[Main] \in Fds /\ freeList \in Seq(Conns)
    BY <1>1 DEF Places, EpollAddFails, Release, Fresh, IndInv, ListInv, OnePlace, AcceptInv, TypeOK
  <1> HIDE DEF c
  <1>3. /\ freeList' = Append(freeList, c) /\ totalConn' = totalConn /\ recyList' = recyList
        /\ leaked' = leaked /\ onlineUserCount' = onlineUserCount
        /\ sequence' = [sequence EXCEPT ![c] = @ + 1] /\ fd' = [fd EXCEPT ![c] = NoFd]
        /\ CloseFd(local[Main]) /\ Release(Main)
    BY <1>2 DEF EpollAddFails, c
  <1>4. /\ FreeSet' = FreeSet \cup {c} /\ freeList' \in Seq(Conns)
        /\ \A i, j \in DOMAIN freeList' : freeList'[i] = freeList'[j] => i = j
    BY <1>2, <1>3, AppendRange DEF FreeSet, IndInv, OnePlace
  <1>5. InUse' = InUse
    BY <1>2, <1>3, <1>4 DEF InUse
  <1>6. \A t \in Threads : Holding(t) => conn[t] # c /\ t # Main
    BY <1>1, <1>2 DEF Places, Holding, ClosePcs
  <1>7. TypeOK'
    <2>1. sequence' \in [Conns -> Nat] /\ fd' \in [Conns -> Fds \cup {NoFd}]
      BY <1>2, <1>3 DEF IndInv, TypeOK
    <2>2. openFds' \subseteq Fds /\ epoll' \in [Fds -> Conns \cup {NoConn}]
      BY <1>3 DEF IndInv, TypeOK, CloseFd
    <2> QED BY <1>1, <1>3, <1>4, <2>1, <2>2, ReleaseType DEF Places, IndInv, TypeOK, EpollAddFails
  <1>8. ListInv' /\ OnePlace' /\ TimeInv'
    BY <1>2, <1>3, <1>4 DEF IndInv, ListInv, OnePlace, TimeInv, EpollAddFails
  <1>9. PoolBounded' /\ OnlineExact' /\ UserInv'
    <2>1. InUse' \cup Fresh' = InUse
      BY <1>2, <1>5
    <2>2. pc'[Main] = "idle"
      BY <1>1, <1>3 DEF Places, IndInv, TypeOK, Release
    <2> QED BY <1>2, <1>3, <1>5, <2>1, <2>2 DEF IndInv, PoolBounded, OnlineExact, UserInv
  <1>10. HoldInv' /\ BatchInv'
    BY <1>1, <1>3, <1>5, <1>6 DEF Places, IndInv, TypeOK, HoldInv, BatchInv, Holding, ClosePcs,
       EpollAddFails, Release
  <1>11. MessageInv' /\ IdleInv'
    <2>1. /\ recvQueue' = recvQueue /\ idleList' = idleList /\ clock' = clock /\ inRecyTime' = inRecyTime
          /\ \A m \in recvQueue : m.conn \in Conns /\ m.sequence \in Nat
          /\ \A e \in idleList : e.conn \in Conns /\ e.sequence \in Nat
      BY <1>3 DEF EpollAddFails, IndInv, TypeOK
    <2>2. \A d \in Conns : sequence[d] \in Nat /\ sequence'[d] = IF d = c THEN sequence[d] + 1 ELSE sequence[d]
      BY <1>3 DEF IndInv, TypeOK
    <2>3. MessageInv'
      BY <1>2, <1>3, <1>5, <2>1, <2>2 DEF IndInv, MessageInv
    <2>4. IdleInv'
      <3> SUFFICES ASSUME NEW e \in idleList
                   PROVE  /\ e.sequence <= sequence'[e.conn]
                          /\ e.sequence = sequence'[e.conn] => e.conn \in InUse
        BY <1>5, <2>1 DEF IdleInv
      <3>1. /\ e.sequence <= sequence[e.conn]
            /\ e.sequence = sequence[e.conn] => e.conn \in InUse
        BY DEF IndInv, IdleInv
      <3> QED BY <2>1, <2>2, <3>1
    <2> QED BY <2>3, <2>4
  <1>12. CloseInv' /\ AcceptInv'
    BY <1>1, <1>2, <1>3, <1>6 DEF Places, IndInv, TypeOK, CloseInv, AcceptInv, Holding, ClosePcs,
       EpollAddFails, Release, CloseFd
  <1>13. TimerEntriesLive'
    BY <1>2, <1>3, <1>5 DEF IndInv, TypeOK, TimerEntriesLive, EpollAddFails
  <1>14. RegisteredInUse'
    BY <1>2, <1>3, <1>5 DEF IndInv, TypeOK, RegisteredInUse, CloseFd
  <1>15. OwnerInv'
    <2> SUFFICES ASSUME NEW f \in openFds'
                 PROVE  \E d \in InUse' \cup Fresh' \cup leaked' :
                              fd'[d] = f /\ \A u \in Threads : pc'[u] = "unset" => conn'[u] # d
      BY DEF OwnerInv
    <2>1. f \in openFds /\ f # local[Main]
      BY <1>3 DEF CloseFd
    <2>2. PICK d \in InUse \cup Fresh \cup leaked :
                  fd[d] = f /\ \A u \in Threads : pc[u] = "unset" => conn[u] # d
      BY <1>2, <2>1 DEF IndInv, OwnerInv
    <2>3. d # c /\ fd'[d] = f
      BY <1>2, <1>3, <2>1, <2>2 DEF IndInv, TypeOK
    <2>4. \A u \in Threads : pc'[u] = "unset" => conn'[u] # d
      BY <1>1, <1>3, <2>2 DEF Places, IndInv, TypeOK, Release
    <2> QED BY <1>2, <1>3, <1>5, <2>2, <2>3, <2>4
  <1> QED BY <1>7, <1>8, <1>9, <1>10, <1>11, <1>12, <1>13, <1>14, <1>15 DEF IndInv

(* EPOLL_CTL_ADD registers an object that owns the descriptor.             *)
LEMMA EpollAddPreserves == ASSUME IndInv, EpollAdd PROVE IndInv'
  <1> DEFINE c == conn[Main]
  <1>1. Places BY PlacesHold
  <1>2. /\ pc[Main] = "control" /\ Fresh = {c} /\ c \in Conns /\ c \notin InUse \cup recyList
        /\ c \in 1 .. totalConn /\ c \notin FreeSet \cup leaked
        /\ local[Main] \in openFds /\ local[Main] \in Fds /\ fd[c] = local[Main]
    BY <1>1 DEF Places, EpollAdd, Fresh, IndInv, ListInv, OnePlace, AcceptInv, TypeOK
  <1>3. /\ epoll' = [epoll EXCEPT ![local[Main]] = c]
        /\ pc' = [pc EXCEPT ![Main] = IF KickTimeCount THEN "timer" ELSE "count"]
        /\ UNCHANGED <<listVars, connVars, openFds, queueVars, conn, local, since, recyVars,
                       useAccept4, clockVars>>
    BY DEF EpollAdd
  <1> HIDE DEF c
  <1>4. \A t \in Threads : Holding(t) => conn[t] # c /\ t # Main
    BY <1>1, <1>2 DEF Places, Holding, ClosePcs
  <1>5. /\ FreeSet' = FreeSet /\ c = conn[Main]
        /\ \/ pc'[Main] = "timer" /\ Fresh' = {c} /\ InUse' = InUse
           \/ pc'[Main] = "count" /\ Fresh' = {} /\ InUse' = InUse \cup {c}
    BY <1>1, <1>2, <1>3 DEF c, Places, IndInv, TypeOK, FreeSet, Fresh, InUse
  <1>6. InUse \subseteq InUse' /\ InUse' \cup Fresh' = InUse \cup Fresh
    BY <1>2, <1>5
  <1>7. TypeOK'
    BY <1>2, <1>3 DEF IndInv, TypeOK, AcceptPcs
  <1>8. ListInv' /\ OnePlace' /\ TimeInv' /\ UserInv'
    BY <1>2, <1>3, <1>5, <1>6 DEF IndInv, ListInv, OnePlace, TimeInv, UserInv
  <1>9. OnlineExact' /\ PoolBounded'
    <2>1. IsFiniteSet(InUse) /\ Cardinality(InUse) \in Nat
      BY InUseFinite
    <2>2. Cardinality(InUse \cup {c}) = Cardinality(InUse) + 1
      BY <1>2, <2>1, FS_AddElement
    <2>3. onlineUserCount' = onlineUserCount /\ onlineUserCount = Cardinality(InUse)
      BY <1>2, <1>3, <2>1 DEF IndInv, OnlineExact
    <2>4. Cardinality(InUse \cup {c}) <= WorkerConnections
      BY <1>2 DEF IndInv, UserInv
    <2>5. OnlineExact'
      <3>1. CASE pc'[Main] = "timer" /\ InUse' = InUse
        BY <2>3, <3>1, <2>1 DEF OnlineExact
      <3>2. CASE pc'[Main] = "count" /\ InUse' = InUse \cup {c}
        BY <2>1, <2>2, <2>3, <3>2 DEF OnlineExact
      <3> QED BY <1>5, <3>1, <3>2
    <2>6. PoolBounded'
      BY <1>3, <1>5, <2>4 DEF IndInv, PoolBounded
    <2> QED BY <2>5, <2>6
  <1>10. HoldInv' /\ BatchInv'
    BY <1>1, <1>3, <1>4, <1>6 DEF Places, IndInv, TypeOK, HoldInv, BatchInv, Holding, ClosePcs
  <1>11. MessageInv' /\ IdleInv'
    BY <1>3, <1>6 DEF IndInv, MessageInv, IdleInv
  <1>12. CloseInv'
    BY <1>1, <1>2, <1>3, <1>4 DEF Places, IndInv, TypeOK, CloseInv, Holding, ClosePcs
  <1>13. AcceptInv'
    BY <1>1, <1>2, <1>3, <1>5 DEF Places, IndInv, TypeOK, AcceptInv
  <1>14. TimerEntriesLive'
    BY <1>3, <1>6 DEF IndInv, TimerEntriesLive
  <1>15. RegisteredInUse'
    BY <1>1, <1>2, <1>3, <1>5 DEF Places, IndInv, TypeOK, RegisteredInUse
  <1>16. OwnerInv'
    <2>1. \A u \in Threads : pc'[u] = "unset" => pc[u] = "unset"
      BY <1>3 DEF IndInv, TypeOK
    <2> QED BY <1>2, <1>3, <1>6, <2>1 DEF IndInv, OwnerInv
  <1> QED BY <1>7, <1>8, <1>9, <1>10, <1>11, <1>12, <1>13, <1>14, <1>15, <1>16 DEF IndInv

(* AddToTimerQueue enters the current sequence of the object.              *)
LEMMA AddToTimerQueuePreserves == ASSUME IndInv, AddToTimerQueue PROVE IndInv'
  <1> DEFINE c == conn[Main]
  <1>1. Places BY PlacesHold
  <1>2. /\ pc[Main] = "timer" /\ Fresh = {c} /\ c \in Conns /\ c \notin InUse \cup recyList
        /\ c \in 1 .. totalConn /\ c \notin FreeSet \cup leaked
    BY <1>1 DEF Places, AddToTimerQueue, Fresh, IndInv, ListInv, OnePlace, TypeOK
  <1>3. /\ timerQueue' = timerQueue \cup {[conn |-> c, sequence |-> sequence[c]]}
        /\ pc' = [pc EXCEPT ![Main] = "count"]
        /\ UNCHANGED <<listVars, connVars, kernelVars, idleList, recvQueue, batch, batchSince,
                       conn, local, since, recyVars, useAccept4, clockVars>>
    BY DEF AddToTimerQueue, Entry
  <1> HIDE DEF c
  <1>4. \A t \in Threads : Holding(t) => conn[t] # c /\ t # Main
    BY <1>1, <1>2 DEF Places, Holding, ClosePcs
  <1>5. /\ FreeSet' = FreeSet /\ c = conn[Main]
        /\ pc'[Main] = "count" /\ Fresh' = {} /\ InUse' = InUse \cup {c}
    <2>1. pc'[Main] = "count" /\ c = conn[Main] /\ FreeSet' = FreeSet
      BY <1>1, <1>3 DEF c, Places, IndInv, TypeOK, FreeSet
    <2>2. Fresh' = {}
      BY <2>1 DEF Fresh
    <2> QED BY <1>2, <1>3, <2>1, <2>2 DEF InUse
  <1>6. InUse \subseteq InUse' /\ InUse' \cup Fresh' = InUse \cup Fresh
    BY <1>2, <1>5
  <1>7. TypeOK'
    <2>1. timerQueue' \subseteq [conn : Conns, sequence : Nat]
      BY <1>2, <1>3 DEF IndInv, TypeOK
    <2> QED BY <1>3, <2>1 DEF IndInv, TypeOK, AcceptPcs
  <1>8. ListInv' /\ OnePlace' /\ TimeInv' /\ UserInv'
    BY <1>2, <1>3, <1>5, <1>6 DEF IndInv, ListInv, OnePlace, TimeInv, UserInv
  <1>9. OnlineExact' /\ PoolBounded'
    <2>1. IsFiniteSet(InUse) /\ Cardinality(InUse) \in Nat
      BY InUseFinite
    <2>2. Cardinality(InUse \cup {c}) = Cardinality(InUse) + 1
      BY <1>2, <2>1, FS_AddElement
    <2>3. onlineUserCount' = onlineUserCount /\ onlineUserCount = Cardinality(InUse)
      BY <1>2, <1>3, <2>1 DEF IndInv, OnlineExact
    <2>4. Cardinality(InUse \cup {c}) <= WorkerConnections
      BY <1>2 DEF IndInv, UserInv
    <2>5. OnlineExact'
      BY <1>5, <2>1, <2>2, <2>3 DEF OnlineExact
    <2>6. PoolBounded'
      BY <1>3, <1>5, <2>4 DEF IndInv, PoolBounded
    <2> QED BY <2>5, <2>6
  <1>10. HoldInv' /\ BatchInv'
    BY <1>1, <1>3, <1>4, <1>6 DEF Places, IndInv, TypeOK, HoldInv, BatchInv, Holding, ClosePcs
  <1>11. MessageInv' /\ IdleInv'
    BY <1>3, <1>6 DEF IndInv, MessageInv, IdleInv
  <1>12. CloseInv'
    <2>1. KickTimeCount
      BY <1>1, <1>2, KernelAssumption DEF IndInv, AcceptInv
    <2>2. \A u \in Threads : pc'[u] \in ClosePcs => pc'[u] = pc[u] /\ conn[u] # c
      BY <1>1, <1>3, <1>4 DEF Places, IndInv, TypeOK, Holding, ClosePcs
    <2> QED BY <1>3, <2>1, <2>2 DEF IndInv, CloseInv, ClosePcs
  <1>13. AcceptInv'
    BY <1>3, <1>5 DEF AcceptInv
  <1>14. TimerEntriesLive'
    BY <1>2, <1>3, <1>5, <1>6 DEF IndInv, TimerEntriesLive
  <1>15. RegisteredInUse'
    BY <1>3, <1>5 DEF IndInv, RegisteredInUse
  <1>16. OwnerInv'
    <2>1. \A u \in Threads : pc'[u] = "unset" => pc[u] = "unset"
      BY <1>3 DEF IndInv, TypeOK
    <2> QED BY <1>2, <1>3, <1>6, <2>1 DEF IndInv, OwnerInv
  <1> QED BY <1>7, <1>8, <1>9, <1>10, <1>11, <1>12, <1>13, <1>14, <1>15, <1>16 DEF IndInv

(* ++m_onlineUserCount: the user counted last is in use since pc[Main] =   *)
(* "count".                                                                *)
LEMMA CountUserPreserves == ASSUME IndInv, CountUser PROVE IndInv'
  <1>1. Places BY PlacesHold
  <1>2. /\ pc[Main] = "count" /\ pc'[Main] = "idle" /\ Fresh = {} /\ Fresh' = {}
        /\ FreeSet' = FreeSet /\ InUse' = InUse
    BY <1>1 DEF Places, CountUser, Release, IndInv, TypeOK, FreeSet, Fresh, InUse
  <1>3. TypeOK'
    <2>1. onlineUserCount' \in Int
      BY DEF IndInv, TypeOK, CountUser
    <2> QED BY <1>1, <2>1, ReleaseType DEF Places, IndInv, TypeOK, CountUser
  <1>4. ListInv' /\ OnePlace' /\ TimeInv' /\ UserInv' /\ PoolBounded'
    BY <1>1, <1>2 DEF Places, IndInv, ListInv, OnePlace, TimeInv, UserInv, PoolBounded, CountUser
  <1>5. OnlineExact'
    BY <1>2, InUseFinite DEF IndInv, OnlineExact, CountUser
  <1>6. HoldInv' /\ BatchInv' /\ MessageInv' /\ IdleInv'
    BY <1>1, <1>2 DEF Places, IndInv, TypeOK, HoldInv, Holding, ClosePcs, BatchInv, MessageInv,
       IdleInv, CountUser, Release
  <1>7. CloseInv' /\ AcceptInv'
    BY <1>1, <1>2 DEF Places, IndInv, TypeOK, ClosePcs, CloseInv, AcceptInv, CountUser, Release
  <1>8. TimerEntriesLive' /\ RegisteredInUse'
    BY <1>2 DEF IndInv, TimerEntriesLive, RegisteredInUse, CountUser
  <1>9. OwnerInv'
    <2>1. \A u \in Threads : pc'[u] = "unset" => pc[u] = "unset" /\ conn'[u] = conn[u]
      BY <1>1 DEF Places, IndInv, TypeOK, CountUser, Release
    <2> QED BY <1>2, <2>1 DEF IndInv, OwnerInv, CountUser
  <1> QED BY <1>3, <1>4, <1>5, <1>6, <1>7, <1>8, <1>9 DEF IndInv

(* inRecyConnectQueue: the first closer moves the object from the users to *)
(* the recycle list and counts it out, later closers find it there and     *)
(* change nothing.                                                         *)
LEMMA InRecyConnectQueuePreserves ==
  ASSUME IndInv, NEW t \in Threads, InRecyConnectQueue(t) PROVE IndInv'
  <1> DEFINE c == conn[t]
  <1>1. Places BY PlacesHold
  <1>2. /\ pc[t] = "recycle" /\ pc'[t] = "idle" /\ Release(t) /\ c \in Conns
        /\ c \in InUse \cup recyList
        /\ UNCHANGED <<totalConn, freeList, leaked, fd, kernelVars, queueVars, recyVars,
                       useAccept4, clockVars>>
    BY <1>1 DEF InRecyConnectQueue, Release, Places, IndInv, TypeOK, HoldInv, Holding, ClosePcs
  <1>3. FreeSet' = FreeSet /\ Fresh' = Fresh
    <2>1. t = Main => pc[Main] \notin {"got", "control", "timer"} /\ pc'[Main] \notin {"got", "control", "timer"}
      BY <1>2
    <2>2. t # Main => pc'[Main] = pc[Main] /\ conn'[Main] = conn[Main]
      BY <1>1, <1>2 DEF Release, Places, IndInv, TypeOK
    <2> QED BY <1>2, <2>1, <2>2 DEF FreeSet, Fresh
  <1>4. \A u \in Threads : pc'[u] # "idle" => pc'[u] = pc[u] /\ conn'[u] = conn[u]
                              /\ local'[u] = local[u] /\ since'[u] = since[u] /\ u # t
    BY <1>2 DEF Release, IndInv, TypeOK
  <1>5. \A f \in Fds : epoll[f] # c
    BY <1>2 DEF IndInv, CloseInv
  <1>6. fd[c] = NoFd /\ \A e \in timerQueue : e.conn # c
    BY <1>2 DEF IndInv, CloseInv, ClosePcs
  <1>7. CloseInv' /\ AcceptInv' /\ TimeInv'
    <2>1. CloseInv'
      BY <1>2, <1>4 DEF IndInv, CloseInv, ClosePcs
    <2>2. AcceptInv' /\ TimeInv'
      BY <1>1, <1>2, <1>4 DEF Places, IndInv, AcceptInv, TimeInv
    <2> QED BY <2>1, <2>2
  <1>8. CASE c \in recyList
    <2>1. UNCHANGED <<recyList, totolRecy, onlineUserCount, sequence, inRecyTime>> /\ InUse' = InUse
      BY <1>2, <1>3, <1>8 DEF InRecyConnectQueue, InUse
    <2>2. TypeOK'
      BY <1>2, <2>1, ReleaseType DEF IndInv, TypeOK
    <2>3. ListInv' /\ OnePlace' /\ UserInv' /\ PoolBounded'
      BY <1>2, <1>3, <2>1 DEF IndInv, ListInv, OnePlace, UserInv, PoolBounded
    <2>4. OnlineExact'
      BY <1>1, <1>2, <1>4, <2>1, InUseFinite DEF Places, IndInv, TypeOK, Release, OnlineExact
    <2>5. HoldInv' /\ BatchInv' /\ MessageInv' /\ IdleInv'
      BY <1>2, <1>4, <2>1 DEF IndInv, HoldInv, Holding, BatchInv, MessageInv, IdleInv, ClosePcs
    <2>6. TimerEntriesLive' /\ RegisteredInUse'
      BY <1>1, <1>2, <1>4, <2>1 DEF Places, IndInv, TypeOK, Release, TimerEntriesLive, RegisteredInUse
    <2>7. OwnerInv'
      BY <1>1, <1>2, <1>3, <1>4, <2>1 DEF Places, IndInv, TypeOK, Release, OwnerInv
    <2> QED BY <1>7, <2>2, <2>3, <2>4, <2>5, <2>6, <2>7 DEF IndInv
  <1>9. CASE c \notin recyList
    <2>1. /\ c \in InUse /\ c \notin FreeSet \cup Fresh \cup leaked
          /\ inRecyTime' = [inRecyTime EXCEPT ![c] = clock]
          /\ sequence' = [sequence EXCEPT ![c] = @ + 1]
          /\ recyList' = recyList \cup {c}
          /\ totolRecy' = totolRecy + 1 /\ onlineUserCount' = onlineUserCount - 1
      BY <1>1, <1>2, <1>9 DEF Places, InRecyConnectQueue
    <2>2. InUse' = InUse \ {c}
      BY <1>2, <1>3, <2>1 DEF InUse
    <2>3. InUse' \cup recyList' = InUse \cup recyList
      BY <2>1, <2>2
    <2> HIDE DEF c
    <2>4. TypeOK'
      <3>1. /\ sequence' \in [Conns -> Nat] /\ inRecyTime' \in [Conns -> Nat]
            /\ recyList' \subseteq 1 .. totalConn
        BY <1>1, <1>2, <2>1 DEF Places, IndInv, TypeOK
      <3>2. totolRecy' \in Int /\ onlineUserCount' \in Int
        BY <2>1 DEF IndInv, TypeOK
      <3> QED BY <1>2, <3>1, <3>2, ReleaseType DEF IndInv, TypeOK
    <2>5. ListInv' /\ OnePlace'
      BY <1>2, <1>3, <2>1 DEF IndInv, ListInv, OnePlace
    <2>6. OnlineExact' /\ UserInv' /\ PoolBounded'
      <3>1. IsFiniteSet(InUse) /\ Cardinality(InUse) \in Nat
        BY InUseFinite
      <3>2. Cardinality(InUse') = Cardinality(InUse) - 1
        BY <2>1, <2>2, <3>1, FS_RemoveElement
      <3>3. IsFiniteSet(InUse \cup Fresh) /\ InUse' \cup Fresh' \subseteq InUse \cup Fresh
        BY <1>3, <2>2, <3>1, FS_Singleton, FS_Union, FS_EmptySet DEF Fresh
      <3>4. Cardinality(InUse' \cup Fresh') <= Cardinality(InUse \cup Fresh)
            /\ Cardinality(InUse' \cup Fresh') \in Nat /\ Cardinality(InUse \cup Fresh) \in Nat
        BY <3>3, FS_Subset, FS_CardinalityType
      <3>5. (pc'[Main] = "count") <=> (pc[Main] = "count")
        BY <1>1, <1>2, <1>4 DEF Places, IndInv, TypeOK, Release
      <3>6. OnlineExact'
        BY <2>1, <3>1, <3>2, <3>5 DEF IndInv, OnlineExact
      <3>7. UserInv' /\ PoolBounded'
        BY <1>2, <3>1, <3>2, <3>4, PoolAssumption DEF IndInv, UserInv, PoolBounded
      <3> QED BY <3>6, <3>7
    <2>7. HoldInv' /\ BatchInv'
      <3>1. \A u \in Threads : Holding(u)' =>
               Holding(u) /\ conn'[u] = conn[u] /\ since'[u] = since[u]
        BY <1>2, <1>4 DEF Holding, ClosePcs
      <3>2. \A d \in Conns : inRecyTime'[d] = IF d = c THEN clock ELSE inRecyTime[d]
        BY <2>1 DEF IndInv, TypeOK
      <3>3. \A u \in Threads : Holding(u) => conn[u] \in Conns
        BY <1>1 DEF Places
      <3>4. HoldInv'
        BY <1>2, <2>1, <2>3, <3>1, <3>2, <3>3 DEF IndInv, HoldInv
      <3>5. BatchInv'
        BY <1>2, <2>1, <2>3, <3>2 DEF IndInv, TypeOK, BatchInv
      <3> QED BY <3>4, <3>5
    <2>8. MessageInv' /\ IdleInv'
      BY <1>2, <2>1, <2>2, <2>3 DEF IndInv, TypeOK, MessageInv, IdleInv
    <2>9. TimerEntriesLive' /\ RegisteredInUse'
      <3>1. TimerEntriesLive'
        BY <1>2, <1>6, <2>1, <2>2 DEF IndInv, TypeOK, TimerEntriesLive
      <3>2. pc[Main] = "timer" => pc'[Main] = "timer" /\ conn'[Main] = conn[Main]
        BY <1>1, <1>2 DEF Places, IndInv, TypeOK, Release
      <3>3. RegisteredInUse'
        BY <1>2, <1>5, <2>2, <3>2 DEF IndInv, RegisteredInUse
      <3> QED BY <3>1, <3>3
    <2>10. OwnerInv'
      <3> SUFFICES ASSUME NEW f \in openFds
                   PROVE  \/ \E d \in InUse' \cup Fresh' \cup leaked' :
                                fd'[d] = f /\ \A u \in Threads : pc'[u] = "unset" => conn'[u] # d
                          \/ pc'[Main] = "accepted" /\ local'[Main] = f
        BY <1>2 DEF OwnerInv
      <3>1. CASE pc[Main] = "accepted" /\ local[Main] = f
        BY <1>1, <1>2, <3>1 DEF Places, IndInv, TypeOK, Release
      <3>2. CASE \E d \in InUse \cup Fresh \cup leaked :
                    fd[d] = f /\ \A u \in Threads : pc[u] = "unset" => conn[u] # d
        <4>1. PICK d \in InUse \cup Fresh \cup leaked :
                    fd[d] = f /\ \A u \in Threads : pc[u] = "unset" => conn[u] # d
          BY <3>2
        <4>2. d # c
          BY <1>1, <1>6, <4>1 DEF Places, IndInv, TypeOK
        <4>3. d \in InUse' \cup Fresh' \cup leaked' /\ fd'[d] = f
          BY <1>2, <1>3, <2>2, <4>1, <4>2
        <4>4. \A u \in Threads : pc'[u] = "unset" => conn'[u] # d
          BY <1>4, <4>1
        <4> QED BY <4>3, <4>4
      <3> QED BY <3>1, <3>2 DEF IndInv, OwnerInv
    <2> QED BY <1>7, <2>4, <2>5, <2>6, <2>7, <2>8, <2>9, <2>10 DEF IndInv
  <1> QED BY <1>8, <1>9

(* Nobody knows an object whose waiting time is over: whoever held it got  *)
(* it before it was recycled, and has let go of it within MaxHold seconds. *)
LEMMA DueIsForgotten ==
  ASSUME IndInv, NEW c \in recyList, Due(c)
  PROVE  /\ \A t \in Threads : Holding(t) => conn[t] # c
         /\ c \notin batch
         /\ \A m \in recvQueue : m.sequence = sequence[m.conn] => m.conn # c
  <1>1. Places BY PlacesHold
  <1>2. /\ inRecyTime[c] \in Nat /\ recyNow \in Nat /\ clock \in Nat /\ recyNow <= clock
        /\ RecyWait \in Nat /\ MaxHold \in Nat /\ MaxHold < RecyWait
        /\ inRecyTime[c] + RecyWait <= recyNow
    BY <1>1, TimeAssumption DEF Places, Due, IndInv, TypeOK, TimeInv
  <1>3. \A s \in Nat : ~(s <= inRecyTime[c] /\ clock <= s + MaxHold)
    BY <1>2
  <1>4. \A t \in Threads : Holding(t) => conn[t] # c
    BY <1>3 DEF IndInv, TypeOK, HoldInv
  <1>5. c \notin batch
    BY <1>3 DEF IndInv, TypeOK, BatchInv
  <1>6. \A m \in recvQueue : m.sequence = sequence[m.conn] => m.conn # c
    BY <1>3 DEF IndInv, TypeOK, MessageInv
  <1> QED BY <1>4, <1>5, <1>6

(* qc_free_connection: the object freed is one nobody holds                *)
(* (DueIsForgotten).                                                       *)
LEMMA FreeConnectionPreserves == ASSUME IndInv, FreeConnection PROVE IndInv'
  <1>1. Places BY PlacesHold
  <1>2. PICK c \in recyList : /\ Due(c)
                              /\ recyList' = recyList \ {c}
                              /\ sequence' = [sequence EXCEPT ![c] = @ + 1]
                              /\ freeList' = Append(freeList, c)
    BY DEF FreeConnection
  <1>3. /\ c \in Conns /\ c \in 1 .. totalConn /\ c \notin InUse \cup FreeSet \cup Fresh \cup leaked
        /\ freeList \in Seq(Conns)
    BY <1>1 DEF Places, IndInv, TypeOK, OnePlace
  <1>4. /\ \A t \in Threads : Holding(t) => conn[t] # c
        /\ c \notin batch
        /\ \A m \in recvQueue : m.sequence = sequence[m.conn] => m.conn # c
    BY <1>2, DueIsForgotten
  <1>5. /\ FreeSet' = FreeSet \cup {c} /\ freeList' \in Seq(Conns)
        /\ \A i, j \in DOMAIN freeList' : freeList'[i] = freeList'[j] => i = j
    BY <1>2, <1>3, AppendRange DEF FreeSet, IndInv, OnePlace
  <1>6. Fresh' = Fresh /\ InUse' = InUse
    BY <1>2, <1>5 DEF FreeConnection, Fresh, InUse
  <1>7. TypeOK'
    <2>1. sequence' \in [Conns -> Nat] /\ recyList' \subseteq 1 .. totalConn
      BY <1>2, <1>3 DEF IndInv, TypeOK
    <2>2. totolRecy' \in Int
      BY DEF IndInv, TypeOK, FreeConnection
    <2> QED BY <1>5, <2>1, <2>2 DEF IndInv, TypeOK, FreeConnection
  <1>8. ListInv' /\ OnePlace' /\ TimeInv'
    BY <1>2, <1>3, <1>5, <1>6 DEF IndInv, ListInv, OnePlace, TimeInv, FreeConnection
  <1>9. OnlineExact' /\ UserInv' /\ PoolBounded'
    BY <1>6 DEF IndInv, OnlineExact, UserInv, PoolBounded, FreeConnection
  <1>10. HoldInv' /\ BatchInv'
    BY <1>2, <1>4, <1>6 DEF IndInv, HoldInv, BatchInv, Holding, FreeConnection
  <1>11. MessageInv' /\ IdleInv'
    BY <1>2, <1>3, <1>4, <1>6 DEF IndInv, TypeOK, MessageInv, IdleInv, FreeConnection
  <1>12. CloseInv' /\ AcceptInv'
    BY DEF IndInv, CloseInv, AcceptInv, FreeConnection
  <1>13. TimerEntriesLive' /\ RegisteredInUse'
    BY <1>2, <1>3, <1>6 DEF IndInv, TypeOK, TimerEntriesLive, RegisteredInUse, FreeConnection
  <1>14. OwnerInv'
    BY <1>6 DEF IndInv, OwnerInv, FreeConnection
  <1> QED BY <1>7, <1>8, <1>9, <1>10, <1>11, <1>12, <1>13, <1>14 DEF IndInv

-----------------------------------------------------------------------------

(* The invariant holds of the pool initconnection builds.                  *)
LEMMA InitIndInv == ASSUME Init PROVE IndInv
  <1>1. /\ FreeSet = 1 .. InitialConns /\ Fresh = {} /\ InUse = {}
        /\ freeList \in Seq(Conns) /\ totalConn \in Nat
    <2>2. totalConn \in Nat /\ \A i \in 1 .. InitialConns : i \in Conns
      BY PoolHasRoom DEF Init
    <2>3. freeList \in Seq(Conns) /\ DOMAIN freeList = 1 .. InitialConns
      BY <2>2, PoolAssumption, PoolHasRoom DEF Init
    <2>4. FreeSet = 1 .. InitialConns
      BY <2>3 DEF Init, FreeSet
    <2>5. Fresh = {}
      BY DEF Init, Fresh, Threads
    <2> QED BY <2>2, <2>3, <2>4, <2>5 DEF Init, InUse
  <1>2. TypeOK
    BY <1>1, PoolAssumption DEF Init, TypeOK
  <1>3. ListInv /\ OnePlace
    BY <1>1, PoolAssumption DEF Init, ListInv, OnePlace
  <1>4. Cardinality(InUse) = 0 /\ Cardinality(InUse \cup Fresh) = 0 /\ pc[Main] = "idle"
    BY <1>1, FS_EmptySet DEF Init, Threads
  <1>5. OnlineExact /\ UserInv /\ PoolBounded
    <2>1. OnlineExact /\ UserInv
      <3>1. onlineUserCount = 0 /\ pc[Main] # "count"
        BY <1>4 DEF Init
      <3> QED BY <1>4, <3>1, PoolAssumption DEF OnlineExact, UserInv
    <2>2. totalConn <= PoolLimit + 1
      BY PoolHasRoom DEF Init
    <2>3. Cardinality(InUse) <= WorkerConnections
      BY <1>4, PoolAssumption
    <2>4. totalConn \in Nat
      BY PoolHasRoom DEF Init
    <2>5. PoolBounded
      BY <2>2, <2>3, <2>4, PoolHasRoom, LimitMeaning DEF PoolBounded
    <2> QED BY <2>1, <2>5
  <1>6. HoldInv /\ BatchInv /\ MessageInv /\ IdleInv /\ TimeInv /\ TimerEntriesLive /\ OwnerInv
    BY DEF Init, HoldInv, Holding, ClosePcs, BatchInv, MessageInv, IdleInv, TimeInv, TimerEntriesLive, OwnerInv
  <1>7. CloseInv /\ AcceptInv /\ RegisteredInUse
    BY <1>4 DEF Init, CloseInv, ClosePcs, AcceptInv, RegisteredInUse
  <1> QED BY <1>2, <1>3, <1>5, <1>6, <1>7 DEF IndInv

(* The invariant is inductive: every step of every thread preserves it.    *)
LEMMA NextIndInv == ASSUME IndInv, [Next]_vars PROVE IndInv'
  <1>1. CASE AcceptStep
    BY <1>1, AcceptNoSysPreserves, AcceptPreserves, AcceptRefusePreserves, GetConnectionPreserves,
       SetNonblockingPreserves, EpollAddPreserves, EpollAddFailsPreserves,
       AddToTimerQueuePreserves, CountUserPreserves DEF AcceptStep
  <1>2. CASE EventStep
    BY <1>2, EpollWaitPreserves, ReadPartPreserves, ReadBodyPreserves, ReadHeaderPreserves,
       StampHeaderPreserves, ReadClosesPreserves DEF EventStep
  <1>3. CASE TimerStep
    BY <1>3, CollectTimeoutsPreserves, KeepClientPreserves, KickClientPreserves DEF TimerStep
  <1>4. CASE RecyStep
    BY <1>4, RecyWakePreserves, RecyLockPreserves, FreeConnectionPreserves, RecyUnlockPreserves
       DEF RecyStep
  <1>5. CASE \E t \in PoolThreads : PoolStep(t)
    BY <1>5, DropMessagePreserves, TakeMessagePreserves, HandleMessagePreserves, CutOffPreserves
       DEF PoolStep
  <1>6. CASE \E t \in Threads : CloseStep(t)
    BY <1>6, ZdDeleteTimerPreserves, ZdTestFdPreserves, ZdCloseFdPreserves, ZdUnsetFdPreserves,
       InRecyConnectQueuePreserves DEF CloseStep
  <1>7. CASE Tick
    BY <1>7, TickPreserves
  <1>8. CASE Stopped
    BY <1>8, StoppedPreserves
  <1>9. CASE UNCHANGED vars
    <2>1. FreeSet' = FreeSet /\ Fresh' = Fresh /\ InUse' = InUse
      BY <1>9 DEF vars, listVars, threadVars, FreeSet, Fresh, InUse
    <2> USE <1>9, <2>1 DEF vars, listVars, connVars, kernelVars, queueVars, threadVars,
                           recyVars, clockVars, IndInv
    <2>2. TypeOK'
      BY DEF TypeOK
    <2>3. ListInv' /\ OnePlace' /\ TimeInv'
      BY DEF ListInv, OnePlace, TimeInv
    <2>4. HoldInv' /\ BatchInv'
      BY DEF HoldInv, Holding, BatchInv
    <2>5. MessageInv' /\ IdleInv'
      BY DEF MessageInv, IdleInv
    <2>6. CloseInv' /\ AcceptInv'
      BY DEF CloseInv, AcceptInv
    <2>7. TimerEntriesLive' /\ RegisteredInUse'
      BY DEF TimerEntriesLive, RegisteredInUse
    <2>8. OnlineExact' /\ UserInv' /\ PoolBounded'
      BY DEF OnlineExact, UserInv, PoolBounded
    <2>9. OwnerInv'
      BY DEF OwnerInv
    <2> QED BY <2>2, <2>3, <2>4, <2>5, <2>6, <2>7, <2>8, <2>9
  <1> QED BY <1>1, <1>2, <1>3, <1>4, <1>5, <1>6, <1>7, <1>8, <1>9 DEF Next

(* Every reachable state of the worker satisfies the inductive invariant,  *)
(* for every number of connections, threads and descriptors.               *)
THEOREM Invariance == Spec => []IndInv
  <1>1. Init => IndInv BY InitIndInv
  <1>2. IndInv /\ [Next]_vars => IndInv' BY NextIndInv
  <1> QED BY <1>1, <1>2, PTL DEF Spec

(* The variables keep their types: no list, queue or field of a pool       *)
(* object ever holds anything but what the code stores in it.              *)
THEOREM TypeCorrect == Spec => []TypeOK
  <1>1. IndInv => TypeOK BY DEF IndInv
  <1> QED BY <1>1, Invariance, PTL

(* qc_get_connection, inRecyConnectQueue and qc_free_connection keep every *)
(* object in one place, whatever the threads that close it do.             *)
THEOREM OnePlaceHolds == Spec => []OnePlace
  <1>1. IndInv => OnePlace BY DEF IndInv
  <1> QED BY <1>1, Invariance, PTL

(* The delay of ServerRecyConnectionThread is enough: no thread and no     *)
(* event sees its object reused, if MaxHold < RecyWait.                    *)
THEOREM HeldNotReusedHolds == Spec => []HeldNotReused
  <1>1. IndInv => HeldNotReused BY DEF IndInv, HoldInv, BatchInv, HeldNotReused
  <1> QED BY <1>1, Invariance, PTL

(* m_onlineUserCount is exact.                                             *)
THEOREM OnlineExactHolds == Spec => []OnlineExact
  <1>1. IndInv => OnlineExact BY DEF IndInv
  <1> QED BY <1>1, Invariance, PTL

(* The tests of qc_event_accept bound the users and the pool.              *)
THEOREM PoolBoundedHolds == Spec => []PoolBounded
  <1>1. IndInv => PoolBounded BY DEF IndInv
  <1> QED BY <1>1, Invariance, PTL

(* DeleteFromTimerQueue before inRecyConnectQueue leaves no stale entry.   *)
THEOREM TimerEntriesLiveHolds == Spec => []TimerEntriesLive
  <1>1. IndInv => TimerEntriesLive BY DEF IndInv
  <1> QED BY <1>1, Invariance, PTL

(* close(fd) before inRecyConnectQueue: epoll never returns the pointer of *)
(* an object that waits for recycling or is free.                          *)
THEOREM RegisteredInUseHolds == Spec => []RegisteredInUse
  <1>1. IndInv => RegisteredInUse BY DEF IndInv
  <1> QED BY <1>1, Invariance, PTL

(* zdClosesocketProc and qc_close_connection forget no open socket.        *)
THEOREM NoFdLeakHolds == Spec => []NoFdLeak
  <1>1. IndInv => NoFdLeak
    <2> SUFFICES ASSUME IndInv, NEW f \in openFds
                 PROVE  \/ \E c \in InUse \cup leaked : fd[c] = f
                        \/ pc[Main] \in AcceptPcs /\ local[Main] = f
      BY DEF NoFdLeak
    <2>1. CASE pc[Main] = "accepted" /\ local[Main] = f
      BY <2>1 DEF AcceptPcs
    <2>2. CASE \E c \in InUse \cup Fresh \cup leaked : fd[c] = f
      BY <2>2 DEF IndInv, AcceptInv, Fresh, AcceptPcs
    <2> QED BY <2>1, <2>2 DEF IndInv, OwnerInv
  <1> QED BY <1>1, Invariance, PTL

=============================================================================
