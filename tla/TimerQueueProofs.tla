-------------------------- MODULE TimerQueueProofs --------------------------
(***************************************************************************)
(* Proofs about TimerQueue, for any number of connections and any time the *)
(* constants allow.  IInv is inductive:                                    *)
(*   PcInv      where each thread can be and what it holds there;          *)
(*   StageInv   the sequence number tells the life of an object;           *)
(*   QueueInv   one entry of a connection at a time, cached head and size; *)
(*   OpenInv    a connection being opened is not in the queue yet;         *)
(*   CloseInv   one being closed is not in the queue any more;             *)
(*   WatchInv   every other connection in use has its entry;               *)
(*   ClockInv   nobody is slower than Delay;                               *)
(*   PingInv    a ping not handled yet was sent in time;                   *)
(* and DueInv, which rests on it, says how late an entry can be.           *)
(***************************************************************************)
EXTENDS TimerQueue, FiniteSetTheorems, TLAPS

Entries == [due : Nat, conn : Conns, sequence : Nat]

PcInv ==
    /\ pc[Main] \in {"idle", "accepted", "add", "zd", "recycle"}
    /\ pc[Timer] \in {"idle", "collect", "check", "zd", "recycle"}
    /\ pc[Pool] \in {"idle", "ping"}
    /\ pc[Main] # "idle" => conn[Main] \in Conns /\ place[conn[Main]] # "free"
    /\ pc[Timer] \in {"zd", "recycle"} => conn[Timer] \in Conns /\ place[conn[Timer]] # "free"
    /\ pc[Pool] = "ping" => conn[Pool] \in Conns /\ place[conn[Pool]] # "free"
    /\ pc[Timer] \in {"idle", "collect"} => idleList = {}
    /\ pc[Timer] # "idle" => curTime = since[Timer]

(* An object is accepted once: its sequence number tells its life.         *)
Stage(p) == IF p = "free" THEN 1 ELSE IF p = "use" THEN 2 ELSE 3
StageInv == \A c \in Conns : sequence[c] = Stage(place[c])

(* A connection has at most one entry in the queue and one being checked.  *)
EntryInv ==
    /\ IsFiniteSet(timerQueue)
    /\ \A e \in timerQueue : e.sequence = 2 /\ place[e.conn] = "use"
    /\ \A e \in idleList : e.sequence = 2 /\ place[e.conn] # "free"
    /\ \A e, f \in timerQueue : e.conn = f.conn => e = f
    /\ timeOutKick => \A e \in timerQueue, f \in idleList : e.conn # f.conn
    /\ \A e, f \in idleList : e.conn = f.conn => e = f

QueueInv == EntryInv /\ HeadCached

(* A connection being opened has no entry yet and nobody else knows it.    *)
OpenInv ==
    /\ pc[Main] \in {"accepted", "add"} =>
          /\ place[conn[Main]] = "use"
          /\ \A e \in timerQueue \cup idleList : e.conn # conn[Main]
          /\ ~(pc[Timer] \in {"zd", "recycle"} /\ conn[Timer] = conn[Main])
          /\ since[Main] = acceptedAt[conn[Main]]
    /\ pc[Main] = "add" => futtime <= acceptedAt[conn[Main]] + Delay + WaitTime

(* One that leaves the list of those in use has no entry any more.         *)
CloseInv ==
    \A t \in {Main, Timer} : pc[t] = "recycle" => \A e \in timerQueue : e.conn # conn[t]

Closing(c) == pc[Timer] \in {"zd", "recycle"} /\ conn[Timer] = c
Busy(c) == (pc[Main] # "idle" /\ conn[Main] = c) \/ Closing(c)
Watching == timerQueue \cup (IF timeOutKick THEN idleList ELSE {})

(* A connection nobody is busy with has an entry.                          *)
WatchInv ==
    \A c \in Conns : place[c] = "use" => Busy(c) \/ \E e \in Watching : e.conn = c

(* No thread needs longer than Delay; nothing is later than now.           *)
ClockInv ==
    /\ clock <= since[Timer] + Delay
    /\ pc[Main] # "idle" => clock <= since[Main] + Delay
    /\ pc[Pool] = "ping" => clock <= since[Pool] + Delay
    /\ \A p \in pings : clock <= p.at + Delay
    /\ \A t \in Threads : since[t] <= clock
    /\ \A p \in pings : p.at <= clock
    /\ \A c \in Conns : /\ acceptedAt[c] <= lastPingTime[c] /\ lastPingTime[c] <= clock
                        /\ lastSent[c] <= clock

Grace == KickTime - Delay

(* A ping of the connection that was sent at that time is not handled yet. *)
Outstanding(c, at) ==
    \/ \E p \in pings : p.conn = c /\ p.at = at
    \/ pc[Pool] = "ping" /\ conn[Pool] = c /\ since[Pool] = at

PingInvOf(c) ==
    /\ lastSent[c] <= lastPingTime[c] \/ \E at \in Nat : Outstanding(c, at)
    /\ c \notin late /\ Grace < 0 => lastPingTime[c] = clock
    /\ c \notin late /\ Grace >= 0 =>
          /\ clock <= lastSent[c] + Grace
          /\ \A at \in Nat : Outstanding(c, at) =>
                \E first \in Nat : Outstanding(c, first) /\ first <= lastPingTime[c] + Grace

PingInv ==
    /\ \A p \in pings : p.sequence = 2 /\ place[p.conn] # "free"
    /\ \A c \in Conns : place[c] = "use" => PingInvOf(c)

IInv ==
    /\ TypeOK /\ PcInv /\ StageInv /\ QueueInv /\ OpenInv /\ CloseInv /\ WatchInv
    /\ ClockInv /\ PingInv /\ PunctualKept

(* When the entry of a connection falls due at the latest.                 *)
Limit(c) ==
    IF timeOutKick THEN acceptedAt[c] + Delay + WaitTime
                   ELSE lastPingTime[c] + KickTime + WaitTime

DueInv ==
    /\ \A e \in timerQueue : pc[Timer] # "collect" =>
          since[Timer] <= e.due \/ since[Timer] <= acceptedAt[e.conn] + Delay
    /\ \A e \in timerQueue :
          \/ e.due <= Limit(e.conn)
          \/ \E f \in idleList : f.conn = e.conn
          \/ pc[Timer] = "zd" /\ conn[Timer] = e.conn
    /\ \A e \in timerQueue, f \in idleList : e.conn = f.conn => e.due = curTime + WaitTime
    /\ pc[Timer] = "collect" =>
          \A e \in timerQueue : since[Timer] <= Limit(e.conn) + Delay
    /\ \A f \in idleList : since[Timer] <= Limit(f.conn) + Delay
    /\ pc[Timer] \in {"zd", "recycle"} => since[Timer] <= Limit(conn[Timer]) + Delay
    /\ pc[Main] \in {"zd", "recycle"} => since[Main] <= Limit(conn[Main]) + 2 * Delay

-----------------------------------------------------------------------------
(* The three threads are different.                                        *)
LEMMA ThreadFacts ==
    /\ Main \in Threads /\ Timer \in Threads /\ Pool \in Threads
    /\ Main # Timer /\ Main # Pool /\ Timer # Pool
    /\ Threads = {Main, Timer, Pool}
  BY DEF Threads, Main, Timer, Pool

(* What ReadConf makes of the times.                                       *)
LEMMA TimeFacts ==
    /\ WaitTime \in Nat /\ 5 <= WaitTime /\ KickTime \in Nat /\ KickTime = WaitTime * 3 + 10
    /\ Delay \in Nat /\ 1 <= Delay /\ Grace \in Int
  BY TimerAssumption DEF WaitTime, KickTime, Grace

(* A set of times has an earliest one.                                     *)
LEMMA MinFacts ==
  ASSUME NEW S \in SUBSET Nat, S # {}
  PROVE  Min(S) \in S /\ \A x \in S : Min(S) <= x
  <1> DEFINE R == {ss \in Nat \X Nat : ss[1] < ss[2]}
  <1>1. IsWellFoundedOn(R, Nat)
    BY NatLessThanWellFounded DEF OpToRel
  <1>2. PICK x \in S : \A y \in S : ~(<<y, x>> \in R)
    <2> HIDE DEF R
    <2> QED BY <1>1, WFMin
  <1>3. ASSUME NEW y \in S PROVE x <= y
    <2>1. x \in Nat /\ y \in Nat OBVIOUS
    <2>2. y < x => <<y, x>> \in R BY <2>1
    <2> QED BY <1>2, <2>1, <2>2
  <1> QED BY <1>3 DEF Min

-----------------------------------------------------------------------------
(* The queue, its size and its head.                                       *)

(* What the timer thread reads without the mutex.                          *)
LEMMA HeadFacts ==
  ASSUME NEW q, q \subseteq Entries, q # {}
  PROVE  Min(Dues(q)) \in Nat /\ \A e \in q : Min(Dues(q)) <= e.due
  <1>1. Dues(q) \in SUBSET Nat /\ Dues(q) # {} BY DEF Dues, Entries
  <1>2. \A e \in q : e.due \in Dues(q) BY DEF Dues
  <1> QED BY <1>1, <1>2, MinFacts

(* One entry put back for each that is due.                                *)
LEMMA RequeuedFacts ==
  ASSUME IInv, NEW due, due \subseteq timerQueue, curTime \in Nat
  PROVE  /\ Requeued(due) \subseteq Entries
         /\ IsFiniteSet(due) /\ IsFiniteSet(Requeued(due))
         /\ \A f \in Requeued(due) : /\ f.due = curTime + WaitTime /\ ~timeOutKick
                                    /\ \E e \in due : f.conn = e.conn /\ f.sequence = e.sequence
         /\ ~timeOutKick => \A e \in due : \E f \in Requeued(due) : f.conn = e.conn
  <1>1. IsFiniteSet(timerQueue) /\ timerQueue \subseteq Entries
    BY DEF IInv, QueueInv, EntryInv, TypeOK, Entries
  <1>2. IsFiniteSet(due) BY <1>1, FS_Subset
  <1>3. CASE timeOutKick
    <2>1. Requeued(due) = {} BY <1>3 DEF Requeued
    <2> QED BY <1>2, <1>3, <2>1, FS_EmptySet
  <1>4. CASE ~timeOutKick
    <2> DEFINE f == [e \in due |-> Entry(curTime + WaitTime, e.conn, e.sequence)]
    <2>1. Requeued(due) = {f[e] : e \in due} BY <1>4 DEF Requeued
    <2>2. f \in Surjection(due, Requeued(due)) BY <2>1 DEF Surjection
    <2>3. IsFiniteSet(Requeued(due)) BY <1>2, <2>2, FS_Surjection
    <2>4. \A e \in due : /\ f[e].due = curTime + WaitTime
                         /\ f[e].conn = e.conn /\ f[e].sequence = e.sequence
                         /\ f[e] \in Entries
      BY <1>1, TimeFacts DEF Entry, Entries
    <2> HIDE DEF f
    <2> QED BY <1>2, <1>4, <2>1, <2>3, <2>4
  <1> QED BY <1>3, <1>4

(* Collecting keeps one entry of a connection.                             *)
LEMMA CollectFacts ==
  ASSUME IInv, Collect
  PROVE  LET due == {e \in timerQueue : e.due <= curTime}
         IN  /\ idleList' = due /\ due \subseteq timerQueue
             /\ timerQueue' = (timerQueue \ due) \cup Requeued(due)
             /\ timerQueue \subseteq Entries /\ timerQueue' \subseteq Entries
             /\ IsFiniteSet(timerQueue')
             /\ (timerQueue \ due) \cap Requeued(due) = {}
             /\ Cardinality(timerQueue') =
                   Cardinality(timerQueue) - Cardinality(due) + Cardinality(Requeued(due))
  <1> DEFINE due == {e \in timerQueue : e.due <= curTime}
             R   == Requeued(due)
             q   == timerQueue \ due
  <1>1. idleList' = due /\ timerQueue' = q \cup R BY DEF Collect
  <1>2. /\ timerQueue \subseteq Entries /\ curTime \in Nat /\ due \subseteq timerQueue
        /\ IsFiniteSet(timerQueue)
        /\ \A e, f \in timerQueue : e.conn = f.conn => e = f
    BY DEF IInv, TypeOK, Entries, QueueInv, EntryInv
  <1> HIDE DEF due
  <1>3. /\ R \subseteq Entries /\ IsFiniteSet(due) /\ IsFiniteSet(R)
        /\ \A f \in R : \E e \in due : f.conn = e.conn
    BY <1>2, RequeuedFacts
  <1> HIDE DEF R
  <1>4. q \cap R = {} BY <1>2, <1>3
  <1>5. /\ IsFiniteSet(q) /\ Cardinality(q) = Cardinality(timerQueue) - Cardinality(due)
    <2>1. timerQueue \cap due = due BY <1>2
    <2> QED BY <1>2, <2>1, FS_Difference
  <1>6. /\ IsFiniteSet(q \cup R)
        /\ Cardinality(q \cup R) = Cardinality(q) + Cardinality(R) - Cardinality(q \cap R)
    BY <1>3, <1>5, FS_Union
  <1>7. /\ Cardinality(q \cap R) = 0 /\ Cardinality(q) \in Nat /\ Cardinality(R) \in Nat
        /\ Cardinality(timerQueue) \in Nat /\ Cardinality(due) \in Nat
    BY <1>2, <1>3, <1>4, <1>5, FS_EmptySet, FS_CardinalityType
  <1>8. Cardinality(q \cup R) = Cardinality(timerQueue) - Cardinality(due) + Cardinality(R)
    BY <1>5, <1>6, <1>7
  <1> QED BY <1>1, <1>2, <1>3, <1>4, <1>6, <1>8 DEF due, R

(* Whoever changes the queue keeps its size and its head.                  *)
LEMMA CacheStep ==
  ASSUME IInv, [Next]_vars
  PROVE  HeadCached' /\ IsFiniteSet(timerQueue')
  <1> USE DEF queueVars, objectVars, threadVars, timerVars, clientVars, Goto
  <1>a. HeadCached /\ IsFiniteSet(timerQueue) BY DEF IInv, QueueInv, EntryInv
  <1>1. ASSUME NEW c \in Conns, Accept(c) PROVE HeadCached' /\ IsFiniteSet(timerQueue')
    BY <1>1, <1>a DEF Accept, Start, HeadCached, Dues
  <1>2. ASSUME NEW c \in Conns, ReadCloses(c) PROVE HeadCached' /\ IsFiniteSet(timerQueue')
    BY <1>2, <1>a DEF ReadCloses, Start, HeadCached, Dues
  <1>3. ASSUME NEW c \in Conns, SendPing(c) PROVE HeadCached' /\ IsFiniteSet(timerQueue')
    BY <1>3, <1>a DEF SendPing, HeadCached, Dues
  <1>4. CASE ReadTime
    BY <1>4, <1>a DEF ReadTime, HeadCached, Dues
  <1>5. CASE AddToTimerQueue
    <2> DEFINE e == Entry(futtime, conn[Main], sequence[conn[Main]])
    <2>1. /\ timerQueue' = timerQueue \cup {e} /\ curSize' = curSize + 1
          /\ CacheHead(timerQueue') /\ pc[Main] = "add"
      BY <1>5 DEF AddToTimerQueue
    <2>2. e \notin timerQueue BY <2>1 DEF IInv, OpenInv, Entry
    <2> HIDE DEF e
    <2>3. IsFiniteSet(timerQueue') /\ Cardinality(timerQueue') = Cardinality(timerQueue) + 1
      BY <1>a, <2>1, <2>2, FS_AddElement
    <2> QED BY <1>a, <2>1, <2>3 DEF HeadCached, CacheHead
  <1>6. ASSUME NEW t \in {Main, Timer}, DeleteFromTimerQueue(t)
        PROVE  HeadCached' /\ IsFiniteSet(timerQueue')
    <2> DEFINE gone == {e \in timerQueue : e.conn = conn[t]}
    <2>1. /\ timerQueue' = timerQueue \ gone /\ curSize' = curSize - Cardinality(gone)
          /\ CacheHead(timerQueue')
      BY <1>6 DEF DeleteFromTimerQueue
    <2>2. timerQueue \cap gone = gone OBVIOUS
    <2> HIDE DEF gone
    <2>3. /\ IsFiniteSet(timerQueue')
          /\ Cardinality(timerQueue') = Cardinality(timerQueue) - Cardinality(gone)
      BY <1>a, <2>1, <2>2, FS_Difference
    <2> QED BY <1>a, <2>1, <2>3 DEF HeadCached, CacheHead
  <1>7. ASSUME NEW t \in {Main, Timer}, InRecyConnectQueue(t)
        PROVE  HeadCached' /\ IsFiniteSet(timerQueue')
    BY <1>7, <1>a DEF InRecyConnectQueue, HeadCached, Dues
  <1>8. CASE Poll
    BY <1>8, <1>a DEF Poll, HeadCached, Dues
  <1>9. CASE Collect
    <2> DEFINE due == {e \in timerQueue : e.due <= curTime}
    <2>1. /\ curSize' = curSize - Cardinality(due) + Cardinality(Requeued(due))
          /\ CacheHead(timerQueue')
      BY <1>9 DEF Collect
    <2>2. /\ IsFiniteSet(timerQueue')
          /\ Cardinality(timerQueue') =
                Cardinality(timerQueue) - Cardinality(due) + Cardinality(Requeued(due))
      BY <1>9, CollectFacts
    <2> HIDE DEF due
    <2> QED BY <1>a, <2>1, <2>2 DEF HeadCached, CacheHead
  <1>10. CASE Keep
    BY <1>10, <1>a DEF Keep, HeadCached, Dues
  <1>11. CASE Kick
    BY <1>11, <1>a DEF Kick, HeadCached, Dues
  <1>12. CASE EndCheck
    BY <1>12, <1>a DEF EndCheck, HeadCached, Dues
  <1>13. CASE DropPing
    BY <1>13, <1>a DEF DropPing, HeadCached, Dues
  <1>14. CASE TakePing
    BY <1>14, <1>a DEF TakePing, Start, HeadCached, Dues
  <1>15. CASE HandlePing
    BY <1>15, <1>a DEF HandlePing, HeadCached, Dues
  <1>16. CASE Tick
    BY <1>16, <1>a DEF Tick, HeadCached, Dues
  <1>17. CASE UNCHANGED vars
    BY <1>17, <1>a DEF vars, HeadCached, Dues
  <1> QED BY <1>1, <1>2, <1>3, <1>4, <1>5, <1>6, <1>7, <1>8, <1>9, <1>10, <1>11,
     <1>12, <1>13, <1>14, <1>15, <1>16, <1>17 DEF Next, MainStep, CloseStep,
     TimerStep, PoolStep, Stopped

-----------------------------------------------------------------------------
(* Types.                                                                  *)

QueueType ==
    /\ timerQueue \subseteq Entries /\ curSize \in Nat /\ timerValue \in Nat
    /\ timeOutKick \in BOOLEAN /\ futtime \in Nat /\ curTime \in Nat
    /\ idleList \subseteq Entries /\ clock \in Nat

ObjectType ==
    /\ place \in [Conns -> {"free", "use", "recycle"}]
    /\ sequence \in [Conns -> Nat]
    /\ lastPingTime \in [Conns -> Nat] /\ acceptedAt \in [Conns -> Nat]
    /\ lastSent \in [Conns -> Nat] /\ late \subseteq Conns

ThreadType ==
    /\ pc \in [Threads -> {"idle", "accepted", "add", "zd", "recycle", "collect", "check",
                           "ping"}]
    /\ conn \in [Threads -> Conns \cup {NoConn}] /\ since \in [Threads -> Nat]

PingType == pings \subseteq [conn : Conns, sequence : Nat, at : Nat] /\ sent \in Nat

(* The type invariant, by whose state it types.                            *)
LEMMA TypeParts == TypeOK <=> QueueType /\ ObjectType /\ ThreadType /\ PingType
  BY DEF TypeOK, QueueType, ObjectType, ThreadType, PingType, Entries

(* The queue and the times keep their types.                               *)
LEMMA QueueTypeStep == ASSUME IInv, [Next]_vars PROVE QueueType'
  <1> USE DEF queueVars, objectVars, threadVars, timerVars, clientVars, Goto
  <1>a. QueueType BY TypeParts DEF IInv
  <1>b. ObjectType BY TypeParts DEF IInv
  <1>e. PcInv BY DEF IInv
  <1>g. HeadCached' /\ IsFiniteSet(timerQueue') BY CacheStep
  <1>h. curSize' \in Nat BY <1>g, FS_CardinalityType DEF HeadCached
  <1>1. ASSUME NEW c \in Conns, Accept(c) PROVE QueueType'
    BY <1>1, <1>a, <1>b, <1>e, TimeFacts, ThreadFacts DEF Accept, Start, QueueType
  <1>2. ASSUME NEW c \in Conns, ReadCloses(c) PROVE QueueType'
    BY <1>2, <1>a, <1>b, <1>e, TimeFacts, ThreadFacts DEF ReadCloses, Start,
       QueueType
  <1>3. ASSUME NEW c \in Conns, SendPing(c) PROVE QueueType'
    BY <1>3, <1>a, <1>b, <1>e, TimeFacts, ThreadFacts DEF SendPing, QueueType
  <1>4. CASE ReadTime
    BY <1>4, <1>a, <1>b, <1>e, TimeFacts, ThreadFacts DEF ReadTime, QueueType
  <1>5. CASE AddToTimerQueue
    <2>1. timerQueue' \subseteq Entries
      <3>1. conn[Main] \in Conns BY <1>5, <1>e DEF AddToTimerQueue, PcInv
      <3>2. Entry(futtime, conn[Main], sequence[conn[Main]]) \in Entries
        BY <3>1, <1>a, <1>b DEF QueueType, ObjectType, Entry, Entries
      <3> QED BY <1>5, <3>2, <1>a DEF AddToTimerQueue, QueueType
    <2>2. timerValue' \in Nat
      <3>1. CASE timerQueue' = {} BY <1>5, <1>a, <3>1 DEF CacheHead, QueueType, AddToTimerQueue
      <3>2. CASE timerQueue' # {} BY <1>g, <2>1, <3>2, HeadFacts DEF HeadCached
      <3> QED BY <3>1, <3>2
    <2> QED BY <1>5, <1>a, <1>h, <2>1, <2>2 DEF AddToTimerQueue, QueueType
  <1>6. ASSUME NEW t \in {Main, Timer}, DeleteFromTimerQueue(t) PROVE QueueType'
    <2>1. timerQueue' \subseteq Entries BY <1>6, <1>a DEF DeleteFromTimerQueue, QueueType
    <2>2. timerValue' \in Nat
      <3>1. CASE timerQueue' = {}
        BY <1>6, <1>a, <3>1 DEF CacheHead, QueueType, DeleteFromTimerQueue
      <3>2. CASE timerQueue' # {} BY <1>g, <2>1, <3>2, HeadFacts DEF HeadCached
      <3> QED BY <3>1, <3>2
    <2> QED BY <1>6, <1>a, <1>h, <2>1, <2>2 DEF DeleteFromTimerQueue, QueueType
  <1>7. ASSUME NEW t \in {Main, Timer}, InRecyConnectQueue(t) PROVE QueueType'
    BY <1>7, <1>a, <1>b, <1>e, TimeFacts, ThreadFacts DEF InRecyConnectQueue,
       QueueType
  <1>8. CASE Poll
    BY <1>8, <1>a, <1>b, <1>e, TimeFacts, ThreadFacts DEF Poll, QueueType
  <1>9. CASE Collect
    <2>1. timerQueue' \subseteq Entries /\ idleList' \subseteq Entries
      BY <1>9, <1>a, CollectFacts
    <2>2. timerValue' \in Nat
      <3>1. CASE timerQueue' = {} BY <1>9, <1>a, <3>1 DEF CacheHead, QueueType, Collect
      <3>2. CASE timerQueue' # {} BY <1>g, <2>1, <3>2, HeadFacts DEF HeadCached
      <3> QED BY <3>1, <3>2
    <2> QED BY <1>9, <1>a, <1>h, <2>1, <2>2 DEF Collect, QueueType
  <1>10. CASE Keep
    BY <1>10, <1>a, <1>b, <1>e, TimeFacts, ThreadFacts DEF Keep, QueueType
  <1>11. CASE Kick
    BY <1>11, <1>a, <1>b, <1>e, TimeFacts, ThreadFacts DEF Kick, QueueType
  <1>12. CASE EndCheck
    BY <1>12, <1>a, <1>b, <1>e, TimeFacts, ThreadFacts DEF EndCheck, QueueType
  <1>13. CASE DropPing
    BY <1>13, <1>a, <1>b, <1>e, TimeFacts, ThreadFacts DEF DropPing, QueueType
  <1>14. CASE TakePing
    BY <1>14, <1>a, <1>b, <1>e, TimeFacts, ThreadFacts DEF TakePing, Start,
       QueueType
  <1>15. CASE HandlePing
    BY <1>15, <1>a, <1>b, <1>e, TimeFacts, ThreadFacts DEF HandlePing, QueueType
  <1>16. CASE Tick
    BY <1>16, <1>a, <1>b, <1>e, TimeFacts, ThreadFacts DEF Tick, QueueType
  <1>17. CASE UNCHANGED vars
    BY <1>17, <1>a, <1>b, <1>e, TimeFacts, ThreadFacts DEF vars, QueueType
  <1> QED BY <1>1, <1>2, <1>3, <1>4, <1>5, <1>6, <1>7, <1>8, <1>9, <1>10, <1>11,
     <1>12, <1>13, <1>14, <1>15, <1>16, <1>17 DEF Next, MainStep, CloseStep,
     TimerStep, PoolStep, Stopped

(* Objects keep their types.                                               *)
LEMMA ObjectTypeStep == ASSUME IInv, [Next]_vars PROVE ObjectType'
  <1> USE DEF queueVars, objectVars, threadVars, timerVars, clientVars, Goto
  <1>a. QueueType BY TypeParts DEF IInv
  <1>b. ObjectType BY TypeParts DEF IInv
  <1>e. PcInv BY DEF IInv
  <1>1. ASSUME NEW c \in Conns, Accept(c) PROVE ObjectType'
    BY <1>1, <1>a, <1>b, <1>e, ThreadFacts DEF Accept, Start, ObjectType, QueueType
  <1>2. ASSUME NEW c \in Conns, ReadCloses(c) PROVE ObjectType'
    BY <1>2, <1>a, <1>b, <1>e, ThreadFacts DEF ReadCloses, Start, ObjectType,
       QueueType
  <1>3. ASSUME NEW c \in Conns, SendPing(c) PROVE ObjectType'
    BY <1>3, <1>a, <1>b, <1>e, ThreadFacts DEF SendPing, ObjectType, QueueType
  <1>4. CASE ReadTime
    BY <1>4, <1>a, <1>b, <1>e, ThreadFacts DEF ReadTime, ObjectType, QueueType
  <1>5. CASE AddToTimerQueue
    BY <1>5, <1>a, <1>b, <1>e, ThreadFacts DEF AddToTimerQueue, ObjectType,
       QueueType
  <1>6. ASSUME NEW t \in {Main, Timer}, DeleteFromTimerQueue(t) PROVE ObjectType'
    BY <1>6, <1>a, <1>b, <1>e, ThreadFacts DEF DeleteFromTimerQueue, ObjectType,
       QueueType
  <1>7. ASSUME NEW t \in {Main, Timer}, InRecyConnectQueue(t) PROVE ObjectType'
    BY <1>7, <1>a, <1>b, <1>e, ThreadFacts DEF InRecyConnectQueue, PcInv, ObjectType,
       QueueType
  <1>8. CASE Poll
    BY <1>8, <1>a, <1>b, <1>e, ThreadFacts DEF Poll, ObjectType, QueueType
  <1>9. CASE Collect
    BY <1>9, <1>a, <1>b, <1>e, ThreadFacts DEF Collect, ObjectType, QueueType
  <1>10. CASE Keep
    BY <1>10, <1>a, <1>b, <1>e, ThreadFacts DEF Keep, ObjectType, QueueType
  <1>11. CASE Kick
    BY <1>11, <1>a, <1>b, <1>e, ThreadFacts DEF Kick, ObjectType, QueueType
  <1>12. CASE EndCheck
    BY <1>12, <1>a, <1>b, <1>e, ThreadFacts DEF EndCheck, ObjectType, QueueType
  <1>13. CASE DropPing
    BY <1>13, <1>a, <1>b, <1>e, ThreadFacts DEF DropPing, ObjectType, QueueType
  <1>14. CASE TakePing
    BY <1>14, <1>a, <1>b, <1>e, ThreadFacts DEF TakePing, Start, ObjectType,
       QueueType
  <1>15. CASE HandlePing
    BY <1>15, <1>a, <1>b, <1>e, ThreadFacts DEF HandlePing, ObjectType, QueueType
  <1>16. CASE Tick
    BY <1>16, <1>a, <1>b, <1>e, ThreadFacts DEF Tick, ObjectType, QueueType
  <1>17. CASE UNCHANGED vars
    BY <1>17, <1>a, <1>b, <1>e, ThreadFacts DEF vars, ObjectType, QueueType
  <1> QED BY <1>1, <1>2, <1>3, <1>4, <1>5, <1>6, <1>7, <1>8, <1>9, <1>10, <1>11,
     <1>12, <1>13, <1>14, <1>15, <1>16, <1>17 DEF Next, MainStep, CloseStep,
     TimerStep, PoolStep, Stopped

(* Threads keep their types.                                               *)
LEMMA ThreadTypeStep == ASSUME IInv, [Next]_vars PROVE ThreadType'
  <1> USE DEF queueVars, objectVars, threadVars, timerVars, clientVars, Goto
  <1>a. QueueType BY TypeParts DEF IInv
  <1>c. ThreadType BY TypeParts DEF IInv
  <1>d. PingType BY TypeParts DEF IInv
  <1>1. ASSUME NEW c \in Conns, Accept(c) PROVE ThreadType'
    BY <1>1, <1>a, <1>c, <1>d, ThreadFacts DEF Accept, Start, ThreadType, QueueType,
       Entries
  <1>2. ASSUME NEW c \in Conns, ReadCloses(c) PROVE ThreadType'
    BY <1>2, <1>a, <1>c, <1>d, ThreadFacts DEF ReadCloses, Start, ThreadType,
       QueueType, Entries
  <1>3. ASSUME NEW c \in Conns, SendPing(c) PROVE ThreadType'
    BY <1>3, <1>a, <1>c, <1>d, ThreadFacts DEF SendPing, ThreadType, QueueType,
       Entries
  <1>4. CASE ReadTime
    BY <1>4, <1>a, <1>c, <1>d, ThreadFacts DEF ReadTime, ThreadType, QueueType,
       Entries
  <1>5. CASE AddToTimerQueue
    BY <1>5, <1>a, <1>c, <1>d, ThreadFacts DEF AddToTimerQueue, ThreadType,
       QueueType, Entries
  <1>6. ASSUME NEW t \in {Main, Timer}, DeleteFromTimerQueue(t) PROVE ThreadType'
    BY <1>6, <1>a, <1>c, <1>d, ThreadFacts DEF DeleteFromTimerQueue, ThreadType,
       QueueType, Entries
  <1>7. ASSUME NEW t \in {Main, Timer}, InRecyConnectQueue(t) PROVE ThreadType'
    BY <1>7, <1>a, <1>c, <1>d, ThreadFacts DEF InRecyConnectQueue, ThreadType,
       QueueType, Entries
  <1>8. CASE Poll
    BY <1>8, <1>a, <1>c, <1>d, ThreadFacts DEF Poll, ThreadType, QueueType, Entries
  <1>9. CASE Collect
    BY <1>9, <1>a, <1>c, <1>d, ThreadFacts DEF Collect, ThreadType, QueueType,
       Entries
  <1>10. CASE Keep
    BY <1>10, <1>a, <1>c, <1>d, ThreadFacts DEF Keep, ThreadType, QueueType, Entries
  <1>11. CASE Kick
    BY <1>11, <1>a, <1>c, <1>d, ThreadFacts DEF Kick, ThreadType, QueueType, Entries
  <1>12. CASE EndCheck
    BY <1>12, <1>a, <1>c, <1>d, ThreadFacts DEF EndCheck, ThreadType, QueueType,
       Entries
  <1>13. CASE DropPing
    BY <1>13, <1>a, <1>c, <1>d, ThreadFacts DEF DropPing, ThreadType, QueueType,
       Entries
  <1>14. CASE TakePing
    BY <1>14, <1>a, <1>c, <1>d, ThreadFacts DEF TakePing, Start, PingType, ThreadType,
       QueueType, Entries
  <1>15. CASE HandlePing
    BY <1>15, <1>a, <1>c, <1>d, ThreadFacts DEF HandlePing, ThreadType, QueueType,
       Entries
  <1>16. CASE Tick
    BY <1>16, <1>a, <1>c, <1>d, ThreadFacts DEF Tick, ThreadType, QueueType, Entries
  <1>17. CASE UNCHANGED vars
    BY <1>17, <1>a, <1>c, <1>d, ThreadFacts DEF vars, ThreadType, QueueType, Entries
  <1> QED BY <1>1, <1>2, <1>3, <1>4, <1>5, <1>6, <1>7, <1>8, <1>9, <1>10, <1>11,
     <1>12, <1>13, <1>14, <1>15, <1>16, <1>17 DEF Next, MainStep, CloseStep,
     TimerStep, PoolStep, Stopped

(* Pings keep their type.                                                  *)
LEMMA PingTypeStep == ASSUME IInv, [Next]_vars PROVE PingType'
  <1> USE DEF queueVars, objectVars, threadVars, timerVars, clientVars, Goto
  <1>a. QueueType BY TypeParts DEF IInv
  <1>b. ObjectType BY TypeParts DEF IInv
  <1>d. PingType BY TypeParts DEF IInv
  <1>1. ASSUME NEW c \in Conns, Accept(c) PROVE PingType'
    BY <1>1, <1>a, <1>b, <1>d, ThreadFacts DEF Accept, Start, PingType, QueueType,
       ObjectType
  <1>2. ASSUME NEW c \in Conns, ReadCloses(c) PROVE PingType'
    BY <1>2, <1>a, <1>b, <1>d, ThreadFacts DEF ReadCloses, Start, PingType,
       QueueType, ObjectType
  <1>3. ASSUME NEW c \in Conns, SendPing(c) PROVE PingType'
    BY <1>3, <1>a, <1>b, <1>d, ThreadFacts DEF SendPing, PingType, QueueType,
       ObjectType
  <1>4. CASE ReadTime
    BY <1>4, <1>a, <1>b, <1>d, ThreadFacts DEF ReadTime, PingType, QueueType,
       ObjectType
  <1>5. CASE AddToTimerQueue
    BY <1>5, <1>a, <1>b, <1>d, ThreadFacts DEF AddToTimerQueue, PingType, QueueType,
       ObjectType
  <1>6. ASSUME NEW t \in {Main, Timer}, DeleteFromTimerQueue(t) PROVE PingType'
    BY <1>6, <1>a, <1>b, <1>d, ThreadFacts DEF DeleteFromTimerQueue, PingType,
       QueueType, ObjectType
  <1>7. ASSUME NEW t \in {Main, Timer}, InRecyConnectQueue(t) PROVE PingType'
    BY <1>7, <1>a, <1>b, <1>d, ThreadFacts DEF InRecyConnectQueue, PingType,
       QueueType, ObjectType
  <1>8. CASE Poll
    BY <1>8, <1>a, <1>b, <1>d, ThreadFacts DEF Poll, PingType, QueueType, ObjectType
  <1>9. CASE Collect
    BY <1>9, <1>a, <1>b, <1>d, ThreadFacts DEF Collect, PingType, QueueType,
       ObjectType
  <1>10. CASE Keep
    BY <1>10, <1>a, <1>b, <1>d, ThreadFacts DEF Keep, PingType, QueueType,
       ObjectType
  <1>11. CASE Kick
    BY <1>11, <1>a, <1>b, <1>d, ThreadFacts DEF Kick, PingType, QueueType,
       ObjectType
  <1>12. CASE EndCheck
    BY <1>12, <1>a, <1>b, <1>d, ThreadFacts DEF EndCheck, PingType, QueueType,
       ObjectType
  <1>13. CASE DropPing
    BY <1>13, <1>a, <1>b, <1>d, ThreadFacts DEF DropPing, PingType, QueueType,
       ObjectType
  <1>14. CASE TakePing
    BY <1>14, <1>a, <1>b, <1>d, ThreadFacts DEF TakePing, Start, PingType,
       QueueType, ObjectType
  <1>15. CASE HandlePing
    BY <1>15, <1>a, <1>b, <1>d, ThreadFacts DEF HandlePing, PingType, QueueType,
       ObjectType
  <1>16. CASE Tick
    BY <1>16, <1>a, <1>b, <1>d, ThreadFacts DEF Tick, PingType, QueueType,
       ObjectType
  <1>17. CASE UNCHANGED vars
    BY <1>17, <1>a, <1>b, <1>d, ThreadFacts DEF vars, PingType, QueueType,
       ObjectType
  <1> QED BY <1>1, <1>2, <1>3, <1>4, <1>5, <1>6, <1>7, <1>8, <1>9, <1>10, <1>11,
     <1>12, <1>13, <1>14, <1>15, <1>16, <1>17 DEF Next, MainStep, CloseStep,
     TimerStep, PoolStep, Stopped

(* Every step keeps the type invariant.                                    *)
LEMMA TypeStep == ASSUME IInv, [Next]_vars PROVE TypeOK'
  BY QueueTypeStep, ObjectTypeStep, ThreadTypeStep, PingTypeStep
     DEF TypeOK, QueueType, ObjectType, ThreadType, PingType, Entries

-----------------------------------------------------------------------------
(* Threads and objects.                                                    *)

(* A thread holds an object that is not free.                              *)
LEMMA PcStep == ASSUME IInv, [Next]_vars PROVE PcInv'
  <1> USE DEF queueVars, objectVars, threadVars, timerVars, clientVars, Goto
  <1>a. QueueType BY TypeParts DEF IInv
  <1>b. ObjectType BY TypeParts DEF IInv
  <1>c. ThreadType BY TypeParts DEF IInv
  <1>d. PingType BY TypeParts DEF IInv
  <1>g. EntryInv BY DEF IInv, QueueInv
  <1>e. PcInv BY DEF IInv
  <1>l. PingInv BY DEF IInv
  <1>1. ASSUME NEW c \in Conns, Accept(c) PROVE PcInv'
    BY <1>1, <1>a, <1>b, <1>c, <1>d, <1>g, <1>e, <1>l, ThreadFacts DEF Accept,
       Start, PcInv, ThreadType, ObjectType
  <1>2. ASSUME NEW c \in Conns, ReadCloses(c) PROVE PcInv'
    BY <1>2, <1>a, <1>b, <1>c, <1>d, <1>g, <1>e, <1>l, ThreadFacts DEF ReadCloses,
       Start, PcInv, ThreadType, ObjectType
  <1>3. ASSUME NEW c \in Conns, SendPing(c) PROVE PcInv'
    BY <1>3, <1>a, <1>b, <1>c, <1>d, <1>g, <1>e, <1>l, ThreadFacts DEF SendPing,
       PcInv, ThreadType, ObjectType
  <1>4. CASE ReadTime
    BY <1>4, <1>a, <1>b, <1>c, <1>d, <1>g, <1>e, <1>l, ThreadFacts DEF ReadTime,
       PcInv, ThreadType, ObjectType
  <1>5. CASE AddToTimerQueue
    BY <1>5, <1>a, <1>b, <1>c, <1>d, <1>g, <1>e, <1>l, ThreadFacts DEF
       AddToTimerQueue, PcInv, ThreadType, ObjectType
  <1>6. ASSUME NEW t \in {Main, Timer}, DeleteFromTimerQueue(t) PROVE PcInv'
    BY <1>6, <1>a, <1>b, <1>c, <1>d, <1>g, <1>e, <1>l, ThreadFacts DEF
       DeleteFromTimerQueue, PcInv, ThreadType, ObjectType
  <1>7. ASSUME NEW t \in {Main, Timer}, InRecyConnectQueue(t) PROVE PcInv'
    BY <1>7, <1>a, <1>b, <1>c, <1>d, <1>g, <1>e, <1>l, ThreadFacts DEF
       InRecyConnectQueue, PcInv, ThreadType, ObjectType
  <1>8. CASE Poll
    BY <1>8, <1>a, <1>b, <1>c, <1>d, <1>g, <1>e, <1>l, ThreadFacts DEF Poll, PcInv,
       ThreadType, ObjectType
  <1>9. CASE Collect
    BY <1>9, <1>a, <1>b, <1>c, <1>d, <1>g, <1>e, <1>l, ThreadFacts DEF Collect,
       PcInv, ThreadType, ObjectType
  <1>10. CASE Keep
    BY <1>10, <1>a, <1>b, <1>c, <1>d, <1>g, <1>e, <1>l, ThreadFacts DEF Keep, PcInv,
       ThreadType, ObjectType
  <1>11. CASE Kick
    <2>1. PICK e \in idleList : conn' = [conn EXCEPT ![Timer] = e.conn]
      BY <1>11 DEF Kick
    <2>2. e.conn \in Conns /\ place[e.conn] # "free"
      BY <1>a, <1>g DEF QueueType, Entries, EntryInv
    <2>3. /\ conn'[Timer] = e.conn /\ conn'[Main] = conn[Main] /\ conn'[Pool] = conn[Pool]
          /\ pc'[Timer] = "zd" /\ pc'[Main] = pc[Main] /\ pc'[Pool] = pc[Pool]
          /\ pc[Timer] = "check" /\ UNCHANGED <<place, curTime, since>>
      BY <1>11, <2>1, <1>c, ThreadFacts DEF Kick, ThreadType
    <2> QED BY <1>e, <2>2, <2>3 DEF PcInv
  <1>12. CASE EndCheck
    BY <1>12, <1>a, <1>b, <1>c, <1>d, <1>g, <1>e, <1>l, ThreadFacts DEF EndCheck,
       PcInv, ThreadType, ObjectType
  <1>13. CASE DropPing
    BY <1>13, <1>a, <1>b, <1>c, <1>d, <1>g, <1>e, <1>l, ThreadFacts DEF DropPing,
       PcInv, ThreadType, ObjectType
  <1>14. CASE TakePing
    <2>1. PICK p \in pings : Start(Pool, p.conn, "ping", p.at) BY <1>14 DEF TakePing
    <2>2. p.conn \in Conns /\ place[p.conn] # "free" BY <1>d, <1>l DEF PingType, PingInv
    <2>3. /\ conn'[Pool] = p.conn /\ conn'[Main] = conn[Main] /\ conn'[Timer] = conn[Timer]
          /\ pc'[Pool] = "ping" /\ pc'[Main] = pc[Main] /\ pc'[Timer] = pc[Timer]
          /\ since'[Timer] = since[Timer] /\ UNCHANGED <<place, curTime, idleList>>
      BY <1>14, <2>1, <1>c, ThreadFacts DEF TakePing, Start, ThreadType
    <2> QED BY <1>e, <2>2, <2>3 DEF PcInv
  <1>15. CASE HandlePing
    BY <1>15, <1>a, <1>b, <1>c, <1>d, <1>g, <1>e, <1>l, ThreadFacts DEF HandlePing,
       PcInv, ThreadType, ObjectType
  <1>16. CASE Tick
    BY <1>16, <1>a, <1>b, <1>c, <1>d, <1>g, <1>e, <1>l, ThreadFacts DEF Tick, PcInv,
       ThreadType, ObjectType
  <1>17. CASE UNCHANGED vars
    BY <1>17, <1>a, <1>b, <1>c, <1>d, <1>g, <1>e, <1>l, ThreadFacts DEF vars, PcInv,
       ThreadType, ObjectType
  <1> QED BY <1>1, <1>2, <1>3, <1>4, <1>5, <1>6, <1>7, <1>8, <1>9, <1>10, <1>11,
     <1>12, <1>13, <1>14, <1>15, <1>16, <1>17 DEF Next, MainStep, CloseStep,
     TimerStep, PoolStep, Stopped

(* Numbers follow the life of the object.                                  *)
LEMMA StageStep == ASSUME IInv, [Next]_vars PROVE StageInv'
  <1> USE DEF queueVars, objectVars, threadVars, timerVars, clientVars, Goto
  <1>b. ObjectType BY TypeParts DEF IInv
  <1>f. StageInv BY DEF IInv
  <1>1. ASSUME NEW c \in Conns, Accept(c) PROVE StageInv'
    BY <1>1, <1>b, <1>f, ThreadFacts DEF Accept, Start, StageInv, Stage, ObjectType
  <1>2. ASSUME NEW c \in Conns, ReadCloses(c) PROVE StageInv'
    BY <1>2, <1>b, <1>f, ThreadFacts DEF ReadCloses, Start, StageInv, Stage,
       ObjectType
  <1>3. ASSUME NEW c \in Conns, SendPing(c) PROVE StageInv'
    BY <1>3, <1>b, <1>f, ThreadFacts DEF SendPing, StageInv, Stage, ObjectType
  <1>4. CASE ReadTime
    BY <1>4, <1>b, <1>f, ThreadFacts DEF ReadTime, StageInv, Stage, ObjectType
  <1>5. CASE AddToTimerQueue
    BY <1>5, <1>b, <1>f, ThreadFacts DEF AddToTimerQueue, StageInv, Stage,
       ObjectType
  <1>6. ASSUME NEW t \in {Main, Timer}, DeleteFromTimerQueue(t) PROVE StageInv'
    BY <1>6, <1>b, <1>f, ThreadFacts DEF DeleteFromTimerQueue, StageInv, Stage,
       ObjectType
  <1>7. ASSUME NEW t \in {Main, Timer}, InRecyConnectQueue(t) PROVE StageInv'
    BY <1>7, <1>b, <1>f, ThreadFacts DEF InRecyConnectQueue, StageInv, Stage,
       ObjectType
  <1>8. CASE Poll
    BY <1>8, <1>b, <1>f, ThreadFacts DEF Poll, StageInv, Stage, ObjectType
  <1>9. CASE Collect
    BY <1>9, <1>b, <1>f, ThreadFacts DEF Collect, StageInv, Stage, ObjectType
  <1>10. CASE Keep
    BY <1>10, <1>b, <1>f, ThreadFacts DEF Keep, StageInv, Stage, ObjectType
  <1>11. CASE Kick
    BY <1>11, <1>b, <1>f, ThreadFacts DEF Kick, StageInv, Stage, ObjectType
  <1>12. CASE EndCheck
    BY <1>12, <1>b, <1>f, ThreadFacts DEF EndCheck, StageInv, Stage, ObjectType
  <1>13. CASE DropPing
    BY <1>13, <1>b, <1>f, ThreadFacts DEF DropPing, StageInv, Stage, ObjectType
  <1>14. CASE TakePing
    BY <1>14, <1>b, <1>f, ThreadFacts DEF TakePing, Start, StageInv, Stage,
       ObjectType
  <1>15. CASE HandlePing
    BY <1>15, <1>b, <1>f, ThreadFacts DEF HandlePing, StageInv, Stage, ObjectType
  <1>16. CASE Tick
    BY <1>16, <1>b, <1>f, ThreadFacts DEF Tick, StageInv, Stage, ObjectType
  <1>17. CASE UNCHANGED vars
    BY <1>17, <1>b, <1>f, ThreadFacts DEF vars, StageInv, Stage, ObjectType
  <1> QED BY <1>1, <1>2, <1>3, <1>4, <1>5, <1>6, <1>7, <1>8, <1>9, <1>10, <1>11,
     <1>12, <1>13, <1>14, <1>15, <1>16, <1>17 DEF Next, MainStep, CloseStep,
     TimerStep, PoolStep, Stopped

(* An entry is added when the connection has none, and put back in place   *)
(* of itself.                                                              *)
LEMMA EntryStep == ASSUME IInv, [Next]_vars PROVE EntryInv'
  <1> USE DEF queueVars, objectVars, threadVars, timerVars, clientVars, Goto
  <1>a. QueueType BY TypeParts DEF IInv
  <1>b. ObjectType BY TypeParts DEF IInv
  <1>e. PcInv BY DEF IInv
  <1>f. StageInv BY DEF IInv
  <1>g. EntryInv BY DEF IInv, QueueInv
  <1>h. OpenInv BY DEF IInv
  <1>i. CloseInv BY DEF IInv
  <1>m. IsFiniteSet(timerQueue') BY CacheStep
  <1>1. ASSUME NEW c \in Conns, Accept(c) PROVE EntryInv'
    BY <1>1, <1>a, <1>b, <1>e, <1>f, <1>g, <1>h, <1>i, <1>m DEF Accept, Start, QueueType,
       Entries, EntryInv,
       ObjectType
  <1>2. ASSUME NEW c \in Conns, ReadCloses(c) PROVE EntryInv'
    BY <1>2, <1>a, <1>b, <1>e, <1>f, <1>g, <1>h, <1>i, <1>m DEF ReadCloses, Start,
       EntryInv, ObjectType
  <1>3. ASSUME NEW c \in Conns, SendPing(c) PROVE EntryInv'
    BY <1>3, <1>a, <1>b, <1>e, <1>f, <1>g, <1>h, <1>i, <1>m DEF SendPing, EntryInv,
       ObjectType
  <1>4. CASE ReadTime
    BY <1>4, <1>a, <1>b, <1>e, <1>f, <1>g, <1>h, <1>i, <1>m DEF ReadTime, EntryInv,
       ObjectType
  <1>5. CASE AddToTimerQueue
    <2> DEFINE e == Entry(futtime, conn[Main], sequence[conn[Main]])
    <2>1. /\ timerQueue' = timerQueue \cup {e} /\ pc[Main] = "add"
          /\ UNCHANGED <<idleList, place, timeOutKick>>
          /\ e.conn = conn[Main] /\ e.sequence = sequence[conn[Main]]
      BY <1>5 DEF AddToTimerQueue, Entry
    <2>2. /\ place[conn[Main]] = "use" /\ conn[Main] \in Conns
          /\ \A f \in timerQueue \cup idleList : f.conn # conn[Main]
      BY <2>1, <1>e, <1>h DEF OpenInv, PcInv
    <2>3. sequence[conn[Main]] = 2 BY <2>2, <1>f DEF StageInv, Stage
    <2> HIDE DEF e
    <2> QED BY <1>g, <1>m, <2>1, <2>2, <2>3 DEF EntryInv
  <1>6. ASSUME NEW t \in {Main, Timer}, DeleteFromTimerQueue(t) PROVE EntryInv'
    BY <1>6, <1>a, <1>b, <1>e, <1>f, <1>g, <1>h, <1>i, <1>m DEF DeleteFromTimerQueue,
       EntryInv, ObjectType
  <1>7. ASSUME NEW t \in {Main, Timer}, InRecyConnectQueue(t) PROVE EntryInv'
    <2>1. /\ pc[t] = "recycle" /\ UNCHANGED <<timerQueue, idleList, timeOutKick>>
          /\ \/ place' = [place EXCEPT ![conn[t]] = "recycle"]
             \/ place' = place
      BY <1>7 DEF InRecyConnectQueue
    <2>0. \A c \in Conns : place'[c] = place[c] \/ (c = conn[t] /\ place'[c] = "recycle")
      BY <2>1, <1>b DEF ObjectType
    <2>2. \A e \in timerQueue : e.conn # conn[t] /\ place'[e.conn] = place[e.conn]
      BY <2>0, <2>1, <1>a, <1>i, <1>m DEF CloseInv, QueueType, Entries
    <2>3. \A e \in idleList : place'[e.conn] # "free"
      BY <2>0, <1>a, <1>g DEF EntryInv, QueueType, Entries
    <2> QED BY <1>g, <2>1, <2>2, <2>3 DEF EntryInv
  <1>8. CASE Poll
    BY <1>8, <1>a, <1>b, <1>e, <1>f, <1>g, <1>h, <1>i, <1>m DEF Poll, EntryInv, ObjectType
  <1>9. CASE Collect
    <2> DEFINE due == {e \in timerQueue : e.due <= curTime}
               R   == Requeued(due)
    <2>1. /\ idleList' = due /\ timerQueue' = (timerQueue \ due) \cup R
          /\ UNCHANGED <<place, timeOutKick>>
      BY <1>9 DEF Collect
    <2>2. due \subseteq timerQueue /\ curTime \in Nat BY <1>a DEF QueueType
    <2> HIDE DEF due
    <2>3. \A f \in R : /\ f.due = curTime + WaitTime /\ ~timeOutKick /\ f \in Entries
                       /\ \E e \in due : f.conn = e.conn /\ f.sequence = e.sequence
      BY <2>2, RequeuedFacts
    <2> HIDE DEF R
    <2>4. \A e, f \in R : e.conn = f.conn => e = f
      <3> SUFFICES ASSUME NEW e \in R, NEW f \in R, e.conn = f.conn PROVE e = f
        OBVIOUS
      <3>1. e.due = f.due /\ e.sequence = f.sequence BY <2>2, <2>3, <1>g DEF EntryInv
      <3> QED BY <2>3, <3>1 DEF Entries
    <2>5. \A e \in timerQueue \ due, f \in R : e.conn # f.conn
      BY <2>2, <2>3, <1>g DEF EntryInv
    <2> QED BY <1>g, <1>m, <2>1, <2>2, <2>3, <2>4, <2>5 DEF EntryInv
  <1>10. CASE Keep
    BY <1>10, <1>a, <1>b, <1>e, <1>f, <1>g, <1>h, <1>i, <1>m DEF Keep, EntryInv,
       ObjectType
  <1>11. CASE Kick
    BY <1>11, <1>a, <1>b, <1>e, <1>f, <1>g, <1>h, <1>i, <1>m DEF Kick, EntryInv,
       ObjectType
  <1>12. CASE EndCheck
    BY <1>12, <1>a, <1>b, <1>e, <1>f, <1>g, <1>h, <1>i, <1>m DEF EndCheck, EntryInv,
       ObjectType
  <1>13. CASE DropPing
    BY <1>13, <1>a, <1>b, <1>e, <1>f, <1>g, <1>h, <1>i, <1>m DEF DropPing, EntryInv,
       ObjectType
  <1>14. CASE TakePing
    BY <1>14, <1>a, <1>b, <1>e, <1>f, <1>g, <1>h, <1>i, <1>m DEF TakePing, Start,
       EntryInv, ObjectType
  <1>15. CASE HandlePing
    BY <1>15, <1>a, <1>b, <1>e, <1>f, <1>g, <1>h, <1>i, <1>m DEF HandlePing, EntryInv,
       ObjectType
  <1>16. CASE Tick
    BY <1>16, <1>a, <1>b, <1>e, <1>f, <1>g, <1>h, <1>i, <1>m DEF Tick, EntryInv,
       ObjectType
  <1>17. CASE UNCHANGED vars
    BY <1>17, <1>a, <1>b, <1>e, <1>f, <1>g, <1>h, <1>i, <1>m DEF vars, EntryInv,
       ObjectType
  <1> QED BY <1>1, <1>2, <1>3, <1>4, <1>5, <1>6, <1>7, <1>8, <1>9, <1>10, <1>11,
     <1>12, <1>13, <1>14, <1>15, <1>16, <1>17 DEF Next, MainStep, CloseStep,
     TimerStep, PoolStep, Stopped

(* A connection being opened is known to the epoll thread only.            *)
LEMMA OpenStep == ASSUME IInv, [Next]_vars PROVE OpenInv'
  <1> USE DEF queueVars, objectVars, threadVars, timerVars, clientVars, Goto
  <1>a. QueueType BY TypeParts DEF IInv
  <1>b. ObjectType BY TypeParts DEF IInv
  <1>c. ThreadType BY TypeParts DEF IInv
  <1>e. PcInv BY DEF IInv
  <1>g. EntryInv BY DEF IInv, QueueInv
  <1>h. OpenInv BY DEF IInv
  <1>k. ClockInv BY DEF IInv
  <1>1. ASSUME NEW c \in Conns, Accept(c) PROVE OpenInv'
    <2>1. /\ pc'[Main] = "accepted" /\ conn'[Main] = c /\ since'[Main] = clock
          /\ pc'[Timer] = pc[Timer] /\ conn'[Timer] = conn[Timer]
          /\ place[c] = "free" /\ place'[c] = "use" /\ acceptedAt'[c] = clock
          /\ UNCHANGED <<timerQueue, idleList>>
      BY <1>1, <1>b, <1>c, ThreadFacts DEF Accept, Start, ThreadType, ObjectType
    <2>2. \A e \in timerQueue \cup idleList : e.conn # c BY <1>g, <2>1 DEF EntryInv
    <2> QED BY <1>e, <2>1, <2>2 DEF OpenInv, PcInv
  <1>2. ASSUME NEW c \in Conns, ReadCloses(c) PROVE OpenInv'
    BY <1>2, <1>a, <1>b, <1>c, <1>e, <1>g, <1>h, <1>k, ThreadFacts, TimeFacts DEF
       ReadCloses, Start, OpenInv, ThreadType, ObjectType
  <1>3. ASSUME NEW c \in Conns, SendPing(c) PROVE OpenInv'
    BY <1>3, <1>a, <1>b, <1>c, <1>e, <1>g, <1>h, <1>k, ThreadFacts, TimeFacts DEF
       SendPing, OpenInv, ThreadType, ObjectType
  <1>4. CASE ReadTime
    <2>1. /\ pc[Main] = "accepted" /\ pc'[Timer] = pc[Timer] /\ futtime' = clock + WaitTime
          /\ UNCHANGED <<timerQueue, idleList, place, conn, since, acceptedAt>>
      BY <1>4, <1>c, ThreadFacts DEF ReadTime, ThreadType
    <2>2. /\ clock <= since[Main] + Delay /\ since[Main] = acceptedAt[conn[Main]]
      BY <1>h, <1>k, <2>1 DEF ClockInv, OpenInv
    <2>3. clock \in Nat /\ since[Main] \in Nat
      BY <1>a, <1>c, ThreadFacts DEF QueueType, ThreadType
    <2>4. futtime' <= acceptedAt[conn[Main]] + Delay + WaitTime BY <2>1, <2>2, <2>3, TimeFacts
    <2> QED BY <1>h, <2>1, <2>4 DEF OpenInv
  <1>5. CASE AddToTimerQueue
    BY <1>5, <1>a, <1>b, <1>c, <1>e, <1>g, <1>h, <1>k, ThreadFacts, TimeFacts DEF
       AddToTimerQueue, OpenInv, ThreadType, ObjectType
  <1>6. ASSUME NEW t \in {Main, Timer}, DeleteFromTimerQueue(t) PROVE OpenInv'
    BY <1>6, <1>a, <1>b, <1>c, <1>e, <1>g, <1>h, <1>k, ThreadFacts, TimeFacts DEF
       DeleteFromTimerQueue, OpenInv, ThreadType, ObjectType
  <1>7. ASSUME NEW t \in {Main, Timer}, InRecyConnectQueue(t) PROVE OpenInv'
    <2>1. /\ pc[t] = "recycle" /\ pc'[t] \in {"check", "idle"}
          /\ \A u \in Threads : u # t => pc'[u] = pc[u]
          /\ UNCHANGED <<timerQueue, idleList, conn, since, acceptedAt, futtime>>
          /\ \A c \in Conns : c # conn[t] => place'[c] = place[c]
      BY <1>7, <1>b, <1>c, ThreadFacts DEF InRecyConnectQueue, ObjectType, ThreadType
    <2>2. CASE t = Main BY <2>1, <2>2, ThreadFacts DEF OpenInv
    <2>3. CASE t = Timer BY <1>e, <1>h, <2>1, <2>3, ThreadFacts DEF OpenInv, PcInv
    <2> QED BY <2>2, <2>3
  <1>8. CASE Poll
    BY <1>8, <1>a, <1>b, <1>c, <1>e, <1>g, <1>h, <1>k, ThreadFacts, TimeFacts DEF
       Poll, OpenInv, ThreadType, ObjectType
  <1>9. CASE Collect
    <2> DEFINE due == {e \in timerQueue : e.due <= curTime}
    <2>1. /\ idleList' = due /\ timerQueue' = (timerQueue \ due) \cup Requeued(due)
          /\ pc'[Main] = pc[Main] /\ pc'[Timer] = "check" /\ pc[Timer] = "collect"
          /\ UNCHANGED <<place, conn, since, acceptedAt, futtime>>
      BY <1>9, <1>c, ThreadFacts DEF Collect, ThreadType
    <2>2. due \subseteq timerQueue /\ curTime \in Nat BY <1>a DEF QueueType
    <2> HIDE DEF due
    <2>3. \A f \in Requeued(due) : \E e \in due : f.conn = e.conn BY <2>2, RequeuedFacts
    <2> QED BY <1>h, <2>1, <2>2, <2>3 DEF OpenInv
  <1>10. CASE Keep
    BY <1>10, <1>a, <1>b, <1>c, <1>e, <1>g, <1>h, <1>k, ThreadFacts, TimeFacts DEF
       Keep, OpenInv, ThreadType, ObjectType
  <1>11. CASE Kick
    <2>1. PICK e \in idleList : /\ idleList' = idleList \ {e}
                                /\ conn' = [conn EXCEPT ![Timer] = e.conn]
      BY <1>11 DEF Kick
    <2>2. /\ conn'[Timer] = e.conn /\ conn'[Main] = conn[Main] /\ pc'[Main] = pc[Main]
          /\ UNCHANGED <<timerQueue, place, since, acceptedAt, futtime>>
      BY <1>11, <2>1, <1>c, ThreadFacts DEF Kick, ThreadType
    <2> QED BY <1>h, <2>1, <2>2 DEF OpenInv
  <1>12. CASE EndCheck
    BY <1>12, <1>a, <1>b, <1>c, <1>e, <1>g, <1>h, <1>k, ThreadFacts, TimeFacts DEF
       EndCheck, OpenInv, ThreadType, ObjectType
  <1>13. CASE DropPing
    BY <1>13, <1>a, <1>b, <1>c, <1>e, <1>g, <1>h, <1>k, ThreadFacts, TimeFacts DEF
       DropPing, OpenInv, ThreadType, ObjectType
  <1>14. CASE TakePing
    BY <1>14, <1>a, <1>b, <1>c, <1>e, <1>g, <1>h, <1>k, ThreadFacts, TimeFacts DEF
       TakePing, Start, OpenInv, ThreadType, ObjectType
  <1>15. CASE HandlePing
    BY <1>15, <1>a, <1>b, <1>c, <1>e, <1>g, <1>h, <1>k, ThreadFacts, TimeFacts DEF
       HandlePing, OpenInv, ThreadType, ObjectType
  <1>16. CASE Tick
    BY <1>16, <1>a, <1>b, <1>c, <1>e, <1>g, <1>h, <1>k, ThreadFacts, TimeFacts DEF
       Tick, OpenInv, ThreadType, ObjectType
  <1>17. CASE UNCHANGED vars
    BY <1>17, <1>a, <1>b, <1>c, <1>e, <1>g, <1>h, <1>k, ThreadFacts, TimeFacts DEF
       vars, OpenInv, ThreadType, ObjectType
  <1> QED BY <1>1, <1>2, <1>3, <1>4, <1>5, <1>6, <1>7, <1>8, <1>9, <1>10, <1>11,
     <1>12, <1>13, <1>14, <1>15, <1>16, <1>17 DEF Next, MainStep, CloseStep,
     TimerStep, PoolStep, Stopped

(* Whoever closes a connection deletes its entry first, and nobody puts it *)
(* back.                                                                   *)
LEMMA ClosedStep == ASSUME IInv, [Next]_vars PROVE CloseInv'
  <1> USE DEF queueVars, objectVars, threadVars, timerVars, clientVars, Goto
  <1>a. QueueType BY TypeParts DEF IInv
  <1>c. ThreadType BY TypeParts DEF IInv
  <1>h. OpenInv BY DEF IInv
  <1>i. CloseInv BY DEF IInv
  <1>1. ASSUME NEW c \in Conns, Accept(c) PROVE CloseInv'
    BY <1>1, <1>a, <1>c, <1>h, <1>i, ThreadFacts DEF Accept, Start, CloseInv,
       ThreadType
  <1>2. ASSUME NEW c \in Conns, ReadCloses(c) PROVE CloseInv'
    BY <1>2, <1>a, <1>c, <1>h, <1>i, ThreadFacts DEF ReadCloses, Start, CloseInv,
       ThreadType
  <1>3. ASSUME NEW c \in Conns, SendPing(c) PROVE CloseInv'
    BY <1>3, <1>a, <1>c, <1>h, <1>i, ThreadFacts DEF SendPing, CloseInv, ThreadType
  <1>4. CASE ReadTime
    BY <1>4, <1>a, <1>c, <1>h, <1>i, ThreadFacts DEF ReadTime, CloseInv, ThreadType
  <1>5. CASE AddToTimerQueue
    <2> DEFINE e == Entry(futtime, conn[Main], sequence[conn[Main]])
    <2>1. /\ timerQueue' = timerQueue \cup {e} /\ e.conn = conn[Main] /\ pc[Main] = "add"
          /\ pc'[Main] = "idle" /\ pc'[Timer] = pc[Timer] /\ conn' = conn
      BY <1>5, <1>c, ThreadFacts DEF AddToTimerQueue, Entry, ThreadType
    <2> HIDE DEF e
    <2> QED BY <1>h, <1>i, <2>1, ThreadFacts DEF CloseInv, OpenInv
  <1>6. ASSUME NEW t \in {Main, Timer}, DeleteFromTimerQueue(t) PROVE CloseInv'
    BY <1>6, <1>a, <1>c, <1>h, <1>i, ThreadFacts DEF DeleteFromTimerQueue, CloseInv,
       ThreadType
  <1>7. ASSUME NEW t \in {Main, Timer}, InRecyConnectQueue(t) PROVE CloseInv'
    BY <1>7, <1>a, <1>c, <1>h, <1>i, ThreadFacts DEF InRecyConnectQueue, CloseInv,
       ThreadType
  <1>8. CASE Poll
    BY <1>8, <1>a, <1>c, <1>h, <1>i, ThreadFacts DEF Poll, CloseInv, ThreadType
  <1>9. CASE Collect
    <2> DEFINE due == {e \in timerQueue : e.due <= curTime}
    <2>1. /\ timerQueue' = (timerQueue \ due) \cup Requeued(due)
          /\ pc'[Main] = pc[Main] /\ pc'[Timer] = "check" /\ conn' = conn
      BY <1>9, <1>c, ThreadFacts DEF Collect, ThreadType
    <2>2. due \subseteq timerQueue /\ curTime \in Nat BY <1>a DEF QueueType
    <2> HIDE DEF due
    <2>3. \A f \in Requeued(due) : \E e \in due : f.conn = e.conn BY <2>2, RequeuedFacts
    <2> QED BY <1>i, <2>1, <2>2, <2>3, ThreadFacts DEF CloseInv
  <1>10. CASE Keep
    BY <1>10, <1>a, <1>c, <1>h, <1>i, ThreadFacts DEF Keep, CloseInv, ThreadType
  <1>11. CASE Kick
    BY <1>11, <1>a, <1>c, <1>h, <1>i, ThreadFacts DEF Kick, CloseInv, ThreadType
  <1>12. CASE EndCheck
    BY <1>12, <1>a, <1>c, <1>h, <1>i, ThreadFacts DEF EndCheck, CloseInv, ThreadType
  <1>13. CASE DropPing
    BY <1>13, <1>a, <1>c, <1>h, <1>i, ThreadFacts DEF DropPing, CloseInv, ThreadType
  <1>14. CASE TakePing
    BY <1>14, <1>a, <1>c, <1>h, <1>i, ThreadFacts DEF TakePing, Start, CloseInv,
       ThreadType
  <1>15. CASE HandlePing
    BY <1>15, <1>a, <1>c, <1>h, <1>i, ThreadFacts DEF HandlePing, CloseInv,
       ThreadType
  <1>16. CASE Tick
    BY <1>16, <1>a, <1>c, <1>h, <1>i, ThreadFacts DEF Tick, CloseInv, ThreadType
  <1>17. CASE UNCHANGED vars
    BY <1>17, <1>a, <1>c, <1>h, <1>i, ThreadFacts DEF vars, CloseInv, ThreadType
  <1> QED BY <1>1, <1>2, <1>3, <1>4, <1>5, <1>6, <1>7, <1>8, <1>9, <1>10, <1>11,
     <1>12, <1>13, <1>14, <1>15, <1>16, <1>17 DEF Next, MainStep, CloseStep,
     TimerStep, PoolStep, Stopped

(* An entry leaves the queue for another one, or because its connection is *)
(* being closed.                                                           *)
LEMMA WatchStep == ASSUME IInv, [Next]_vars PROVE WatchInv'
  <1> USE DEF queueVars, objectVars, threadVars, timerVars, clientVars, Goto
  <1>a. QueueType BY TypeParts DEF IInv
  <1>b. ObjectType BY TypeParts DEF IInv
  <1>c. ThreadType BY TypeParts DEF IInv
  <1>e. PcInv BY DEF IInv
  <1>f. StageInv BY DEF IInv
  <1>g. EntryInv BY DEF IInv, QueueInv
  <1>j. WatchInv BY DEF IInv
  <1>1. ASSUME NEW c \in Conns, Accept(c) PROVE WatchInv'
    <2>1. /\ pc[Main] = "idle" /\ pc'[Main] = "accepted" /\ conn'[Main] = c
          /\ pc'[Timer] = pc[Timer] /\ conn'[Timer] = conn[Timer]
          /\ UNCHANGED <<timerQueue, idleList, timeOutKick>>
          /\ \A d \in Conns : d # c => place'[d] = place[d]
      BY <1>1, <1>b, <1>c, ThreadFacts DEF Accept, Start, ThreadType, ObjectType
    <2> QED BY <1>j, <2>1 DEF WatchInv, Busy, Closing, Watching
  <1>2. ASSUME NEW c \in Conns, ReadCloses(c) PROVE WatchInv'
    <2>1. /\ pc[Main] = "idle" /\ pc'[Timer] = pc[Timer] /\ conn'[Timer] = conn[Timer]
          /\ UNCHANGED <<timerQueue, idleList, timeOutKick, place>>
      BY <1>2, <1>c, ThreadFacts DEF ReadCloses, Start, ThreadType
    <2> QED BY <1>j, <2>1 DEF WatchInv, Busy, Closing, Watching
  <1>3. ASSUME NEW c \in Conns, SendPing(c) PROVE WatchInv'
    BY <1>3, <1>a, <1>b, <1>c, <1>e, <1>f, <1>g, <1>j, ThreadFacts DEF SendPing,
       WatchInv, Busy, Closing, Watching, ThreadType
  <1>4. CASE ReadTime
    BY <1>4, <1>a, <1>b, <1>c, <1>e, <1>f, <1>g, <1>j, ThreadFacts DEF ReadTime,
       WatchInv, Busy, Closing, Watching, ThreadType
  <1>5. CASE AddToTimerQueue
    <2> DEFINE e == Entry(futtime, conn[Main], sequence[conn[Main]])
    <2>1. /\ timerQueue' = timerQueue \cup {e} /\ e.conn = conn[Main]
          /\ pc'[Timer] = pc[Timer]
          /\ UNCHANGED <<conn, idleList, timeOutKick, place>>
      BY <1>5, <1>c, ThreadFacts DEF AddToTimerQueue, Entry, ThreadType
    <2> HIDE DEF e
    <2> QED BY <1>j, <2>1 DEF WatchInv, Busy, Closing, Watching
  <1>6. ASSUME NEW t \in {Main, Timer}, DeleteFromTimerQueue(t) PROVE WatchInv'
    <2>1. /\ timerQueue' = timerQueue \ {e \in timerQueue : e.conn = conn[t]}
          /\ pc'[t] = "recycle" /\ \A u \in Threads : u # t => pc'[u] = pc[u]
          /\ UNCHANGED <<conn, idleList, timeOutKick, place>>
      BY <1>6, <1>c, ThreadFacts DEF DeleteFromTimerQueue, ThreadType
    <2>2. \A c \in Conns : Busy(c) => Busy(c)'
      BY <2>1, ThreadFacts DEF Busy, Closing
    <2>3. Busy(conn[t])' BY <2>1, ThreadFacts DEF Busy, Closing
    <2>4. \A e \in Watching : e.conn # conn[t] => e \in Watching' BY <2>1 DEF Watching
    <2> QED BY <1>j, <2>1, <2>2, <2>3, <2>4 DEF WatchInv
  <1>7. ASSUME NEW t \in {Main, Timer}, InRecyConnectQueue(t) PROVE WatchInv'
    <2>1. /\ \/ place[conn[t]] = "use" /\ place' = [place EXCEPT ![conn[t]] = "recycle"]
             \/ place[conn[t]] # "use" /\ place' = place
          /\ \A u \in Threads : u # t => pc'[u] = pc[u]
          /\ UNCHANGED <<conn, timerQueue, idleList, timeOutKick>>
      BY <1>7, <1>c, ThreadFacts DEF InRecyConnectQueue, ThreadType
    <2>2. \A c \in Conns : place'[c] = "use" => place[c] = "use" /\ c # conn[t]
      BY <2>1, <1>b DEF ObjectType
    <2>3. \A c \in Conns : Busy(c) /\ c # conn[t] => Busy(c)'
      BY <2>1, ThreadFacts DEF Busy, Closing
    <2>4. Watching' = Watching BY <2>1 DEF Watching
    <2> QED BY <1>j, <2>2, <2>3, <2>4 DEF WatchInv
  <1>8. CASE Poll
    BY <1>8, <1>a, <1>b, <1>c, <1>e, <1>f, <1>g, <1>j, ThreadFacts DEF Poll,
       WatchInv, Busy, Closing, Watching, ThreadType
  <1>9. CASE Collect
    <2> DEFINE due == {e \in timerQueue : e.due <= curTime}
    <2>1. /\ idleList' = due /\ timerQueue' = (timerQueue \ due) \cup Requeued(due)
          /\ pc'[Main] = pc[Main] /\ pc'[Timer] = "check" /\ pc[Timer] = "collect"
          /\ UNCHANGED <<place, conn, timeOutKick>>
      BY <1>9, <1>c, ThreadFacts DEF Collect, ThreadType
    <2>2. due \subseteq timerQueue /\ curTime \in Nat BY <1>a DEF QueueType
    <2> HIDE DEF due
    <2>3. ~timeOutKick => \A e \in due : \E f \in Requeued(due) : f.conn = e.conn
      BY <2>2, RequeuedFacts
    <2>4. idleList = {} BY <1>e, <2>1 DEF PcInv
    <2>5. \A e \in Watching : \E f \in Watching' : f.conn = e.conn
      BY <2>1, <2>2, <2>3, <2>4 DEF Watching
    <2>6. \A c \in Conns : Busy(c) => Busy(c)' BY <2>1 DEF Busy, Closing
    <2> QED BY <1>j, <2>1, <2>5, <2>6 DEF WatchInv
  <1>10. CASE Keep
    <2>1. PICK e \in idleList : /\ ~Alive(e) \/ ~timeOutKick
                                /\ idleList' = idleList \ {e}
      BY <1>10 DEF Keep
    <2>2. UNCHANGED <<timerQueue, timeOutKick, place, pc, conn>> BY <1>10 DEF Keep
    <2>3. e.conn \in Conns /\ e.sequence = 2 BY <1>a, <1>g DEF QueueType, Entries, EntryInv
    <2>4. timeOutKick => place[e.conn] # "use"
      BY <1>f, <2>1, <2>3 DEF StageInv, Stage, Alive
    <2>5. \A f \in Watching : place[f.conn] = "use" => f \in Watching'
      BY <2>1, <2>2, <2>4 DEF Watching
    <2> QED BY <1>j, <2>2, <2>5 DEF WatchInv, Busy, Closing
  <1>11. CASE Kick
    <2>1. PICK e \in idleList : /\ idleList' = idleList \ {e}
                                /\ conn' = [conn EXCEPT ![Timer] = e.conn]
      BY <1>11 DEF Kick
    <2>2. /\ pc[Timer] = "check" /\ pc'[Timer] = "zd" /\ pc'[Main] = pc[Main]
          /\ conn'[Timer] = e.conn /\ conn'[Main] = conn[Main]
          /\ UNCHANGED <<timerQueue, timeOutKick, place>>
      BY <1>11, <2>1, <1>c, ThreadFacts DEF Kick, ThreadType
    <2>3. \A f \in Watching : f.conn # e.conn => f \in Watching' BY <2>1, <2>2 DEF Watching
    <2>4. Busy(e.conn)' BY <2>2 DEF Busy, Closing
    <2>5. \A c \in Conns : Busy(c) => Busy(c)' BY <2>2 DEF Busy, Closing
    <2> QED BY <1>j, <2>2, <2>3, <2>4, <2>5 DEF WatchInv
  <1>12. CASE EndCheck
    BY <1>12, <1>a, <1>b, <1>c, <1>e, <1>f, <1>g, <1>j, ThreadFacts DEF EndCheck,
       WatchInv, Busy, Closing, Watching, ThreadType
  <1>13. CASE DropPing
    BY <1>13, <1>a, <1>b, <1>c, <1>e, <1>f, <1>g, <1>j, ThreadFacts DEF DropPing,
       WatchInv, Busy, Closing, Watching, ThreadType
  <1>14. CASE TakePing
    BY <1>14, <1>a, <1>b, <1>c, <1>e, <1>f, <1>g, <1>j, ThreadFacts DEF TakePing,
       Start, WatchInv, Busy, Closing, Watching, ThreadType
  <1>15. CASE HandlePing
    BY <1>15, <1>a, <1>b, <1>c, <1>e, <1>f, <1>g, <1>j, ThreadFacts DEF HandlePing,
       WatchInv, Busy, Closing, Watching, ThreadType
  <1>16. CASE Tick
    BY <1>16, <1>a, <1>b, <1>c, <1>e, <1>f, <1>g, <1>j, ThreadFacts DEF Tick,
       WatchInv, Busy, Closing, Watching, ThreadType
  <1>17. CASE UNCHANGED vars
    BY <1>17, <1>a, <1>b, <1>c, <1>e, <1>f, <1>g, <1>j, ThreadFacts DEF vars,
       WatchInv, Busy, Closing, Watching, ThreadType
  <1> QED BY <1>1, <1>2, <1>3, <1>4, <1>5, <1>6, <1>7, <1>8, <1>9, <1>10, <1>11,
     <1>12, <1>13, <1>14, <1>15, <1>16, <1>17 DEF Next, MainStep, CloseStep,
     TimerStep, PoolStep, Stopped

(* Time passes only while nobody is late; what is done now is not later    *)
(* than now.                                                               *)
LEMMA ClockStep == ASSUME IInv, [Next]_vars PROVE ClockInv'
  <1> USE DEF queueVars, objectVars, threadVars, timerVars, clientVars, Goto
  <1>a. QueueType BY TypeParts DEF IInv
  <1>b. ObjectType BY TypeParts DEF IInv
  <1>c. ThreadType BY TypeParts DEF IInv
  <1>d. PingType BY TypeParts DEF IInv
  <1>e. PcInv BY DEF IInv
  <1>k. ClockInv BY DEF IInv
  <1>1. ASSUME NEW c \in Conns, Accept(c) PROVE ClockInv'
    <2>1. /\ since' = [since EXCEPT ![Main] = clock]
          /\ UNCHANGED <<clock, pings>> /\ pc'[Pool] = pc[Pool]
          /\ lastPingTime' = [lastPingTime EXCEPT ![c] = clock]
          /\ acceptedAt' = [acceptedAt EXCEPT ![c] = clock]
          /\ lastSent' = [lastSent EXCEPT ![c] = clock]
      BY <1>1, <1>c, ThreadFacts DEF Accept, Start, ThreadType
    <2>2. /\ clock \in Nat /\ clock <= clock /\ clock <= clock + Delay
      BY <1>a, TimeFacts DEF QueueType
    <2>3. /\ since'[Main] = clock /\ since'[Timer] = since[Timer] /\ since'[Pool] = since[Pool]
      BY <1>c, <2>1, ThreadFacts DEF ThreadType
    <2>4. \A d \in Conns : /\ acceptedAt'[d] <= lastPingTime'[d] /\ lastPingTime'[d] <= clock
                           /\ lastSent'[d] <= clock
      <3> SUFFICES ASSUME NEW d \in Conns
                   PROVE  /\ acceptedAt'[d] <= lastPingTime'[d] /\ lastPingTime'[d] <= clock
                          /\ lastSent'[d] <= clock
        OBVIOUS
      <3>1. CASE d = c BY <1>b, <2>1, <2>2, <3>1 DEF ObjectType
      <3>2. CASE d # c BY <1>b, <1>k, <2>1, <3>2 DEF ObjectType, ClockInv
      <3> QED BY <3>1, <3>2
    <2>5. clock' = clock /\ pings' = pings BY <2>1
    <2>6. \A t \in Threads : since'[t] <= clock BY <1>k, <2>2, <2>3, ThreadFacts DEF ClockInv
    <2> QED BY <1>k, <2>1, <2>2, <2>3, <2>4, <2>5, <2>6 DEF ClockInv
  <1>2. ASSUME NEW c \in Conns, ReadCloses(c) PROVE ClockInv'
    <2>1. /\ since' = [since EXCEPT ![Main] = clock] /\ pc'[Pool] = pc[Pool]
          /\ UNCHANGED <<clock, acceptedAt, lastPingTime, lastSent, pings>>
      BY <1>2, <1>c, ThreadFacts DEF ReadCloses, Start, ThreadType
    <2>2. /\ clock \in Nat /\ clock <= clock /\ clock <= clock + Delay
      BY <1>a, TimeFacts DEF QueueType
    <2>3. /\ since'[Main] = clock /\ since'[Timer] = since[Timer] /\ since'[Pool] = since[Pool]
      BY <1>c, <2>1, ThreadFacts DEF ThreadType
    <2>4. \A t \in Threads : since'[t] <= clock BY <1>k, <2>2, <2>3, ThreadFacts DEF ClockInv
    <2> QED BY <1>k, <2>1, <2>2, <2>3, <2>4 DEF ClockInv
  <1>3. ASSUME NEW c \in Conns, SendPing(c) PROVE ClockInv'
    <2> DEFINE p == [conn |-> c, sequence |-> sequence[c], at |-> clock]
    <2>1. /\ pings' = pings \cup {p} /\ p.at = clock
          /\ lastSent' = [lastSent EXCEPT ![c] = clock]
          /\ UNCHANGED <<pc, since, acceptedAt, lastPingTime, clock>>
      BY <1>3 DEF SendPing
    <2> HIDE DEF p
    <2>2. clock \in Nat /\ clock <= clock /\ clock <= clock + Delay
      BY <1>a, TimeFacts DEF QueueType
    <2>3. \A q \in pings' : clock <= q.at + Delay /\ q.at <= clock
      BY <1>k, <2>1, <2>2 DEF ClockInv
    <2>4. \A d \in Conns : lastSent'[d] <= clock
      BY <1>b, <1>k, <2>1, <2>2 DEF ObjectType, ClockInv
    <2> QED BY <1>k, <2>1, <2>3, <2>4 DEF ClockInv
  <1>4. CASE ReadTime
    BY <1>4, <1>a, <1>b, <1>c, <1>d, <1>e, <1>k, ThreadFacts DEF ReadTime, ClockInv,
       ThreadType
  <1>5. CASE AddToTimerQueue
    BY <1>5, <1>a, <1>b, <1>c, <1>d, <1>e, <1>k, ThreadFacts DEF AddToTimerQueue,
       ClockInv, ThreadType
  <1>6. ASSUME NEW t \in {Main, Timer}, DeleteFromTimerQueue(t) PROVE ClockInv'
    BY <1>6, <1>a, <1>b, <1>c, <1>d, <1>e, <1>k, ThreadFacts DEF
       DeleteFromTimerQueue, ClockInv, ThreadType
  <1>7. ASSUME NEW t \in {Main, Timer}, InRecyConnectQueue(t) PROVE ClockInv'
    BY <1>7, <1>a, <1>b, <1>c, <1>d, <1>e, <1>k, ThreadFacts DEF InRecyConnectQueue,
       ClockInv, ThreadType
  <1>8. CASE Poll
    <2>1. /\ since' = [since EXCEPT ![Timer] = clock] /\ pc'[Main] = pc[Main] /\ pc'[Pool] = pc[Pool]
          /\ UNCHANGED <<clock, acceptedAt, lastPingTime, lastSent, pings>>
      BY <1>8, <1>c, ThreadFacts DEF Poll, ThreadType
    <2>2. /\ clock \in Nat /\ clock <= clock /\ clock <= clock + Delay
      BY <1>a, TimeFacts DEF QueueType
    <2>3. /\ since'[Timer] = clock /\ since'[Main] = since[Main] /\ since'[Pool] = since[Pool]
      BY <1>c, <2>1, ThreadFacts DEF ThreadType
    <2>4. \A t \in Threads : since'[t] <= clock BY <1>k, <2>2, <2>3, ThreadFacts DEF ClockInv
    <2> QED BY <1>k, <2>1, <2>2, <2>3, <2>4 DEF ClockInv
  <1>9. CASE Collect
    BY <1>9, <1>a, <1>b, <1>c, <1>d, <1>e, <1>k, ThreadFacts DEF Collect, ClockInv,
       ThreadType
  <1>10. CASE Keep
    BY <1>10, <1>a, <1>b, <1>c, <1>d, <1>e, <1>k, ThreadFacts DEF Keep, ClockInv,
       ThreadType
  <1>11. CASE Kick
    BY <1>11, <1>a, <1>b, <1>c, <1>d, <1>e, <1>k, ThreadFacts DEF Kick, ClockInv,
       ThreadType
  <1>12. CASE EndCheck
    BY <1>12, <1>a, <1>b, <1>c, <1>d, <1>e, <1>k, ThreadFacts DEF EndCheck,
       ClockInv, ThreadType
  <1>13. CASE DropPing
    BY <1>13, <1>a, <1>b, <1>c, <1>d, <1>e, <1>k, ThreadFacts DEF DropPing,
       ClockInv, ThreadType
  <1>14. CASE TakePing
    <2>1. PICK p \in pings : pings' = pings \ {p} /\ Start(Pool, p.conn, "ping", p.at)
      BY <1>14 DEF TakePing
    <2>2. /\ since'[Pool] = p.at /\ since'[Main] = since[Main] /\ since'[Timer] = since[Timer]
          /\ pc'[Main] = pc[Main]
          /\ UNCHANGED <<clock, acceptedAt, lastPingTime, lastSent>>
      BY <1>14, <1>c, <2>1, ThreadFacts DEF TakePing, Start, ThreadType
    <2>3. clock <= p.at + Delay /\ p.at <= clock BY <1>k DEF ClockInv
    <2>4. \A t \in Threads : since'[t] <= clock BY <1>k, <2>2, <2>3, ThreadFacts DEF ClockInv
    <2> QED BY <1>k, <2>1, <2>2, <2>3, <2>4 DEF ClockInv
  <1>15. CASE HandlePing
    <2>1. /\ lastPingTime' = [lastPingTime EXCEPT ![conn[Pool]] = clock]
          /\ pc'[Pool] = "idle" /\ pc'[Main] = pc[Main] /\ pc'[Timer] = pc[Timer]
          /\ UNCHANGED <<clock, acceptedAt, lastSent, since, pings>>
      BY <1>15, <1>c, ThreadFacts DEF HandlePing, ThreadType
    <2>2. clock \in Nat /\ clock <= clock BY <1>a DEF QueueType
    <2>3. \A d \in Conns : acceptedAt[d] <= clock
      <3> TAKE d \in Conns
      <3>1. acceptedAt[d] <= lastPingTime[d] /\ lastPingTime[d] <= clock BY <1>k DEF ClockInv
      <3>2. acceptedAt[d] \in Nat /\ lastPingTime[d] \in Nat BY <1>b DEF ObjectType
      <3> QED BY <2>2, <3>1, <3>2
    <2>4. \A d \in Conns : lastPingTime'[d] = lastPingTime[d] \/ lastPingTime'[d] = clock
      BY <1>b, <2>1 DEF ObjectType
    <2>5. \A d \in Conns : acceptedAt[d] <= lastPingTime'[d] /\ lastPingTime'[d] <= clock
      BY <1>k, <2>2, <2>3, <2>4 DEF ClockInv
    <2> QED BY <1>k, <2>1, <2>5 DEF ClockInv
  <1>16. CASE Tick
    <2>1. /\ \A t \in Threads : pc[t] # "idle" \/ t = Timer => clock < since[t] + Delay
          /\ \A p \in pings : clock < p.at + Delay
          /\ clock' = clock + 1
          /\ UNCHANGED <<pc, pings, since, acceptedAt, lastPingTime, lastSent>>
      BY <1>16 DEF Tick
    <2>2. clock \in Nat /\ \A t \in Threads : since[t] \in Nat
      BY <1>a, <1>c DEF QueueType, ThreadType
    <2>3. \A x \in Nat : (x <= clock => x <= clock + 1) /\ (clock < x + Delay => clock + 1 <= x + Delay)
      BY <2>2, TimeFacts
    <2>4. \A p \in pings : p.at \in Nat BY <1>d DEF PingType
    <2>5. \A t \in Threads : /\ pc[t] # "idle" \/ t = Timer => clock + 1 <= since[t] + Delay
                             /\ since[t] <= clock + 1
      BY <1>k, <2>1, <2>2, <2>3 DEF ClockInv
    <2>6. \A p \in pings : clock + 1 <= p.at + Delay /\ p.at <= clock + 1
      BY <1>k, <2>1, <2>3, <2>4 DEF ClockInv
    <2>7. \A c \in Conns : /\ acceptedAt[c] <= lastPingTime[c] /\ lastPingTime[c] <= clock + 1
                           /\ lastSent[c] <= clock + 1
      BY <1>b, <1>k, <2>3 DEF ObjectType, ClockInv
    <2> QED BY <2>1, <2>5, <2>6, <2>7, ThreadFacts DEF ClockInv
  <1>17. CASE UNCHANGED vars
    BY <1>17, <1>a, <1>b, <1>c, <1>d, <1>e, <1>k, ThreadFacts DEF vars, ClockInv,
       ThreadType
  <1> QED BY <1>1, <1>2, <1>3, <1>4, <1>5, <1>6, <1>7, <1>8, <1>9, <1>10, <1>11,
     <1>12, <1>13, <1>14, <1>15, <1>16, <1>17 DEF Next, MainStep, CloseStep,
     TimerStep, PoolStep, Stopped

-----------------------------------------------------------------------------
(* Pings.                                                                  *)

(* A client that is in time is never silent for KickTime.                  *)
LEMMA InTime ==
  ASSUME TypeOK, ClockInv, PingInv, NEW c \in Conns, place[c] = "use", c \notin late
  PROVE  clock <= lastPingTime[c] + KickTime
  <1>1. PingInvOf(c) BY DEF PingInv
  <1>2. /\ lastPingTime[c] \in Nat /\ lastSent[c] \in Nat /\ clock \in Nat
        /\ Grace \in Int /\ KickTime = Grace + Delay /\ KickTime \in Nat /\ Delay \in Nat
    BY TimeFacts DEF TypeOK, Grace
  <1>3. CASE Grace < 0
    <2>1. lastPingTime[c] = clock BY <1>1, <1>3 DEF PingInvOf
    <2> QED BY <1>2, <2>1
  <1>4. CASE Grace >= 0 /\ lastSent[c] <= lastPingTime[c]
    <2>1. clock <= lastSent[c] + Grace BY <1>1, <1>4 DEF PingInvOf
    <2> QED BY <1>2, <1>4, <2>1
  <1>5. CASE Grace >= 0 /\ \E at \in Nat : Outstanding(c, at)
    <2>1. PICK first \in Nat : Outstanding(c, first) /\ first <= lastPingTime[c] + Grace
      BY <1>1, <1>5 DEF PingInvOf
    <2>2. clock <= first + Delay BY <2>1 DEF Outstanding, ClockInv
    <2> QED BY <1>2, <2>1, <2>2
  <1> QED BY <1>1, <1>2, <1>3, <1>4, <1>5 DEF PingInvOf

(* What the clauses about a connection say of its outstanding pings.       *)
LEMMA OutstandingFacts ==
  ASSUME TypeOK, ClockInv, NEW c \in Conns, NEW at \in Nat, Outstanding(c, at)
  PROVE  at <= clock
  BY DEF Outstanding, ClockInv, TypeOK, Threads, Pool

(* Pings of a connection are handled in time, whichever of them is taken   *)
(* first.                                                                  *)
LEMMA PingStep == ASSUME IInv, [Next]_vars PROVE PingInv'
  <1> USE DEF queueVars, objectVars, threadVars, timerVars, clientVars, Goto
  <1>a. QueueType BY TypeParts DEF IInv
  <1>b. ObjectType BY TypeParts DEF IInv
  <1>c. ThreadType BY TypeParts DEF IInv
  <1>d. PingType BY TypeParts DEF IInv
  <1>e. PcInv BY DEF IInv
  <1>f. StageInv BY DEF IInv
  <1>k. ClockInv BY DEF IInv
  <1>l. PingInv BY DEF IInv
  <1>o. TypeOK BY DEF IInv
  <1>q. ASSUME UNCHANGED <<pings, lastSent, lastPingTime, late, clock>>,
               pc'[Pool] = pc[Pool], conn'[Pool] = conn[Pool], since'[Pool] = since[Pool],
               \A d \in Conns : place'[d] = place[d]
                                \/ (place[d] = "use" /\ place'[d] = "recycle")
        PROVE  PingInv'
    <2>1. \A d \in Conns : \A at \in Nat : Outstanding(d, at)' <=> Outstanding(d, at)
      BY <1>q DEF Outstanding
    <2>2. \A d \in Conns : PingInvOf(d) => PingInvOf(d)' BY <1>q, <2>1 DEF PingInvOf
    <2>3. \A p \in pings : p.conn \in Conns BY <1>d DEF PingType
    <2> QED BY <1>l, <1>q, <2>2, <2>3 DEF PingInv
  <1>1. ASSUME NEW c \in Conns, Accept(c) PROVE PingInv'
    <2>1. /\ place[c] = "free" /\ UNCHANGED <<pings, late, clock>>
          /\ pc'[Pool] = pc[Pool] /\ conn'[Pool] = conn[Pool] /\ since'[Pool] = since[Pool]
          /\ place' = [place EXCEPT ![c] = "use"]
          /\ lastPingTime' = [lastPingTime EXCEPT ![c] = clock]
          /\ lastSent' = [lastSent EXCEPT ![c] = clock]
      BY <1>1, <1>c, ThreadFacts DEF Accept, Start, ThreadType
    <2>2. /\ place'[c] = "use" /\ lastPingTime'[c] = clock /\ lastSent'[c] = clock
          /\ \A d \in Conns : d # c => /\ place'[d] = place[d] /\ lastSent'[d] = lastSent[d]
                                       /\ lastPingTime'[d] = lastPingTime[d]
      BY <1>b, <2>1 DEF ObjectType
    <2>3. \A d \in Conns : \A at \in Nat : Outstanding(d, at)' <=> Outstanding(d, at)
      BY <2>1 DEF Outstanding
    <2>4. \A at \in Nat : ~Outstanding(c, at)
      BY <1>e, <1>l, <2>1 DEF Outstanding, PcInv, PingInv
    <2>5. clock \in Nat /\ clock <= clock /\ (Grace >= 0 => clock <= clock + Grace)
      BY <1>a, TimeFacts DEF QueueType
    <2>6. PingInvOf(c)' BY <2>1, <2>2, <2>3, <2>4, <2>5 DEF PingInvOf
    <2>7. \A d \in Conns : d # c /\ PingInvOf(d) => PingInvOf(d)'
      BY <2>1, <2>2, <2>3 DEF PingInvOf
    <2>8. \A p \in pings : p.conn \in Conns BY <1>d DEF PingType
    <2> QED BY <1>l, <2>1, <2>2, <2>6, <2>7, <2>8 DEF PingInv
  <1>2. ASSUME NEW c \in Conns, ReadCloses(c) PROVE PingInv'
    BY <1>2, <1>c, <1>q, ThreadFacts DEF
       ReadCloses, Start, ThreadType
  <1>3. ASSUME NEW c \in Conns, SendPing(c) PROVE PingInv'
    <2> DEFINE p == [conn |-> c, sequence |-> sequence[c], at |-> clock]
    <2>1. /\ pings' = pings \cup {p} /\ place[c] = "use"
          /\ p.conn = c /\ p.at = clock /\ p.sequence = sequence[c]
          /\ lastSent' = [lastSent EXCEPT ![c] = clock]
          /\ UNCHANGED <<pc, conn, since, lastPingTime, place, late, clock>>
      BY <1>3 DEF SendPing
    <2> HIDE DEF p
    <2>2. /\ lastSent'[c] = clock
          /\ \A d \in Conns : d # c => lastSent'[d] = lastSent[d]
      BY <1>b, <2>1 DEF ObjectType
    <2>3. \A d \in Conns : \A at \in Nat :
              Outstanding(d, at)' <=> Outstanding(d, at) \/ (d = c /\ at = clock)
      BY <2>1 DEF Outstanding
    <2>4. \A d \in Conns : d # c /\ PingInvOf(d) => PingInvOf(d)'
      BY <2>1, <2>2, <2>3 DEF PingInvOf
    <2>5. PingInvOf(c)'
      <3>1. clock \in Nat /\ lastSent[c] \in Nat /\ lastPingTime[c] \in Nat /\ Grace \in Int
        BY <1>a, <1>b, TimeFacts DEF QueueType, ObjectType
      <3>2. PingInvOf(c) BY <1>l, <2>1 DEF PingInv
      <3>0. PICK now \in Nat : now = clock BY <3>1
      <3>3. Outstanding(c, now)' BY <2>3, <3>0
      <3>4. c \notin late /\ Grace < 0 => lastPingTime[c] = clock BY <3>2 DEF PingInvOf
      <3>5. ASSUME c \notin late, Grace >= 0
            PROVE  /\ clock <= clock + Grace
                   /\ \E first \in Nat : Outstanding(c, first)' /\ first <= lastPingTime[c] + Grace
        <4>1. CASE \E at \in Nat : Outstanding(c, at)
          <5>1. PICK first \in Nat : Outstanding(c, first) /\ first <= lastPingTime[c] + Grace
            BY <3>2, <3>5, <4>1 DEF PingInvOf
          <5>2. Outstanding(c, first)' BY <2>3, <5>1
          <5> QED BY <3>1, <3>5, <5>1, <5>2
        <4>2. CASE lastSent[c] <= lastPingTime[c]
          <5>1. clock <= lastSent[c] + Grace BY <3>2, <3>5 DEF PingInvOf
          <5>2. clock <= lastPingTime[c] + Grace BY <3>1, <4>2, <5>1
          <5> QED BY <3>0, <3>1, <3>3, <3>5, <5>2
        <4> QED BY <3>2, <4>1, <4>2 DEF PingInvOf
      <3> QED BY <2>1, <2>2, <3>0, <3>1, <3>3, <3>4, <3>5 DEF PingInvOf
    <2>6. sequence[c] = 2 BY <1>f, <2>1 DEF StageInv, Stage
    <2> QED BY <1>l, <2>1, <2>4, <2>5, <2>6 DEF PingInv
  <1>4. CASE ReadTime
    BY <1>4, <1>c, <1>q, ThreadFacts DEF
       ReadTime, ThreadType
  <1>5. CASE AddToTimerQueue
    BY <1>5, <1>c, <1>q, ThreadFacts DEF
       AddToTimerQueue, ThreadType
  <1>6. ASSUME NEW t \in {Main, Timer}, DeleteFromTimerQueue(t) PROVE PingInv'
    BY <1>6, <1>c, <1>q, ThreadFacts DEF
       DeleteFromTimerQueue, ThreadType
  <1>7. ASSUME NEW t \in {Main, Timer}, InRecyConnectQueue(t) PROVE PingInv'
    <2>1. /\ place' = place \/ (place[conn[t]] = "use" /\ place' = [place EXCEPT ![conn[t]] = "recycle"])
          /\ pc'[Pool] = pc[Pool] /\ UNCHANGED <<conn, since, pings, lastSent, lastPingTime, late, clock>>
      BY <1>7, <1>c, ThreadFacts DEF InRecyConnectQueue, ThreadType
    <2>2. \A d \in Conns : place'[d] = place[d] \/ (place[d] = "use" /\ place'[d] = "recycle")
      BY <1>b, <2>1 DEF ObjectType
    <2> QED BY <1>q, <2>1, <2>2
  <1>8. CASE Poll
    BY <1>8, <1>c, <1>q, ThreadFacts DEF
       Poll, ThreadType
  <1>9. CASE Collect
    BY <1>9, <1>c, <1>q, ThreadFacts DEF
       Collect, ThreadType
  <1>10. CASE Keep
    BY <1>10, <1>c, <1>q, ThreadFacts DEF
       Keep, ThreadType
  <1>11. CASE Kick
    BY <1>11, <1>c, <1>q, ThreadFacts DEF
       Kick, ThreadType
  <1>12. CASE EndCheck
    BY <1>12, <1>c, <1>q, ThreadFacts DEF
       EndCheck, ThreadType
  <1>13. CASE DropPing
    <2>1. PICK p \in pings : p.sequence # sequence[p.conn] /\ pings' = pings \ {p}
      BY <1>13 DEF DropPing
    <2>2. UNCHANGED <<pc, conn, since, lastSent, lastPingTime, place, late, clock>>
      BY <1>13 DEF DropPing
    <2>3. p.conn \in Conns /\ p.sequence = 2 BY <1>d, <1>l DEF PingType, PingInv
    <2>4. place[p.conn] # "use" BY <1>f, <2>1, <2>3 DEF StageInv, Stage
    <2>5. \A d \in Conns : place[d] = "use" =>
              \A at \in Nat : Outstanding(d, at)' <=> Outstanding(d, at)
      BY <2>1, <2>2, <2>4 DEF Outstanding
    <2>6. \A d \in Conns : place[d] = "use" /\ PingInvOf(d) => PingInvOf(d)'
      BY <2>2, <2>5 DEF PingInvOf
    <2> QED BY <1>l, <2>1, <2>2, <2>6 DEF PingInv
  <1>14. CASE TakePing
    <2>1. PICK p \in pings : pings' = pings \ {p} /\ Start(Pool, p.conn, "ping", p.at)
      BY <1>14 DEF TakePing
    <2>2. UNCHANGED <<lastSent, lastPingTime, place, late, clock>> BY <1>14 DEF TakePing
    <2>3. /\ pc[Pool] = "idle" /\ pc'[Pool] = "ping" /\ conn'[Pool] = p.conn /\ since'[Pool] = p.at
      BY <1>c, <2>1, ThreadFacts DEF Start, ThreadType
    <2>4. \A d \in Conns : \A at \in Nat : Outstanding(d, at)' <=> Outstanding(d, at)
      BY <2>1, <2>3 DEF Outstanding
    <2>5. \A d \in Conns : PingInvOf(d) => PingInvOf(d)' BY <2>2, <2>4 DEF PingInvOf
    <2> QED BY <1>l, <2>1, <2>2, <2>5 DEF PingInv
  <1>15. CASE HandlePing
    <2>0. pc[Pool] = "ping" BY <1>15 DEF HandlePing
    <2>2. PICK c \in Conns : c = conn[Pool] BY <1>e, <2>0 DEF PcInv
    <2>1. /\ lastPingTime' = [lastPingTime EXCEPT ![c] = clock]
          /\ pc[Pool] = "ping" /\ pc'[Pool] = "idle"
          /\ UNCHANGED <<clock, lastSent, conn, pings, place, late>>
      BY <1>15, <1>c, <2>2, ThreadFacts DEF HandlePing, ThreadType
    <2>3. /\ lastPingTime'[c] = clock
          /\ \A d \in Conns : d # c => lastPingTime'[d] = lastPingTime[d]
      BY <1>b, <2>1, <2>2 DEF ObjectType
    <2>4. \A d \in Conns : d # c => \A at \in Nat : Outstanding(d, at)' <=> Outstanding(d, at)
      BY <2>1, <2>2 DEF Outstanding
    <2>5. \A at \in Nat : Outstanding(c, at)' => Outstanding(c, at) BY <2>1 DEF Outstanding
    <2>6. clock \in Nat /\ Grace \in Int BY <1>a, TimeFacts DEF QueueType
    <2>7. \A d \in Conns : d # c /\ PingInvOf(d) => PingInvOf(d)'
      BY <2>1, <2>3, <2>4 DEF PingInvOf
    <2>8. place[c] = "use" => PingInvOf(c)'
      <3> SUFFICES ASSUME place[c] = "use" PROVE PingInvOf(c)' OBVIOUS
      <3>1. PingInvOf(c) BY <1>l, <2>2 DEF PingInv
      <3>2. lastSent[c] <= clock BY <1>k, <2>2 DEF ClockInv
      <3>3. Grace >= 0 => \A at \in Nat : Outstanding(c, at)' => at <= clock + Grace
        <4>1. \A at \in Nat : Outstanding(c, at)' => at <= clock
          BY <1>k, <1>o, <2>2, <2>5, OutstandingFacts
        <4> QED BY <2>6, <4>1
      <3> QED BY <2>1, <2>3, <3>1, <3>2, <3>3 DEF PingInvOf
    <2> QED BY <1>l, <2>1, <2>7, <2>8 DEF PingInv
  <1>16. CASE Tick
    <2>1. /\ clock' = clock + 1
          /\ late' = late \cup {c \in Conns : /\ place[c] = "use"
                                              /\ clock' - lastSent[c] > KickTime - Delay}
          /\ UNCHANGED <<pc, conn, since, pings, lastSent, lastPingTime, place>>
      BY <1>16 DEF Tick
    <2>2. \A d \in Conns : \A at \in Nat : Outstanding(d, at)' <=> Outstanding(d, at)
      BY <2>1 DEF Outstanding
    <2>3. ASSUME NEW c \in Conns, place[c] = "use" PROVE PingInvOf(c)'
      <3>1. PingInvOf(c) BY <1>l, <2>3 DEF PingInv
      <3>2. clock \in Nat /\ lastSent[c] \in Nat /\ lastSent[c] <= clock /\ Grace \in Int
        BY <1>a, <1>b, <1>k, TimeFacts DEF QueueType, ObjectType, ClockInv
      <3>3. c \notin late' => c \notin late /\ ~(clock + 1 - lastSent[c] > Grace)
        BY <2>1, <2>3, <3>2, TimeFacts DEF Grace
      <3>4. c \notin late' => c \notin late /\ Grace >= 0 /\ clock + 1 <= lastSent[c] + Grace
        BY <3>2, <3>3
      <3>5. c \notin late' => ~(Grace < 0) BY <3>2, <3>4
      <3> QED BY <2>1, <2>2, <3>1, <3>4, <3>5 DEF PingInvOf
    <2> QED BY <1>l, <2>1, <2>3 DEF PingInv
  <1>17. CASE UNCHANGED vars
    BY <1>17, <1>c, <1>q, ThreadFacts DEF
       vars, ThreadType
  <1> QED BY <1>1, <1>2, <1>3, <1>4, <1>5, <1>6, <1>7, <1>8, <1>9, <1>10, <1>11,
     <1>12, <1>13, <1>14, <1>15, <1>16, <1>17 DEF Next, MainStep, CloseStep,
     TimerStep, PoolStep, Stopped

(* Whoever is found silent had been late.                                  *)
LEMMA PunctualStep == ASSUME IInv, [Next]_vars PROVE PunctualKept'
  <1> USE DEF queueVars, objectVars, threadVars, timerVars, clientVars, Goto
  <1>a. QueueType BY TypeParts DEF IInv
  <1>b. ObjectType BY TypeParts DEF IInv
  <1>c. ThreadType BY TypeParts DEF IInv
  <1>e. PcInv BY DEF IInv
  <1>f. StageInv BY DEF IInv
  <1>g. EntryInv BY DEF IInv, QueueInv
  <1>k. ClockInv BY DEF IInv
  <1>l. PingInv BY DEF IInv
  <1>o. TypeOK BY DEF IInv
  <1>p. PunctualKept BY DEF IInv
  <1>1. ASSUME NEW c \in Conns, Accept(c) PROVE PunctualKept'
    BY <1>1, <1>c, <1>p, ThreadFacts DEF Accept, Start, PunctualKept, ThreadType
  <1>2. ASSUME NEW c \in Conns, ReadCloses(c) PROVE PunctualKept'
    BY <1>2, <1>c, <1>p, ThreadFacts DEF ReadCloses, Start, PunctualKept, ThreadType
  <1>3. ASSUME NEW c \in Conns, SendPing(c) PROVE PunctualKept'
    BY <1>3, <1>c, <1>p, ThreadFacts DEF SendPing, PunctualKept, ThreadType
  <1>4. CASE ReadTime
    BY <1>4, <1>c, <1>p, ThreadFacts DEF ReadTime, PunctualKept, ThreadType
  <1>5. CASE AddToTimerQueue
    BY <1>5, <1>c, <1>p, ThreadFacts DEF AddToTimerQueue, PunctualKept, ThreadType
  <1>6. ASSUME NEW t \in {Main, Timer}, DeleteFromTimerQueue(t) PROVE PunctualKept'
    BY <1>6, <1>c, <1>p, ThreadFacts DEF DeleteFromTimerQueue, PunctualKept, ThreadType
  <1>7. ASSUME NEW t \in {Main, Timer}, InRecyConnectQueue(t) PROVE PunctualKept'
    BY <1>7, <1>c, <1>p, ThreadFacts DEF InRecyConnectQueue, PunctualKept, ThreadType
  <1>8. CASE Poll
    BY <1>8, <1>c, <1>p, ThreadFacts DEF Poll, PunctualKept, ThreadType
  <1>9. CASE Collect
    BY <1>9, <1>c, <1>p, ThreadFacts DEF Collect, PunctualKept, ThreadType
  <1>10. CASE Keep
    BY <1>10, <1>c, <1>p, ThreadFacts DEF Keep, PunctualKept, ThreadType
  <1>11. CASE Kick
    <2>1. PICK e \in idleList : /\ Alive(e) /\ (timeOutKick \/ Silent(e))
                                /\ conn' = [conn EXCEPT ![Timer] = e.conn]
      BY <1>11 DEF Kick
    <2>2. /\ pc[Timer] = "check" /\ conn'[Timer] = e.conn /\ UNCHANGED <<late, timeOutKick>>
      BY <1>11, <2>1, <1>c, ThreadFacts DEF Kick, ThreadType
    <2>3. e.conn \in Conns /\ e.sequence = 2 /\ place[e.conn] # "free"
      BY <1>a, <1>g DEF QueueType, Entries, EntryInv
    <2>9. sequence[e.conn] = 2 BY <2>1, <2>3 DEF Alive
    <2>4. place[e.conn] = "use" BY <1>f, <2>3, <2>9 DEF StageInv, Stage
    <2>5. e.conn \notin late => clock <= lastPingTime[e.conn] + KickTime
      BY <1>k, <1>l, <1>o, <2>3, <2>4, InTime
    <2>6. curTime <= clock BY <1>e, <1>k, <2>2, ThreadFacts DEF PcInv, ClockInv
    <2>7. /\ curTime \in Nat /\ clock \in Nat /\ lastPingTime[e.conn] \in Nat
      BY <1>a, <1>b, <2>3 DEF QueueType, ObjectType
    <2>8. Silent(e) => e.conn \in late
      <3> SUFFICES ASSUME Silent(e), e.conn \notin late PROVE FALSE OBVIOUS
      <3>1. curTime - lastPingTime[e.conn] > KickTime BY DEF Silent
      <3> QED BY <2>5, <2>6, <2>7, <3>1, TimeFacts
    <2> QED BY <2>1, <2>2, <2>8 DEF PunctualKept
  <1>12. CASE EndCheck
    BY <1>12, <1>c, <1>p, ThreadFacts DEF EndCheck, PunctualKept, ThreadType
  <1>13. CASE DropPing
    BY <1>13, <1>c, <1>p, ThreadFacts DEF DropPing, PunctualKept, ThreadType
  <1>14. CASE TakePing
    BY <1>14, <1>c, <1>p, ThreadFacts DEF TakePing, Start, PunctualKept, ThreadType
  <1>15. CASE HandlePing
    BY <1>15, <1>c, <1>p, ThreadFacts DEF HandlePing, PunctualKept, ThreadType
  <1>16. CASE Tick
    BY <1>16, <1>c, <1>p, ThreadFacts DEF Tick, PunctualKept, ThreadType
  <1>17. CASE UNCHANGED vars
    BY <1>17, <1>c, <1>p, ThreadFacts DEF vars, PunctualKept, ThreadType
  <1> QED BY <1>1, <1>2, <1>3, <1>4, <1>5, <1>6, <1>7, <1>8, <1>9, <1>10, <1>11,
     <1>12, <1>13, <1>14, <1>15, <1>16, <1>17 DEF Next, MainStep, CloseStep,
     TimerStep, PoolStep, Stopped

-----------------------------------------------------------------------------
(* The inductive invariant.                                                *)

(* Nothing is queued, sent or in use at the start.                         *)
LEMMA InitIInv == Init => IInv
  <1> SUFFICES ASSUME Init PROVE IInv OBVIOUS
  <1>1. TypeOK BY DEF Init, TypeOK, Threads
  <1>2. PcInv /\ StageInv /\ OpenInv /\ CloseInv /\ WatchInv /\ PunctualKept
    BY ThreadFacts DEF Init, PcInv, StageInv, Stage, OpenInv, CloseInv, WatchInv, PunctualKept
  <1>3. QueueInv BY FS_EmptySet DEF Init, QueueInv, EntryInv, HeadCached
  <1>4. ClockInv BY TimeFacts, ThreadFacts DEF Init, ClockInv
  <1>5. PingInv BY DEF Init, PingInv
  <1> QED BY <1>1, <1>2, <1>3, <1>4, <1>5 DEF IInv

(* No step of any thread, of a client or of time breaks it.                *)
LEMMA StepIInv == IInv /\ [Next]_vars => IInv'
  <1> SUFFICES ASSUME IInv, [Next]_vars PROVE IInv' OBVIOUS
  <1>1. TypeOK' BY TypeStep
  <1>2. PcInv' /\ StageInv' BY PcStep, StageStep
  <1>3. QueueInv' BY CacheStep, EntryStep DEF QueueInv
  <1>4. OpenInv' /\ CloseInv' /\ WatchInv' BY OpenStep, ClosedStep, WatchStep
  <1>5. ClockInv' /\ PingInv' /\ PunctualKept' BY ClockStep, PingStep, PunctualStep
  <1> QED BY <1>1, <1>2, <1>3, <1>4, <1>5 DEF IInv

(* IInv holds in every state that can be reached.                          *)
THEOREM Inductive == Spec => []IInv
  BY InitIInv, StepIInv, PTL DEF Spec

(* Types.                                                                  *)
THEOREM TypeCorrect == Spec => []TypeOK
  <1>1. IInv => TypeOK BY DEF IInv
  <1> QED BY <1>1, Inductive, PTL

(* The timer thread may read the size and the head of the queue without    *)
(* the mutex: between two calls they are what the queue holds.             *)
THEOREM HeadRead == Spec => []HeadCached
  <1>1. IInv => HeadCached BY DEF IInv, QueueInv
  <1> QED BY <1>1, Inductive, PTL

(* Every connection in use that nobody opens or closes has one entry.      *)
LEMMA OneEntry == IInv => Watched
  <1> SUFFICES ASSUME IInv, NEW c \in Conns
               PROVE  LET entries == {e \in timerQueue \cup (IF timeOutKick THEN idleList ELSE {}) :
                                          e.conn = c /\ Alive(e)}
                          busy == \E t \in {Main, Timer} : pc[t] # "idle" /\ conn[t] = c
                      IN  /\ place[c] = "use" /\ ~busy => Cardinality(entries) = 1
                          /\ place[c] # "use" => \A e \in timerQueue : e.conn # c
    BY DEF Watched
  <1> DEFINE entries == {e \in Watching : e.conn = c /\ Alive(e)}
  <1>1. EntryInv /\ StageInv /\ WatchInv BY DEF IInv, QueueInv
  <1>2. place[c] # "use" => \A e \in timerQueue : e.conn # c BY <1>1 DEF EntryInv
  <1>3. ASSUME place[c] = "use",
               ~\E t \in {Main, Timer} : pc[t] # "idle" /\ conn[t] = c
        PROVE  Cardinality(entries) = 1
    <2>1. PICK e \in Watching : e.conn = c
      BY <1>1, <1>3 DEF WatchInv, Busy, Closing
    <2>2. sequence[c] = 2 BY <1>1, <1>3 DEF StageInv, Stage
    <2>3. e.sequence = 2 BY <1>1 DEF EntryInv, Watching
    <2>4. \A f \in Watching : f.conn = c => f = e
      BY <1>1, <2>1 DEF EntryInv, Watching
    <2>5. entries = {e} BY <2>1, <2>2, <2>3, <2>4 DEF Alive
    <2> HIDE DEF entries
    <2> QED BY <2>5, FS_Singleton
  <1> QED BY <1>2, <1>3 DEF Watching

(* A connection in use that no thread is opening or closing is watched by  *)
(* one entry, and one that is not in use by none.                          *)
THEOREM AlwaysWatched == Spec => []Watched
  BY OneEntry, Inductive, PTL

(* A client that is in time is not kicked for silence, whatever the order  *)
(* of its pings, of their handling and of the checks.                      *)
THEOREM PunctualStays == Spec => []PunctualKept
  <1>1. IInv => PunctualKept BY DEF IInv
  <1> QED BY <1>1, Inductive, PTL

-----------------------------------------------------------------------------
(* How late an entry can be.                                               *)

(* The first check of a connection is due before its limit.                *)
LEMMA LimitFacts ==
  ASSUME TypeOK, ClockInv, Delay <= KickTime, NEW c \in Conns
  PROVE  /\ Limit(c) \in Nat /\ acceptedAt[c] \in Nat
         /\ acceptedAt[c] + Delay + WaitTime <= Limit(c)
  <1>1. /\ acceptedAt[c] \in Nat /\ lastPingTime[c] \in Nat /\ acceptedAt[c] <= lastPingTime[c]
        /\ WaitTime \in Nat /\ Delay \in Nat /\ KickTime \in Nat
    BY TimeFacts DEF TypeOK, ClockInv
  <1> QED BY <1>1 DEF Limit

(* A connection in use that the epoll thread is not busy with is not older *)
(* than its last check allows.                                             *)
LEMMA NotOverdue ==
  ASSUME IInv, DueInv, Delay <= KickTime, NEW c \in Conns, place[c] = "use",
         pc[Main] = "idle" \/ conn[Main] # c
  PROVE  clock <= Limit(c) + 2 * Delay
  <1>1. /\ clock <= since[Timer] + Delay /\ clock \in Nat /\ since[Timer] \in Nat
        /\ Delay \in Nat /\ WaitTime \in Nat
    BY ThreadFacts, TimeFacts DEF IInv, ClockInv, TypeOK
  <1>2. /\ Limit(c) \in Nat /\ acceptedAt[c] \in Nat
        /\ acceptedAt[c] + Delay + WaitTime <= Limit(c)
    BY LimitFacts DEF IInv
  <1>3. since[Timer] <= Limit(c) + Delay => clock <= Limit(c) + 2 * Delay BY <1>1, <1>2
  <1>4. CASE Closing(c) BY <1>3, <1>4 DEF DueInv, Closing
  <1>5. CASE \E e \in idleList : e.conn = c BY <1>3, <1>5 DEF DueInv
  <1>6. CASE ~Closing(c) /\ \E e \in timerQueue : e.conn = c /\ ~\E f \in idleList : f.conn = c
    <2>1. PICK e \in timerQueue : e.conn = c BY <1>6
    <2>2. e.due \in Nat BY DEF IInv, TypeOK
    <2>3. CASE pc[Timer] = "collect" BY <1>3, <2>1, <2>3 DEF DueInv
    <2>4. CASE pc[Timer] # "collect"
      <3>1. since[Timer] <= e.due \/ since[Timer] <= acceptedAt[c] + Delay
        BY <2>1, <2>4 DEF DueInv
      <3>2. e.due <= Limit(c) BY <1>6, <2>1 DEF DueInv, Closing
      <3> QED BY <1>1, <1>2, <1>3, <2>2, <3>1, <3>2
    <2> QED BY <2>3, <2>4
  <1>7. WatchInv BY DEF IInv
  <1> QED BY <1>4, <1>5, <1>6, <1>7 DEF WatchInv, Busy, Watching

(* Checks are never further apart than m_iWaitTime and a poll.             *)
LEMMA DueStep ==
  ASSUME IInv, DueInv, Delay <= KickTime, [Next]_vars
  PROVE  DueInv'
  <1> USE DEF queueVars, objectVars, threadVars, timerVars, clientVars, Goto
  <1>a. QueueType BY TypeParts DEF IInv
  <1>b. ObjectType BY TypeParts DEF IInv
  <1>c. ThreadType BY TypeParts DEF IInv
  <1>d. DueInv OBVIOUS
  <1>e. PcInv BY DEF IInv
  <1>f. StageInv BY DEF IInv
  <1>g. EntryInv BY DEF IInv, QueueInv
  <1>h. OpenInv BY DEF IInv
  <1>k. ClockInv BY DEF IInv
  <1>o. TypeOK BY DEF IInv
  <1>r. Delay <= KickTime OBVIOUS
  <1>s. IInv OBVIOUS
  <1>t. HeadCached BY DEF IInv, QueueInv
  <1>v. TypeOK' BY TypeStep
  <1>u. \A d \in Conns : acceptedAt[d] \in Nat /\ lastPingTime[d] \in Nat
    BY TypeParts DEF IInv, ObjectType
  <1>q. ASSUME UNCHANGED <<timerQueue, idleList, curTime, acceptedAt>>,
               pc'[Timer] = pc[Timer], conn'[Timer] = conn[Timer], conn'[Main] = conn[Main],
               since'[Timer] = since[Timer], since'[Main] = since[Main],
               pc'[Main] \in {"zd", "recycle"} => pc[Main] \in {"zd", "recycle"},
               \A d \in Conns : Limit(d) <= Limit(d)'
        PROVE  DueInv'
    <2>1. /\ \A e \in timerQueue \cup idleList : e.conn \in Conns
          /\ \A e \in timerQueue : e.due \in Nat
          /\ pc[Timer] \in {"zd", "recycle"} => conn[Timer] \in Conns
          /\ pc[Main] \in {"zd", "recycle"} => conn[Main] \in Conns
          /\ since[Timer] \in Nat /\ since[Main] \in Nat /\ Delay \in Nat
      BY <1>a, <1>c, <1>e, ThreadFacts, TimeFacts DEF QueueType, Entries, PcInv, ThreadType
    <2>2. \A d \in Conns : Limit(d) \in Nat /\ Limit(d)' \in Nat
      BY <1>o, <1>v, TimeFacts DEF Limit, TypeOK
    <2>3. \A d \in Conns : \A x \in Nat : /\ x <= Limit(d) => x <= Limit(d)'
                                          /\ x <= Limit(d) + Delay => x <= Limit(d)' + Delay
                                          /\ x <= Limit(d) + 2 * Delay => x <= Limit(d)' + 2 * Delay
      BY <1>q, <2>1, <2>2
    <2> HIDE DEF Limit
    <2> QED BY <1>d, <1>q, <2>1, <2>3 DEF DueInv
  <1>1. ASSUME NEW c \in Conns, Accept(c) PROVE DueInv'
    <2>1. /\ pc[Main] = "idle" /\ pc'[Main] = "accepted" /\ place[c] = "free"
          /\ pc'[Timer] = pc[Timer] /\ conn'[Timer] = conn[Timer] /\ since'[Timer] = since[Timer]
          /\ acceptedAt' = [acceptedAt EXCEPT ![c] = clock]
          /\ lastPingTime' = [lastPingTime EXCEPT ![c] = clock]
          /\ UNCHANGED <<timerQueue, idleList, curTime, timeOutKick>>
      BY <1>1, <1>c, ThreadFacts DEF Accept, Start, ThreadType
    <2>2. \A d \in Conns : d # c => Limit(d)' = Limit(d) /\ acceptedAt'[d] = acceptedAt[d]
      BY <1>b, <2>1 DEF ObjectType, Limit
    <2>3. /\ \A e \in timerQueue \cup idleList : e.conn \in Conns /\ e.conn # c
      BY <1>a, <1>g, <2>1 DEF QueueType, Entries, EntryInv
    <2>4. pc[Timer] \in {"zd", "recycle"} => conn[Timer] \in Conns /\ conn[Timer] # c
      BY <1>e, <2>1 DEF PcInv
    <2> HIDE DEF Limit
    <2> QED BY <1>d, <2>1, <2>2, <2>3, <2>4 DEF DueInv
  <1>2. ASSUME NEW c \in Conns, ReadCloses(c) PROVE DueInv'
    <2>1. /\ pc[Main] = "idle" /\ conn'[Main] = c /\ since'[Main] = clock /\ place[c] = "use"
          /\ pc'[Timer] = pc[Timer] /\ conn'[Timer] = conn[Timer] /\ since'[Timer] = since[Timer]
          /\ UNCHANGED <<timerQueue, idleList, curTime, timeOutKick, acceptedAt, lastPingTime>>
      BY <1>2, <1>c, ThreadFacts DEF ReadCloses, Start, ThreadType
    <2>2. clock <= Limit(c) + 2 * Delay BY <1>s, <2>1, NotOverdue
    <2>3. \A d : Limit(d)' = Limit(d) BY <2>1 DEF Limit
    <2> QED BY <1>d, <2>1, <2>2, <2>3 DEF DueInv
  <1>3. ASSUME NEW c \in Conns, SendPing(c) PROVE DueInv'
    BY <1>3, <1>c, <1>q, <1>u, ThreadFacts, TimeFacts DEF Limit, SendPing, ThreadType
  <1>4. CASE ReadTime
    BY <1>4, <1>c, <1>q, <1>u, ThreadFacts, TimeFacts DEF Limit, ReadTime, ThreadType
  <1>5. CASE AddToTimerQueue
    <2> DEFINE e == Entry(futtime, conn[Main], sequence[conn[Main]])
               c == conn[Main]
    <2>1. /\ pc[Main] = "add" /\ pc'[Main] = "idle" /\ pc'[Timer] = pc[Timer]
          /\ timerQueue' = timerQueue \cup {e} /\ e.conn = c /\ e.due = futtime
          /\ UNCHANGED <<idleList, curTime, timeOutKick, conn, since, acceptedAt, lastPingTime>>
      BY <1>5, <1>c, ThreadFacts DEF AddToTimerQueue, Entry, ThreadType
    <2>2. c \in Conns BY <1>e, <2>1 DEF PcInv
    <2>3. /\ since[Main] = acceptedAt[c] /\ futtime <= acceptedAt[c] + Delay + WaitTime
          /\ \A f \in idleList : f.conn # c
      BY <1>h, <2>1 DEF OpenInv
    <2>4. /\ clock <= since[Main] + Delay /\ since[Timer] <= clock
      BY <1>k, <2>1, ThreadFacts DEF ClockInv
    <2>5. /\ Limit(c) \in Nat /\ acceptedAt[c] \in Nat
          /\ acceptedAt[c] + Delay + WaitTime <= Limit(c)
      BY <1>o, <1>k, <1>r, <2>2, LimitFacts
    <2>6. /\ since[Timer] \in Nat /\ clock \in Nat /\ futtime \in Nat
          /\ Delay \in Nat /\ WaitTime \in Nat
      BY <1>a, <1>c, ThreadFacts, TimeFacts DEF QueueType, ThreadType
    <2> HIDE DEF c
    <2>7. /\ since[Timer] <= acceptedAt[c] + Delay /\ futtime <= Limit(c)
          /\ since[Timer] <= Limit(c) + Delay
      BY <2>3, <2>4, <2>5, <2>6
    <2>8. \A d : Limit(d)' = Limit(d) BY <2>1 DEF Limit
    <2> HIDE DEF e
    <2> QED BY <1>d, <2>1, <2>3, <2>7, <2>8 DEF DueInv
  <1>6. ASSUME NEW t \in {Main, Timer}, DeleteFromTimerQueue(t) PROVE DueInv'
    <2>1. /\ timerQueue' = timerQueue \ {e \in timerQueue : e.conn = conn[t]}
          /\ pc[t] = "zd" /\ pc'[t] = "recycle" /\ \A u \in Threads : u # t => pc'[u] = pc[u]
          /\ UNCHANGED <<conn, idleList, curTime, since, timeOutKick, acceptedAt, lastPingTime>>
      BY <1>6, <1>c, ThreadFacts DEF DeleteFromTimerQueue, ThreadType
    <2>2. \A d : Limit(d)' = Limit(d) BY <2>1 DEF Limit
    <2>3. \A e \in timerQueue' : e \in timerQueue /\ e.conn # conn[t] BY <2>1
    <2>4. CASE t = Main BY <1>d, <2>1, <2>2, <2>3, <2>4, ThreadFacts DEF DueInv
    <2>5. CASE t = Timer BY <1>d, <2>1, <2>2, <2>3, <2>5, ThreadFacts DEF DueInv
    <2> QED BY <2>4, <2>5
  <1>7. ASSUME NEW t \in {Main, Timer}, InRecyConnectQueue(t) PROVE DueInv'
    <2>1. /\ pc[t] = "recycle" /\ pc'[t] = IF t = Timer THEN "check" ELSE "idle"
          /\ \A u \in Threads : u # t => pc'[u] = pc[u]
          /\ UNCHANGED <<timerQueue, conn, idleList, curTime, since, timeOutKick, acceptedAt,
                         lastPingTime>>
      BY <1>7, <1>c, ThreadFacts DEF InRecyConnectQueue, ThreadType
    <2>2. \A d : Limit(d)' = Limit(d) BY <2>1 DEF Limit
    <2>4. CASE t = Main BY <1>d, <2>1, <2>2, <2>4, ThreadFacts DEF DueInv
    <2>5. CASE t = Timer BY <1>d, <2>1, <2>2, <2>5, ThreadFacts DEF DueInv
    <2> QED BY <2>4, <2>5
  <1>8. CASE Poll
    <2>1. /\ pc[Timer] = "idle" /\ since'[Timer] = clock /\ since'[Main] = since[Main]
          /\ pc'[Main] = pc[Main]
          /\ UNCHANGED <<timerQueue, conn, idleList, timeOutKick, acceptedAt, lastPingTime>>
      BY <1>8, <1>c, ThreadFacts DEF Poll, ThreadType
    <2>2. \A d : Limit(d)' = Limit(d) BY <2>1 DEF Limit
    <2>3. idleList = {} BY <1>e, <2>1 DEF PcInv
    <2>4. CASE pc'[Timer] = "collect"
      <3>1. ASSUME NEW e \in timerQueue PROVE clock <= Limit(e.conn) + Delay
        <4>1. e.conn \in Conns /\ e.due \in Nat BY <1>a DEF QueueType, Entries
        <4>2. /\ since[Timer] <= e.due \/ since[Timer] <= acceptedAt[e.conn] + Delay
              /\ e.due <= Limit(e.conn)
          BY <1>d, <2>1, <2>3 DEF DueInv
        <4>3. /\ Limit(e.conn) \in Nat /\ acceptedAt[e.conn] \in Nat
              /\ acceptedAt[e.conn] + Delay + WaitTime <= Limit(e.conn)
          BY <1>o, <1>k, <1>r, <4>1, LimitFacts
        <4>4. /\ clock <= since[Timer] + Delay /\ since[Timer] \in Nat /\ clock \in Nat
              /\ Delay \in Nat /\ WaitTime \in Nat
          BY <1>a, <1>c, <1>k, ThreadFacts, TimeFacts DEF QueueType, ThreadType, ClockInv
        <4> QED BY <4>1, <4>2, <4>3, <4>4
      <3> QED BY <1>d, <2>1, <2>2, <2>3, <2>4, <3>1 DEF DueInv
    <2>5. CASE pc'[Timer] # "collect"
      <3>1. pc' = pc /\ ~(curSize > 0 /\ timerValue < clock)
        BY <1>8, <1>c, <2>5, ThreadFacts DEF Poll, ThreadType
      <3>2. ASSUME NEW e \in timerQueue PROVE clock <= e.due
        <4>1. Cardinality(timerQueue) # 0 BY <1>g, FS_EmptySet DEF EntryInv
        <4>2. curSize > 0 BY <1>a, <1>t, <4>1 DEF HeadCached, QueueType
        <4>3. timerValue = Min(Dues(timerQueue)) BY <1>t DEF HeadCached
        <4>4. timerValue \in Nat /\ timerValue <= e.due
          BY <1>a, <4>3, HeadFacts DEF QueueType
        <4>5. e.due \in Nat /\ clock \in Nat BY <1>a DEF QueueType, Entries
        <4> QED BY <3>1, <4>2, <4>4, <4>5
      <3> QED BY <1>d, <2>1, <2>2, <2>3, <3>1, <3>2 DEF DueInv
    <2> QED BY <2>4, <2>5
  <1>9. CASE Collect
    <2> DEFINE due == {e \in timerQueue : e.due <= curTime}
               R   == Requeued(due)
    <2>1. /\ idleList' = due /\ timerQueue' = (timerQueue \ due) \cup R
          /\ pc'[Main] = pc[Main] /\ pc'[Timer] = "check" /\ pc[Timer] = "collect"
          /\ UNCHANGED <<conn, curTime, since, timeOutKick, acceptedAt, lastPingTime>>
      BY <1>9, <1>c, ThreadFacts DEF Collect, ThreadType
    <2>2. due \subseteq timerQueue /\ curTime \in Nat BY <1>a DEF QueueType
    <2>3. /\ \A e \in timerQueue \ due : curTime <= e.due
      BY <2>2, <1>a DEF QueueType, Entries
    <2> HIDE DEF due
    <2>4. \A f \in R : /\ f.due = curTime + WaitTime
                       /\ \E e \in due : f.conn = e.conn
      BY <2>2, RequeuedFacts
    <2> HIDE DEF R
    <2>5. \A d : Limit(d)' = Limit(d) BY <2>1 DEF Limit
    <2>6. since[Timer] = curTime /\ idleList = {} BY <1>e, <2>1 DEF PcInv
    <2>7. \A e \in timerQueue' : since[Timer] <= e.due
      BY <2>1, <2>2, <2>3, <2>4, <2>6, TimeFacts
    <2>8. \A e \in timerQueue' : e.due <= Limit(e.conn) \/ \E f \in due : f.conn = e.conn
      BY <1>d, <2>1, <2>4, <2>6 DEF DueInv
    <2>9. \A e \in timerQueue', f \in due : e.conn = f.conn => e.due = curTime + WaitTime
      BY <1>g, <2>1, <2>2, <2>4 DEF EntryInv
    <2>10. \A f \in due : since[Timer] <= Limit(f.conn) + Delay
      BY <1>d, <2>1, <2>2 DEF DueInv
    <2> QED BY <1>d, <2>1, <2>5, <2>7, <2>8, <2>9, <2>10 DEF DueInv
  <1>10. CASE Keep
    <2>1. PICK e \in idleList : /\ ~Alive(e) \/ (~timeOutKick /\ ~Silent(e))
                                /\ idleList' = idleList \ {e}
      BY <1>10 DEF Keep
    <2>2. /\ pc[Timer] = "check"
          /\ UNCHANGED <<timerQueue, pc, conn, curTime, since, timeOutKick, acceptedAt, lastPingTime>>
      BY <1>10 DEF Keep
    <2>3. \A d : Limit(d)' = Limit(d) BY <2>2 DEF Limit
    <2>4. e.conn \in Conns /\ e.sequence = 2 BY <1>a, <1>g DEF QueueType, Entries, EntryInv
    <2>5. ASSUME NEW g \in timerQueue, g.conn = e.conn PROVE g.due <= Limit(g.conn)
      <3>1. g.due = curTime + WaitTime BY <1>d, <2>5 DEF DueInv
      <3>2. Alive(e) BY <1>f, <1>g, <2>4, <2>5 DEF Alive, StageInv, Stage, EntryInv
      <3>3. ~timeOutKick /\ ~(curTime - lastPingTime[e.conn] > KickTime)
        BY <2>1, <3>2 DEF Silent
      <3>4. curTime \in Nat /\ lastPingTime[e.conn] \in Nat
        BY <1>a, <1>b, <2>4 DEF QueueType, ObjectType
      <3>5. curTime + WaitTime <= lastPingTime[e.conn] + KickTime + WaitTime
        BY <3>3, <3>4, TimeFacts
      <3> QED BY <2>5, <3>1, <3>3, <3>5 DEF Limit
    <2> HIDE DEF Limit
    <2>6. \A g \in timerQueue : g.due <= Limit(g.conn) \/ \E f \in idleList' : f.conn = g.conn
      BY <1>d, <2>1, <2>2, <2>5 DEF DueInv
    <2> QED BY <1>d, <2>1, <2>2, <2>3, <2>6 DEF DueInv
  <1>11. CASE Kick
    <2>1. PICK e \in idleList : /\ idleList' = idleList \ {e}
                                /\ conn' = [conn EXCEPT ![Timer] = e.conn]
      BY <1>11 DEF Kick
    <2>2. /\ pc[Timer] = "check" /\ pc'[Timer] = "zd" /\ pc'[Main] = pc[Main]
          /\ conn'[Timer] = e.conn /\ conn'[Main] = conn[Main]
          /\ UNCHANGED <<timerQueue, curTime, since, timeOutKick, acceptedAt, lastPingTime>>
      BY <1>11, <2>1, <1>c, ThreadFacts DEF Kick, ThreadType
    <2>3. \A d : Limit(d)' = Limit(d) BY <2>2 DEF Limit
    <2>4. since[Timer] <= Limit(e.conn) + Delay BY <1>d DEF DueInv
    <2> QED BY <1>d, <2>1, <2>2, <2>3, <2>4 DEF DueInv
  <1>12. CASE EndCheck
    <2>1. /\ pc[Timer] = "check" /\ pc'[Timer] = "idle" /\ pc'[Main] = pc[Main] /\ idleList = {}
          /\ UNCHANGED <<timerQueue, idleList, conn, curTime, since, timeOutKick, acceptedAt, lastPingTime>>
      BY <1>12, <1>c, ThreadFacts DEF EndCheck, ThreadType
    <2>2. \A d : Limit(d)' = Limit(d) BY <2>1 DEF Limit
    <2> QED BY <1>d, <2>1, <2>2 DEF DueInv
  <1>13. CASE DropPing
    BY <1>13, <1>c, <1>q, <1>u, ThreadFacts, TimeFacts DEF Limit, DropPing, ThreadType
  <1>14. CASE TakePing
    BY <1>14, <1>c, <1>q, <1>u, ThreadFacts, TimeFacts DEF Limit, TakePing, Start,
       ThreadType
  <1>15. CASE HandlePing
    <2>1. /\ lastPingTime' = [lastPingTime EXCEPT ![conn[Pool]] = clock]
          /\ pc'[Main] = pc[Main] /\ pc'[Timer] = pc[Timer]
          /\ UNCHANGED <<timerQueue, idleList, curTime, conn, since, acceptedAt, timeOutKick>>
      BY <1>15, <1>c, ThreadFacts DEF HandlePing, ThreadType
    <2>2. \A d \in Conns : /\ lastPingTime'[d] \in Nat /\ lastPingTime[d] \in Nat
                           /\ lastPingTime[d] <= lastPingTime'[d] /\ acceptedAt[d] \in Nat
      <3> TAKE d \in Conns
      <3>1. /\ lastPingTime[d] <= clock /\ clock \in Nat /\ lastPingTime[d] \in Nat
            /\ acceptedAt[d] \in Nat
        BY <1>a, <1>b, <1>k DEF QueueType, ObjectType, ClockInv
      <3>2. lastPingTime'[d] = lastPingTime[d] \/ lastPingTime'[d] = clock
        BY <1>b, <2>1 DEF ObjectType
      <3> QED BY <3>1, <3>2
    <2>3. \A d \in Conns : Limit(d) <= Limit(d)' BY <2>1, <2>2, TimeFacts DEF Limit
    <2> QED BY <1>q, <2>1, <2>3
  <1>16. CASE Tick
    BY <1>16, <1>c, <1>q, <1>u, ThreadFacts, TimeFacts DEF Limit, Tick, ThreadType
  <1>17. CASE UNCHANGED vars
    BY <1>17, <1>c, <1>q, <1>u, ThreadFacts, TimeFacts DEF Limit, vars, ThreadType
  <1> QED BY <1>1, <1>2, <1>3, <1>4, <1>5, <1>6, <1>7, <1>8, <1>9, <1>10, <1>11,
     <1>12, <1>13, <1>14, <1>15, <1>16, <1>17 DEF Next, MainStep, CloseStep,
     TimerStep, PoolStep, Stopped

(* And so does DueInv, if no thread is slower than the silence allowed.    *)
THEOREM Due ==
  ASSUME Delay <= KickTime
  PROVE  Spec => [](IInv /\ DueInv)
  <1>1. Init => IInv /\ DueInv
    BY InitIInv, ThreadFacts, TimeFacts DEF Init, DueInv
  <1>2. IInv /\ DueInv /\ [Next]_vars => IInv' /\ DueInv'
    BY StepIInv, DueStep
  <1> QED BY <1>1, <1>2, PTL DEF Spec

(* Then nobody outlives the check that finds him silent.                   *)
LEMMA ClosedInTime ==
  ASSUME IInv, DueInv, Delay <= KickTime
  PROVE  SilentClosed
  <1>1. ASSUME NEW c \in Conns, place[c] = "use" PROVE clock <= Limit(c) + 3 * Delay
    <2>1. /\ clock \in Nat /\ since[Main] \in Nat /\ Delay \in Nat /\ WaitTime \in Nat
      BY ThreadFacts, TimeFacts DEF IInv, TypeOK
    <2>2. /\ Limit(c) \in Nat /\ acceptedAt[c] \in Nat
          /\ acceptedAt[c] + Delay + WaitTime <= Limit(c)
      BY LimitFacts DEF IInv
    <2>3. CASE pc[Main] = "idle" \/ conn[Main] # c
      <3>1. clock <= Limit(c) + 2 * Delay BY <1>1, <2>3, NotOverdue
      <3> QED BY <2>1, <2>2, <3>1
    <2>4. CASE pc[Main] # "idle" /\ conn[Main] = c
      <3>1. clock <= since[Main] + Delay BY <2>4 DEF IInv, ClockInv
      <3>2. since[Main] = acceptedAt[c] \/ since[Main] <= Limit(c) + 2 * Delay
        BY <2>4 DEF IInv, PcInv, OpenInv, DueInv
      <3> QED BY <2>1, <2>2, <3>1, <3>2
    <2> QED BY <2>3, <2>4
  <1>2. ASSUME NEW c \in Conns
        PROVE  Limit(c) + 3 * Delay = IF timeOutKick THEN acceptedAt[c] + WaitTime + 4 * Delay
                                      ELSE lastPingTime[c] + KickTime + WaitTime + 3 * Delay
    <2>1. /\ acceptedAt[c] \in Nat /\ lastPingTime[c] \in Nat BY DEF IInv, TypeOK
    <2> QED BY <2>1, TimeFacts DEF Limit
  <1> QED BY <1>1, <1>2 DEF SilentClosed

(* A silent client is closed at the first check after KickTime, and if     *)
(* m_ifTimeOutKick is 1 every client at its first check, unless a thread   *)
(* may be slower than KickTime.                                            *)
THEOREM SilentLeaves ==
  ASSUME Delay <= KickTime
  PROVE  Spec => []SilentClosed
  <1>1. IInv /\ DueInv => SilentClosed BY ClosedInTime
  <1> QED BY <1>1, Due, PTL

=============================================================================
