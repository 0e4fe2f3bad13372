-------------------------- MODULE ThreadPoolProofs --------------------------
(***************************************************************************)
(* Proofs about ThreadPool, for any finite set of threads and any set of   *)
(* messages: types, that no wake-up is lost, and that the pool implements  *)
(* WorkQueue.  The heart is QueueInv: a thread that has found the queue    *)
(* empty keeps m_pthreadMutex until it waits, so the queue is still empty  *)
(* when it does.                                                           *)
(***************************************************************************)
EXTENDS ThreadPool, FiniteSetTheorems, TLAPS

(* Who is between lock and unlock has the mutex.                           *)
MutexInv == \A w \in Workers : pc[w] \in {"test", "enter", "decide"} <=> mutex = w

(* m_shutdown goes up once, and StopAll ends when all threads have.        *)
MainInv ==
    /\ shutdown <=> main \in {"broadcast", "join", "stopped", "end"}
    /\ main \in {"stopped", "end"} => \A w \in Workers : pc[w] = "exited"

(* What a thread has seen under the mutex still holds.                     *)
QueueInv ==
    \A w \in Workers : /\ pc[w] = "enter" => queue = <<>>
                       /\ pc[w] = "decide" => queue # <<>> \/ shutdown

(* A message is in the queue once, or one thread handles it, or it is done.*)
MessageInv ==
    /\ \A i \in 1..Len(queue) : queue[i] \in submitted \ started
    /\ \A i, j \in 1..Len(queue) : queue[i] = queue[j] => i = j
    /\ \A w \in Workers : pc[w] = "run" => job[w] \in started \ finished
    /\ \A w, v \in Workers : pc[w] = "run" /\ pc[v] = "run" /\ job[w] = job[v] => w = v
    /\ \A m \in started \ finished : \E w \in Workers : pc[w] = "run" /\ job[w] = m

IInv == TypeOK /\ MutexInv /\ MainInv /\ QueueInv /\ MessageInv /\ NoIdleWorker

-----------------------------------------------------------------------------
(* Counting the threads that are awake.                                    *)

LEMMA AwakeFinite == IsFiniteSet(Awake) /\ Cardinality(Awake) \in Nat
  <1>1. IsFiniteSet(Workers) /\ Awake \subseteq Workers
    BY ThreadPoolAssumption DEF Awake
  <1>2. IsFiniteSet(Awake)
    BY <1>1, FS_Subset
  <1> QED BY <1>2, FS_CardinalityType

LEMMA OneWakes ==
  ASSUME NEW w \in Workers, w \notin Awake, Awake' = Awake \cup {w}
  PROVE  Cardinality(Awake') = Cardinality(Awake) + 1
  <1> DEFINE A == Awake
  <1>1. IsFiniteSet(A) /\ w \notin A /\ Awake' = A \cup {w}
    BY AwakeFinite
  <1> HIDE DEF A
  <1>2. Cardinality(A \cup {w}) = Cardinality(A) + 1
    BY <1>1, FS_AddElement
  <1> QED BY <1>1, <1>2 DEF A

LEMMA OneLeaves ==
  ASSUME NEW w \in Awake, Awake' = Awake \ {w}
  PROVE  Cardinality(Awake') = Cardinality(Awake) - 1
  <1> DEFINE A == Awake
  <1>1. IsFiniteSet(A) /\ w \in A /\ Awake' = A \ {w}
    BY AwakeFinite
  <1> HIDE DEF A
  <1>2. Cardinality(A \ {w}) = Cardinality(A) - 1
    BY <1>1, FS_RemoveElement
  <1> QED BY <1>1, <1>2 DEF A

-----------------------------------------------------------------------------
(* Steps of main.                                                          *)

LEMMA CreatePreserves == ASSUME IInv, NEW w \in Workers, CreateThread(w) PROVE IInv'
  <1>1. /\ pc[w] = "new" /\ pc'[w] = "lock" /\ DOMAIN pc = Workers
        /\ \A v \in Workers : v # w => pc'[v] = pc[v]
        /\ UNCHANGED <<main, mutex, ifrunning, queue, job, shutdown, submitted, started, finished>>
        /\ main = "create"
    BY DEF IInv, TypeOK, CreateThread, Goto
  <1>2. TypeOK'
    BY DEF IInv, TypeOK, CreateThread, Goto
  <1>3. MutexInv' /\ MainInv' /\ QueueInv'
    BY <1>1 DEF IInv, MutexInv, MainInv, QueueInv
  <1>4. MessageInv'
    BY <1>1 DEF IInv, MessageInv
  <1>5. NoIdleWorker'
    <2>1. w \notin Awake /\ Awake' = Awake \cup {w} /\ Waiting' = Waiting
      BY <1>1 DEF Awake, Waiting
    <2>2. Cardinality(Awake') = Cardinality(Awake) + 1
      BY <2>1, OneWakes
    <2>3. Len(queue) \in Nat /\ Cardinality(Awake) \in Nat
      BY AwakeFinite DEF IInv, TypeOK
    <2> QED BY <1>1, <2>1, <2>2, <2>3 DEF IInv, NoIdleWorker
  <1> QED BY <1>2, <1>3, <1>4, <1>5 DEF IInv

LEMMA PushPreserves == ASSUME IInv, Push PROVE IInv'
  <1>1. PICK m \in Messages \ submitted : queue' = Append(queue, m) /\ submitted' = submitted \cup {m}
    BY DEF Push
  <1>2. /\ main = "loop" /\ main' = "signal" /\ mutex = NoThread
        /\ UNCHANGED <<pc, mutex, ifrunning, job, shutdown, started, finished>>
    BY DEF Push
  <1>3. /\ queue \in Seq(Messages) /\ Len(queue) \in Nat
        /\ queue' \in Seq(Messages) /\ Len(queue') = Len(queue) + 1
        /\ queue'[Len(queue) + 1] = m /\ \A i \in 1..Len(queue) : queue'[i] = queue[i]
    BY <1>1 DEF IInv, TypeOK
  <1>4. TypeOK'
    BY <1>1, <1>2, <1>3 DEF IInv, TypeOK
  <1>5. MutexInv' /\ MainInv'
    BY <1>2 DEF IInv, MutexInv, MainInv
  <1>6. QueueInv'
    BY <1>2, <1>3, ThreadPoolAssumption DEF IInv, MutexInv, QueueInv
  <1>7. MessageInv'
    <2>1. m \notin submitted /\ m \notin started /\ started \subseteq submitted
      BY <1>1 DEF IInv, TypeOK
    <2>2. \A i \in 1..Len(queue') : queue'[i] \in submitted' \ started'
      BY <1>1, <1>2, <1>3, <2>1 DEF IInv, MessageInv
    <2>3. \A i, j \in 1..Len(queue') : queue'[i] = queue'[j] => i = j
      BY <1>3, <2>1 DEF IInv, MessageInv
    <2> QED BY <1>2, <2>2, <2>3 DEF IInv, MessageInv
  <1>8. NoIdleWorker'
    <2>1. Awake' = Awake /\ Waiting' = Waiting /\ Cardinality(Awake) \in Nat
      BY <1>2, AwakeFinite DEF Awake, Waiting
    <2> QED BY <1>2, <1>3, <2>1 DEF IInv, NoIdleWorker
  <1> QED BY <1>4, <1>5, <1>6, <1>7, <1>8 DEF IInv

LEMMA CallPreserves == ASSUME IInv, Call PROVE IInv'
  <1>1. /\ main = "signal" /\ main' = "loop"
        /\ UNCHANGED <<mutex, ifrunning, queue, job, shutdown, submitted, started, finished>>
    BY DEF Call
  <1>2. CASE Waiting = {}
    <2>1. pc' = pc
      BY <1>2 DEF Call
    <2>2. TypeOK' /\ MutexInv' /\ MainInv' /\ QueueInv' /\ MessageInv'
      BY <1>1, <2>1 DEF IInv, TypeOK, MutexInv, MainInv, QueueInv, MessageInv
    <2>3. NoIdleWorker'
      BY <1>2, <2>1 DEF NoIdleWorker, Waiting
    <2> QED BY <2>2, <2>3 DEF IInv
  <1>3. ASSUME NEW w \in Waiting, Goto(w, "woken") PROVE IInv'
    <2>1. /\ w \in Workers /\ pc[w] = "wait" /\ pc'[w] = "woken" /\ DOMAIN pc = Workers
          /\ \A v \in Workers : v # w => pc'[v] = pc[v]
      BY <1>3 DEF IInv, TypeOK, Goto, Waiting
    <2>2. TypeOK'
      BY <1>1, <1>3 DEF IInv, TypeOK, Goto
    <2>3. MutexInv' /\ MainInv' /\ QueueInv'
      BY <1>1, <2>1 DEF IInv, MutexInv, MainInv, QueueInv
    <2>4. MessageInv'
      BY <1>1, <2>1 DEF IInv, MessageInv
    <2>5. NoIdleWorker'
      <3>1. w \notin Awake /\ Awake' = Awake \cup {w}
        BY <2>1 DEF Awake
      <3>2. Cardinality(Awake') = Cardinality(Awake) + 1
        BY <2>1, <3>1, OneWakes
      <3>3. Len(queue) \in Nat /\ Cardinality(Awake) \in Nat /\ Waiting # {}
        BY <1>3, AwakeFinite DEF IInv, TypeOK
      <3> QED BY <1>1, <3>2, <3>3 DEF IInv, NoIdleWorker
    <2> QED BY <2>2, <2>3, <2>4, <2>5 DEF IInv
  <1> QED BY <1>2, <1>3 DEF Call

(* From Create to the loop, and the steps of StopAll.                      *)
LEMMA StopPreserves ==
  ASSUME IInv, CreateReturns \/ SetShutdown \/ Broadcast \/ Join PROVE IInv'
  <1>1. CASE CreateReturns
    <2>1. TypeOK' /\ MutexInv' /\ MainInv' /\ QueueInv' /\ MessageInv'
      BY <1>1 DEF CreateReturns, IInv, TypeOK, MutexInv, MainInv, QueueInv, MessageInv
    <2>2. NoIdleWorker'
      BY <1>1 DEF CreateReturns, IInv, NoIdleWorker, Awake, Waiting
    <2> QED BY <2>1, <2>2 DEF IInv
  <1>2. CASE SetShutdown
    <2>1. TypeOK' /\ MutexInv' /\ MainInv' /\ QueueInv' /\ MessageInv'
      BY <1>2 DEF SetShutdown, IInv, TypeOK, MutexInv, MainInv, QueueInv, MessageInv
    <2>2. NoIdleWorker'
      BY <1>2 DEF SetShutdown, NoIdleWorker
    <2> QED BY <2>1, <2>2 DEF IInv
  <1>3. CASE Broadcast
    <2>1. \A w \in Workers : pc'[w] = IF pc[w] = "wait" THEN "woken" ELSE pc[w]
      BY <1>3 DEF Broadcast
    <2>2. TypeOK'
      BY <1>3 DEF Broadcast, IInv, TypeOK
    <2>3. MutexInv' /\ MainInv' /\ QueueInv'
      BY <1>3, <2>1 DEF Broadcast, IInv, MutexInv, MainInv, QueueInv
    <2>4. MessageInv'
      <3>1. \A w \in Workers : pc'[w] = "run" <=> pc[w] = "run"
        BY <2>1
      <3> QED BY <1>3, <3>1 DEF Broadcast, IInv, MessageInv
    <2>5. NoIdleWorker'
      BY <1>3 DEF Broadcast, IInv, MainInv, NoIdleWorker
    <2> QED BY <2>2, <2>3, <2>4, <2>5 DEF IInv
  <1>4. CASE Join
    <2>1. TypeOK' /\ MutexInv' /\ MainInv' /\ QueueInv' /\ MessageInv'
      BY <1>4 DEF Join, IInv, TypeOK, MutexInv, MainInv, QueueInv, MessageInv
    <2>2. NoIdleWorker'
      BY <1>4 DEF Join, IInv, MainInv, NoIdleWorker
    <2> QED BY <2>1, <2>2 DEF IInv
  <1> QED BY <1>1, <1>2, <1>3, <1>4

LEMMA ClearPreserves == ASSUME IInv, ClearMsgRecvQueue PROVE IInv'
  <1>1. /\ main = "stopped" /\ main' = "end" /\ queue' = <<>> /\ shutdown
        /\ UNCHANGED <<pc, mutex, ifrunning, job, shutdown, submitted, started, finished>>
    BY DEF ClearMsgRecvQueue, IInv, MainInv
  <1>2. TypeOK' /\ MutexInv' /\ MainInv' /\ QueueInv'
    BY <1>1 DEF IInv, TypeOK, MutexInv, MainInv, QueueInv
  <1>3. MessageInv'
    <2>1. \A i \in 1..Len(queue') : FALSE
      BY <1>1
    <2> QED BY <1>1, <2>1 DEF IInv, MessageInv
  <1>4. NoIdleWorker'
    BY <1>1 DEF NoIdleWorker
  <1> QED BY <1>2, <1>3, <1>4 DEF IInv

-----------------------------------------------------------------------------
(* Steps of a thread of the pool.                                          *)

(* What any step of thread w does to the program counters.                 *)
LEMMA OnlyOneMoves ==
  ASSUME IInv, NEW w \in Workers, NEW label, Goto(w, label)
  PROVE  pc'[w] = label /\ DOMAIN pc = Workers /\ \A v \in Workers : v # w => pc'[v] = pc[v]
  BY DEF IInv, TypeOK, Goto

LEMMA LockPreserves == ASSUME IInv, NEW w \in Workers, Lock(w) PROVE IInv'
  <1>1. /\ pc[w] \in {"lock", "woken"} /\ mutex = NoThread /\ mutex' = w /\ Goto(w, "test")
        /\ UNCHANGED <<main, ifrunning, queue, job, shutdown, submitted, started, finished>>
    BY DEF Lock
  <1>2. pc'[w] = "test" /\ \A v \in Workers : v # w => pc'[v] = pc[v]
    BY <1>1, OnlyOneMoves
  <1>3. TypeOK'
    BY <1>1 DEF IInv, TypeOK, Goto
  <1>4. MutexInv' /\ MainInv' /\ QueueInv'
    BY <1>1, <1>2, ThreadPoolAssumption DEF IInv, MutexInv, MainInv, QueueInv
  <1>5. MessageInv'
    BY <1>1, <1>2 DEF IInv, MessageInv
  <1>6. Awake' = Awake /\ Waiting' = Waiting
    BY <1>1, <1>2 DEF Awake, Waiting
  <1>7. NoIdleWorker'
    BY <1>1, <1>6 DEF IInv, NoIdleWorker
  <1> QED BY <1>3, <1>4, <1>5, <1>7 DEF IInv

LEMMA FindEmptyPreserves == ASSUME IInv, NEW w \in Workers, FindEmpty(w) PROVE IInv'
  <1>1. /\ pc[w] = "test" /\ queue = <<>> /\ ~shutdown /\ Goto(w, "enter")
        /\ ifrunning' = ifrunning \cup {w}
        /\ UNCHANGED <<main, mutex, queue, job, shutdown, submitted, started, finished>>
    BY DEF FindEmpty
  <1>2. pc'[w] = "enter" /\ \A v \in Workers : v # w => pc'[v] = pc[v]
    BY <1>1, OnlyOneMoves
  <1>3. TypeOK'
    BY <1>1 DEF IInv, TypeOK, Goto
  <1>4. MutexInv' /\ MainInv' /\ QueueInv'
    BY <1>1, <1>2 DEF IInv, MutexInv, MainInv, QueueInv
  <1>5. MessageInv'
    BY <1>1, <1>2 DEF IInv, MessageInv
  <1>6. NoIdleWorker'
    <2>1. Awake' = Awake \ {w} /\ w \in Awake
      BY <1>1, <1>2 DEF Awake
    <2>2. Cardinality(Awake') = Cardinality(Awake) - 1 /\ Cardinality(Awake) \in Nat
      BY <2>1, OneLeaves, AwakeFinite
    <2>3. Cardinality(Awake) # 0
      BY <2>1, AwakeFinite, FS_EmptySet
    <2> QED BY <1>1, <2>2, <2>3 DEF NoIdleWorker
  <1> QED BY <1>3, <1>4, <1>5, <1>6 DEF IInv

(* The queue is still empty when the thread waits.                         *)
LEMMA WaitPreserves == ASSUME IInv, NEW w \in Workers, Wait(w) PROVE IInv'
  <1>1. /\ pc[w] = "enter" /\ mutex' = NoThread /\ Goto(w, "wait")
        /\ UNCHANGED <<main, ifrunning, queue, job, shutdown, submitted, started, finished>>
    BY DEF Wait
  <1>2. pc'[w] = "wait" /\ \A v \in Workers : v # w => pc'[v] = pc[v]
    BY <1>1, OnlyOneMoves
  <1>3. TypeOK'
    BY <1>1 DEF IInv, TypeOK, Goto
  <1>4. MutexInv' /\ MainInv' /\ QueueInv'
    BY <1>1, <1>2, ThreadPoolAssumption DEF IInv, MutexInv, MainInv, QueueInv
  <1>5. MessageInv'
    BY <1>1, <1>2 DEF IInv, MessageInv
  <1>6. NoIdleWorker'
    <2>1. Len(queue) = 0 /\ queue' = queue
      BY <1>1 DEF IInv, QueueInv
    <2>2. Awake' = Awake /\ Cardinality(Awake) \in Nat
      BY <1>1, <1>2, AwakeFinite DEF Awake
    <2> QED BY <2>1, <2>2 DEF NoIdleWorker
  <1> QED BY <1>3, <1>4, <1>5, <1>6 DEF IInv

LEMMA SpuriousWakePreserves == ASSUME IInv, NEW w \in Workers, SpuriousWake(w) PROVE IInv'
  <1>1. /\ pc[w] = "wait" /\ Goto(w, "woken")
        /\ UNCHANGED <<main, mutex, ifrunning, queue, job, shutdown, submitted, started, finished>>
    BY DEF SpuriousWake
  <1>2. pc'[w] = "woken" /\ \A v \in Workers : v # w => pc'[v] = pc[v]
    BY <1>1, OnlyOneMoves
  <1>3. TypeOK'
    BY <1>1 DEF IInv, TypeOK, Goto
  <1>4. MutexInv' /\ MainInv' /\ QueueInv'
    BY <1>1, <1>2 DEF IInv, MutexInv, MainInv, QueueInv
  <1>5. MessageInv'
    BY <1>1, <1>2 DEF IInv, MessageInv
  <1>6. NoIdleWorker'
    <2>1. w \notin Awake /\ Awake' = Awake \cup {w} /\ w \in Waiting
      BY <1>1, <1>2 DEF Awake, Waiting
    <2>2. Cardinality(Awake') = Cardinality(Awake) + 1
      BY <2>1, OneWakes
    <2>3. Len(queue) \in Nat /\ Cardinality(Awake) \in Nat
      BY AwakeFinite DEF IInv, TypeOK
    <2> QED BY <1>1, <2>1, <2>2, <2>3 DEF IInv, NoIdleWorker
  <1> QED BY <1>3, <1>4, <1>5, <1>6 DEF IInv

LEMMA LeaveLoopPreserves == ASSUME IInv, NEW w \in Workers, LeaveLoop(w) PROVE IInv'
  <1>1. /\ pc[w] = "test" /\ (queue # <<>> \/ shutdown) /\ Goto(w, "decide")
        /\ UNCHANGED <<main, mutex, ifrunning, queue, job, shutdown, submitted, started, finished>>
    BY DEF LeaveLoop
  <1>2. pc'[w] = "decide" /\ \A v \in Workers : v # w => pc'[v] = pc[v]
    BY <1>1, OnlyOneMoves
  <1>3. TypeOK'
    BY <1>1 DEF IInv, TypeOK, Goto
  <1>4. MutexInv' /\ MainInv' /\ QueueInv'
    BY <1>1, <1>2 DEF IInv, MutexInv, MainInv, QueueInv
  <1>5. MessageInv'
    BY <1>1, <1>2 DEF IInv, MessageInv
  <1>6. Awake' = Awake /\ Waiting' = Waiting
    BY <1>1, <1>2 DEF Awake, Waiting
  <1>7. NoIdleWorker'
    BY <1>1, <1>6 DEF IInv, NoIdleWorker
  <1> QED BY <1>3, <1>4, <1>5, <1>7 DEF IInv

LEMMA ExitPreserves == ASSUME IInv, NEW w \in Workers, Exit(w) PROVE IInv'
  <1>1. /\ pc[w] = "decide" /\ shutdown /\ mutex' = NoThread /\ Goto(w, "exited")
        /\ UNCHANGED <<main, ifrunning, queue, job, shutdown, submitted, started, finished>>
    BY DEF Exit
  <1>2. pc'[w] = "exited" /\ \A v \in Workers : v # w => pc'[v] = pc[v]
    BY <1>1, OnlyOneMoves
  <1>3. TypeOK'
    BY <1>1 DEF IInv, TypeOK, Goto
  <1>4. MutexInv' /\ MainInv' /\ QueueInv'
    BY <1>1, <1>2, ThreadPoolAssumption DEF IInv, MutexInv, MainInv, QueueInv
  <1>5. MessageInv'
    BY <1>1, <1>2 DEF IInv, MessageInv
  <1>6. NoIdleWorker'
    BY <1>1 DEF NoIdleWorker
  <1> QED BY <1>3, <1>4, <1>5, <1>6 DEF IInv

(* What is left when the first message of the queue is taken out.          *)
LEMMA TailOfQueue ==
  ASSUME IInv, queue # <<>>
  PROVE  /\ Tail(queue) \in Seq(Messages) /\ Head(queue) = queue[1] /\ Head(queue) \in Messages
         /\ Len(queue) \in Nat /\ Len(queue) >= 1 /\ Len(Tail(queue)) = Len(queue) - 1
         /\ \A i \in 1..Len(Tail(queue)) : Tail(queue)[i] = queue[i + 1]
  BY DEF IInv, TypeOK

LEMMA TakePreserves == ASSUME IInv, NEW w \in Workers, Take(w) PROVE IInv'
  <1>1. /\ pc[w] = "decide" /\ ~shutdown /\ mutex' = NoThread /\ Goto(w, "run")
        /\ job' = [job EXCEPT ![w] = Head(queue)] /\ started' = started \cup {Head(queue)}
        /\ queue' = Tail(queue)
        /\ UNCHANGED <<main, ifrunning, shutdown, submitted, finished>>
    BY DEF Take
  <1>2. pc'[w] = "run" /\ \A v \in Workers : v # w => pc'[v] = pc[v]
    BY <1>1, OnlyOneMoves
  <1>3. queue # <<>>
    BY <1>1 DEF IInv, QueueInv
  <1>4. /\ queue' \in Seq(Messages) /\ Head(queue) = queue[1] /\ Head(queue) \in Messages
        /\ Len(queue) \in Nat /\ Len(queue) >= 1 /\ Len(queue') = Len(queue) - 1
        /\ \A i \in 1..Len(queue') : queue'[i] = queue[i + 1]
    BY <1>1, <1>3, TailOfQueue
  <1>5. Head(queue) \in submitted \ started
    BY <1>4 DEF IInv, MessageInv
  <1>6. job'[w] = Head(queue) /\ \A v \in Workers : v # w => job'[v] = job[v]
    BY <1>1 DEF IInv, TypeOK
  <1>7. TypeOK'
    BY <1>1, <1>4, <1>5 DEF IInv, TypeOK, Goto
  <1>8. MutexInv' /\ MainInv' /\ QueueInv'
    <2>1. \A v \in Workers : v # w => pc[v] \notin {"test", "enter", "decide"}
      BY <1>1 DEF IInv, MutexInv
    <2> QED BY <1>1, <1>2, <2>1, ThreadPoolAssumption DEF IInv, MutexInv, MainInv, QueueInv
  <1>9. MessageInv'
    <2>1. \A i \in 1..Len(queue') : /\ i + 1 \in 1..Len(queue) /\ 1 \in 1..Len(queue) /\ i + 1 # 1
                                    /\ queue'[i] = queue[i + 1]
      BY <1>4
    <2>2. \A i \in 1..Len(queue') : queue'[i] \in submitted' \ started'
      <3> SUFFICES ASSUME NEW i \in 1..Len(queue') PROVE queue'[i] \in submitted' \ started'
        OBVIOUS
      <3>1. queue[i + 1] # queue[1] /\ queue[i + 1] \in submitted \ started
        BY <2>1 DEF IInv, MessageInv
      <3> QED BY <1>1, <1>4, <2>1, <3>1
    <2>3. \A i, j \in 1..Len(queue') : queue'[i] = queue'[j] => i = j
      BY <1>4, <2>1 DEF IInv, MessageInv
    <2>4. \A v \in Workers : pc'[v] = "run" => job'[v] \in started' \ finished'
      BY <1>1, <1>2, <1>5, <1>6 DEF IInv, TypeOK, MessageInv
    <2>5. \A v \in Workers : v # w /\ pc'[v] = "run" => job'[v] # job'[w]
      BY <1>2, <1>5, <1>6 DEF IInv, MessageInv
    <2>6. \A u, v \in Workers : pc'[u] = "run" /\ pc'[v] = "run" /\ job'[u] = job'[v] => u = v
      BY <1>2, <1>6, <2>5 DEF IInv, MessageInv
    <2>7. \A m \in started' \ finished' : \E v \in Workers : pc'[v] = "run" /\ job'[v] = m
      <3> SUFFICES ASSUME NEW m \in started' \ finished'
                   PROVE  \E v \in Workers : pc'[v] = "run" /\ job'[v] = m
        OBVIOUS
      <3>1. CASE m = Head(queue)
        BY <1>2, <1>6, <3>1
      <3>2. CASE m # Head(queue)
        <4>1. PICK v \in Workers : pc[v] = "run" /\ job[v] = m
          BY <1>1, <3>2 DEF IInv, MessageInv
        <4> QED BY <1>1, <1>2, <1>6, <4>1
      <3> QED BY <3>1, <3>2
    <2> QED BY <2>2, <2>3, <2>4, <2>6, <2>7 DEF MessageInv
  <1>10. NoIdleWorker'
    <2>1. Awake' = Awake \ {w} /\ w \in Awake /\ Waiting' = Waiting
      BY <1>1, <1>2 DEF Awake, Waiting
    <2>2. Cardinality(Awake') = Cardinality(Awake) - 1 /\ Cardinality(Awake) \in Nat
      BY <2>1, OneLeaves, AwakeFinite
    <2> QED BY <1>1, <1>4, <2>1, <2>2 DEF IInv, NoIdleWorker
  <1> QED BY <1>7, <1>8, <1>9, <1>10 DEF IInv

LEMMA FinishPreserves == ASSUME IInv, NEW w \in Workers, Finish(w) PROVE IInv'
  <1>1. /\ pc[w] = "run" /\ Goto(w, "lock") /\ job' = [job EXCEPT ![w] = NoMessage]
        /\ finished' = finished \cup {job[w]}
        /\ UNCHANGED <<main, mutex, ifrunning, queue, shutdown, submitted, started>>
    BY DEF Finish
  <1>2. pc'[w] = "lock" /\ \A v \in Workers : v # w => pc'[v] = pc[v]
    BY <1>1, OnlyOneMoves
  <1>3. \A v \in Workers : v # w => job'[v] = job[v]
    BY <1>1 DEF IInv, TypeOK
  <1>4. job[w] \in started
    BY <1>1 DEF IInv, MessageInv
  <1>5. TypeOK'
    BY <1>1, <1>4 DEF IInv, TypeOK, Goto
  <1>6. MutexInv' /\ MainInv' /\ QueueInv'
    BY <1>1, <1>2 DEF IInv, MutexInv, MainInv, QueueInv
  <1>7. MessageInv'
    <2>1. \A v \in Workers : pc'[v] = "run" =>
             v # w /\ pc[v] = "run" /\ job'[v] = job[v] /\ job[v] # job[w]
      BY <1>1, <1>2, <1>3 DEF IInv, MessageInv
    <2>2. \A v \in Workers : pc'[v] = "run" => job'[v] \in started' \ finished'
      BY <1>1, <2>1 DEF IInv, MessageInv
    <2>3. \A u, v \in Workers : pc'[u] = "run" /\ pc'[v] = "run" /\ job'[u] = job'[v] => u = v
      BY <2>1 DEF IInv, MessageInv
    <2>4. \A m \in started' \ finished' : \E v \in Workers : pc'[v] = "run" /\ job'[v] = m
      <3> SUFFICES ASSUME NEW m \in started' \ finished'
                   PROVE  \E v \in Workers : pc'[v] = "run" /\ job'[v] = m
        OBVIOUS
      <3>1. PICK v \in Workers : pc[v] = "run" /\ job[v] = m
        BY <1>1 DEF IInv, MessageInv
      <3>2. v # w
        BY <1>1, <3>1
      <3> QED BY <1>2, <1>3, <3>1, <3>2
    <2> QED BY <1>1, <2>2, <2>3, <2>4 DEF IInv, MessageInv
  <1>8. NoIdleWorker'
    <2>1. w \notin Awake /\ Awake' = Awake \cup {w} /\ Waiting' = Waiting
      BY <1>1, <1>2 DEF Awake, Waiting
    <2>2. Cardinality(Awake') = Cardinality(Awake) + 1
      BY <2>1, OneWakes
    <2>3. Len(queue) \in Nat /\ Cardinality(Awake) \in Nat
      BY AwakeFinite DEF IInv, TypeOK
    <2> QED BY <1>1, <2>1, <2>2, <2>3 DEF IInv, NoIdleWorker
  <1> QED BY <1>5, <1>6, <1>7, <1>8 DEF IInv

-----------------------------------------------------------------------------
(* The invariant.                                                          *)

LEMMA InitEstablishes == ASSUME Init PROVE IInv
  <1>1. TypeOK
    <2>1. <<>> \in Seq(Messages)
      OBVIOUS
    <2>2. pc \in [Workers -> {"new", "lock", "test", "enter", "wait", "woken", "decide", "run",
                             "exited"}]
      BY DEF Init
    <2>3. job \in [Workers -> Messages \cup {NoMessage}]
      BY DEF Init
    <2> QED BY <2>1, <2>2, <2>3 DEF Init, TypeOK
  <1>2. MutexInv /\ MainInv /\ QueueInv
    BY ThreadPoolAssumption DEF Init, MutexInv, MainInv, QueueInv
  <1>3. MessageInv
    <2>1. \A i \in 1..Len(queue) : FALSE
      BY DEF Init
    <2> QED BY <2>1 DEF Init, MessageInv
  <1>4. NoIdleWorker
    BY DEF Init, NoIdleWorker, Waiting
  <1> QED BY <1>1, <1>2, <1>3, <1>4 DEF IInv

LEMMA NextPreserves == ASSUME IInv, [Next]_vars PROVE IInv'
  <1>1. CASE MainStep
    BY <1>1, CreatePreserves, PushPreserves, CallPreserves, StopPreserves, ClearPreserves
       DEF MainStep
  <1>2. ASSUME NEW w \in Workers, WorkerStep(w) \/ SpuriousWake(w) PROVE IInv'
    BY <1>2, LockPreserves, FindEmptyPreserves, WaitPreserves, SpuriousWakePreserves,
       LeaveLoopPreserves, ExitPreserves, TakePreserves, FinishPreserves
       DEF WorkerStep
  <1>3. CASE UNCHANGED vars
    <2>1. Awake' = Awake /\ Waiting' = Waiting
      BY <1>3 DEF vars, Awake, Waiting
    <2>2. TypeOK' /\ MutexInv' /\ MainInv' /\ QueueInv' /\ MessageInv'
      BY <1>3 DEF vars, IInv, TypeOK, MutexInv, MainInv, QueueInv, MessageInv
    <2>3. NoIdleWorker'
      BY <1>3, <2>1 DEF vars, IInv, NoIdleWorker
    <2> QED BY <2>2, <2>3 DEF IInv
  <1> QED BY <1>1, <1>2, <1>3 DEF Next, Ended

(* The invariant that the results below follow from.                       *)
THEOREM PoolInvariance == Spec => []IInv
  <1>1. Init => IInv
    BY InitEstablishes
  <1>2. IInv /\ [Next]_vars => IInv'
    BY NextPreserves
  <1> QED BY <1>1, <1>2, PTL DEF Spec

(* The state of CThreadPool keeps its types.                               *)
THEOREM PoolTypeCorrect == Spec => []TypeOK
  <1>1. IInv => TypeOK
    BY DEF IInv
  <1> QED BY <1>1, PoolInvariance, PTL

(* No wake-up is lost, however many threads and messages there are: Call   *)
(* signals outside the mutex, spurious wake-ups included.                  *)
THEOREM NoIdleWorkerHolds == Spec => []NoIdleWorker
  <1>1. IInv => NoIdleWorker
    BY DEF IInv
  <1> QED BY <1>1, PoolInvariance, PTL

-----------------------------------------------------------------------------
(* The refinement.                                                         *)

LEMMA InitImplements == ASSUME Init PROVE Abstract!Init
  BY DEF Init, Abstract!Init

LEMMA PushImplements == ASSUME IInv, Push PROVE \E m \in Messages : Abstract!Submit(m)
  <1>1. PICK m \in Messages \ submitted : queue' = Append(queue, m)
    BY DEF Push
  <1>2. main = "loop" /\ main' = "signal" /\ UNCHANGED <<started, finished>>
    BY DEF Push
  <1>3. m \notin started
    BY <1>1 DEF IInv, TypeOK
  <1>4. \A i \in DOMAIN queue : queue[i] # m
    BY <1>1 DEF IInv, TypeOK, MessageInv
  <1> QED BY <1>1, <1>2, <1>3, <1>4 DEF Abstract!Submit

(* All threads have exited when the queue is cleared, so none handles one. *)
LEMMA ClearImplements == ASSUME IInv, ClearMsgRecvQueue PROVE Abstract!Close
  <1>1. \A w \in Workers : pc[w] # "run"
    BY DEF IInv, MainInv, ClearMsgRecvQueue
  <1>2. started = finished
    <2>1. finished \subseteq started /\ started \ finished = {}
      BY <1>1 DEF IInv, TypeOK, MessageInv
    <2> QED BY <2>1
  <1> QED BY <1>2 DEF ClearMsgRecvQueue, Abstract!Close

LEMMA OtherMainSteps ==
  ASSUME (\E w \in Workers : CreateThread(w)) \/ CreateReturns \/ Call \/ SetShutdown
         \/ Broadcast \/ Join
  PROVE  UNCHANGED <<queue, started, finished, main # "end">>
  BY DEF CreateThread, CreateReturns, Call, SetShutdown, Broadcast, Join

(* A thread that takes or finishes a message has not exited: main has not  *)
(* come to the end.                                                        *)
LEMMA TakeImplements == ASSUME IInv, NEW w \in Workers, Take(w) PROVE Abstract!Start
  <1>1. queue # <<>> /\ main # "end"
    BY DEF IInv, QueueInv, MainInv, Take
  <1> QED BY <1>1 DEF Take, Abstract!Start

LEMMA FinishImplements ==
  ASSUME IInv, NEW w \in Workers, Finish(w) PROVE \E m \in Messages : Abstract!Finish(m)
  <1>1. job[w] \in started \ finished /\ job[w] \in Messages /\ main # "end"
    BY DEF IInv, TypeOK, MessageInv, MainInv, Finish
  <1>2. Abstract!Finish(job[w])
    BY <1>1 DEF Finish, Abstract!Finish
  <1> QED BY <1>1, <1>2

LEMMA OtherWorkerSteps ==
  ASSUME NEW w \in Workers,
         Lock(w) \/ FindEmpty(w) \/ Wait(w) \/ LeaveLoop(w) \/ Exit(w) \/ SpuriousWake(w)
  PROVE  UNCHANGED <<queue, started, finished, main # "end">>
  BY DEF Lock, FindEmpty, Wait, LeaveLoop, Exit, SpuriousWake

LEMMA NextImplements ==
  ASSUME IInv, [Next]_vars PROVE [Abstract!Next]_<<queue, started, finished, main # "end">>
  <1>1. CASE MainStep
    <2>1. CASE Push
      BY <2>1, PushImplements DEF Abstract!Next
    <2>2. CASE ClearMsgRecvQueue
      BY <2>2, ClearImplements DEF Abstract!Next
    <2> QED BY <1>1, <2>1, <2>2, OtherMainSteps DEF MainStep
  <1>2. ASSUME NEW w \in Workers, WorkerStep(w) \/ SpuriousWake(w)
        PROVE  [Abstract!Next]_<<queue, started, finished, main # "end">>
    <2>1. CASE Take(w)
      BY <2>1, TakeImplements DEF Abstract!Next
    <2>2. CASE Finish(w)
      BY <2>2, FinishImplements DEF Abstract!Next
    <2> QED BY <1>2, <2>1, <2>2, OtherWorkerSteps DEF WorkerStep
  <1>3. CASE UNCHANGED vars
    BY <1>3 DEF vars
  <1> QED BY <1>1, <1>2, <1>3 DEF Next, Ended

(* Whatever the threads do with the mutex, the condition variable and      *)
(* m_shutdown, the pool is the queue of WorkQueue: each message is started *)
(* once, in order, and StopAll throws messages away only when no thread    *)
(* handles one.                                                            *)
THEOREM PoolImplementsWorkQueue == Spec => ImplementsWorkQueue
  <1>1. Init => Abstract!Init
    BY InitImplements
  <1>2. IInv /\ [Next]_vars => [Abstract!Next]_<<queue, started, finished, main # "end">>
    BY NextImplements
  <1> QED BY <1>1, <1>2, PoolInvariance, PTL DEF Spec, ImplementsWorkQueue, Abstract!Spec
=============================================================================
