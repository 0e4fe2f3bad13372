------------------------------ MODULE ConnPool ------------------------------
(***************************************************************************)
(* The life of a pool object (qc_connection_s) in one worker process: the  *)
(* epoll thread accepts sockets and hands their events to handlers, and    *)
(* the epoll thread, the timer thread and the threads of the pool may each *)
(* decide, at the same time, to close the same connection.  A closed       *)
(* object waits m_RecyConnectionWaitTime seconds in a recycle list before  *)
(* the recycling thread returns it to the free list: the delay is the only *)
(* thing that keeps a thread which still holds the pointer from acting on  *)
(* the object's next life.                                                 *)
(*                                                                         *)
(* Bytes, packets and the send queue are in SendPath and RecvFraming, the  *)
(* times of the heartbeat queue in TimerQueue.                             *)
(***************************************************************************)
EXTENDS Integers, Sequences, FiniteSets

CONSTANTS
    WorkerConnections,  \* m_worker_connections
    ListenPortCount,    \* m_ListenPortCount
    PoolFactor,         \* the 5 of m_worker_connections * 5
    RecyWait,           \* m_RecyConnectionWaitTime, in seconds
    MaxHold,            \* seconds between the return of epoll_wait and the end
                        \* of the last handler of an event it returned
    KickTimeCount,      \* m_ifkickTimeCount == 1
    TimeOutKick,        \* m_ifTimeOutKick == 1
    Accept4,            \* the kernel implements accept4
    PoolThreads,        \* threads of the pool that runs threadRecvProcFunc
    Fds,                \* descriptors the kernel can give to client sockets
    Conns,              \* bound: addresses of pool objects
    MaxMessages,        \* bound: messages waiting for the pool
    MaxAccepts,         \* bound: sockets accepted in one behaviour
    Horizon             \* bound: no new event after this second

NoFd == -1
NoConn == 0
Main == "main"          \* qc_epoll_process_events
Timer == "timer"        \* ServerTimerQueueMonitorThread
Threads == PoolThreads \cup {Main, Timer}

(* Objects there are for clients: every listening socket keeps one of the  *)
(* objects of initconnection for ever, which is not counted below.         *)
InitialConns == WorkerConnections - ListenPortCount

(* The size up to which the pool grows without a look at the free list.    *)
PoolLimit == WorkerConnections * PoolFactor - ListenPortCount

ASSUME PoolAssumption ==
    /\ WorkerConnections \in Nat \ {0}
    /\ ListenPortCount \in 1 .. WorkerConnections
    /\ PoolFactor \in Nat \ {0}
    /\ Conns = 1 .. (PoolLimit + 2)
    /\ Main \notin PoolThreads /\ Timer \notin PoolThreads

ASSUME TimeAssumption ==
    /\ RecyWait \in Nat /\ MaxHold \in Nat /\ MaxHold < RecyWait
    /\ Horizon \in Nat /\ MaxAccepts \in Nat /\ MaxMessages \in Nat

ASSUME KernelAssumption ==
    /\ Fds \subseteq Nat
    /\ KickTimeCount \in BOOLEAN /\ TimeOutKick \in BOOLEAN /\ Accept4 \in BOOLEAN

VARIABLES
    totalConn,          \* m_connectionList: objects 1 .. totalConn exist,
                        \* and those of the listening sockets
    freeList,           \* m_freeconnectionList
    recyList,           \* m_recyconnectionList, as the set it is kept to be
    totolRecy,          \* m_totol_recyconnection_n
    onlineUserCount,    \* m_onlineUserCount
    sequence,           \* iCurrsequence of each object
    fd,                 \* fd of each object
    inRecyTime,         \* inRecyTime of each object
    openFds,            \* kernel: open client sockets
    epoll,              \* kernel: data.ptr of each registered descriptor
    timerQueue,         \* m_timerQueuemap, without the times
    idleList,           \* m_lsIdleList of the timer thread
    recvQueue,          \* m_MsgRecvQueue of the thread pool
    batch,              \* objects in m_events not handled yet
    batchSince,         \* when epoll_wait returned them
    useAccept4,         \* static use_accept4 of qc_event_accept
    leaked,             \* objects dropped when setnonblocking failed
    pc,                 \* what each thread is doing ...
    conn,               \* ... to which object ...
    local,              \* ... with which descriptor in a local
    since,              \* ... for an event that is how old
    recyPc, recyNow,    \* recycling thread, and its currtime
    clock,              \* time(nullptr)
    accepts             \* sockets accepted so far

listVars   == <<totalConn, freeList, recyList, totolRecy, onlineUserCount, leaked>>
connVars   == <<sequence, fd, inRecyTime>>
kernelVars == <<openFds, epoll>>
queueVars  == <<timerQueue, idleList, recvQueue, batch, batchSince>>
threadVars == <<pc, conn, local, since>>
recyVars   == <<recyPc, recyNow>>
clockVars  == <<clock, accepts>>
vars == <<listVars, connVars, kernelVars, queueVars, threadVars, recyVars,
          useAccept4, clockVars>>

-----------------------------------------------------------------------------
(* The threads that hold a pointer, and since when.                        *)

ClosePcs  == {"zd", "test", "close", "unset", "recycle"}
AcceptPcs == {"accepted", "got", "control", "timer", "count"}

(* A thread in a handler, or in zdClosesocketProc, on behalf of an event.  *)
Holding(t) == pc[t] \in ClosePcs \cup {"stamp", "handle"}

FreeSet == {freeList[i] : i \in DOMAIN freeList}

(* qc_event_accept still has the object for itself.                        *)
Fresh == IF pc[Main] \in {"got", "control", "timer"} THEN {conn[Main]} ELSE {}

(* The objects of admitted connections: in no list and not still fresh.    *)
InUse == (1 .. totalConn) \ (FreeSet \cup recyList \cup Fresh \cup leaked)

Entry(c) == [conn |-> c, sequence |-> sequence[c]]

Message(c, s) == [conn |-> c, sequence |-> sequence[c], since |-> s]

(* close(f): the descriptor is free and leaves the epoll set.              *)
CloseFd(f) ==
    /\ openFds' = openFds \ {f}
    /\ epoll' = [g \in Fds |-> IF g = f THEN NoConn ELSE epoll[g]]

(* Thread t is done with its event, and its locals are gone.               *)
Release(t) ==
    /\ pc' = [pc EXCEPT ![t] = "idle"]
    /\ conn' = [conn EXCEPT ![t] = NoConn]
    /\ local' = [local EXCEPT ![t] = NoFd]
    /\ since' = [since EXCEPT ![t] = 0]

Init ==
    /\ totalConn = InitialConns
    /\ freeList = [i \in 1 .. InitialConns |-> i]
    /\ recyList = {} /\ totolRecy = 0 /\ onlineUserCount = 0 /\ leaked = {}
    /\ sequence = [c \in Conns |-> IF c <= InitialConns THEN 1 ELSE 0]
    /\ fd = [c \in Conns |-> NoFd]
    /\ inRecyTime = [c \in Conns |-> 0]
    /\ openFds = {} /\ epoll = [f \in Fds |-> NoConn]
    /\ timerQueue = {} /\ idleList = {} /\ recvQueue = {}
    /\ batch = {} /\ batchSince = 0
    /\ useAccept4 = TRUE
    /\ pc = [t \in Threads |-> "idle"]
    /\ conn = [t \in Threads |-> NoConn]
    /\ local = [t \in Threads |-> NoFd]
    /\ since = [t \in Threads |-> 0]
    /\ recyPc = "sleep" /\ recyNow = 0
    /\ clock = 0 /\ accepts = 0

-----------------------------------------------------------------------------
(* qc_event_accept, on the epoll thread.                                   *)

(* accept4 returns ENOSYS: fall back to accept and setnonblocking.         *)
AcceptNoSys ==
    /\ pc[Main] = "idle" /\ ~Accept4 /\ useAccept4
    /\ useAccept4' = FALSE
    /\ UNCHANGED <<listVars, connVars, kernelVars, queueVars, threadVars, recyVars, clockVars>>

(* A client is waiting and the kernel gives it the lowest free descriptor. *)
Accept ==
    /\ pc[Main] = "idle" /\ Accept4 = useAccept4 /\ clock <= Horizon
    /\ accepts < MaxAccepts
    /\ \E s \in Fds \ openFds :
          /\ \A f \in Fds \ openFds : s <= f
          /\ openFds' = openFds \cup {s}
          /\ epoll' = [epoll EXCEPT ![s] = NoConn]
          /\ local' = [local EXCEPT ![Main] = s]
    /\ pc' = [pc EXCEPT ![Main] = "accepted"]
    /\ accepts' = accepts + 1
    /\ UNCHANGED <<listVars, connVars, queueVars, conn, since, recyVars, useAccept4, clock>>

(* Mutant: one user too many passes.                                       *)
OneUserTooMany == onlineUserCount > WorkerConnections

TooManyUsers == onlineUserCount >= WorkerConnections
PoolTooLarge == /\ totalConn > PoolLimit
                /\ Len(freeList) < WorkerConnections

(* Mutant: return without close(s).                                        *)
RefuseKeepsFd ==
    /\ pc[Main] = "accepted" /\ (TooManyUsers \/ PoolTooLarge)
    /\ Release(Main)
    /\ UNCHANGED <<listVars, connVars, kernelVars, queueVars, recyVars, useAccept4, clockVars>>

(* close(s) and return: too many users, or the pool has grown too far.     *)
AcceptRefuse ==
    /\ pc[Main] = "accepted" /\ (TooManyUsers \/ PoolTooLarge)
    /\ CloseFd(local[Main])
    /\ Release(Main)
    /\ UNCHANGED <<listVars, connVars, queueVars, recyVars, useAccept4, clockVars>>

(* qc_get_connection: the front of the free list, or a new object.         *)
GetConnection ==
    /\ pc[Main] = "accepted" /\ ~TooManyUsers /\ ~PoolTooLarge
    /\ LET c == IF freeList # <<>> THEN Head(freeList) ELSE totalConn + 1
       IN /\ IF freeList # <<>>
             THEN freeList' = Tail(freeList) /\ UNCHANGED totalConn
             ELSE totalConn' = totalConn + 1 /\ UNCHANGED freeList
          /\ sequence' = [sequence EXCEPT ![c] = @ + 1]
          /\ fd' = [fd EXCEPT ![c] = local[Main]]
          /\ conn' = [conn EXCEPT ![Main] = c]
    /\ pc' = [pc EXCEPT ![Main] = IF useAccept4 THEN "control" ELSE "got"]
    /\ UNCHANGED <<recyList, totolRecy, onlineUserCount, leaked, inRecyTime, kernelVars,
                   queueVars, local, since, recyVars, useAccept4, clockVars>>

(* setnonblocking(s): on failure the handler returns and keeps neither the *)
(* object nor the descriptor.                                              *)
SetNonblocking ==
    /\ pc[Main] = "got"
    /\ \/ /\ pc' = [pc EXCEPT ![Main] = "control"]
          /\ UNCHANGED <<conn, local, since, leaked>>
       \/ /\ Release(Main)
          /\ leaked' = leaked \cup {conn[Main]}
    /\ UNCHANGED <<totalConn, freeList, recyList, totolRecy, onlineUserCount, connVars,
                   kernelVars, queueVars, recyVars, useAccept4, clockVars>>

(* EPOLL_CTL_ADD works if the socket is still open.                        *)
EpollAdd ==
    /\ pc[Main] = "control" /\ local[Main] \in openFds
    /\ epoll' = [epoll EXCEPT ![local[Main]] = conn[Main]]
    /\ pc' = [pc EXCEPT ![Main] = IF KickTimeCount THEN "timer" ELSE "count"]
    /\ UNCHANGED <<listVars, connVars, openFds, queueVars, conn, local, since, recyVars,
                   useAccept4, clockVars>>

(* EPOLL_CTL_ADD fails: qc_close_connection frees the object at once.      *)
EpollAddFails ==
    /\ pc[Main] = "control"
    /\ freeList' = Append(freeList, conn[Main])
    /\ sequence' = [sequence EXCEPT ![conn[Main]] = @ + 1]
    /\ fd' = [fd EXCEPT ![conn[Main]] = NoFd]
    /\ CloseFd(fd[conn[Main]])
    /\ Release(Main)
    /\ UNCHANGED <<totalConn, recyList, totolRecy, onlineUserCount, leaked, inRecyTime,
                   queueVars, recyVars, useAccept4, clockVars>>

AddToTimerQueue ==
    /\ pc[Main] = "timer"
    /\ timerQueue' = timerQueue \cup {Entry(conn[Main])}
    /\ pc' = [pc EXCEPT ![Main] = "count"]
    /\ UNCHANGED <<listVars, connVars, kernelVars, idleList, recvQueue, batch, batchSince,
                   conn, local, since, recyVars, useAccept4, clockVars>>

CountUser ==
    /\ pc[Main] = "count"
    /\ onlineUserCount' = onlineUserCount + 1
    /\ Release(Main)
    /\ UNCHANGED <<totalConn, freeList, recyList, totolRecy, leaked, connVars, kernelVars,
                   queueVars, recyVars, useAccept4, clockVars>>

AcceptStep == \/ AcceptNoSys \/ Accept \/ AcceptRefuse \/ GetConnection \/ SetNonblocking
              \/ EpollAdd \/ EpollAddFails \/ AddToTimerQueue \/ CountUser

-----------------------------------------------------------------------------
(* qc_epoll_process_events and the read handler, on the epoll thread.      *)

(* epoll_wait returns events of registered descriptors, never of none.     *)
EpollWait ==
    /\ pc[Main] = "idle" /\ batch = {} /\ clock <= Horizon
    /\ batch' \in SUBSET {epoll[f] : f \in openFds} \ {{}}
    /\ NoConn \notin batch'
    /\ batchSince' = clock
    /\ UNCHANGED <<listVars, connVars, kernelVars, timerQueue, idleList, recvQueue,
                   threadVars, recyVars, useAccept4, clockVars>>

(* The handler of the next event: no test that the event is still valid.   *)
NextEvent(c) ==
    /\ pc[Main] = "idle" /\ c \in batch
    /\ batch' = batch \ {c}
    /\ batchSince' = IF batch = {c} THEN 0 ELSE batchSince

StartHandler(c, first) ==
    /\ NextEvent(c)
    /\ pc' = [pc EXCEPT ![Main] = first]
    /\ conn' = [conn EXCEPT ![Main] = c]
    /\ since' = [since EXCEPT ![Main] = batchSince]
    /\ UNCHANGED local

(* recv gives part of a packet, or EAGAIN, or a packet TestFlood drops.    *)
ReadPart ==
    /\ \E c \in batch : NextEvent(c)
    /\ UNCHANGED <<listVars, connVars, kernelVars, timerQueue, idleList, recvQueue,
                   threadVars, recyVars, useAccept4, clockVars>>

(* recv completes a packet whose header an earlier event had stamped.      *)
ReadBody ==
    /\ \E c \in batch :
          /\ fd[c] # NoFd /\ Cardinality(recvQueue) < MaxMessages
          /\ NextEvent(c)
          /\ recvQueue' = recvQueue \cup {Message(c, batchSince)}
    /\ UNCHANGED <<listVars, connVars, kernelVars, timerQueue, idleList, threadVars,
                   recyVars, useAccept4, clockVars>>

(* recv completes a header ...                                             *)
ReadHeader ==
    /\ \E c \in batch : fd[c] # NoFd /\ StartHandler(c, "stamp")
    /\ UNCHANGED <<listVars, connVars, kernelVars, timerQueue, idleList, recvQueue,
                   recyVars, useAccept4, clockVars>>

(* ... and proc_p1 then copies iCurrsequence into the message it queues.   *)
StampHeader ==
    /\ pc[Main] = "stamp" /\ Cardinality(recvQueue) < MaxMessages
    /\ recvQueue' = recvQueue \cup {Message(conn[Main], since[Main])}
    /\ Release(Main)
    /\ UNCHANGED <<listVars, connVars, kernelVars, timerQueue, idleList, batch, batchSince,
                   recyVars, useAccept4, clockVars>>

(* recv returns 0 or an error, or the packet makes the flood count.        *)
ReadCloses ==
    /\ \E c \in batch : StartHandler(c, "zd")
    /\ UNCHANGED <<listVars, connVars, kernelVars, timerQueue, idleList, recvQueue,
                   recyVars, useAccept4, clockVars>>

EventStep == EpollWait \/ ReadPart \/ ReadBody \/ ReadHeader \/ StampHeader \/ ReadCloses

-----------------------------------------------------------------------------
(* threadRecvProcFunc, on a pool thread.                                   *)

(* The message is dropped if the sequence of its connection has changed.   *)
DropMessage(t) ==
    /\ pc[t] = "idle"
    /\ \E m \in recvQueue : /\ m.sequence # sequence[m.conn]
                            /\ recvQueue' = recvQueue \ {m}
    /\ UNCHANGED <<listVars, connVars, kernelVars, timerQueue, idleList, batch, batchSince,
                   threadVars, recyVars, useAccept4, clockVars>>

TakeMessage(t) ==
    /\ pc[t] = "idle"
    /\ \E m \in recvQueue : /\ m.sequence = sequence[m.conn]
                            /\ recvQueue' = recvQueue \ {m}
                            /\ conn' = [conn EXCEPT ![t] = m.conn]
                            /\ since' = [since EXCEPT ![t] = m.since]
    /\ pc' = [pc EXCEPT ![t] = "handle"]
    /\ UNCHANGED <<listVars, connVars, kernelVars, timerQueue, idleList, batch, batchSince,
                   local, recyVars, useAccept4, clockVars>>

(* The handler returns, or msgSend finds iSendCount > 400 and closes.      *)
HandleMessage(t) ==
    /\ pc[t] = "handle"
    /\ Release(t)
    /\ UNCHANGED <<listVars, connVars, kernelVars, queueVars, recyVars,
                   useAccept4, clockVars>>

CutOff(t) ==
    /\ pc[t] = "handle"
    /\ pc' = [pc EXCEPT ![t] = "zd"]
    /\ UNCHANGED <<listVars, connVars, kernelVars, queueVars, conn, local, since, recyVars,
                   useAccept4, clockVars>>

PoolStep(t) == DropMessage(t) \/ TakeMessage(t) \/ HandleMessage(t) \/ CutOff(t)

-----------------------------------------------------------------------------
(* ServerTimerQueueMonitorThread.                                          *)

(* All entries found due go to m_lsIdleList; they stay queued, for a later *)
(* time, unless clients are kicked at the first timeout.                   *)
CollectTimeouts ==
    /\ pc[Timer] = "idle" /\ idleList = {} /\ clock <= Horizon
    /\ idleList' \in SUBSET timerQueue \ {{}}
    /\ timerQueue' = IF TimeOutKick THEN timerQueue \ idleList' ELSE timerQueue
    /\ UNCHANGED <<listVars, connVars, kernelVars, recvQueue, batch, batchSince, threadVars,
                   recyVars, useAccept4, clockVars>>

(* procPingTimeOutChecking: the connection is gone, or has pinged in time. *)
KeepClient ==
    /\ pc[Timer] = "idle"
    /\ \E e \in idleList : /\ e.sequence # sequence[e.conn] \/ ~TimeOutKick
                           /\ idleList' = idleList \ {e}
    /\ UNCHANGED <<listVars, connVars, kernelVars, timerQueue, recvQueue, batch, batchSince,
                   threadVars, recyVars, useAccept4, clockVars>>

KickClient ==
    /\ pc[Timer] = "idle"
    /\ \E e \in idleList : /\ e.sequence = sequence[e.conn]
                           /\ idleList' = idleList \ {e}
                           /\ conn' = [conn EXCEPT ![Timer] = e.conn]
    /\ pc' = [pc EXCEPT ![Timer] = "zd"]
    /\ since' = [since EXCEPT ![Timer] = clock]
    /\ UNCHANGED <<listVars, connVars, kernelVars, timerQueue, recvQueue, batch, batchSince,
                   local, recyVars, useAccept4, clockVars>>

TimerStep == CollectTimeouts \/ KeepClient \/ KickClient

-----------------------------------------------------------------------------
(* zdClosesocketProc(conn[t]), by any thread t but the recycling one.      *)

(* Mutant: DeleteFromTimerQueue is not called.                             *)
ZdKeepsTimer(t) ==
    /\ pc[t] = "zd"
    /\ pc' = [pc EXCEPT ![t] = "test"]
    /\ UNCHANGED <<listVars, connVars, kernelVars, queueVars, conn, local, since, recyVars,
                   useAccept4, clockVars>>

ZdDeleteTimer(t) ==
    /\ pc[t] = "zd"
    /\ timerQueue' = IF KickTimeCount THEN {e \in timerQueue : e.conn # conn[t]}
                     ELSE timerQueue
    /\ pc' = [pc EXCEPT ![t] = "test"]
    /\ UNCHANGED <<listVars, connVars, kernelVars, idleList, recvQueue, batch, batchSince,
                   conn, local, since, recyVars, useAccept4, clockVars>>

(* Mutant: the test of fd is the wrong way round.                          *)
ZdTestInverted(t) ==
    /\ pc[t] = "test"
    /\ local' = [local EXCEPT ![t] = fd[conn[t]]]
    /\ pc' = [pc EXCEPT ![t] = IF fd[conn[t]] = NoFd THEN "close" ELSE "recycle"]
    /\ UNCHANGED <<listVars, connVars, kernelVars, queueVars, conn, since, recyVars,
                   useAccept4, clockVars>>

ZdTestFd(t) ==
    /\ pc[t] = "test"
    /\ local' = [local EXCEPT ![t] = fd[conn[t]]]
    /\ pc' = [pc EXCEPT ![t] = IF fd[conn[t]] = NoFd THEN "recycle" ELSE "close"]
    /\ UNCHANGED <<listVars, connVars, kernelVars, queueVars, conn, since, recyVars,
                   useAccept4, clockVars>>

(* fd is a plain int shared by threads: close may use the value just       *)
(* tested or load it again.                                                *)
ZdCloseFd(t) ==
    /\ pc[t] = "close"
    /\ \E f \in {local[t], fd[conn[t]]} : CloseFd(f)
    /\ pc' = [pc EXCEPT ![t] = "unset"]
    /\ UNCHANGED <<listVars, connVars, queueVars, conn, local, since, recyVars,
                   useAccept4, clockVars>>

ZdUnsetFd(t) ==
    /\ pc[t] = "unset"
    /\ fd' = [fd EXCEPT ![conn[t]] = NoFd]
    /\ local' = [local EXCEPT ![t] = NoFd]
    /\ pc' = [pc EXCEPT ![t] = "recycle"]
    /\ UNCHANGED <<listVars, sequence, inRecyTime, kernelVars, queueVars, conn, since, recyVars,
                   useAccept4, clockVars>>

(* Mutant: an object that is in the list already is put there again.       *)
RecycleTwice(t) ==
    /\ pc[t] = "recycle" /\ recyPc # "scan"
    /\ inRecyTime' = [inRecyTime EXCEPT ![conn[t]] = clock]
    /\ sequence' = [sequence EXCEPT ![conn[t]] = @ + 1]
    /\ recyList' = recyList \cup {conn[t]}
    /\ totolRecy' = totolRecy + 1
    /\ onlineUserCount' = onlineUserCount - 1
    /\ Release(t)
    /\ UNCHANGED <<totalConn, freeList, leaked, fd, kernelVars, queueVars, recyVars,
                   useAccept4, clockVars>>

(* inRecyConnectQueue, under m_recyconnqueueMutex.                         *)
InRecyConnectQueue(t) ==
    /\ pc[t] = "recycle" /\ recyPc # "scan"
    /\ IF conn[t] \in recyList
       THEN UNCHANGED <<listVars, connVars>>
       ELSE /\ inRecyTime' = [inRecyTime EXCEPT ![conn[t]] = clock]
            /\ sequence' = [sequence EXCEPT ![conn[t]] = @ + 1]
            /\ recyList' = recyList \cup {conn[t]}
            /\ totolRecy' = totolRecy + 1
            /\ onlineUserCount' = onlineUserCount - 1
            /\ UNCHANGED <<totalConn, freeList, leaked, fd>>
    /\ Release(t)
    /\ UNCHANGED <<kernelVars, queueVars, recyVars, useAccept4, clockVars>>

CloseStep(t) == \/ ZdDeleteTimer(t) \/ ZdTestFd(t) \/ ZdCloseFd(t) \/ ZdUnsetFd(t)
                \/ InRecyConnectQueue(t)

-----------------------------------------------------------------------------
(* ServerRecyConnectionThread.                                             *)

(* Mutant: the thread does not wake for a single object.                   *)
WakesForTwo ==
    /\ recyPc = "sleep" /\ totolRecy > 1
    /\ recyNow' = clock
    /\ recyPc' = "lock"
    /\ UNCHANGED <<listVars, connVars, kernelVars, queueVars, threadVars, useAccept4, clockVars>>

(* The count is read without the mutex, and currtime before taking it.     *)
RecyWake ==
    /\ recyPc = "sleep" /\ totolRecy > 0
    /\ recyNow' = clock
    /\ recyPc' = "lock"
    /\ UNCHANGED <<listVars, connVars, kernelVars, queueVars, threadVars, useAccept4, clockVars>>

RecyLock ==
    /\ recyPc = "lock"
    /\ recyPc' = "scan"
    /\ UNCHANGED <<listVars, connVars, kernelVars, queueVars, threadVars, recyNow,
                   useAccept4, clockVars>>

(* Mutant: objects are freed without waiting.                              *)
DueAtOnce(c) == inRecyTime[c] <= recyNow

Due(c) == inRecyTime[c] + RecyWait <= recyNow

(* Mutant: the wrong counter goes down.                                    *)
CountsTotalDown ==
    /\ recyPc = "scan"
    /\ \E c \in recyList :
          /\ Due(c)
          /\ recyList' = recyList \ {c}
          /\ sequence' = [sequence EXCEPT ![c] = @ + 1]
          /\ freeList' = Append(freeList, c)
    /\ totalConn' = totalConn - 1
    /\ UNCHANGED <<totolRecy, onlineUserCount, leaked, fd, inRecyTime, kernelVars, queueVars,
                   threadVars, recyVars, useAccept4, clockVars>>

(* Erase one due object and free it; then the scan starts again.           *)
FreeConnection ==
    /\ recyPc = "scan"
    /\ \E c \in recyList :
          /\ Due(c)
          /\ recyList' = recyList \ {c}
          /\ sequence' = [sequence EXCEPT ![c] = @ + 1]
          /\ freeList' = Append(freeList, c)
    /\ totolRecy' = totolRecy - 1
    /\ UNCHANGED <<totalConn, onlineUserCount, leaked, fd, inRecyTime, kernelVars, queueVars,
                   threadVars, recyVars, useAccept4, clockVars>>

RecyUnlock ==
    /\ recyPc = "scan" /\ \A c \in recyList : ~Due(c)
    /\ recyPc' = "sleep" /\ recyNow' = 0
    /\ UNCHANGED <<listVars, connVars, kernelVars, queueVars, threadVars, useAccept4, clockVars>>

RecyStep == RecyWake \/ RecyLock \/ FreeConnection \/ RecyUnlock

-----------------------------------------------------------------------------
(* A second passes.  No event is more than MaxHold seconds old when its    *)
(* last handler returns.                                                   *)
EndOfTime == Horizon + MaxHold + RecyWait

Tick ==
    /\ clock < EndOfTime
    /\ \A t \in Threads : Holding(t) => clock < since[t] + MaxHold
    /\ \A m \in recvQueue : clock < m.since + MaxHold
    /\ batch # {} => clock < batchSince + MaxHold
    /\ clock' = clock + 1
    /\ UNCHANGED <<listVars, connVars, kernelVars, queueVars, threadVars, recyVars, useAccept4,
                   accepts>>

(* The bounds stop the model where the program would wait for events.      *)
Stopped ==
    /\ clock = EndOfTime /\ recyPc = "sleep" /\ totolRecy = 0 /\ batch = {} /\ recvQueue = {}
    /\ idleList = {} /\ \A t \in Threads : pc[t] = "idle"
    /\ UNCHANGED vars

Next == \/ AcceptStep \/ EventStep \/ TimerStep \/ RecyStep \/ Tick \/ Stopped
        \/ \E t \in PoolThreads : PoolStep(t)
        \/ \E t \in Threads : CloseStep(t)

Spec == Init /\ [][Next]_vars

-----------------------------------------------------------------------------
(* Properties.                                                             *)

TypeOK ==
    /\ totalConn \in Nat
    /\ freeList \in Seq(Conns)
    /\ recyList \subseteq 1 .. totalConn /\ leaked \subseteq 1 .. totalConn
    /\ totolRecy \in Int /\ onlineUserCount \in Int
    /\ sequence \in [Conns -> Nat]
    /\ fd \in [Conns -> Fds \cup {NoFd}]
    /\ inRecyTime \in [Conns -> Nat]
    /\ openFds \subseteq Fds
    /\ epoll \in [Fds -> Conns \cup {NoConn}]
    /\ timerQueue \subseteq [conn : Conns, sequence : Nat]
    /\ idleList \subseteq [conn : Conns, sequence : Nat]
    /\ recvQueue \subseteq [conn : Conns, sequence : Nat, since : Nat]
    /\ batch \subseteq Conns /\ batchSince \in Nat
    /\ useAccept4 \in BOOLEAN
    /\ pc \in [Threads -> {"idle", "stamp", "handle"} \cup ClosePcs \cup AcceptPcs]
    /\ conn \in [Threads -> Conns \cup {NoConn}]
    /\ local \in [Threads -> Fds \cup {NoFd}]
    /\ since \in [Threads -> Nat]
    /\ recyPc \in {"sleep", "lock", "scan"} /\ recyNow \in Nat
    /\ clock \in Nat /\ accepts \in Nat

(* Every object is in one place: at most once in the free list, never in   *)
(* the free list and the recycle list together, and one that accept still  *)
(* owns is in neither, whoever closes what and how often.                  *)
OnePlace ==
    /\ \A i, j \in DOMAIN freeList : freeList[i] = freeList[j] => i = j
    /\ FreeSet \cap recyList = {}
    /\ Fresh \cap (FreeSet \cup recyList) = {}
    /\ leaked \cap (FreeSet \cup recyList \cup Fresh) = {}

(* A thread that got a pointer from an event, a message or a timer entry,  *)
(* and an event still to be handled, never see the object recycled under   *)
(* them: it is in use, or still waits in the recycle list.                 *)
HeldNotReused ==
    /\ \A t \in Threads : Holding(t) => conn[t] \in InUse \cup recyList
    /\ batch \subseteq InUse \cup recyList

(* m_onlineUserCount counts the admitted connections exactly, however many *)
(* threads close the same one; the last step of accept is still to come    *)
(* when pc[Main] = "count".                                                *)
OnlineExact ==
    onlineUserCount =
        Cardinality(InUse) - (IF pc[Main] = "count" THEN 1 ELSE 0)

(* No more than m_worker_connections users, and no more than five times    *)
(* that many objects and one, although the test of qc_event_accept reads   *)
(* counters the other threads are changing.                                *)
PoolBounded ==
    /\ Cardinality(InUse) <= WorkerConnections
    /\ totalConn + ListenPortCount <= WorkerConnections * PoolFactor + 1

(* The heartbeat queue only ever names connections of the current life:    *)
(* nothing is left behind in it for the next owner of the object.          *)
TimerEntriesLive ==
    \A e \in timerQueue : e.sequence = sequence[e.conn] /\ e.conn \in InUse

(* The pointer epoll_wait will return for a socket is the object that owns *)
(* the socket, and that object has been neither recycled nor freed.        *)
RegisteredInUse ==
    \A f \in Fds : epoll[f] # NoConn =>
        /\ f \in openFds /\ fd[epoll[f]] = f
        /\ epoll[f] \in InUse \/ (pc[Main] = "timer" /\ epoll[f] = conn[Main])

(* No client socket is forgotten: an open descriptor is the fd of an       *)
(* object that is in use or the one accept works on.                       *)
NoFdLeak ==
    \A f \in openFds :
        \/ \E c \in InUse \cup leaked : fd[c] = f
        \/ pc[Main] \in AcceptPcs /\ local[Main] = f

-----------------------------------------------------------------------------
(* The inductive invariant behind these properties.                        *)

(* Lists name existing objects only.                                       *)
ListInv == FreeSet \cup Fresh \subseteq 1 .. totalConn

(* Whoever holds an object got it before it was recycled, and not long ago.*)
HoldInv ==
    \A t \in Threads : Holding(t) =>
        /\ conn[t] \in InUse \cup recyList
        /\ since[t] <= clock /\ clock <= since[t] + MaxHold
        /\ conn[t] \in recyList => since[t] <= inRecyTime[conn[t]]

BatchInv ==
    \A c \in batch :
        /\ c \in InUse \cup recyList
        /\ batchSince <= clock /\ clock <= batchSince + MaxHold
        /\ c \in recyList => batchSince <= inRecyTime[c]

(* A message whose sequence is current may be of an object in the recycle  *)
(* list: it was stamped after the object went there.                       *)
MessageInv ==
    \A m \in recvQueue :
        /\ m.sequence <= sequence[m.conn]
        /\ m.since <= clock /\ clock <= m.since + MaxHold
        /\ m.sequence = sequence[m.conn] =>
              /\ m.conn \in InUse \cup recyList
              /\ m.conn \in recyList => m.since <= inRecyTime[m.conn]

IdleInv ==
    \A e \in idleList :
        /\ e.sequence <= sequence[e.conn]
        /\ e.sequence = sequence[e.conn] => e.conn \in InUse

(* What zdClosesocketProc has already undone when it gets so far.          *)
CloseInv ==
    /\ ~KickTimeCount => timerQueue = {}
    /\ \A t \in Threads :
          /\ pc[t] \in ClosePcs \ {"zd"} => \A e \in timerQueue : e.conn # conn[t]
          /\ pc[t] = "close" => local[t] # NoFd /\ fd[conn[t]] \in {local[t], NoFd}
          /\ pc[t] \in {"unset", "recycle"} => \A f \in Fds : epoll[f] # conn[t]
          /\ pc[t] = "recycle" => fd[conn[t]] = NoFd

AcceptInv ==
    /\ pc[Main] = "accepted" => local[Main] \in Fds
    /\ pc[Main] \in {"got", "control", "timer"} =>
          /\ local[Main] \in Fds
          /\ fd[conn[Main]] = local[Main]
    /\ pc[Main] \in {"got", "control"} => \A f \in Fds : epoll[f] # conn[Main]
    /\ pc[Main] = "timer" => KickTimeCount

TimeInv == recyNow <= clock

(* The user that accept works on has been counted in.                      *)
UserInv == Cardinality(InUse \cup Fresh) <= WorkerConnections

(* An open descriptor has an owner that nobody is about to clear.          *)
OwnerInv ==
    \A f \in openFds :
        \/ \E c \in InUse \cup Fresh \cup leaked :
              fd[c] = f /\ \A t \in Threads : pc[t] = "unset" => conn[t] # c
        \/ pc[Main] = "accepted" /\ local[Main] = f

IndInv ==
    /\ TypeOK /\ ListInv /\ OnePlace /\ HoldInv /\ BatchInv /\ MessageInv
    /\ IdleInv /\ CloseInv /\ AcceptInv /\ TimeInv /\ TimerEntriesLive
    /\ RegisteredInUse /\ OnlineExact /\ UserInv /\ PoolBounded /\ OwnerInv

-----------------------------------------------------------------------------
(* Fairness: the threads run, time passes, and a thread waiting for        *)
(* m_recyconnqueueMutex gets it, since its holder sleeps 200 ms a round.   *)
Fairness ==
    /\ WF_vars(Tick) /\ WF_vars(RecyStep)
    /\ \A t \in Threads : WF_vars(CloseStep(t)) /\ SF_vars(InRecyConnectQueue(t))
    /\ \A t \in PoolThreads : WF_vars(PoolStep(t))
    /\ WF_vars(pc[Main] # "idle" /\ (AcceptStep \/ StampHeader))
    /\ WF_vars(\E c \in batch : NextEvent(c) /\ EventStep)
    /\ WF_vars(KeepClient \/ KickClient)

FairSpec == Spec /\ Fairness

(* An object whose waiting time ends before the model does goes back to    *)
(* the free list: the recycling thread forgets none.                       *)
Recycled ==
    \A c \in Conns :
        (c \in recyList /\ inRecyTime[c] + RecyWait <= EndOfTime) ~> (c \in FreeSet)

(* What threadRecvProcFunc says of its sequence test: the message of a     *)
(* client that has disconnected is dropped.                                *)
ClosedMessagesDropped ==
    [][\A t \in PoolThreads : pc[t] = "idle" /\ pc'[t] = "handle"
                                 => conn'[t] \notin recyList]_vars

=============================================================================
