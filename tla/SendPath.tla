------------------------------ MODULE SendPath ------------------------------
(***************************************************************************)
(* How a reply leaves a worker.  A thread of the pool puts it in           *)
(* m_MsgSendQueue (msgSend) and posts a semaphore; ServerSendQueueThread   *)
(* takes it out and writes to the socket.  What the socket does not accept *)
(* is left to the epoll thread, which sends the rest when epoll reports    *)
(* EPOLLOUT (qc_write_request_handler).  iThrowsendCount > 0 tells the     *)
(* send thread to keep its hands off the connection meanwhile: no mutex    *)
(* guards psendMemPointer, psendbuf and isendlen, only this counter, which *)
(* zdClosesocketProc and the epoll thread lower too.                       *)
(*                                                                         *)
(* A packet is PacketLen units of bytes; closing and recycling are those   *)
(* of ConnPool in fewer steps.  m_iSendMsgQueueCount is Len(sendQueue):    *)
(* they change together under m_sendMessageQueueMutex, and the send thread *)
(* reads the counter after a sem_post that follows both changes.           *)
(***************************************************************************)
EXTENDS Integers, Sequences, FiniteSets

CONSTANTS
    Conns,          \* pool objects
    PoolThreads,    \* threads of the pool that runs threadRecvProcFunc
    PacketLen,      \* units in a packet
    Room,           \* units the socket buffer holds
    QueueLimit,     \* the 50000 of msgSend
    SendLimit,      \* the 400 of msgSend
    KickTimeCount,  \* m_ifkickTimeCount == 1
    MaxBuffers,     \* bound: packets queued in one behaviour
    MaxLives        \* bound: times an object is handed out

NoBuf == 0
NoConn == "none"
NoThread == "free"
Main == "main"      \* qc_epoll_process_events
Timer == "timer"    \* ServerTimerQueueMonitorThread
Send == "send"      \* ServerSendQueueThread
Closers == PoolThreads \cup {Main, Timer}
Threads == Closers \cup {Send}
Again == -1         \* sendproc: EAGAIN
Failed == -2        \* sendproc: 0, or an error

ASSUME SendAssumption ==
    /\ PacketLen \in Nat \ {0} /\ Room \in Nat \ {0}
    /\ QueueLimit \in Nat /\ SendLimit \in Nat
    /\ MaxBuffers \in Nat /\ MaxLives \in Nat
    /\ KickTimeCount \in BOOLEAN
    /\ PoolThreads \cap {Main, Timer, Send, NoThread} = {} /\ NoConn \notin Conns

Buffers == 1 .. MaxBuffers

VARIABLES
    sendQueue,          \* m_MsgSendQueue
    sem,                \* m_semEventSendQueue
    mutex,              \* who holds m_sendMessageQueueMutex
    buf,                \* message header of each buffer queued so far
    allocated,          \* buffers not freed yet
    place,              \* list the object is in
    sequence,           \* iCurrsequence
    connected,          \* fd # -1
    epollOut,           \* EPOLLOUT \in events
    iThrowsendCount, iSendCount, psendMemPointer, isendlen,
    pc, conn, request,  \* each thread: where, with which object, whose request
    after,              \* where the epoll thread goes after a handler
    pos,                \* send thread: place in the scan
    room,               \* kernel: free units of the socket buffer
    peer,               \* client: "there", or "gone" (closed or half-closed)
    wire,               \* units sent in this life of the object
    unmarked,           \* objects whose iThrowsendCount an EPOLLRDHUP lowered, or,
                        \* over unsent bytes, a closer that did not hold the
                        \* mutex over an object in use
    lives               \* times each object was handed out

queueVars  == <<sendQueue, sem, mutex, buf, allocated>>
objectVars == <<place, sequence, connected, epollOut, iThrowsendCount, iSendCount,
                psendMemPointer, isendlen>>
threadVars == <<pc, conn, request, after, pos>>
socketVars == <<room, peer, wire>>
boundVars  == <<unmarked, lives>>
vars == <<queueVars, objectVars, threadVars, socketVars, boundVars>>

Queued == {sendQueue[i] : i \in DOMAIN sendQueue}
Erase(i) == SubSeq(sendQueue, 1, i - 1) \o SubSeq(sendQueue, i + 1, Len(sendQueue))
Goto(t, label) == pc' = [pc EXCEPT ![t] = label]
Held(c) == \E t \in Threads : pc[t] \notin {"idle", "scan"} /\ conn[t] = c

Init ==
    /\ sendQueue = <<>> /\ sem = 0 /\ mutex = NoThread
    /\ buf = <<>> /\ allocated = {}
    /\ place = [c \in Conns |-> "free"]
    /\ sequence = [c \in Conns |-> 1]
    /\ connected = [c \in Conns |-> FALSE]
    /\ epollOut = [c \in Conns |-> FALSE]
    /\ iThrowsendCount = [c \in Conns |-> 0]
    /\ iSendCount = [c \in Conns |-> 0]
    /\ psendMemPointer = [c \in Conns |-> NoBuf]
    /\ isendlen = [c \in Conns |-> 0]
    /\ pc = [t \in Threads |-> "idle"]
    /\ conn = [t \in Threads |-> NoConn]
    /\ request = [t \in PoolThreads |-> 0]
    /\ after = "idle" /\ pos = 1
    /\ room = [c \in Conns |-> Room]
    /\ peer = [c \in Conns |-> "there"]
    /\ wire = [c \in Conns |-> <<>>]
    /\ unmarked = {}
    /\ lives = [c \in Conns |-> 0]

-----------------------------------------------------------------------------
(* The client and the life of the object.                                  *)

(* qc_event_accept gets the object (GetOneToUse) and registers the socket. *)
AcceptConn(c) ==
    /\ place[c] = "free" /\ lives[c] < MaxLives
    /\ place' = [place EXCEPT ![c] = "use"]
    /\ sequence' = [sequence EXCEPT ![c] = @ + 1]
    /\ connected' = [connected EXCEPT ![c] = TRUE]
    /\ epollOut' = [epollOut EXCEPT ![c] = FALSE]
    /\ iThrowsendCount' = [iThrowsendCount EXCEPT ![c] = 0]
    /\ iSendCount' = [iSendCount EXCEPT ![c] = 0]
    /\ psendMemPointer' = [psendMemPointer EXCEPT ![c] = NoBuf]
    /\ room' = [room EXCEPT ![c] = Room]
    /\ peer' = [peer EXCEPT ![c] = "there"]
    /\ wire' = [wire EXCEPT ![c] = <<>>]
    /\ lives' = [lives EXCEPT ![c] = @ + 1]
    /\ UNCHANGED <<queueVars, isendlen, threadVars, unmarked>>

(* ServerRecyConnectionThread frees the object (PutOneToFree) when nobody  *)
(* holds it any more: HeldNotReused of ConnPool.                           *)
FreeConnection(c) ==
    /\ place[c] = "recycle" /\ ~Held(c)
    /\ place' = [place EXCEPT ![c] = "free"]
    /\ sequence' = [sequence EXCEPT ![c] = @ + 1]
    /\ allocated' = allocated \ {psendMemPointer[c]}
    /\ psendMemPointer' = [psendMemPointer EXCEPT ![c] = NoBuf]
    /\ iThrowsendCount' = [iThrowsendCount EXCEPT ![c] = 0]
    /\ UNCHANGED <<sendQueue, sem, mutex, buf, connected, epollOut, iSendCount, isendlen,
                   threadVars, socketVars, boundVars>>

ClientReads(c) ==
    /\ connected[c] /\ room[c] < Room
    /\ room' = [room EXCEPT ![c] = @ + 1]
    /\ UNCHANGED <<queueVars, objectVars, threadVars, peer, wire, boundVars>>

ClientLeaves(c) ==
    /\ connected[c] /\ peer[c] = "there"
    /\ peer' = [peer EXCEPT ![c] = "gone"]
    /\ UNCHANGED <<queueVars, objectVars, threadVars, room, wire, boundVars>>

-----------------------------------------------------------------------------
(* msgSend, on a thread of the pool, which holds the object of a request.  *)

Request(t) ==
    /\ pc[t] = "idle"
    /\ Len(buf) + Cardinality({u \in PoolThreads : pc[u] = "reply"}) < MaxBuffers
    /\ \E c \in Conns : /\ place[c] # "free"
                        /\ conn' = [conn EXCEPT ![t] = c]
                        /\ request' = [request EXCEPT ![t] = sequence[c]]
    /\ Goto(t, "reply")
    /\ UNCHANGED <<queueVars, objectVars, after, pos, socketVars, boundVars>>

TooManyQueued == Len(sendQueue) > QueueLimit
TooSlow(c) == iSendCount[c] > SendLimit

MsgDiscard(t) ==
    /\ pc[t] = "reply" /\ mutex = NoThread /\ TooManyQueued
    /\ Goto(t, "idle")
    /\ UNCHANGED <<queueVars, objectVars, conn, request, after, pos, socketVars, boundVars>>

MsgSend(t) ==
    /\ pc[t] = "reply" /\ mutex = NoThread /\ ~TooManyQueued /\ ~TooSlow(conn[t])
    /\ LET b == Len(buf) + 1
       IN /\ buf' = Append(buf, [conn |-> conn[t], sequence |-> request[t]])
          /\ allocated' = allocated \cup {b}
          /\ sendQueue' = Append(sendQueue, b)
    /\ iSendCount' = [iSendCount EXCEPT ![conn[t]] = @ + 1]
    /\ sem' = sem + 1
    /\ Goto(t, "idle")
    /\ UNCHANGED <<mutex, place, sequence, connected, epollOut, iThrowsendCount,
                   psendMemPointer, isendlen, conn, request, after, pos, socketVars, boundVars>>

(* The client does not read: it is cut off, with the mutex still held.     *)
MsgCutOff(t) ==
    /\ pc[t] = "reply" /\ mutex = NoThread /\ ~TooManyQueued /\ TooSlow(conn[t])
    /\ mutex' = t
    /\ Goto(t, "zd")
    /\ UNCHANGED <<sendQueue, sem, buf, allocated, objectVars, conn, request, after, pos,
                   socketVars, boundVars>>

PoolStep(t) == Request(t) \/ MsgDiscard(t) \/ MsgSend(t) \/ MsgCutOff(t)

-----------------------------------------------------------------------------
(* zdClosesocketProc(conn[t]).                                             *)

(* DeleteFromTimerQueue, close and fd = -1: ConnPool has their steps.      *)
ZdClose(t) ==
    /\ pc[t] = "zd"
    /\ connected' = [connected EXCEPT ![conn[t]] = FALSE]
    /\ Goto(t, "test")
    /\ UNCHANGED <<queueVars, place, sequence, epollOut, iThrowsendCount, iSendCount,
                   psendMemPointer, isendlen, conn, request, after, pos, socketVars, boundVars>>

(* if (iThrowsendCount > 0) --iThrowsendCount: two accesses, not one.      *)
ZdTestThrow(t) ==
    /\ pc[t] = "test"
    /\ Goto(t, IF iThrowsendCount[conn[t]] > 0 THEN "lower" ELSE "recycle")
    /\ UNCHANGED <<queueVars, objectVars, conn, request, after, pos, socketVars, boundVars>>

Lower(c) == iThrowsendCount' = [iThrowsendCount EXCEPT ![c] = @ - 1]

ZdLowerThrow(t) ==
    /\ pc[t] = "lower"
    /\ Lower(conn[t])
    /\ unmarked' = IF psendMemPointer[conn[t]] # NoBuf /\ ~(mutex = t /\ place[conn[t]] = "use")
                   THEN unmarked \cup {conn[t]} ELSE unmarked
    /\ Goto(t, "recycle")
    /\ UNCHANGED <<queueVars, place, sequence, connected, epollOut, iSendCount,
                   psendMemPointer, isendlen, conn, request, after, pos, socketVars, lives>>

(* inRecyConnectQueue; msgSend then releases its mutex, and the epoll      *)
(* thread goes on to the EPOLLOUT half of the same event.                  *)
InRecyConnectQueue(t) ==
    /\ pc[t] = "recycle"
    /\ IF place[conn[t]] = "use"
       THEN /\ place' = [place EXCEPT ![conn[t]] = "recycle"]
            /\ sequence' = [sequence EXCEPT ![conn[t]] = @ + 1]
       ELSE UNCHANGED <<place, sequence>>
    /\ mutex' = IF mutex = t THEN NoThread ELSE mutex
    /\ Goto(t, IF t = Main THEN after ELSE "idle")
    /\ UNCHANGED <<sendQueue, sem, buf, allocated, connected, epollOut, iThrowsendCount,
                   iSendCount, psendMemPointer, isendlen, conn, request, after, pos,
                   socketVars, boundVars>>

CloseStep(t) == \/ ZdClose(t) \/ ZdTestThrow(t) \/ ZdLowerThrow(t) \/ InRecyConnectQueue(t)

(* procPingTimeOutChecking kicks a client.                                 *)
KickClient ==
    /\ KickTimeCount /\ pc[Timer] = "idle"
    /\ \E c \in Conns : place[c] = "use" /\ conn' = [conn EXCEPT ![Timer] = c]
    /\ Goto(Timer, "zd")
    /\ UNCHANGED <<queueVars, objectVars, request, after, pos, socketVars, boundVars>>

-----------------------------------------------------------------------------
(* sendproc: what send(c->fd, psendbuf, isendlen) may return.              *)

SendResults(c) ==
    IF ~connected[c] THEN {Failed}
    ELSE {n \in 1 .. isendlen[c] : n <= room[c]}
            \cup (IF peer[c] = "gone" THEN {Failed, Again}
                  ELSE IF room[c] = 0 THEN {Again} ELSE {})

(* n units of the packet go to the socket.                                 *)
Put(c, n) ==
    /\ wire' = [wire EXCEPT ![c] = @ \o [i \in 1 .. n |-> psendMemPointer[c]]]
    /\ room' = [room EXCEPT ![c] = @ - n]

-----------------------------------------------------------------------------
(* ServerSendQueueThread.                                                  *)

SemWait ==
    /\ pc[Send] = "idle" /\ sem > 0
    /\ sem' = sem - 1
    /\ Goto(Send, "check")
    /\ UNCHANGED <<sendQueue, mutex, buf, allocated, objectVars, conn, request, after, pos,
                   socketVars, boundVars>>

QueueEmpty ==
    /\ pc[Send] = "check" /\ sendQueue = <<>>
    /\ Goto(Send, "idle")
    /\ UNCHANGED <<queueVars, objectVars, conn, request, after, pos, socketVars, boundVars>>

LockQueue ==
    /\ pc[Send] = "check" /\ sendQueue # <<>> /\ mutex = NoThread
    /\ mutex' = Send
    /\ pos' = 1
    /\ Goto(Send, "scan")
    /\ UNCHANGED <<sendQueue, sem, buf, allocated, objectVars, conn, request, after,
                   socketVars, boundVars>>

(* Mutant: nobody is left alone.                                           *)
NeverMarked(c) == FALSE

(* The epoll thread is busy with this connection.                          *)
Marked(c) == iThrowsendCount[c] > 0

Scanned == buf[sendQueue[pos]]
(* Mutant: the sequence is not looked at.                                  *)
NeverStale == FALSE

Stale == Scanned.sequence # sequence[Scanned.conn]

(* The sequence of the connection has changed: the packet is dropped.      *)
ScanStale ==
    /\ pc[Send] = "scan" /\ pos <= Len(sendQueue) /\ Stale
    /\ sendQueue' = Erase(pos)
    /\ allocated' = allocated \ {sendQueue[pos]}
    /\ UNCHANGED <<sem, mutex, buf, objectVars, threadVars, socketVars, boundVars>>

(* The epoll thread is still busy with this connection.                    *)
ScanSkip ==
    /\ pc[Send] = "scan" /\ pos <= Len(sendQueue) /\ ~Stale
    /\ Marked(Scanned.conn)
    /\ pos' = pos + 1
    /\ UNCHANGED <<queueVars, objectVars, pc, conn, request, after, socketVars, boundVars>>

(* Mutant: the length includes the message header.                         *)
TakesHeaderToo ==
    /\ pc[Send] = "scan" /\ pos <= Len(sendQueue) /\ ~Stale
    /\ LET c == Scanned.conn
       IN /\ ~Marked(c)
          /\ iSendCount' = [iSendCount EXCEPT ![c] = @ - 1]
          /\ psendMemPointer' = [psendMemPointer EXCEPT ![c] = sendQueue[pos]]
          /\ isendlen' = [isendlen EXCEPT ![c] = PacketLen + 1]
          /\ conn' = [conn EXCEPT ![Send] = c]
    /\ sendQueue' = Erase(pos)
    /\ Goto(Send, "send")
    /\ UNCHANGED <<sem, mutex, buf, allocated, place, sequence, connected, epollOut,
                   iThrowsendCount, request, after, pos, socketVars, boundVars>>

ScanTake ==
    /\ pc[Send] = "scan" /\ pos <= Len(sendQueue) /\ ~Stale
    /\ LET c == Scanned.conn
       IN /\ ~Marked(c)
          /\ iSendCount' = [iSendCount EXCEPT ![c] = @ - 1]
          /\ psendMemPointer' = [psendMemPointer EXCEPT ![c] = sendQueue[pos]]
          /\ isendlen' = [isendlen EXCEPT ![c] = PacketLen]
          /\ conn' = [conn EXCEPT ![Send] = c]
    /\ sendQueue' = Erase(pos)
    /\ Goto(Send, "send")
    /\ UNCHANGED <<sem, mutex, buf, allocated, place, sequence, connected, epollOut,
                   iThrowsendCount, request, after, pos, socketVars, boundVars>>

ScanEnd ==
    /\ pc[Send] = "scan" /\ pos > Len(sendQueue)
    /\ mutex' = NoThread
    /\ Goto(Send, "idle")
    /\ UNCHANGED <<sendQueue, sem, buf, allocated, objectVars, conn, request, after, pos,
                   socketVars, boundVars>>

SendAll ==
    /\ pc[Send] = "send"
    /\ LET c == conn[Send]
       IN  isendlen[c] \in SendResults(c) /\ Put(c, isendlen[c])
    /\ Goto(Send, "sent")
    /\ UNCHANGED <<queueVars, objectVars, conn, request, after, pos, peer, boundVars>>

(* Mutant: psendbuf and isendlen stay where they were.                     *)
SendPartAgain ==
    /\ pc[Send] = "send"
    /\ LET c == conn[Send]
       IN  \E n \in SendResults(c) : 0 < n /\ n < isendlen[c] /\ Put(c, n)
    /\ Goto(Send, "mark")
    /\ UNCHANGED <<queueVars, objectVars, conn, request, after, pos, peer, boundVars>>

SendPart ==
    /\ pc[Send] = "send"
    /\ LET c == conn[Send]
       IN  \E n \in SendResults(c) :
              \/ /\ 0 < n /\ n < isendlen[c]
                 /\ Put(c, n)
                 /\ isendlen' = [isendlen EXCEPT ![c] = @ - n]
              \/ n = Again /\ UNCHANGED <<wire, room, isendlen>>
    /\ Goto(Send, "mark")
    /\ UNCHANGED <<queueVars, place, sequence, connected, epollOut, iThrowsendCount,
                   iSendCount, psendMemPointer, conn, request, after, pos, peer, boundVars>>

SendFails ==
    /\ pc[Send] = "send" /\ Failed \in SendResults(conn[Send])
    /\ Goto(Send, "failed")
    /\ UNCHANGED <<queueVars, objectVars, conn, request, after, pos, socketVars, boundVars>>

(* The packet is out, or its peer is gone: free it.                        *)
SendDone ==
    /\ pc[Send] \in {"sent", "failed"}
    /\ LET c == conn[Send]
       IN /\ allocated' = allocated \ {psendMemPointer[c]}
          /\ psendMemPointer' = [psendMemPointer EXCEPT ![c] = NoBuf]
          /\ iThrowsendCount' = [iThrowsendCount EXCEPT ![c] = 0]
    /\ Goto(Send, "scan")
    /\ UNCHANGED <<sendQueue, sem, mutex, buf, place, sequence, connected, epollOut,
                   iSendCount, isendlen, conn, request, after, pos, socketVars, boundVars>>

(* The socket is full: mark the connection, then ask for EPOLLOUT.         *)
SendMark ==
    /\ pc[Send] = "mark"
    /\ iThrowsendCount' = [iThrowsendCount EXCEPT ![conn[Send]] = @ + 1]
    /\ Goto(Send, "arm")
    /\ UNCHANGED <<queueVars, place, sequence, connected, epollOut, iSendCount,
                   psendMemPointer, isendlen, conn, request, after, pos, socketVars, boundVars>>

(* Mutant: EPOLLOUT is not asked for.                                      *)
SendNotArmed ==
    /\ pc[Send] = "arm"
    /\ Goto(Send, "scan")
    /\ UNCHANGED <<queueVars, objectVars, conn, request, after, pos, socketVars, boundVars>>

SendArm ==
    /\ pc[Send] = "arm"
    /\ epollOut' = [epollOut EXCEPT ![conn[Send]] = TRUE]
    /\ Goto(Send, "scan")
    /\ UNCHANGED <<queueVars, place, sequence, connected, iThrowsendCount, iSendCount,
                   psendMemPointer, isendlen, conn, request, after, pos, socketVars, boundVars>>

SendStep == \/ SemWait \/ QueueEmpty \/ LockQueue \/ ScanStale \/ ScanSkip \/ ScanTake
            \/ ScanEnd \/ SendAll \/ SendPart \/ SendFails \/ SendDone \/ SendMark \/ SendArm

-----------------------------------------------------------------------------
(* qc_epoll_process_events: one event of a connection, first its EPOLLIN   *)
(* half, then its EPOLLOUT half.                                           *)

(* Where the EPOLLOUT half leads.                                          *)
OutHalf(c) ==
    IF ~epollOut[c] THEN {"idle"}
    ELSE IF peer[c] = "gone" THEN {"hup"} \cup (IF room[c] > 0 THEN {} ELSE {"idle"})
    ELSE IF room[c] > 0 THEN {"write"} ELSE {"idle"}

Event(c) ==
    /\ pc[Main] = "idle" /\ connected[c]
    /\ after' \in OutHalf(c)
    /\ conn' = [conn EXCEPT ![Main] = c]
    /\ Goto(Main, "read")
    /\ UNCHANGED <<queueVars, objectVars, request, pos, socketVars, boundVars>>

(* The read handler keeps the connection.  A client that is gone has left  *)
(* little to read: the bound of iThrowsendCount.                           *)
ReadOn ==
    /\ pc[Main] = "read"
    /\ peer[conn[Main]] = "gone" => iThrowsendCount[conn[Main]] >= 0
    /\ Goto(Main, after)
    /\ UNCHANGED <<queueVars, objectVars, conn, request, after, pos, socketVars, boundVars>>

ReadCloses ==
    /\ pc[Main] = "read"
    /\ Goto(Main, "zd")
    /\ UNCHANGED <<queueVars, objectVars, conn, request, after, pos, socketVars, boundVars>>

(* EPOLLOUT with EPOLLERR, EPOLLHUP or EPOLLRDHUP.                         *)
OutHup ==
    /\ pc[Main] = "hup"
    /\ Lower(conn[Main])
    /\ unmarked' = unmarked \cup {conn[Main]}
    /\ Goto(Main, "idle")
    /\ UNCHANGED <<queueVars, place, sequence, connected, epollOut, iSendCount,
                   psendMemPointer, isendlen, conn, request, after, pos, socketVars, lives>>

(* qc_write_request_handler sends the rest.                                *)
WriteAll ==
    /\ pc[Main] = "write"
    /\ LET c == conn[Main]
       IN  isendlen[c] \in SendResults(c) /\ Put(c, isendlen[c])
    /\ Goto(Main, "disarm")
    /\ UNCHANGED <<queueVars, objectVars, conn, request, after, pos, peer, boundVars>>

WritePart ==
    /\ pc[Main] = "write"
    /\ LET c == conn[Main]
       IN  \E n \in SendResults(c) :
              \/ /\ 0 < n /\ n < isendlen[c]
                 /\ Put(c, n)
                 /\ isendlen' = [isendlen EXCEPT ![c] = @ - n]
              \/ n = Again /\ UNCHANGED <<wire, room, isendlen>>
    /\ Goto(Main, "idle")
    /\ UNCHANGED <<queueVars, place, sequence, connected, epollOut, iThrowsendCount,
                   iSendCount, psendMemPointer, conn, request, after, pos, peer, boundVars>>

WriteFails ==
    /\ pc[Main] = "write" /\ Failed \in SendResults(conn[Main])
    /\ Goto(Main, "post")
    /\ UNCHANGED <<queueVars, objectVars, conn, request, after, pos, socketVars, boundVars>>

WriteDisarm ==
    /\ pc[Main] = "disarm"
    /\ epollOut' = [epollOut EXCEPT ![conn[Main]] = FALSE]
    /\ Goto(Main, "post")
    /\ UNCHANGED <<queueVars, place, sequence, connected, iThrowsendCount, iSendCount,
                   psendMemPointer, isendlen, conn, request, after, pos, socketVars, boundVars>>

WritePost ==
    /\ pc[Main] = "post"
    /\ sem' = sem + 1
    /\ Goto(Main, "free")
    /\ UNCHANGED <<sendQueue, mutex, buf, allocated, objectVars, conn, request, after, pos,
                   socketVars, boundVars>>

WriteFree ==
    /\ pc[Main] = "free"
    /\ allocated' = allocated \ {psendMemPointer[conn[Main]]}
    /\ psendMemPointer' = [psendMemPointer EXCEPT ![conn[Main]] = NoBuf]
    /\ Goto(Main, "unmark")
    /\ UNCHANGED <<sendQueue, sem, mutex, buf, place, sequence, connected, epollOut,
                   iThrowsendCount, iSendCount, isendlen, conn, request, after, pos,
                   socketVars, boundVars>>

WriteUnmark ==
    /\ pc[Main] = "unmark"
    /\ Lower(conn[Main])
    /\ Goto(Main, "idle")
    /\ UNCHANGED <<queueVars, place, sequence, connected, epollOut, iSendCount,
                   psendMemPointer, isendlen, conn, request, after, pos, socketVars, boundVars>>

WriteStep == \/ WriteAll \/ WritePart \/ WriteFails \/ WriteDisarm \/ WritePost \/ WriteFree
             \/ WriteUnmark

-----------------------------------------------------------------------------
(* All threads wait for a client and no client does anything any more.     *)
Stopped ==
    /\ \A t \in Threads : pc[t] = "idle"
    /\ sem = 0 /\ mutex = NoThread
    /\ UNCHANGED vars

Next ==
    \/ \E c \in Conns : AcceptConn(c) \/ FreeConnection(c) \/ ClientReads(c) \/ ClientLeaves(c)
    \/ \E t \in PoolThreads : PoolStep(t)
    \/ \E t \in Closers : CloseStep(t)
    \/ KickClient
    \/ SendStep
    \/ (\E c \in Conns : Event(c)) \/ ReadOn \/ ReadCloses \/ OutHup \/ WriteStep
    \/ Stopped

Spec == Init /\ [][Next]_vars

-----------------------------------------------------------------------------
(* Properties.                                                             *)

TypeOK ==
    /\ sendQueue \in Seq(Buffers) /\ sem \in Nat /\ mutex \in Threads \cup {NoThread}
    /\ buf \in Seq([conn : Conns, sequence : Nat]) /\ Len(buf) <= MaxBuffers
    /\ allocated \subseteq Buffers
    /\ place \in [Conns -> {"free", "use", "recycle"}]
    /\ sequence \in [Conns -> Nat]
    /\ connected \in [Conns -> BOOLEAN] /\ epollOut \in [Conns -> BOOLEAN]
    /\ iThrowsendCount \in [Conns -> Int] /\ iSendCount \in [Conns -> Int]
    /\ psendMemPointer \in [Conns -> Buffers \cup {NoBuf}]
    /\ isendlen \in [Conns -> 0 .. PacketLen]
    /\ pc \in [Threads -> {"idle", "reply", "zd", "test", "lower", "recycle", "check", "scan",
                           "send", "sent", "failed", "mark", "arm", "read", "hup", "write",
                           "disarm", "post", "free", "unmark"}]
    /\ conn \in [Threads -> Conns \cup {NoConn}]
    /\ request \in [PoolThreads -> Nat]
    /\ after \in {"idle", "hup", "write"} /\ pos \in Nat \ {0}
    /\ room \in [Conns -> 0 .. Room]
    /\ peer \in [Conns -> {"there", "gone"}]
    /\ wire \in [Conns -> Seq(Buffers \cup {NoBuf})]
    /\ unmarked \subseteq Conns /\ lives \in [Conns -> Nat]

(* A client that is there receives whole packets, each at most once,       *)
(* although two threads write to its socket and others may be closing it:  *)
(* only the last packet may be incomplete.  The order is not promised: a   *)
(* scan of the queue that passed over a packet while the connection was    *)
(* marked may take a later one when the mark has gone.                     *)
WholePackets ==
    \A c \in Conns : peer[c] = "there" =>
        \A i, j \in DOMAIN wire[c] :
            (i - 1) \div PacketLen = (j - 1) \div PacketLen <=> wire[c][i] = wire[c][j]

SenderBusy(c) == conn[Send] = c /\ pc[Send] \in {"send", "sent", "failed", "mark", "arm"}
WriterBusy(c) == conn[Main] = c /\ pc[Main] \in {"write", "disarm", "post", "free"}

(* iThrowsendCount works as a lock: the send thread and the epoll thread   *)
(* never use psendMemPointer, psendbuf and isendlen of a connection at the *)
(* same time.  While the connection is open and its client there this      *)
(* always holds; afterwards an EPOLLOUT with EPOLLRDHUP may have lowered   *)
(* the counter over unsent bytes, or zdClosesocketProc, unless it is       *)
(* called by msgSend, with the mutex, on an object in use: the sequence    *)
(* changes then before the send thread looks again.                        *)
Lowered(c) == c \in unmarked /\ ~(connected[c] /\ peer[c] = "there")
OneSender == \A c \in Conns : Lowered(c) \/ ~(SenderBusy(c) /\ WriterBusy(c))

(* A queued packet is not freed; a packet taken out of the queue is the    *)
(* one psendMemPointer names until it is freed, once, by whoever sends its *)
(* last byte, finds the peer gone, or recycles the object.                 *)
BuffersOwned ==
    /\ Queued \subseteq allocated
    /\ \A c \in Conns \ unmarked :
          /\ psendMemPointer[c] # NoBuf =>
                psendMemPointer[c] \in allocated \ Queued
          /\ \A b \in allocated \ Queued : buf[b].conn = c => psendMemPointer[c] = b

(* iSendCount, by which msgSend cuts off slow clients, counts exactly the  *)
(* queued packets of a connection, whatever an earlier life of the object  *)
(* left in the queue.                                                      *)
SendCountExact ==
    \A c \in Conns : place[c] = "use" =>
        iSendCount[c] = Cardinality({i \in DOMAIN sendQueue :
                            buf[sendQueue[i]] = [conn |-> c, sequence |-> sequence[c]]})

(* The send thread is never left asleep with a queue it could empty when   *)
(* nobody is using the connection: stated by qc_write_request_handler,     *)
(* which posts so that "the send thread goes on to see whether it can      *)
(* send new data" (src/net/qc_socket_request.cc:309).                      *)
WakesSender ==
    \A b \in Buffers :
        b \in Queued ~>
            \/ b \notin Queued
            \/ LET c == buf[b].conn
               IN  buf[b].sequence # sequence[c] \/ ~connected[c] \/ peer[c] = "gone"

(* A connection whose packet did not fit is not forgotten: the epoll       *)
(* thread sends the rest, or the connection closes.                        *)
RestIsSent ==
    \A c \in Conns :
        (place[c] = "use" /\ iThrowsendCount[c] > 0)
            ~> (psendMemPointer[c] = NoBuf \/ place[c] # "use")

-----------------------------------------------------------------------------
(* Fairness: every thread runs, and pthread_mutex_lock and epoll_wait      *)
(* starve nobody; clients that stay read what they are sent; a client that *)
(* left is found gone (recv returns 0 once its last bytes are read).       *)
Fairness ==
    /\ WF_vars(SendStep) /\ SF_vars(LockQueue)
    /\ \A t \in PoolThreads : SF_vars(MsgDiscard(t) \/ MsgSend(t) \/ MsgCutOff(t))
    /\ \A t \in Closers : WF_vars(CloseStep(t))
    /\ \A c \in Conns : SF_vars(Event(c)) /\ WF_vars(ClientReads(c)) /\ WF_vars(FreeConnection(c))
    /\ \A c \in Conns : SF_vars(peer[c] = "gone" /\ conn[Main] = c /\ ReadCloses)
    /\ WF_vars(ReadOn \/ ReadCloses) /\ WF_vars(OutHup \/ WriteStep)

FairSpec == Spec /\ Fairness

=============================================================================
