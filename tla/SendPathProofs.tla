--------------------------- MODULE SendPathProofs ---------------------------
(***************************************************************************)
(* Proofs about SendPath, for any number of pool threads and connections   *)
(* and any limits.  IInv is inductive:                                     *)
(*   PcInv      where each thread can be, and who can hold the mutex;      *)
(*   MadeInv    the packets made and to be made;                           *)
(*   HoldInv    an object a thread holds is not free, one being closed is  *)
(*              disconnected, and a sequence number is never ahead;        *)
(*   BufferInv  who names a buffer: the queue or one object;               *)
(*   LockInv    what the counter iThrowsendCount says of the unsent bytes; *)
(*   WireInv    how far the packet in hand has got.                        *)
(***************************************************************************)
EXTENDS SendPath, FiniteSetTheorems, SequenceTheorems, TLAPS

ClosePcs == {"zd", "test", "lower", "recycle"}
BusyPcs  == {"send", "sent", "failed", "mark", "arm"}
WritePcs == {"write", "disarm", "post", "free"}
Replying == {u \in PoolThreads : pc[u] = "reply"}

PcInv ==
    /\ \A t \in PoolThreads : pc[t] \in {"idle", "reply"} \cup ClosePcs
    /\ pc[Timer] \in {"idle"} \cup ClosePcs
    /\ pc[Main] \in {"idle", "read", "hup", "unmark"} \cup ClosePcs \cup WritePcs
    /\ pc[Send] \in {"idle", "check", "scan"} \cup BusyPcs
    /\ mutex \in PoolThreads \cup {Send, NoThread}
    /\ mutex = Send <=> pc[Send] \in {"scan"} \cup BusyPcs
    /\ mutex \in PoolThreads => pc[mutex] \in ClosePcs

(* The packets made and still to be made.                                  *)
MadeInv == IsFiniteSet(Replying) /\ Len(buf) + Cardinality(Replying) <= MaxBuffers

Holds(t) == pc[t] \notin {"idle", "check", "scan"}

(* The epoll thread is about to act on an EPOLLOUT with EPOLLRDHUP.        *)
HangingUp == pc[Main] = "hup" \/ (pc[Main] \in {"read"} \cup ClosePcs /\ after = "hup")

(* A held object is not free, one being closed is disconnected.            *)
HeldInv ==
    /\ \A t \in Threads : Holds(t) => conn[t] \in Conns /\ place[conn[t]] # "free"
    /\ \A t \in Threads : pc[t] \in {"test", "lower", "recycle"} => ~connected[conn[t]]
    /\ \A c \in Conns : connected[c] => place[c] = "use"

(* A request has the sequence of the object, unless it has been closed.    *)
StampInv ==
    \A t \in PoolThreads : pc[t] = "reply" =>
        /\ request[t] <= sequence[conn[t]]
        /\ place[conn[t]] = "use" => request[t] = sequence[conn[t]]

(* Only msgSend closes with the mutex held, when too much is queued.       *)
LimitInv == mutex \in PoolThreads => iSendCount[conn[mutex]] > SendLimit

(* The client of an object about to be hung up has gone.                   *)
HangInv == HangingUp => peer[conn[Main]] = "gone"

HoldInv == HeldInv /\ StampInv /\ LimitInv /\ HangInv

(* A buffer is in the queue at most once, and not freed while it is there. *)
QueueInv ==
    /\ Queued \subseteq allocated /\ allocated \subseteq DOMAIN buf
    /\ \A i, j \in DOMAIN sendQueue : sendQueue[i] = sendQueue[j] => i = j

(* No packet is ahead of its object, and a current one is of an object     *)
(* that is not free.                                                       *)
AgeInv ==
    \A b \in DOMAIN buf :
        /\ buf[b].sequence <= sequence[buf[b].conn]
        /\ buf[b].sequence = sequence[buf[b].conn] => place[buf[b].conn] # "free"

(* psendMemPointer names a packet of its object that is out of the queue.  *)
NameInv ==
    \A c \in Conns : psendMemPointer[c] # NoBuf =>
        /\ psendMemPointer[c] \in DOMAIN buf \ Queued
        /\ buf[psendMemPointer[c]].conn = c
        /\ place[c] # "free"

(* A packet out of the queue is named by its object until it is freed.     *)
OwnInv ==
    /\ \A c \in Conns \ unmarked :
          psendMemPointer[c] # NoBuf => psendMemPointer[c] \in allocated
    /\ \A b \in allocated \ Queued :
          buf[b].conn \in unmarked \/ psendMemPointer[buf[b].conn] = b

BufferInv == QueueInv /\ AgeInv /\ NameInv /\ OwnInv

(* The queue has no packet of the object that a scan would send.           *)
NoneCurrent(c) ==
    \A i \in DOMAIN sendQueue :
        buf[sendQueue[i]].conn = c => buf[sendQueue[i]].sequence # sequence[c]

(* Its client does not read: no packet of the object is taken any more.    *)
CutOff(c) ==
    /\ ~connected[c] /\ iSendCount[c] > SendLimit
    /\ \/ place[c] = "use" /\ mutex \in PoolThreads /\ pc[mutex] = "recycle" /\ conn[mutex] = c
       \/ place[c] = "recycle" /\ NoneCurrent(c)

(* Bytes are left for the epoll thread.                                    *)
Pending(c) == psendMemPointer[c] # NoBuf /\ ~SenderBusy(c)

(* The epoll thread has seen EPOLLOUT and means to write.                  *)
Writing(c) ==
    /\ conn[Main] = c
    /\ \/ pc[Main] \in WritePcs
       \/ pc[Main] \in {"read"} \cup ClosePcs /\ after = "write"

Open(c) == connected[c] /\ peer[c] = "there"

MainAt(c, pcs) == conn[Main] = c /\ pc[Main] \in pcs
SendAt(c, pcs) == conn[Send] = c /\ pc[Send] \in pcs

LockInvOf(c) ==
    /\ connected[c] => iThrowsendCount[c] >= 0
    /\ Pending(c) => iThrowsendCount[c] >= 1 \/ CutOff(c)
    /\ Writing(c) => Pending(c)
    /\ Open(c) /\ epollOut[c] => Pending(c) /\ ~MainAt(c, {"post", "free", "unmark"})
    /\ MainAt(c, {"unmark"}) =>
          /\ connected[c] => iThrowsendCount[c] >= 1
          /\ psendMemPointer[c] # NoBuf => ~connected[c] /\ SendAt(c, {"send", "failed"})
    /\ SenderBusy(c) => psendMemPointer[c] # NoBuf
    /\ SendAt(c, {"mark"}) => iThrowsendCount[c] >= 0
    /\ SendAt(c, {"arm"}) => iThrowsendCount[c] >= 1
    /\ SendAt(c, {"failed"}) => ~Open(c)

LockInv == \A c \in Conns : Lowered(c) \/ LockInvOf(c)

(* Units of the packet in hand are still to be written.                    *)
Unfinished(c) ==
    /\ psendMemPointer[c] # NoBuf
    /\ ~SendAt(c, {"sent"}) /\ ~MainAt(c, {"disarm", "post", "free"})

(* A packet in hand is at the end of the wire, up to its unsent units.     *)
WireInvOf(c) ==
    /\ \A i \in DOMAIN wire[c] : wire[c][i] \in DOMAIN buf \ Queued
    /\ \E k \in Nat :
          IF Unfinished(c)
          THEN /\ Len(wire[c]) + isendlen[c] = PacketLen * k + PacketLen
               /\ isendlen[c] >= 1
               /\ \A i \in DOMAIN wire[c] : i > PacketLen * k <=> wire[c][i] = psendMemPointer[c]
          ELSE Len(wire[c]) = PacketLen * k

WireInv == \A c \in Conns : Open(c) => WireInvOf(c)

IInv == TypeOK /\ PcInv /\ MadeInv /\ HoldInv /\ BufferInv /\ LockInv /\ WireInv /\ WholePackets

-----------------------------------------------------------------------------
(* The threads are different from one another.                             *)
LEMMA ThreadFacts ==
    /\ Main \in Threads /\ Timer \in Threads /\ Send \in Threads
    /\ Main \in Closers /\ Timer \in Closers /\ Closers \subseteq Threads
    /\ Send \notin Closers /\ PoolThreads \subseteq Closers
    /\ Main \notin PoolThreads /\ Timer \notin PoolThreads /\ NoThread \notin Threads
    /\ Main # Timer /\ Main # Send /\ Timer # Send
    /\ \A t \in Closers : t \in PoolThreads \/ t = Main \/ t = Timer
  BY SendAssumption DEF Threads, Closers, Main, Timer, Send, NoThread

-----------------------------------------------------------------------------
(* Types, variable group by variable group.                                *)

QueueType ==
    /\ sendQueue \in Seq(Buffers) /\ sem \in Nat /\ mutex \in Threads \cup {NoThread}
    /\ buf \in Seq([conn : Conns, sequence : Nat]) /\ Len(buf) <= MaxBuffers
    /\ allocated \subseteq Buffers

ListType ==
    /\ place \in [Conns -> {"free", "use", "recycle"}]
    /\ sequence \in [Conns -> Nat]
    /\ connected \in [Conns -> BOOLEAN] /\ epollOut \in [Conns -> BOOLEAN]

CountType ==
    /\ iThrowsendCount \in [Conns -> Int] /\ iSendCount \in [Conns -> Int]
    /\ psendMemPointer \in [Conns -> Buffers \cup {NoBuf}]
    /\ isendlen \in [Conns -> 0 .. PacketLen]

ThreadType ==
    /\ pc \in [Threads -> {"idle", "reply", "zd", "test", "lower", "recycle", "check", "scan",
                           "send", "sent", "failed", "mark", "arm", "read", "hup", "write",
                           "disarm", "post", "free", "unmark"}]
    /\ conn \in [Threads -> Conns \cup {NoConn}]
    /\ request \in [PoolThreads -> Nat]
    /\ after \in {"idle", "hup", "write"} /\ pos \in Nat \ {0}

SocketType ==
    /\ room \in [Conns -> 0 .. Room]
    /\ peer \in [Conns -> {"there", "gone"}]
    /\ wire \in [Conns -> Seq(Buffers \cup {NoBuf})]
    /\ unmarked \subseteq Conns /\ lives \in [Conns -> Nat]

(* The type invariant is the types of the five groups.                     *)
LEMMA TypeParts == TypeOK <=> QueueType /\ ListType /\ CountType /\ ThreadType /\ SocketType
  BY DEF TypeOK, QueueType, ListType, CountType, ThreadType, SocketType

(* A packet made is one of the buffers.                                    *)
LEMMA QueuedFacts ==
  ASSUME IInv
  PROVE  /\ DOMAIN buf \subseteq Buffers /\ DOMAIN buf = 1 .. Len(buf)
         /\ \A i \in DOMAIN sendQueue : sendQueue[i] \in DOMAIN buf
         /\ \A b \in DOMAIN buf : /\ buf[b].conn \in Conns /\ buf[b].sequence \in Nat
                                 /\ buf[b] = [conn |-> buf[b].conn, sequence |-> buf[b].sequence]
  <1>1. DOMAIN buf = 1 .. Len(buf) /\ Len(buf) \in Nat /\ Len(buf) <= MaxBuffers
    BY DEF IInv, TypeOK
  <1>2. \A b \in DOMAIN buf : buf[b] \in [conn : Conns, sequence : Nat]
    <2> DEFINE H == [conn : Conns, sequence : Nat]
    <2>1. buf \in Seq(H) BY DEF IInv, TypeOK
    <2> HIDE DEF H
    <2>2. \A b \in DOMAIN buf : buf[b] \in H BY <2>1
    <2> QED BY <2>2 DEF H
  <1>3. \A i \in DOMAIN sendQueue : sendQueue[i] \in DOMAIN buf
    BY DEF IInv, BufferInv, QueueInv, Queued
  <1> QED BY <1>1, <1>2, <1>3, SendAssumption DEF Buffers

(* A function stays one when it is changed at a point.                     *)
LEMMA Updated ==
  ASSUME NEW S, NEW T, NEW f \in [S -> T], NEW x, NEW v, x \in S => v \in T
  PROVE  [f EXCEPT ![x] = v] \in [S -> T]
  OBVIOUS

(* A thread that holds an object has one that is not free.                 *)
LEMMA HeldFacts ==
  ASSUME IInv, NEW t \in Threads, Holds(t)
  PROVE  conn[t] \in Conns /\ place[conn[t]] # "free"
  BY DEF IInv, HoldInv, HeldInv

(* The packet under the scan.                                              *)
LEMMA ScanFacts ==
  ASSUME IInv, pos <= Len(sendQueue)
  PROVE  /\ pos \in DOMAIN sendQueue /\ sendQueue[pos] \in DOMAIN buf
         /\ sendQueue[pos] \in Buffers
         /\ Scanned.conn \in Conns /\ Scanned.sequence \in Nat
         /\ Erase(pos) \in Seq(Buffers)
  <1>1. sendQueue \in Seq(Buffers) /\ pos \in Nat \ {0} BY DEF IInv, TypeOK
  <1>2. pos \in DOMAIN sendQueue BY <1>1
  <1>3. Erase(pos) \in Seq(Buffers) BY <1>1, <1>2 DEF Erase
  <1>4. sendQueue[pos] \in DOMAIN buf BY <1>2, QueuedFacts
  <1>5. Scanned.conn \in Conns /\ Scanned.sequence \in Nat BY <1>4, QueuedFacts DEF Scanned
  <1> QED BY <1>1, <1>2, <1>3, <1>4, <1>5

(* What send may write fits the packet and the socket.                     *)
LEMMA SendFacts ==
  ASSUME IInv, NEW c \in Conns, NEW n \in SendResults(c)
  PROVE  /\ n \in Int
         /\ n # Failed => connected[c]
         /\ Failed \in SendResults(c) => ~Open(c)
         /\ n >= 0 => 1 <= n /\ n <= isendlen[c] /\ n <= room[c]
  <1>1. isendlen[c] \in Nat /\ room[c] \in Nat BY SendAssumption DEF IInv, TypeOK
  <1>2. CASE ~connected[c] BY <1>2 DEF SendResults, Failed, Open
  <1>3. CASE connected[c]
    <2>1. n \in {k \in 1 .. isendlen[c] : k <= room[c]} \cup {Failed, Again}
      BY <1>3 DEF SendResults
    <2>2. n \in Int /\ (n >= 0 => 1 <= n /\ n <= isendlen[c] /\ n <= room[c])
      BY <1>1, <2>1 DEF Failed, Again
    <2>3. CASE peer[c] = "gone" BY <1>3, <2>2, <2>3 DEF Open
    <2>4. CASE peer[c] # "gone"
      <3>1. Failed \notin SendResults(c) BY <1>1, <1>3, <2>4 DEF SendResults, Failed, Again
      <3> QED BY <1>3, <2>2, <3>1
    <2> QED BY <2>3, <2>4
  <1> QED BY <1>2, <1>3

(* What is left of a packet is a number of units.                          *)
LEMMA IsendlenNat == ASSUME IInv, NEW c \in Conns PROVE isendlen[c] \in Nat
  <1>1. isendlen \in [Conns -> 0 .. PacketLen] BY DEF IInv, TypeOK
  <1> QED BY <1>1, SendAssumption

(* Writing keeps the wire and the room what they are.                      *)
LEMMA PutTyped ==
  ASSUME IInv, NEW c \in Conns, NEW n \in SendResults(c), n >= 0, Put(c, n)
  PROVE  wire' \in [Conns -> Seq(Buffers \cup {NoBuf})] /\ room' \in [Conns -> 0 .. Room]
  <1>1. n \in Nat /\ n <= room[c] BY SendFacts
  <1>2. /\ wire \in [Conns -> Seq(Buffers \cup {NoBuf})] /\ room \in [Conns -> 0 .. Room]
        /\ psendMemPointer[c] \in Buffers \cup {NoBuf}
    BY DEF IInv, TypeOK
  <1> DEFINE units == [i \in 1 .. n |-> psendMemPointer[c]]
             new   == wire[c] \o units
  <1>3. units \in Seq(Buffers \cup {NoBuf}) BY <1>1, <1>2
  <1>4. new \in Seq(Buffers \cup {NoBuf}) BY <1>2, <1>3
  <1>5. wire' = [wire EXCEPT ![c] = new] BY DEF Put
  <1> HIDE DEF units, new
  <1>6. wire' \in [Conns -> Seq(Buffers \cup {NoBuf})] BY <1>2, <1>4, <1>5
  <1>7. room[c] - n \in 0 .. Room BY <1>1, <1>2, SendAssumption
  <1>8. room' \in [Conns -> 0 .. Room] BY <1>2, <1>7 DEF Put
  <1> QED BY <1>6, <1>8

(* The queue, its semaphore and its mutex keep their types.                *)
LEMMA QueueTypeStep == ASSUME IInv, [Next]_vars PROVE QueueType'
  <1> USE DEF queueVars, objectVars, threadVars, socketVars, boundVars, Goto
  <1>1. ASSUME NEW c \in Conns, AcceptConn(c) PROVE QueueType'
    BY <1>1, ThreadFacts DEF AcceptConn, IInv, TypeOK, QueueType
  <1>2. ASSUME NEW c \in Conns, FreeConnection(c) PROVE QueueType'
    BY <1>2, ThreadFacts DEF FreeConnection, IInv, TypeOK, QueueType
  <1>3. ASSUME NEW c \in Conns, ClientReads(c) PROVE QueueType'
    BY <1>3, ThreadFacts DEF ClientReads, IInv, TypeOK, QueueType
  <1>4. ASSUME NEW c \in Conns, ClientLeaves(c) PROVE QueueType'
    BY <1>4, ThreadFacts DEF ClientLeaves, IInv, TypeOK, QueueType
  <1>5. ASSUME NEW t \in PoolThreads, Request(t) PROVE QueueType'
    BY <1>5, ThreadFacts DEF Request, IInv, TypeOK, QueueType
  <1>6. ASSUME NEW t \in PoolThreads, MsgDiscard(t) PROVE QueueType'
    BY <1>6, ThreadFacts DEF MsgDiscard, TooManyQueued, IInv, TypeOK, QueueType
  <1>7. ASSUME NEW t \in PoolThreads, MsgSend(t) PROVE QueueType'
    <2>1. /\ conn[t] \in Conns /\ request[t] \in Nat /\ Len(buf) + 1 <= MaxBuffers
          /\ buf \in Seq([conn : Conns, sequence : Nat]) /\ sendQueue \in Seq(Buffers)
          /\ allocated \subseteq Buffers /\ sem \in Nat /\ mutex \in Threads \cup {NoThread}
      <3>1. Cardinality(Replying) \in Nat /\ Cardinality(Replying) # 0
        BY <1>7, FS_CardinalityType, FS_EmptySet DEF IInv, MadeInv, MsgSend, Replying
      <3>2. /\ buf \in Seq([conn : Conns, sequence : Nat]) /\ sendQueue \in Seq(Buffers)
            /\ allocated \subseteq Buffers /\ sem \in Nat /\ mutex \in Threads \cup {NoThread}
            /\ request[t] \in Nat
        BY DEF IInv, TypeOK
      <3>3. Len(buf) \in Nat /\ Len(buf) + Cardinality(Replying) <= MaxBuffers
        BY DEF IInv, TypeOK, MadeInv
      <3>4. conn[t] \in Conns BY <1>7, ThreadFacts, HeldFacts DEF MsgSend, Holds
      <3>5. Len(buf) + 1 <= MaxBuffers BY <3>1, <3>3, SendAssumption
      <3> QED BY <3>2, <3>4, <3>5
    <2> DEFINE m == [conn |-> conn[t], sequence |-> request[t]]
               b == Len(buf) + 1
    <2>2. m \in [conn : Conns, sequence : Nat] BY <2>1
    <2>3. b \in Buffers BY <2>1, SendAssumption DEF Buffers
    <2>4. /\ buf' = Append(buf, m) /\ sendQueue' = Append(sendQueue, b)
          /\ allocated' = allocated \cup {b} /\ sem' = sem + 1 /\ mutex' = mutex
      BY <1>7 DEF MsgSend
    <2>5. Len(Append(buf, m)) = b BY <2>1, <2>2
    <2>6. b <= MaxBuffers BY <2>1
    <2> HIDE DEF m, b
    <2> QED BY <2>1, <2>2, <2>3, <2>4, <2>5, <2>6 DEF QueueType
  <1>8. ASSUME NEW t \in PoolThreads, MsgCutOff(t) PROVE QueueType'
    BY <1>8, ThreadFacts DEF MsgCutOff, TooManyQueued, TooSlow, IInv, TypeOK,
      QueueType
  <1>9. ASSUME NEW t \in Closers, ZdClose(t) PROVE QueueType'
    BY <1>9, ThreadFacts DEF ZdClose, IInv, TypeOK, QueueType
  <1>10. ASSUME NEW t \in Closers, ZdTestThrow(t) PROVE QueueType'
    BY <1>10, ThreadFacts DEF ZdTestThrow, IInv, TypeOK, QueueType
  <1>11. ASSUME NEW t \in Closers, ZdLowerThrow(t) PROVE QueueType'
    BY <1>11, ThreadFacts DEF ZdLowerThrow, Lower, IInv, TypeOK, QueueType
  <1>12. ASSUME NEW t \in Closers, InRecyConnectQueue(t) PROVE QueueType'
    BY <1>12, ThreadFacts DEF InRecyConnectQueue, IInv, TypeOK, QueueType
  <1>13. ASSUME KickClient PROVE QueueType'
    BY <1>13, ThreadFacts DEF KickClient, IInv, TypeOK, QueueType
  <1>14. ASSUME SemWait PROVE QueueType'
    BY <1>14, ThreadFacts DEF SemWait, IInv, TypeOK, QueueType
  <1>15. ASSUME QueueEmpty PROVE QueueType'
    BY <1>15, ThreadFacts DEF QueueEmpty, IInv, TypeOK, QueueType
  <1>16. ASSUME LockQueue PROVE QueueType'
    BY <1>16, ThreadFacts DEF LockQueue, IInv, TypeOK, QueueType
  <1>17. ASSUME ScanStale PROVE QueueType'
    <2>1. Erase(pos) \in Seq(Buffers) /\ sendQueue' = Erase(pos)
      BY <1>17, ScanFacts DEF ScanStale
    <2> QED BY <1>17, <2>1 DEF ScanStale, IInv, TypeOK, QueueType
  <1>18. ASSUME ScanSkip PROVE QueueType'
    BY <1>18, ThreadFacts DEF ScanSkip, Marked, Scanned, Stale, IInv, TypeOK,
      QueueType
  <1>19. ASSUME ScanTake PROVE QueueType'
    <2>1. Erase(pos) \in Seq(Buffers) /\ sendQueue' = Erase(pos)
      BY <1>19, ScanFacts DEF ScanTake
    <2> QED BY <1>19, <2>1 DEF ScanTake, IInv, TypeOK, QueueType
  <1>20. ASSUME ScanEnd PROVE QueueType'
    BY <1>20, ThreadFacts DEF ScanEnd, IInv, TypeOK, QueueType
  <1>21. ASSUME SendAll PROVE QueueType'
    BY <1>21, ThreadFacts DEF SendAll, Put, SendResults, IInv, TypeOK, QueueType
  <1>22. ASSUME SendPart PROVE QueueType'
    BY <1>22, ThreadFacts DEF SendPart, Put, SendResults, IInv, TypeOK, QueueType
  <1>23. ASSUME SendFails PROVE QueueType'
    BY <1>23, ThreadFacts DEF SendFails, SendResults, IInv, TypeOK, QueueType
  <1>24. ASSUME SendDone PROVE QueueType'
    BY <1>24, ThreadFacts DEF SendDone, IInv, TypeOK, QueueType
  <1>25. ASSUME SendMark PROVE QueueType'
    BY <1>25, ThreadFacts DEF SendMark, IInv, TypeOK, QueueType
  <1>26. ASSUME SendArm PROVE QueueType'
    BY <1>26, ThreadFacts DEF SendArm, IInv, TypeOK, QueueType
  <1>27. ASSUME NEW c \in Conns, Event(c) PROVE QueueType'
    BY <1>27, ThreadFacts DEF Event, OutHalf, IInv, TypeOK, QueueType
  <1>28. ASSUME ReadOn PROVE QueueType'
    BY <1>28, ThreadFacts DEF ReadOn, IInv, TypeOK, QueueType
  <1>29. ASSUME ReadCloses PROVE QueueType'
    BY <1>29, ThreadFacts DEF ReadCloses, IInv, TypeOK, QueueType
  <1>30. ASSUME OutHup PROVE QueueType'
    BY <1>30, ThreadFacts DEF OutHup, Lower, IInv, TypeOK, QueueType
  <1>31. ASSUME WriteAll PROVE QueueType'
    BY <1>31, ThreadFacts DEF WriteAll, Put, SendResults, IInv, TypeOK, QueueType
  <1>32. ASSUME WritePart PROVE QueueType'
    BY <1>32, ThreadFacts DEF WritePart, Put, SendResults, IInv, TypeOK, QueueType
  <1>33. ASSUME WriteFails PROVE QueueType'
    BY <1>33, ThreadFacts DEF WriteFails, SendResults, IInv, TypeOK, QueueType
  <1>34. ASSUME WriteDisarm PROVE QueueType'
    BY <1>34, ThreadFacts DEF WriteDisarm, IInv, TypeOK, QueueType
  <1>35. ASSUME WritePost PROVE QueueType'
    BY <1>35, ThreadFacts DEF WritePost, IInv, TypeOK, QueueType
  <1>36. ASSUME WriteFree PROVE QueueType'
    BY <1>36, ThreadFacts DEF WriteFree, IInv, TypeOK, QueueType
  <1>37. ASSUME WriteUnmark PROVE QueueType'
    BY <1>37, ThreadFacts DEF WriteUnmark, Lower, IInv, TypeOK, QueueType
  <1>38. CASE UNCHANGED vars
    BY <1>38, ThreadFacts DEF vars, IInv, TypeOK, QueueType
  <1> QED BY <1>1, <1>2, <1>3, <1>4, <1>5, <1>6, <1>7, <1>8, <1>9, <1>10, <1>11,
       <1>12, <1>13, <1>14, <1>15, <1>16, <1>17, <1>18, <1>19, <1>20, <1>21, <1>22,
       <1>23, <1>24, <1>25, <1>26, <1>27, <1>28, <1>29, <1>30, <1>31, <1>32, <1>33,
       <1>34, <1>35, <1>36, <1>37, <1>38 DEF Next, PoolStep, CloseStep, SendStep,
       WriteStep, Stopped

(* What belongs to an object and its list keeps its type.                  *)
LEMMA ListTypeStep == ASSUME IInv, [Next]_vars PROVE ListType'
  <1> USE DEF queueVars, objectVars, threadVars, socketVars, boundVars, Goto
  <1>a. ListType
    BY TypeParts DEF IInv
  <1>1. ASSUME NEW c \in Conns, AcceptConn(c) PROVE ListType'
    BY <1>1, <1>a DEF AcceptConn, ListType
  <1>2. ASSUME NEW c \in Conns, FreeConnection(c) PROVE ListType'
    BY <1>2, <1>a DEF FreeConnection, ListType
  <1>3. ASSUME NEW c \in Conns, ClientReads(c) PROVE ListType'
    BY <1>3, <1>a DEF ClientReads, ListType
  <1>4. ASSUME NEW c \in Conns, ClientLeaves(c) PROVE ListType'
    BY <1>4, <1>a DEF ClientLeaves, ListType
  <1>5. ASSUME NEW t \in PoolThreads, Request(t) PROVE ListType'
    BY <1>5, <1>a DEF Request, ListType
  <1>6. ASSUME NEW t \in PoolThreads, MsgDiscard(t) PROVE ListType'
    BY <1>6, <1>a DEF MsgDiscard, TooManyQueued, ListType
  <1>7. ASSUME NEW t \in PoolThreads, MsgSend(t) PROVE ListType'
    BY <1>7, <1>a DEF MsgSend, TooManyQueued, TooSlow, ListType
  <1>8. ASSUME NEW t \in PoolThreads, MsgCutOff(t) PROVE ListType'
    BY <1>8, <1>a DEF MsgCutOff, TooManyQueued, TooSlow, ListType
  <1>9. ASSUME NEW t \in Closers, ZdClose(t) PROVE ListType'
    BY <1>9, <1>a DEF ZdClose, ListType
  <1>10. ASSUME NEW t \in Closers, ZdTestThrow(t) PROVE ListType'
    BY <1>10, <1>a DEF ZdTestThrow, ListType
  <1>11. ASSUME NEW t \in Closers, ZdLowerThrow(t) PROVE ListType'
    BY <1>11, <1>a DEF ZdLowerThrow, Lower, ListType
  <1>12. ASSUME NEW t \in Closers, InRecyConnectQueue(t) PROVE ListType'
    BY <1>12, <1>a DEF InRecyConnectQueue, ListType
  <1>13. ASSUME KickClient PROVE ListType'
    BY <1>13, <1>a DEF KickClient, ListType
  <1>14. ASSUME SemWait PROVE ListType'
    BY <1>14, <1>a DEF SemWait, ListType
  <1>15. ASSUME QueueEmpty PROVE ListType'
    BY <1>15, <1>a DEF QueueEmpty, ListType
  <1>16. ASSUME LockQueue PROVE ListType'
    BY <1>16, <1>a DEF LockQueue, ListType
  <1>17. ASSUME ScanStale PROVE ListType'
    BY <1>17, <1>a DEF ScanStale, Erase, Scanned, Stale, ListType
  <1>18. ASSUME ScanSkip PROVE ListType'
    BY <1>18, <1>a DEF ScanSkip, Marked, Scanned, Stale, ListType
  <1>19. ASSUME ScanTake PROVE ListType'
    BY <1>19, <1>a DEF ScanTake, Marked, Erase, Scanned, Stale, ListType
  <1>20. ASSUME ScanEnd PROVE ListType'
    BY <1>20, <1>a DEF ScanEnd, ListType
  <1>21. ASSUME SendAll PROVE ListType'
    BY <1>21, <1>a DEF SendAll, Put, SendResults, ListType
  <1>22. ASSUME SendPart PROVE ListType'
    BY <1>22, <1>a DEF SendPart, Put, SendResults, ListType
  <1>23. ASSUME SendFails PROVE ListType'
    BY <1>23, <1>a DEF SendFails, SendResults, ListType
  <1>24. ASSUME SendDone PROVE ListType'
    BY <1>24, <1>a DEF SendDone, ListType
  <1>25. ASSUME SendMark PROVE ListType'
    BY <1>25, <1>a DEF SendMark, ListType
  <1>26. ASSUME SendArm PROVE ListType'
    BY <1>26, <1>a DEF SendArm, ListType
  <1>27. ASSUME NEW c \in Conns, Event(c) PROVE ListType'
    BY <1>27, <1>a DEF Event, OutHalf, ListType
  <1>28. ASSUME ReadOn PROVE ListType'
    BY <1>28, <1>a DEF ReadOn, ListType
  <1>29. ASSUME ReadCloses PROVE ListType'
    BY <1>29, <1>a DEF ReadCloses, ListType
  <1>30. ASSUME OutHup PROVE ListType'
    BY <1>30, <1>a DEF OutHup, Lower, ListType
  <1>31. ASSUME WriteAll PROVE ListType'
    BY <1>31, <1>a DEF WriteAll, Put, SendResults, ListType
  <1>32. ASSUME WritePart PROVE ListType'
    BY <1>32, <1>a DEF WritePart, Put, SendResults, ListType
  <1>33. ASSUME WriteFails PROVE ListType'
    BY <1>33, <1>a DEF WriteFails, SendResults, ListType
  <1>34. ASSUME WriteDisarm PROVE ListType'
    BY <1>34, <1>a DEF WriteDisarm, ListType
  <1>35. ASSUME WritePost PROVE ListType'
    BY <1>35, <1>a DEF WritePost, ListType
  <1>36. ASSUME WriteFree PROVE ListType'
    BY <1>36, <1>a DEF WriteFree, ListType
  <1>37. ASSUME WriteUnmark PROVE ListType'
    BY <1>37, <1>a DEF WriteUnmark, Lower, ListType
  <1>38. CASE UNCHANGED vars
    BY <1>38, <1>a DEF vars, ListType
  <1> QED BY <1>1, <1>2, <1>3, <1>4, <1>5, <1>6, <1>7, <1>8, <1>9, <1>10, <1>11,
       <1>12, <1>13, <1>14, <1>15, <1>16, <1>17, <1>18, <1>19, <1>20, <1>21, <1>22,
       <1>23, <1>24, <1>25, <1>26, <1>27, <1>28, <1>29, <1>30, <1>31, <1>32, <1>33,
       <1>34, <1>35, <1>36, <1>37, <1>38 DEF Next, PoolStep, CloseStep, SendStep,
       WriteStep, Stopped

(* The counters and the packet in hand keep their types.                   *)
LEMMA CountTypeStep == ASSUME IInv, [Next]_vars PROVE CountType'
  <1> USE DEF queueVars, objectVars, threadVars, socketVars, boundVars, Goto
  <1>a. CountType
    BY TypeParts DEF IInv
  <1>1. ASSUME NEW c \in Conns, AcceptConn(c) PROVE CountType'
    BY <1>1, <1>a DEF AcceptConn, CountType
  <1>2. ASSUME NEW c \in Conns, FreeConnection(c) PROVE CountType'
    BY <1>2, <1>a DEF FreeConnection, CountType
  <1>3. ASSUME NEW c \in Conns, ClientReads(c) PROVE CountType'
    BY <1>3, <1>a DEF ClientReads, CountType
  <1>4. ASSUME NEW c \in Conns, ClientLeaves(c) PROVE CountType'
    BY <1>4, <1>a DEF ClientLeaves, CountType
  <1>5. ASSUME NEW t \in PoolThreads, Request(t) PROVE CountType'
    BY <1>5, <1>a DEF Request, CountType
  <1>6. ASSUME NEW t \in PoolThreads, MsgDiscard(t) PROVE CountType'
    BY <1>6, <1>a DEF MsgDiscard, TooManyQueued, CountType
  <1>7. ASSUME NEW t \in PoolThreads, MsgSend(t) PROVE CountType'
    <2>1. iSendCount \in [Conns -> Int] BY <1>a DEF CountType
    <2>2. conn[t] \in Conns BY <1>7, ThreadFacts, HeldFacts DEF MsgSend, Holds
    <2>3. iSendCount' \in [Conns -> Int] BY <1>7, <2>1, <2>2 DEF MsgSend
    <2> QED BY <1>7, <1>a, <2>3 DEF MsgSend, CountType
  <1>8. ASSUME NEW t \in PoolThreads, MsgCutOff(t) PROVE CountType'
    BY <1>8, <1>a DEF MsgCutOff, TooManyQueued, TooSlow, CountType
  <1>9. ASSUME NEW t \in Closers, ZdClose(t) PROVE CountType'
    BY <1>9, <1>a DEF ZdClose, CountType
  <1>10. ASSUME NEW t \in Closers, ZdTestThrow(t) PROVE CountType'
    BY <1>10, <1>a DEF ZdTestThrow, CountType
  <1>11. ASSUME NEW t \in Closers, ZdLowerThrow(t) PROVE CountType'
    <2>1. iThrowsendCount \in [Conns -> Int] BY <1>a DEF CountType
    <2>2. conn[t] \in Conns BY <1>11, ThreadFacts, HeldFacts DEF ZdLowerThrow, Holds
    <2>3. iThrowsendCount' \in [Conns -> Int] BY <1>11, <2>1, <2>2 DEF ZdLowerThrow, Lower
    <2> QED BY <1>11, <1>a, <2>3 DEF ZdLowerThrow, Lower, CountType
  <1>12. ASSUME NEW t \in Closers, InRecyConnectQueue(t) PROVE CountType'
    BY <1>12, <1>a DEF InRecyConnectQueue, CountType
  <1>13. ASSUME KickClient PROVE CountType'
    BY <1>13, <1>a DEF KickClient, CountType
  <1>14. ASSUME SemWait PROVE CountType'
    BY <1>14, <1>a DEF SemWait, CountType
  <1>15. ASSUME QueueEmpty PROVE CountType'
    BY <1>15, <1>a DEF QueueEmpty, CountType
  <1>16. ASSUME LockQueue PROVE CountType'
    BY <1>16, <1>a DEF LockQueue, CountType
  <1>17. ASSUME ScanStale PROVE CountType'
    BY <1>17, <1>a DEF ScanStale, Erase, Scanned, Stale, CountType
  <1>18. ASSUME ScanSkip PROVE CountType'
    BY <1>18, <1>a DEF ScanSkip, Marked, Scanned, Stale, CountType
  <1>19. ASSUME ScanTake PROVE CountType'
    <2>1. iSendCount \in [Conns -> Int] /\ psendMemPointer \in [Conns -> Buffers \cup {NoBuf}]
          /\ isendlen \in [Conns -> 0 .. PacketLen]
      BY <1>a DEF CountType
    <2>2. Scanned.conn \in Conns /\ sendQueue[pos] \in Buffers
      BY <1>19, ScanFacts DEF ScanTake
    <2>3. iSendCount' \in [Conns -> Int]
      BY <1>19, <2>1, <2>2 DEF ScanTake
    <2>4. psendMemPointer' \in [Conns -> Buffers \cup {NoBuf}]
      BY <1>19, <2>1, <2>2 DEF ScanTake
    <2>5. PacketLen \in 0 .. PacketLen BY SendAssumption
    <2>6. isendlen' \in [Conns -> 0 .. PacketLen]
      BY <1>19, <2>1, <2>2, <2>5 DEF ScanTake
    <2> QED BY <1>19, <1>a, <2>3, <2>4, <2>6 DEF ScanTake, CountType
  <1>20. ASSUME ScanEnd PROVE CountType'
    BY <1>20, <1>a DEF ScanEnd, CountType
  <1>21. ASSUME SendAll PROVE CountType'
    BY <1>21, <1>a DEF SendAll, Put, SendResults, CountType
  <1>22. ASSUME SendPart PROVE CountType'
    <2> DEFINE c == conn[Send]
    <2>1. c \in Conns BY <1>22, ThreadFacts, HeldFacts DEF SendPart, Holds
    <2>2. isendlen \in [Conns -> 0 .. PacketLen] BY <1>a DEF CountType
    <2>3. PICK n \in SendResults(c) :
             \/ 0 < n /\ n < isendlen[c] /\ isendlen' = [isendlen EXCEPT ![c] = @ - n]
             \/ isendlen' = isendlen
      BY <1>22 DEF SendPart
    <2>4. isendlen' \in [Conns -> 0 .. PacketLen]
      <3>1. CASE isendlen' = isendlen BY <2>2, <3>1
      <3>2. CASE 0 < n /\ n < isendlen[c] /\ isendlen' = [isendlen EXCEPT ![c] = @ - n]
        <4>1. n \in Int BY <2>1, SendFacts
        <4>2. isendlen[c] - n \in 0 .. PacketLen BY <2>1, <2>2, <3>2, <4>1, SendAssumption
        <4> QED BY <2>2, <3>2, <4>2
      <3> QED BY <2>3, <3>1, <3>2
    <2> QED BY <1>22, <1>a, <2>4 DEF SendPart, CountType
  <1>23. ASSUME SendFails PROVE CountType'
    BY <1>23, <1>a DEF SendFails, SendResults, CountType
  <1>24. ASSUME SendDone PROVE CountType'
    <2>1. iThrowsendCount \in [Conns -> Int] /\ psendMemPointer \in [Conns -> Buffers \cup {NoBuf}]
      BY <1>a DEF CountType
    <2>2. conn[Send] \in Conns BY <1>24, ThreadFacts, HeldFacts DEF SendDone, Holds
    <2>3. iThrowsendCount' \in [Conns -> Int] BY <1>24, <2>1, <2>2 DEF SendDone
    <2>4. psendMemPointer' \in [Conns -> Buffers \cup {NoBuf}]
      BY <1>24, <2>1, <2>2 DEF SendDone
    <2> QED BY <1>24, <1>a, <2>3, <2>4 DEF SendDone, CountType
  <1>25. ASSUME SendMark PROVE CountType'
    <2>1. iThrowsendCount \in [Conns -> Int] BY <1>a DEF CountType
    <2>2. conn[Send] \in Conns BY <1>25, ThreadFacts, HeldFacts DEF SendMark, Holds
    <2>3. iThrowsendCount' \in [Conns -> Int] BY <1>25, <2>1, <2>2 DEF SendMark
    <2> QED BY <1>25, <1>a, <2>3 DEF SendMark, CountType
  <1>26. ASSUME SendArm PROVE CountType'
    BY <1>26, <1>a DEF SendArm, CountType
  <1>27. ASSUME NEW c \in Conns, Event(c) PROVE CountType'
    BY <1>27, <1>a DEF Event, OutHalf, CountType
  <1>28. ASSUME ReadOn PROVE CountType'
    BY <1>28, <1>a DEF ReadOn, CountType
  <1>29. ASSUME ReadCloses PROVE CountType'
    BY <1>29, <1>a DEF ReadCloses, CountType
  <1>30. ASSUME OutHup PROVE CountType'
    <2>1. iThrowsendCount \in [Conns -> Int] BY <1>a DEF CountType
    <2>2. conn[Main] \in Conns BY <1>30, ThreadFacts, HeldFacts DEF OutHup, Holds
    <2>3. iThrowsendCount' \in [Conns -> Int] BY <1>30, <2>1, <2>2 DEF OutHup, Lower
    <2> QED BY <1>30, <1>a, <2>3 DEF OutHup, Lower, CountType
  <1>31. ASSUME WriteAll PROVE CountType'
    BY <1>31, <1>a DEF WriteAll, Put, SendResults, CountType
  <1>32. ASSUME WritePart PROVE CountType'
    <2> DEFINE c == conn[Main]
    <2>1. c \in Conns BY <1>32, ThreadFacts, HeldFacts DEF WritePart, Holds
    <2>2. isendlen \in [Conns -> 0 .. PacketLen] BY <1>a DEF CountType
    <2>3. PICK n \in SendResults(c) :
             \/ 0 < n /\ n < isendlen[c] /\ isendlen' = [isendlen EXCEPT ![c] = @ - n]
             \/ isendlen' = isendlen
      BY <1>32 DEF WritePart
    <2>4. isendlen' \in [Conns -> 0 .. PacketLen]
      <3>1. CASE isendlen' = isendlen BY <2>2, <3>1
      <3>2. CASE 0 < n /\ n < isendlen[c] /\ isendlen' = [isendlen EXCEPT ![c] = @ - n]
        <4>1. n \in Int BY <2>1, SendFacts
        <4>2. isendlen[c] - n \in 0 .. PacketLen BY <2>1, <2>2, <3>2, <4>1, SendAssumption
        <4> QED BY <2>2, <3>2, <4>2
      <3> QED BY <2>3, <3>1, <3>2
    <2> QED BY <1>32, <1>a, <2>4 DEF WritePart, CountType
  <1>33. ASSUME WriteFails PROVE CountType'
    BY <1>33, <1>a DEF WriteFails, SendResults, CountType
  <1>34. ASSUME WriteDisarm PROVE CountType'
    BY <1>34, <1>a DEF WriteDisarm, CountType
  <1>35. ASSUME WritePost PROVE CountType'
    BY <1>35, <1>a DEF WritePost, CountType
  <1>36. ASSUME WriteFree PROVE CountType'
    BY <1>36, <1>a DEF WriteFree, CountType
  <1>37. ASSUME WriteUnmark PROVE CountType'
    <2>1. iThrowsendCount \in [Conns -> Int] BY <1>a DEF CountType
    <2>2. conn[Main] \in Conns BY <1>37, ThreadFacts, HeldFacts DEF WriteUnmark, Holds
    <2>3. iThrowsendCount' \in [Conns -> Int] BY <1>37, <2>1, <2>2 DEF WriteUnmark, Lower
    <2> QED BY <1>37, <1>a, <2>3 DEF WriteUnmark, Lower, CountType
  <1>38. CASE UNCHANGED vars
    BY <1>38, <1>a DEF vars, CountType
  <1> QED BY <1>1, <1>2, <1>3, <1>4, <1>5, <1>6, <1>7, <1>8, <1>9, <1>10, <1>11,
       <1>12, <1>13, <1>14, <1>15, <1>16, <1>17, <1>18, <1>19, <1>20, <1>21, <1>22,
       <1>23, <1>24, <1>25, <1>26, <1>27, <1>28, <1>29, <1>30, <1>31, <1>32, <1>33,
       <1>34, <1>35, <1>36, <1>37, <1>38 DEF Next, PoolStep, CloseStep, SendStep,
       WriteStep, Stopped

(* The threads keep their types.                                           *)
LEMMA ThreadTypeStep == ASSUME IInv, [Next]_vars PROVE ThreadType'
  <1> USE DEF queueVars, objectVars, threadVars, socketVars, boundVars, Goto
  <1>a. ThreadType
    BY TypeParts DEF IInv
  <1>1. ASSUME NEW c \in Conns, AcceptConn(c) PROVE ThreadType'
    BY <1>1, ThreadFacts, <1>a DEF AcceptConn, ThreadType
  <1>2. ASSUME NEW c \in Conns, FreeConnection(c) PROVE ThreadType'
    BY <1>2, ThreadFacts, <1>a DEF FreeConnection, ThreadType
  <1>3. ASSUME NEW c \in Conns, ClientReads(c) PROVE ThreadType'
    BY <1>3, ThreadFacts, <1>a DEF ClientReads, ThreadType
  <1>4. ASSUME NEW c \in Conns, ClientLeaves(c) PROVE ThreadType'
    BY <1>4, ThreadFacts, <1>a DEF ClientLeaves, ThreadType
  <1>5. ASSUME NEW t \in PoolThreads, Request(t) PROVE ThreadType'
    <2>1. PICK c \in Conns : /\ conn' = [conn EXCEPT ![t] = c]
                             /\ request' = [request EXCEPT ![t] = sequence[c]]
      BY <1>5 DEF Request
    <2>2. sequence[c] \in Nat BY DEF IInv, TypeOK
    <2>3. request' \in [PoolThreads -> Nat] BY <1>a, <2>1, <2>2 DEF ThreadType
    <2>4. conn' \in [Threads -> Conns \cup {NoConn}] BY <1>a, <2>1 DEF ThreadType
    <2> QED BY <1>5, <1>a, <2>3, <2>4 DEF Request, ThreadType
  <1>6. ASSUME NEW t \in PoolThreads, MsgDiscard(t) PROVE ThreadType'
    BY <1>6, ThreadFacts, <1>a DEF MsgDiscard, TooManyQueued, ThreadType
  <1>7. ASSUME NEW t \in PoolThreads, MsgSend(t) PROVE ThreadType'
    BY <1>7, ThreadFacts, <1>a DEF MsgSend, TooManyQueued, TooSlow, ThreadType
  <1>8. ASSUME NEW t \in PoolThreads, MsgCutOff(t) PROVE ThreadType'
    BY <1>8, ThreadFacts, <1>a DEF MsgCutOff, TooManyQueued, TooSlow,
      ThreadType
  <1>9. ASSUME NEW t \in Closers, ZdClose(t) PROVE ThreadType'
    BY <1>9, ThreadFacts, <1>a DEF ZdClose, ThreadType
  <1>10. ASSUME NEW t \in Closers, ZdTestThrow(t) PROVE ThreadType'
    BY <1>10, ThreadFacts, <1>a DEF ZdTestThrow, ThreadType
  <1>11. ASSUME NEW t \in Closers, ZdLowerThrow(t) PROVE ThreadType'
    BY <1>11, ThreadFacts, <1>a DEF ZdLowerThrow, Lower, ThreadType
  <1>12. ASSUME NEW t \in Closers, InRecyConnectQueue(t) PROVE ThreadType'
    BY <1>12, ThreadFacts, <1>a DEF InRecyConnectQueue, ThreadType
  <1>13. ASSUME KickClient PROVE ThreadType'
    BY <1>13, ThreadFacts, <1>a DEF KickClient, ThreadType
  <1>14. ASSUME SemWait PROVE ThreadType'
    BY <1>14, ThreadFacts, <1>a DEF SemWait, ThreadType
  <1>15. ASSUME QueueEmpty PROVE ThreadType'
    BY <1>15, ThreadFacts, <1>a DEF QueueEmpty, ThreadType
  <1>16. ASSUME LockQueue PROVE ThreadType'
    BY <1>16, ThreadFacts, <1>a DEF LockQueue, ThreadType
  <1>17. ASSUME ScanStale PROVE ThreadType'
    BY <1>17, ThreadFacts, <1>a DEF ScanStale, Erase, Scanned, Stale,
      ThreadType
  <1>18. ASSUME ScanSkip PROVE ThreadType'
    BY <1>18, ThreadFacts, <1>a DEF ScanSkip, Marked, Scanned, Stale,
      ThreadType
  <1>19. ASSUME ScanTake PROVE ThreadType'
    <2>1. Scanned.conn \in Conns /\ conn' = [conn EXCEPT ![Send] = Scanned.conn]
      BY <1>19, ScanFacts DEF ScanTake
    <2>2. conn' \in [Threads -> Conns \cup {NoConn}] BY <1>a, <2>1 DEF ThreadType
    <2> QED BY <1>19, <1>a, <2>2 DEF ScanTake, ThreadType
  <1>20. ASSUME ScanEnd PROVE ThreadType'
    BY <1>20, ThreadFacts, <1>a DEF ScanEnd, ThreadType
  <1>21. ASSUME SendAll PROVE ThreadType'
    BY <1>21, ThreadFacts, <1>a DEF SendAll, Put, SendResults, ThreadType
  <1>22. ASSUME SendPart PROVE ThreadType'
    BY <1>22, ThreadFacts, <1>a DEF SendPart, Put, SendResults, ThreadType
  <1>23. ASSUME SendFails PROVE ThreadType'
    BY <1>23, ThreadFacts, <1>a DEF SendFails, SendResults, ThreadType
  <1>24. ASSUME SendDone PROVE ThreadType'
    BY <1>24, ThreadFacts, <1>a DEF SendDone, ThreadType
  <1>25. ASSUME SendMark PROVE ThreadType'
    BY <1>25, ThreadFacts, <1>a DEF SendMark, ThreadType
  <1>26. ASSUME SendArm PROVE ThreadType'
    BY <1>26, ThreadFacts, <1>a DEF SendArm, ThreadType
  <1>27. ASSUME NEW c \in Conns, Event(c) PROVE ThreadType'
    BY <1>27, ThreadFacts, <1>a DEF Event, OutHalf, ThreadType
  <1>28. ASSUME ReadOn PROVE ThreadType'
    BY <1>28, ThreadFacts, <1>a DEF ReadOn, ThreadType
  <1>29. ASSUME ReadCloses PROVE ThreadType'
    BY <1>29, ThreadFacts, <1>a DEF ReadCloses, ThreadType
  <1>30. ASSUME OutHup PROVE ThreadType'
    BY <1>30, ThreadFacts, <1>a DEF OutHup, Lower, ThreadType
  <1>31. ASSUME WriteAll PROVE ThreadType'
    BY <1>31, ThreadFacts, <1>a DEF WriteAll, Put, SendResults, ThreadType
  <1>32. ASSUME WritePart PROVE ThreadType'
    BY <1>32, ThreadFacts, <1>a DEF WritePart, Put, SendResults, ThreadType
  <1>33. ASSUME WriteFails PROVE ThreadType'
    BY <1>33, ThreadFacts, <1>a DEF WriteFails, SendResults, ThreadType
  <1>34. ASSUME WriteDisarm PROVE ThreadType'
    BY <1>34, ThreadFacts, <1>a DEF WriteDisarm, ThreadType
  <1>35. ASSUME WritePost PROVE ThreadType'
    BY <1>35, ThreadFacts, <1>a DEF WritePost, ThreadType
  <1>36. ASSUME WriteFree PROVE ThreadType'
    BY <1>36, ThreadFacts, <1>a DEF WriteFree, ThreadType
  <1>37. ASSUME WriteUnmark PROVE ThreadType'
    BY <1>37, ThreadFacts, <1>a DEF WriteUnmark, Lower, ThreadType
  <1>38. CASE UNCHANGED vars
    BY <1>38, ThreadFacts, <1>a DEF vars, ThreadType
  <1> QED BY <1>1, <1>2, <1>3, <1>4, <1>5, <1>6, <1>7, <1>8, <1>9, <1>10, <1>11,
       <1>12, <1>13, <1>14, <1>15, <1>16, <1>17, <1>18, <1>19, <1>20, <1>21, <1>22,
       <1>23, <1>24, <1>25, <1>26, <1>27, <1>28, <1>29, <1>30, <1>31, <1>32, <1>33,
       <1>34, <1>35, <1>36, <1>37, <1>38 DEF Next, PoolStep, CloseStep, SendStep,
       WriteStep, Stopped

(* The sockets keep their types.                                           *)
LEMMA SocketTypeStep == ASSUME IInv, [Next]_vars PROVE SocketType'
  <1> USE DEF queueVars, objectVars, threadVars, socketVars, boundVars, Goto
  <1>a. SocketType
    BY TypeParts DEF IInv
  <1>1. ASSUME NEW c \in Conns, AcceptConn(c) PROVE SocketType'
    <2>1. lives' \in [Conns -> Nat] BY <1>1, <1>a DEF AcceptConn, SocketType
    <2>2. wire' \in [Conns -> Seq(Buffers \cup {NoBuf})]
      <3>1. <<>> \in Seq(Buffers \cup {NoBuf}) OBVIOUS
      <3> QED BY <1>1, <1>a, <3>1 DEF AcceptConn, SocketType
    <2>3. room' \in [Conns -> 0 .. Room]
      BY <1>1, <1>a, SendAssumption DEF AcceptConn, SocketType
    <2> QED BY <1>1, <1>a, <2>1, <2>2, <2>3 DEF AcceptConn, SocketType
  <1>2. ASSUME NEW c \in Conns, FreeConnection(c) PROVE SocketType'
    BY <1>2, <1>a DEF FreeConnection, SocketType
  <1>3. ASSUME NEW c \in Conns, ClientReads(c) PROVE SocketType'
    <2>1. room \in [Conns -> 0 .. Room] BY <1>a DEF SocketType
    <2>2. room' \in [Conns -> 0 .. Room] BY <1>3, <2>1, SendAssumption DEF ClientReads
    <2> QED BY <1>3, <1>a, <2>2 DEF ClientReads, SocketType
  <1>4. ASSUME NEW c \in Conns, ClientLeaves(c) PROVE SocketType'
    BY <1>4, <1>a DEF ClientLeaves, SocketType
  <1>5. ASSUME NEW t \in PoolThreads, Request(t) PROVE SocketType'
    BY <1>5, <1>a DEF Request, SocketType
  <1>6. ASSUME NEW t \in PoolThreads, MsgDiscard(t) PROVE SocketType'
    BY <1>6, <1>a DEF MsgDiscard, TooManyQueued, SocketType
  <1>7. ASSUME NEW t \in PoolThreads, MsgSend(t) PROVE SocketType'
    BY <1>7, <1>a DEF MsgSend, TooManyQueued, TooSlow, SocketType
  <1>8. ASSUME NEW t \in PoolThreads, MsgCutOff(t) PROVE SocketType'
    BY <1>8, <1>a DEF MsgCutOff, TooManyQueued, TooSlow, SocketType
  <1>9. ASSUME NEW t \in Closers, ZdClose(t) PROVE SocketType'
    BY <1>9, <1>a DEF ZdClose, SocketType
  <1>10. ASSUME NEW t \in Closers, ZdTestThrow(t) PROVE SocketType'
    BY <1>10, <1>a DEF ZdTestThrow, SocketType
  <1>11. ASSUME NEW t \in Closers, ZdLowerThrow(t) PROVE SocketType'
    <2>1. conn[t] \in Conns BY <1>11, ThreadFacts, HeldFacts DEF ZdLowerThrow, Holds
    <2> QED BY <1>11, <1>a, <2>1 DEF ZdLowerThrow, SocketType
  <1>12. ASSUME NEW t \in Closers, InRecyConnectQueue(t) PROVE SocketType'
    BY <1>12, <1>a DEF InRecyConnectQueue, SocketType
  <1>13. ASSUME KickClient PROVE SocketType'
    BY <1>13, <1>a DEF KickClient, SocketType
  <1>14. ASSUME SemWait PROVE SocketType'
    BY <1>14, <1>a DEF SemWait, SocketType
  <1>15. ASSUME QueueEmpty PROVE SocketType'
    BY <1>15, <1>a DEF QueueEmpty, SocketType
  <1>16. ASSUME LockQueue PROVE SocketType'
    BY <1>16, <1>a DEF LockQueue, SocketType
  <1>17. ASSUME ScanStale PROVE SocketType'
    BY <1>17, <1>a DEF ScanStale, Erase, Scanned, Stale, SocketType
  <1>18. ASSUME ScanSkip PROVE SocketType'
    BY <1>18, <1>a DEF ScanSkip, Marked, Scanned, Stale, SocketType
  <1>19. ASSUME ScanTake PROVE SocketType'
    BY <1>19, <1>a DEF ScanTake, Marked, Erase, Scanned, Stale, SocketType
  <1>20. ASSUME ScanEnd PROVE SocketType'
    BY <1>20, <1>a DEF ScanEnd, SocketType
  <1>21. ASSUME SendAll PROVE SocketType'
    <2>1. conn[Send] \in Conns BY <1>21, ThreadFacts, HeldFacts DEF SendAll, Holds
    <2>2. isendlen[conn[Send]] \in SendResults(conn[Send]) /\ Put(conn[Send], isendlen[conn[Send]])
      BY <1>21 DEF SendAll
    <2>3. isendlen[conn[Send]] >= 0 BY <2>1, IsendlenNat
    <2>4. wire' \in [Conns -> Seq(Buffers \cup {NoBuf})] /\ room' \in [Conns -> 0 .. Room]
      BY <2>1, <2>2, <2>3, PutTyped
    <2> QED BY <1>21, <1>a, <2>4 DEF SendAll, SocketType
  <1>22. ASSUME SendPart PROVE SocketType'
    <2>1. conn[Send] \in Conns BY <1>22, ThreadFacts, HeldFacts DEF SendPart, Holds
    <2>2. PICK n \in SendResults(conn[Send]) :
             \/ 0 < n /\ Put(conn[Send], n)
             \/ wire' = wire /\ room' = room
      BY <1>22, Zenon DEF SendPart
    <2>3. n \in Int BY <2>1, SendFacts
    <2>4. wire' \in [Conns -> Seq(Buffers \cup {NoBuf})] /\ room' \in [Conns -> 0 .. Room]
      <3>1. CASE 0 < n /\ Put(conn[Send], n)
        <4>1. n >= 0 BY <2>3, <3>1
        <4> QED BY <2>1, <3>1, <4>1, PutTyped
      <3>2. CASE wire' = wire /\ room' = room BY <1>a, <3>2 DEF SocketType
      <3> QED BY <2>2, <3>1, <3>2
    <2> QED BY <1>22, <1>a, <2>4 DEF SendPart, SocketType
  <1>23. ASSUME SendFails PROVE SocketType'
    BY <1>23, <1>a DEF SendFails, SendResults, SocketType
  <1>24. ASSUME SendDone PROVE SocketType'
    BY <1>24, <1>a DEF SendDone, SocketType
  <1>25. ASSUME SendMark PROVE SocketType'
    BY <1>25, <1>a DEF SendMark, SocketType
  <1>26. ASSUME SendArm PROVE SocketType'
    BY <1>26, <1>a DEF SendArm, SocketType
  <1>27. ASSUME NEW c \in Conns, Event(c) PROVE SocketType'
    BY <1>27, <1>a DEF Event, OutHalf, SocketType
  <1>28. ASSUME ReadOn PROVE SocketType'
    BY <1>28, <1>a DEF ReadOn, SocketType
  <1>29. ASSUME ReadCloses PROVE SocketType'
    BY <1>29, <1>a DEF ReadCloses, SocketType
  <1>30. ASSUME OutHup PROVE SocketType'
    <2>1. conn[Main] \in Conns BY <1>30, ThreadFacts, HeldFacts DEF OutHup, Holds
    <2> QED BY <1>30, <1>a, <2>1 DEF OutHup, SocketType
  <1>31. ASSUME WriteAll PROVE SocketType'
    <2>1. conn[Main] \in Conns BY <1>31, ThreadFacts, HeldFacts DEF WriteAll, Holds
    <2>2. isendlen[conn[Main]] \in SendResults(conn[Main]) /\ Put(conn[Main], isendlen[conn[Main]])
      BY <1>31 DEF WriteAll
    <2>3. isendlen[conn[Main]] >= 0 BY <2>1, IsendlenNat
    <2>4. wire' \in [Conns -> Seq(Buffers \cup {NoBuf})] /\ room' \in [Conns -> 0 .. Room]
      BY <2>1, <2>2, <2>3, PutTyped
    <2> QED BY <1>31, <1>a, <2>4 DEF WriteAll, SocketType
  <1>32. ASSUME WritePart PROVE SocketType'
    <2>1. conn[Main] \in Conns BY <1>32, ThreadFacts, HeldFacts DEF WritePart, Holds
    <2>2. PICK n \in SendResults(conn[Main]) :
             \/ 0 < n /\ Put(conn[Main], n)
             \/ wire' = wire /\ room' = room
      BY <1>32, Zenon DEF WritePart
    <2>3. n \in Int BY <2>1, SendFacts
    <2>4. wire' \in [Conns -> Seq(Buffers \cup {NoBuf})] /\ room' \in [Conns -> 0 .. Room]
      <3>1. CASE 0 < n /\ Put(conn[Main], n)
        <4>1. n >= 0 BY <2>3, <3>1
        <4> QED BY <2>1, <3>1, <4>1, PutTyped
      <3>2. CASE wire' = wire /\ room' = room BY <1>a, <3>2 DEF SocketType
      <3> QED BY <2>2, <3>1, <3>2
    <2> QED BY <1>32, <1>a, <2>4 DEF WritePart, SocketType
  <1>33. ASSUME WriteFails PROVE SocketType'
    BY <1>33, <1>a DEF WriteFails, SendResults, SocketType
  <1>34. ASSUME WriteDisarm PROVE SocketType'
    BY <1>34, <1>a DEF WriteDisarm, SocketType
  <1>35. ASSUME WritePost PROVE SocketType'
    BY <1>35, <1>a DEF WritePost, SocketType
  <1>36. ASSUME WriteFree PROVE SocketType'
    BY <1>36, <1>a DEF WriteFree, SocketType
  <1>37. ASSUME WriteUnmark PROVE SocketType'
    BY <1>37, <1>a DEF WriteUnmark, Lower, SocketType
  <1>38. CASE UNCHANGED vars
    BY <1>38, <1>a DEF vars, SocketType
  <1> QED BY <1>1, <1>2, <1>3, <1>4, <1>5, <1>6, <1>7, <1>8, <1>9, <1>10, <1>11,
       <1>12, <1>13, <1>14, <1>15, <1>16, <1>17, <1>18, <1>19, <1>20, <1>21, <1>22,
       <1>23, <1>24, <1>25, <1>26, <1>27, <1>28, <1>29, <1>30, <1>31, <1>32, <1>33,
       <1>34, <1>35, <1>36, <1>37, <1>38 DEF Next, PoolStep, CloseStep, SendStep,
       WriteStep, Stopped

(* Every step keeps the type invariant.                                    *)
LEMMA TypeStep == ASSUME IInv, [Next]_vars PROVE TypeOK'
  BY QueueTypeStep, ListTypeStep, CountTypeStep, ThreadTypeStep, SocketTypeStep
     DEF TypeOK, QueueType, ListType, CountType, ThreadType, SocketType

-----------------------------------------------------------------------------
(* Where the threads are.                                                  *)

(* Every thread stays where its code can be, and the mutex with a thread   *)
(* that is between its lock and its unlock.                                *)
LEMMA PcStep == ASSUME IInv, [Next]_vars PROVE PcInv'
  <1> USE DEF queueVars, objectVars, threadVars, socketVars, boundVars, Goto
  <1>a. PcInv BY DEF IInv
  <1>b. ThreadType BY TypeParts DEF IInv
  <1>1. ASSUME NEW c \in Conns, AcceptConn(c) PROVE PcInv'
    BY <1>1, <1>a, ThreadFacts, <1>b DEF AcceptConn, PcInv, ThreadType, ClosePcs,
      WritePcs, BusyPcs
  <1>2. ASSUME NEW c \in Conns, FreeConnection(c) PROVE PcInv'
    BY <1>2, <1>a, ThreadFacts, <1>b DEF FreeConnection, PcInv, ThreadType,
      ClosePcs, WritePcs, BusyPcs
  <1>3. ASSUME NEW c \in Conns, ClientReads(c) PROVE PcInv'
    BY <1>3, <1>a, ThreadFacts, <1>b DEF ClientReads, PcInv, ThreadType, ClosePcs,
      WritePcs, BusyPcs
  <1>4. ASSUME NEW c \in Conns, ClientLeaves(c) PROVE PcInv'
    BY <1>4, <1>a, ThreadFacts, <1>b DEF ClientLeaves, PcInv, ThreadType, ClosePcs,
      WritePcs, BusyPcs
  <1>5. ASSUME NEW t \in PoolThreads, Request(t) PROVE PcInv'
    BY <1>5, <1>a, ThreadFacts, <1>b DEF Request, PcInv, ThreadType, ClosePcs,
      WritePcs, BusyPcs
  <1>6. ASSUME NEW t \in PoolThreads, MsgDiscard(t) PROVE PcInv'
    BY <1>6, <1>a, ThreadFacts, <1>b DEF MsgDiscard, TooManyQueued, PcInv,
      ThreadType, ClosePcs, WritePcs, BusyPcs
  <1>7. ASSUME NEW t \in PoolThreads, MsgSend(t) PROVE PcInv'
    BY <1>7, <1>a, ThreadFacts, <1>b DEF MsgSend, TooManyQueued, TooSlow, PcInv,
      ThreadType, ClosePcs, WritePcs, BusyPcs
  <1>8. ASSUME NEW t \in PoolThreads, MsgCutOff(t) PROVE PcInv'
    BY <1>8, <1>a, ThreadFacts, <1>b DEF MsgCutOff, TooManyQueued, TooSlow, PcInv,
      ThreadType, ClosePcs, WritePcs, BusyPcs
  <1>9. ASSUME NEW t \in Closers, ZdClose(t) PROVE PcInv'
    BY <1>9, <1>a, ThreadFacts, <1>b DEF ZdClose, PcInv, ThreadType, ClosePcs,
      WritePcs, BusyPcs
  <1>10. ASSUME NEW t \in Closers, ZdTestThrow(t) PROVE PcInv'
    BY <1>10, <1>a, ThreadFacts, <1>b DEF ZdTestThrow, PcInv, ThreadType, ClosePcs,
      WritePcs, BusyPcs
  <1>11. ASSUME NEW t \in Closers, ZdLowerThrow(t) PROVE PcInv'
    BY <1>11, <1>a, ThreadFacts, <1>b DEF ZdLowerThrow, Lower, PcInv, ThreadType,
      ClosePcs, WritePcs, BusyPcs
  <1>12. ASSUME NEW t \in Closers, InRecyConnectQueue(t) PROVE PcInv'
    BY <1>12, <1>a, ThreadFacts, <1>b DEF InRecyConnectQueue, PcInv, ThreadType,
      ClosePcs, WritePcs, BusyPcs
  <1>13. ASSUME KickClient PROVE PcInv'
    BY <1>13, <1>a, ThreadFacts, <1>b DEF KickClient, PcInv, ThreadType, ClosePcs,
      WritePcs, BusyPcs
  <1>14. ASSUME SemWait PROVE PcInv'
    BY <1>14, <1>a, ThreadFacts, <1>b DEF SemWait, PcInv, ThreadType, ClosePcs,
      WritePcs, BusyPcs
  <1>15. ASSUME QueueEmpty PROVE PcInv'
    BY <1>15, <1>a, ThreadFacts, <1>b DEF QueueEmpty, PcInv, ThreadType, ClosePcs,
      WritePcs, BusyPcs
  <1>16. ASSUME LockQueue PROVE PcInv'
    BY <1>16, <1>a, ThreadFacts, <1>b DEF LockQueue, PcInv, ThreadType, ClosePcs,
      WritePcs, BusyPcs
  <1>17. ASSUME ScanStale PROVE PcInv'
    BY <1>17, <1>a, ThreadFacts, <1>b DEF ScanStale, Erase, Scanned, Stale, PcInv,
      ThreadType, ClosePcs, WritePcs, BusyPcs
  <1>18. ASSUME ScanSkip PROVE PcInv'
    BY <1>18, <1>a, ThreadFacts, <1>b DEF ScanSkip, Marked, Scanned, Stale, PcInv,
      ThreadType, ClosePcs, WritePcs, BusyPcs
  <1>19. ASSUME ScanTake PROVE PcInv'
    BY <1>19, <1>a, ThreadFacts, <1>b DEF ScanTake, Marked, Erase, Scanned, Stale,
      PcInv, ThreadType, ClosePcs, WritePcs, BusyPcs
  <1>20. ASSUME ScanEnd PROVE PcInv'
    BY <1>20, <1>a, ThreadFacts, <1>b DEF ScanEnd, PcInv, ThreadType, ClosePcs,
      WritePcs, BusyPcs
  <1>21. ASSUME SendAll PROVE PcInv'
    BY <1>21, <1>a, ThreadFacts, <1>b DEF SendAll, Put, SendResults, PcInv,
      ThreadType, ClosePcs, WritePcs, BusyPcs
  <1>22. ASSUME SendPart PROVE PcInv'
    BY <1>22, <1>a, ThreadFacts, <1>b DEF SendPart, Put, SendResults, PcInv,
      ThreadType, ClosePcs, WritePcs, BusyPcs
  <1>23. ASSUME SendFails PROVE PcInv'
    BY <1>23, <1>a, ThreadFacts, <1>b DEF SendFails, SendResults, PcInv, ThreadType,
      ClosePcs, WritePcs, BusyPcs
  <1>24. ASSUME SendDone PROVE PcInv'
    BY <1>24, <1>a, ThreadFacts, <1>b DEF SendDone, PcInv, ThreadType, ClosePcs,
      WritePcs, BusyPcs
  <1>25. ASSUME SendMark PROVE PcInv'
    BY <1>25, <1>a, ThreadFacts, <1>b DEF SendMark, PcInv, ThreadType, ClosePcs,
      WritePcs, BusyPcs
  <1>26. ASSUME SendArm PROVE PcInv'
    BY <1>26, <1>a, ThreadFacts, <1>b DEF SendArm, PcInv, ThreadType, ClosePcs,
      WritePcs, BusyPcs
  <1>27. ASSUME NEW c \in Conns, Event(c) PROVE PcInv'
    BY <1>27, <1>a, ThreadFacts, <1>b DEF Event, OutHalf, PcInv, ThreadType,
      ClosePcs, WritePcs, BusyPcs
  <1>28. ASSUME ReadOn PROVE PcInv'
    BY <1>28, <1>a, ThreadFacts, <1>b DEF ReadOn, PcInv, ThreadType, ClosePcs,
      WritePcs, BusyPcs
  <1>29. ASSUME ReadCloses PROVE PcInv'
    BY <1>29, <1>a, ThreadFacts, <1>b DEF ReadCloses, PcInv, ThreadType, ClosePcs,
      WritePcs, BusyPcs
  <1>30. ASSUME OutHup PROVE PcInv'
    BY <1>30, <1>a, ThreadFacts, <1>b DEF OutHup, Lower, PcInv, ThreadType,
      ClosePcs, WritePcs, BusyPcs
  <1>31. ASSUME WriteAll PROVE PcInv'
    BY <1>31, <1>a, ThreadFacts, <1>b DEF WriteAll, Put, SendResults, PcInv,
      ThreadType, ClosePcs, WritePcs, BusyPcs
  <1>32. ASSUME WritePart PROVE PcInv'
    BY <1>32, <1>a, ThreadFacts, <1>b DEF WritePart, Put, SendResults, PcInv,
      ThreadType, ClosePcs, WritePcs, BusyPcs
  <1>33. ASSUME WriteFails PROVE PcInv'
    BY <1>33, <1>a, ThreadFacts, <1>b DEF WriteFails, SendResults, PcInv,
      ThreadType, ClosePcs, WritePcs, BusyPcs
  <1>34. ASSUME WriteDisarm PROVE PcInv'
    BY <1>34, <1>a, ThreadFacts, <1>b DEF WriteDisarm, PcInv, ThreadType, ClosePcs,
      WritePcs, BusyPcs
  <1>35. ASSUME WritePost PROVE PcInv'
    BY <1>35, <1>a, ThreadFacts, <1>b DEF WritePost, PcInv, ThreadType, ClosePcs,
      WritePcs, BusyPcs
  <1>36. ASSUME WriteFree PROVE PcInv'
    BY <1>36, <1>a, ThreadFacts, <1>b DEF WriteFree, PcInv, ThreadType, ClosePcs,
      WritePcs, BusyPcs
  <1>37. ASSUME WriteUnmark PROVE PcInv'
    BY <1>37, <1>a, ThreadFacts, <1>b DEF WriteUnmark, Lower, PcInv, ThreadType,
      ClosePcs, WritePcs, BusyPcs
  <1>38. CASE UNCHANGED vars
    BY <1>38, <1>a, ThreadFacts, <1>b DEF vars, PcInv, ThreadType, ClosePcs,
      WritePcs, BusyPcs
  <1> QED BY <1>1, <1>2, <1>3, <1>4, <1>5, <1>6, <1>7, <1>8, <1>9, <1>10, <1>11,
       <1>12, <1>13, <1>14, <1>15, <1>16, <1>17, <1>18, <1>19, <1>20, <1>21, <1>22,
       <1>23, <1>24, <1>25, <1>26, <1>27, <1>28, <1>29, <1>30, <1>31, <1>32, <1>33,
       <1>34, <1>35, <1>36, <1>37, <1>38 DEF Next, PoolStep, CloseStep, SendStep,
       WriteStep, Stopped

(* A step that makes and gives up no packet keeps the count.              *)
LEMMA MadeStep == ASSUME IInv, [Next]_vars PROVE MadeInv'
  <1> USE DEF queueVars, objectVars, threadVars, socketVars, boundVars, Goto
  <1>a. PcInv BY DEF IInv
  <1>b. ThreadType BY TypeParts DEF IInv
  <1>c. MadeInv BY DEF IInv
  <1>1. ASSUME NEW c \in Conns, AcceptConn(c) PROVE MadeInv'
    <2>1. Replying' = Replying /\ buf' = buf
      BY <1>1, <1>a, ThreadFacts, <1>b DEF AcceptConn, PcInv, ThreadType, Replying,
        ClosePcs, WritePcs, BusyPcs
    <2> QED BY <2>1, <1>c DEF MadeInv
  <1>2. ASSUME NEW c \in Conns, FreeConnection(c) PROVE MadeInv'
    <2>1. Replying' = Replying /\ buf' = buf
      BY <1>2, <1>a, ThreadFacts, <1>b DEF FreeConnection, PcInv, ThreadType,
        Replying, ClosePcs, WritePcs, BusyPcs
    <2> QED BY <2>1, <1>c DEF MadeInv
  <1>3. ASSUME NEW c \in Conns, ClientReads(c) PROVE MadeInv'
    <2>1. Replying' = Replying /\ buf' = buf
      BY <1>3, <1>a, ThreadFacts, <1>b DEF ClientReads, PcInv, ThreadType, Replying,
        ClosePcs, WritePcs, BusyPcs
    <2> QED BY <2>1, <1>c DEF MadeInv
  <1>4. ASSUME NEW c \in Conns, ClientLeaves(c) PROVE MadeInv'
    <2>1. Replying' = Replying /\ buf' = buf
      BY <1>4, <1>a, ThreadFacts, <1>b DEF ClientLeaves, PcInv, ThreadType,
        Replying, ClosePcs, WritePcs, BusyPcs
    <2> QED BY <2>1, <1>c DEF MadeInv
  <1>5. ASSUME NEW t \in PoolThreads, Request(t) PROVE MadeInv'
    <2>1. Replying' = Replying \cup {t} /\ t \notin Replying
      BY <1>5, <1>b DEF Request, Replying, ThreadType, Threads, Closers
    <2>2. Len(buf) + Cardinality(Replying) < MaxBuffers /\ buf' = buf
      BY <1>5 DEF Request, Replying
    <2> DEFINE R == Replying
    <2>3. IsFiniteSet(R) /\ Replying' = R \cup {t} /\ t \notin R BY <2>1, <1>c DEF MadeInv
    <2> HIDE DEF R
    <2>4. IsFiniteSet(R \cup {t}) /\ Cardinality(R \cup {t}) = Cardinality(R) + 1
          /\ Cardinality(R) \in Nat
      BY <2>3, FS_AddElement, FS_CardinalityType
    <2>5. Len(buf) + Cardinality(R) < MaxBuffers BY <2>2 DEF R
    <2>6. Len(buf) \in Nat BY DEF IInv, TypeOK
    <2> QED BY <2>2, <2>3, <2>4, <2>5, <2>6, SendAssumption DEF MadeInv
  <1>6. ASSUME NEW t \in PoolThreads, MsgDiscard(t) PROVE MadeInv'
    <2>1. Replying' = Replying \ {t} /\ t \in Replying
      BY <1>6, <1>b DEF MsgDiscard, Replying, ThreadType, Threads, Closers
    <2> DEFINE R == Replying
    <2>2. /\ IsFiniteSet(R) /\ Replying' = R \ {t} /\ t \in R
          /\ Len(buf) + Cardinality(R) <= MaxBuffers
      BY <2>1, <1>c DEF MadeInv
    <2> HIDE DEF R
    <2>3. IsFiniteSet(R \ {t}) /\ Cardinality(R \ {t}) = Cardinality(R) - 1
          /\ Cardinality(R) \in Nat
      BY <2>2, FS_RemoveElement, FS_CardinalityType
    <2>4. Len(buf) \in Nat /\ Len(buf') \in Nat /\ Len(buf') <= Len(buf) + 1
      BY <1>6 DEF MsgDiscard, IInv, TypeOK
    <2> QED BY <2>2, <2>3, <2>4, SendAssumption DEF MadeInv
  <1>7. ASSUME NEW t \in PoolThreads, MsgSend(t) PROVE MadeInv'
    <2>1. Replying' = Replying \ {t} /\ t \in Replying
      BY <1>7, <1>b DEF MsgSend, Replying, ThreadType, Threads, Closers
    <2> DEFINE R == Replying
    <2>2. /\ IsFiniteSet(R) /\ Replying' = R \ {t} /\ t \in R
          /\ Len(buf) + Cardinality(R) <= MaxBuffers
      BY <2>1, <1>c DEF MadeInv
    <2> HIDE DEF R
    <2>3. IsFiniteSet(R \ {t}) /\ Cardinality(R \ {t}) = Cardinality(R) - 1
          /\ Cardinality(R) \in Nat
      BY <2>2, FS_RemoveElement, FS_CardinalityType
    <2>4. Len(buf) \in Nat /\ Len(buf') \in Nat /\ Len(buf') <= Len(buf) + 1
      <3> DEFINE m == [conn |-> conn[t], sequence |-> request[t]]
                 H == [conn : Conns, sequence : Nat]
      <3>1. buf' = Append(buf, m) BY <1>7 DEF MsgSend
      <3>2. buf \in Seq(H) BY DEF IInv, TypeOK
      <3> HIDE DEF m, H
      <3> QED BY <3>1, <3>2
    <2> QED BY <2>2, <2>3, <2>4, SendAssumption DEF MadeInv
  <1>8. ASSUME NEW t \in PoolThreads, MsgCutOff(t) PROVE MadeInv'
    <2>1. Replying' = Replying \ {t} /\ t \in Replying
      BY <1>8, <1>b DEF MsgCutOff, Replying, ThreadType, Threads, Closers
    <2> DEFINE R == Replying
    <2>2. /\ IsFiniteSet(R) /\ Replying' = R \ {t} /\ t \in R
          /\ Len(buf) + Cardinality(R) <= MaxBuffers
      BY <2>1, <1>c DEF MadeInv
    <2> HIDE DEF R
    <2>3. IsFiniteSet(R \ {t}) /\ Cardinality(R \ {t}) = Cardinality(R) - 1
          /\ Cardinality(R) \in Nat
      BY <2>2, FS_RemoveElement, FS_CardinalityType
    <2>4. Len(buf) \in Nat /\ Len(buf') \in Nat /\ Len(buf') <= Len(buf) + 1
      BY <1>8 DEF MsgCutOff, IInv, TypeOK
    <2> QED BY <2>2, <2>3, <2>4, SendAssumption DEF MadeInv
  <1>9. ASSUME NEW t \in Closers, ZdClose(t) PROVE MadeInv'
    <2>1. Replying' = Replying /\ buf' = buf
      BY <1>9, <1>a, ThreadFacts, <1>b DEF ZdClose, PcInv, ThreadType, Replying,
        ClosePcs, WritePcs, BusyPcs
    <2> QED BY <2>1, <1>c DEF MadeInv
  <1>10. ASSUME NEW t \in Closers, ZdTestThrow(t) PROVE MadeInv'
    <2>1. Replying' = Replying /\ buf' = buf
      BY <1>10, <1>a, ThreadFacts, <1>b DEF ZdTestThrow, PcInv, ThreadType,
        Replying, ClosePcs, WritePcs, BusyPcs
    <2> QED BY <2>1, <1>c DEF MadeInv
  <1>11. ASSUME NEW t \in Closers, ZdLowerThrow(t) PROVE MadeInv'
    <2>1. Replying' = Replying /\ buf' = buf
      BY <1>11, <1>a, ThreadFacts, <1>b DEF ZdLowerThrow, Lower, PcInv, ThreadType,
        Replying, ClosePcs, WritePcs, BusyPcs
    <2> QED BY <2>1, <1>c DEF MadeInv
  <1>12. ASSUME NEW t \in Closers, InRecyConnectQueue(t) PROVE MadeInv'
    <2>1. Replying' = Replying /\ buf' = buf
      BY <1>12, <1>a, ThreadFacts, <1>b DEF InRecyConnectQueue, PcInv, ThreadType,
        Replying, ClosePcs, WritePcs, BusyPcs
    <2> QED BY <2>1, <1>c DEF MadeInv
  <1>13. ASSUME KickClient PROVE MadeInv'
    <2>1. Replying' = Replying /\ buf' = buf
      BY <1>13, <1>a, ThreadFacts, <1>b DEF KickClient, PcInv, ThreadType, Replying,
        ClosePcs, WritePcs, BusyPcs
    <2> QED BY <2>1, <1>c DEF MadeInv
  <1>14. ASSUME SemWait PROVE MadeInv'
    <2>1. Replying' = Replying /\ buf' = buf
      BY <1>14, <1>a, ThreadFacts, <1>b DEF SemWait, PcInv, ThreadType, Replying,
        ClosePcs, WritePcs, BusyPcs
    <2> QED BY <2>1, <1>c DEF MadeInv
  <1>15. ASSUME QueueEmpty PROVE MadeInv'
    <2>1. Replying' = Replying /\ buf' = buf
      BY <1>15, <1>a, ThreadFacts, <1>b DEF QueueEmpty, PcInv, ThreadType, Replying,
        ClosePcs, WritePcs, BusyPcs
    <2> QED BY <2>1, <1>c DEF MadeInv
  <1>16. ASSUME LockQueue PROVE MadeInv'
    <2>1. Replying' = Replying /\ buf' = buf
      BY <1>16, <1>a, ThreadFacts, <1>b DEF LockQueue, PcInv, ThreadType, Replying,
        ClosePcs, WritePcs, BusyPcs
    <2> QED BY <2>1, <1>c DEF MadeInv
  <1>17. ASSUME ScanStale PROVE MadeInv'
    <2>1. Replying' = Replying /\ buf' = buf
      BY <1>17, <1>a, ThreadFacts, <1>b DEF ScanStale, Erase, Scanned, Stale, PcInv,
        ThreadType, Replying, ClosePcs, WritePcs, BusyPcs
    <2> QED BY <2>1, <1>c DEF MadeInv
  <1>18. ASSUME ScanSkip PROVE MadeInv'
    <2>1. Replying' = Replying /\ buf' = buf
      BY <1>18, <1>a, ThreadFacts, <1>b DEF ScanSkip, Marked, Scanned, Stale, PcInv,
        ThreadType, Replying, ClosePcs, WritePcs, BusyPcs
    <2> QED BY <2>1, <1>c DEF MadeInv
  <1>19. ASSUME ScanTake PROVE MadeInv'
    <2>1. Replying' = Replying /\ buf' = buf
      BY <1>19, <1>a, ThreadFacts, <1>b DEF ScanTake, Marked, Erase, Scanned, Stale,
        PcInv, ThreadType, Replying, ClosePcs, WritePcs, BusyPcs
    <2> QED BY <2>1, <1>c DEF MadeInv
  <1>20. ASSUME ScanEnd PROVE MadeInv'
    <2>1. Replying' = Replying /\ buf' = buf
      BY <1>20, <1>a, ThreadFacts, <1>b DEF ScanEnd, PcInv, ThreadType, Replying,
        ClosePcs, WritePcs, BusyPcs
    <2> QED BY <2>1, <1>c DEF MadeInv
  <1>21. ASSUME SendAll PROVE MadeInv'
    <2>1. Replying' = Replying /\ buf' = buf
      BY <1>21, <1>a, ThreadFacts, <1>b DEF SendAll, Put, SendResults, PcInv,
        ThreadType, Replying, ClosePcs, WritePcs, BusyPcs
    <2> QED BY <2>1, <1>c DEF MadeInv
  <1>22. ASSUME SendPart PROVE MadeInv'
    <2>1. Replying' = Replying /\ buf' = buf
      BY <1>22, <1>a, ThreadFacts, <1>b DEF SendPart, Put, SendResults, PcInv,
        ThreadType, Replying, ClosePcs, WritePcs, BusyPcs
    <2> QED BY <2>1, <1>c DEF MadeInv
  <1>23. ASSUME SendFails PROVE MadeInv'
    <2>1. Replying' = Replying /\ buf' = buf
      BY <1>23, <1>a, ThreadFacts, <1>b DEF SendFails, SendResults, PcInv,
        ThreadType, Replying, ClosePcs, WritePcs, BusyPcs
    <2> QED BY <2>1, <1>c DEF MadeInv
  <1>24. ASSUME SendDone PROVE MadeInv'
    <2>1. Replying' = Replying /\ buf' = buf
      BY <1>24, <1>a, ThreadFacts, <1>b DEF SendDone, PcInv, ThreadType, Replying,
        ClosePcs, WritePcs, BusyPcs
    <2> QED BY <2>1, <1>c DEF MadeInv
  <1>25. ASSUME SendMark PROVE MadeInv'
    <2>1. Replying' = Replying /\ buf' = buf
      BY <1>25, <1>a, ThreadFacts, <1>b DEF SendMark, PcInv, ThreadType, Replying,
        ClosePcs, WritePcs, BusyPcs
    <2> QED BY <2>1, <1>c DEF MadeInv
  <1>26. ASSUME SendArm PROVE MadeInv'
    <2>1. Replying' = Replying /\ buf' = buf
      BY <1>26, <1>a, ThreadFacts, <1>b DEF SendArm, PcInv, ThreadType, Replying,
        ClosePcs, WritePcs, BusyPcs
    <2> QED BY <2>1, <1>c DEF MadeInv
  <1>27. ASSUME NEW c \in Conns, Event(c) PROVE MadeInv'
    <2>1. Replying' = Replying /\ buf' = buf
      BY <1>27, <1>a, ThreadFacts, <1>b DEF Event, OutHalf, PcInv, ThreadType,
        Replying, ClosePcs, WritePcs, BusyPcs
    <2> QED BY <2>1, <1>c DEF MadeInv
  <1>28. ASSUME ReadOn PROVE MadeInv'
    <2>1. Replying' = Replying /\ buf' = buf
      BY <1>28, <1>a, ThreadFacts, <1>b DEF ReadOn, PcInv, ThreadType, Replying,
        ClosePcs, WritePcs, BusyPcs
    <2> QED BY <2>1, <1>c DEF MadeInv
  <1>29. ASSUME ReadCloses PROVE MadeInv'
    <2>1. Replying' = Replying /\ buf' = buf
      BY <1>29, <1>a, ThreadFacts, <1>b DEF ReadCloses, PcInv, ThreadType, Replying,
        ClosePcs, WritePcs, BusyPcs
    <2> QED BY <2>1, <1>c DEF MadeInv
  <1>30. ASSUME OutHup PROVE MadeInv'
    <2>1. Replying' = Replying /\ buf' = buf
      BY <1>30, <1>a, ThreadFacts, <1>b DEF OutHup, Lower, PcInv, ThreadType,
        Replying, ClosePcs, WritePcs, BusyPcs
    <2> QED BY <2>1, <1>c DEF MadeInv
  <1>31. ASSUME WriteAll PROVE MadeInv'
    <2>1. Replying' = Replying /\ buf' = buf
      BY <1>31, <1>a, ThreadFacts, <1>b DEF WriteAll, Put, SendResults, PcInv,
        ThreadType, Replying, ClosePcs, WritePcs, BusyPcs
    <2> QED BY <2>1, <1>c DEF MadeInv
  <1>32. ASSUME WritePart PROVE MadeInv'
    <2>1. Replying' = Replying /\ buf' = buf
      BY <1>32, <1>a, ThreadFacts, <1>b DEF WritePart, Put, SendResults, PcInv,
        ThreadType, Replying, ClosePcs, WritePcs, BusyPcs
    <2> QED BY <2>1, <1>c DEF MadeInv
  <1>33. ASSUME WriteFails PROVE MadeInv'
    <2>1. Replying' = Replying /\ buf' = buf
      BY <1>33, <1>a, ThreadFacts, <1>b DEF WriteFails, SendResults, PcInv,
        ThreadType, Replying, ClosePcs, WritePcs, BusyPcs
    <2> QED BY <2>1, <1>c DEF MadeInv
  <1>34. ASSUME WriteDisarm PROVE MadeInv'
    <2>1. Replying' = Replying /\ buf' = buf
      BY <1>34, <1>a, ThreadFacts, <1>b DEF WriteDisarm, PcInv, ThreadType,
        Replying, ClosePcs, WritePcs, BusyPcs
    <2> QED BY <2>1, <1>c DEF MadeInv
  <1>35. ASSUME WritePost PROVE MadeInv'
    <2>1. Replying' = Replying /\ buf' = buf
      BY <1>35, <1>a, ThreadFacts, <1>b DEF WritePost, PcInv, ThreadType, Replying,
        ClosePcs, WritePcs, BusyPcs
    <2> QED BY <2>1, <1>c DEF MadeInv
  <1>36. ASSUME WriteFree PROVE MadeInv'
    <2>1. Replying' = Replying /\ buf' = buf
      BY <1>36, <1>a, ThreadFacts, <1>b DEF WriteFree, PcInv, ThreadType, Replying,
        ClosePcs, WritePcs, BusyPcs
    <2> QED BY <2>1, <1>c DEF MadeInv
  <1>37. ASSUME WriteUnmark PROVE MadeInv'
    <2>1. Replying' = Replying /\ buf' = buf
      BY <1>37, <1>a, ThreadFacts, <1>b DEF WriteUnmark, Lower, PcInv, ThreadType,
        Replying, ClosePcs, WritePcs, BusyPcs
    <2> QED BY <2>1, <1>c DEF MadeInv
  <1>38. CASE UNCHANGED vars
    <2>1. Replying' = Replying /\ buf' = buf
      BY <1>38, <1>a, ThreadFacts, <1>b DEF vars, PcInv, ThreadType, Replying,
        ClosePcs, WritePcs, BusyPcs
    <2> QED BY <2>1, <1>c DEF MadeInv
  <1> QED BY <1>1, <1>2, <1>3, <1>4, <1>5, <1>6, <1>7, <1>8, <1>9, <1>10, <1>11,
       <1>12, <1>13, <1>14, <1>15, <1>16, <1>17, <1>18, <1>19, <1>20, <1>21, <1>22,
       <1>23, <1>24, <1>25, <1>26, <1>27, <1>28, <1>29, <1>30, <1>31, <1>32, <1>33,
       <1>34, <1>35, <1>36, <1>37, <1>38 DEF Next, PoolStep, CloseStep, SendStep,
       WriteStep, Stopped

(* The packet under the scan is of an object that is not free.             *)
LEMMA ScanHeld ==
  ASSUME IInv, pos <= Len(sendQueue), ~Stale
  PROVE  Scanned.conn \in Conns /\ place[Scanned.conn] # "free"
  <1>1. sendQueue[pos] \in DOMAIN buf /\ Scanned.conn \in Conns BY ScanFacts
  <1> QED BY <1>1 DEF IInv, BufferInv, AgeInv, Scanned, Stale

-----------------------------------------------------------------------------
(* What a held object can be.                                              *)

(* An object is held until it is out of use: freeing waits for every       *)
(* holder.                                                                 *)
LEMMA HeldStep == ASSUME IInv, [Next]_vars PROVE HeldInv'
  <1> USE DEF queueVars, objectVars, threadVars, socketVars, boundVars, Goto
  <1>a. PcInv BY DEF IInv
  <1>b. ThreadType BY TypeParts DEF IInv
  <1>c. ListType BY TypeParts DEF IInv
  <1>d. HeldInv BY DEF IInv, HoldInv
  <1>1. ASSUME NEW c \in Conns, AcceptConn(c) PROVE HeldInv'
    <2>1. pc' = pc /\ conn' = conn /\ place[c] = "free" BY <1>1 DEF AcceptConn
    <2>2. /\ place'[c] = "use"
          /\ \A d \in Conns : d # c => place'[d] = place[d] /\ connected'[d] = connected[d]
      BY <1>1, <1>c DEF AcceptConn, ListType
    <2>3. \A t \in Threads : Holds(t) => conn[t] \in Conns /\ conn[t] # c
      BY <1>d, <2>1 DEF HeldInv
    <2>4. \A t \in Threads : pc[t] \in {"test", "lower", "recycle"} => Holds(t)
      BY DEF Holds
    <2>5. \A t \in Threads : Holds(t)' <=> Holds(t) BY <2>1 DEF Holds
    <2> QED BY <1>d, <2>1, <2>2, <2>3, <2>4, <2>5 DEF HeldInv
  <1>2. ASSUME NEW c \in Conns, FreeConnection(c) PROVE HeldInv'
    BY <1>2, <1>a, <1>b, <1>c, <1>d, ThreadFacts DEF FreeConnection, Held, HeldInv,
      PcInv, ThreadType, ListType, Holds, ClosePcs, WritePcs, BusyPcs
  <1>3. ASSUME NEW c \in Conns, ClientReads(c) PROVE HeldInv'
    BY <1>3, <1>a, <1>b, <1>c, <1>d, ThreadFacts DEF ClientReads, HeldInv, PcInv,
      ThreadType, ListType, Holds, ClosePcs, WritePcs, BusyPcs
  <1>4. ASSUME NEW c \in Conns, ClientLeaves(c) PROVE HeldInv'
    BY <1>4, <1>a, <1>b, <1>c, <1>d, ThreadFacts DEF ClientLeaves, HeldInv, PcInv,
      ThreadType, ListType, Holds, ClosePcs, WritePcs, BusyPcs
  <1>5. ASSUME NEW t \in PoolThreads, Request(t) PROVE HeldInv'
    BY <1>5, <1>a, <1>b, <1>c, <1>d, ThreadFacts DEF Request, HeldInv, PcInv,
      ThreadType, ListType, Holds, ClosePcs, WritePcs, BusyPcs
  <1>6. ASSUME NEW t \in PoolThreads, MsgDiscard(t) PROVE HeldInv'
    BY <1>6, <1>a, <1>b, <1>c, <1>d, ThreadFacts DEF MsgDiscard, TooManyQueued,
      HeldInv, PcInv, ThreadType, ListType, Holds, ClosePcs, WritePcs, BusyPcs
  <1>7. ASSUME NEW t \in PoolThreads, MsgSend(t) PROVE HeldInv'
    BY <1>7, <1>a, <1>b, <1>c, <1>d, ThreadFacts DEF MsgSend, TooManyQueued,
      TooSlow, HeldInv, PcInv, ThreadType, ListType, Holds, ClosePcs, WritePcs,
      BusyPcs
  <1>8. ASSUME NEW t \in PoolThreads, MsgCutOff(t) PROVE HeldInv'
    BY <1>8, <1>a, <1>b, <1>c, <1>d, ThreadFacts DEF MsgCutOff, TooManyQueued,
      TooSlow, HeldInv, PcInv, ThreadType, ListType, Holds, ClosePcs, WritePcs,
      BusyPcs
  <1>9. ASSUME NEW t \in Closers, ZdClose(t) PROVE HeldInv'
    BY <1>9, <1>a, <1>b, <1>c, <1>d, ThreadFacts DEF ZdClose, HeldInv, PcInv,
      ThreadType, ListType, Holds, ClosePcs, WritePcs, BusyPcs
  <1>10. ASSUME NEW t \in Closers, ZdTestThrow(t) PROVE HeldInv'
    BY <1>10, <1>a, <1>b, <1>c, <1>d, ThreadFacts DEF ZdTestThrow, HeldInv, PcInv,
      ThreadType, ListType, Holds, ClosePcs, WritePcs, BusyPcs
  <1>11. ASSUME NEW t \in Closers, ZdLowerThrow(t) PROVE HeldInv'
    BY <1>11, <1>a, <1>b, <1>c, <1>d, ThreadFacts DEF ZdLowerThrow, Lower, HeldInv,
      PcInv, ThreadType, ListType, Holds, ClosePcs, WritePcs, BusyPcs
  <1>12. ASSUME NEW t \in Closers, InRecyConnectQueue(t) PROVE HeldInv'
    BY <1>12, <1>a, <1>b, <1>c, <1>d, ThreadFacts DEF InRecyConnectQueue, HeldInv,
      PcInv, ThreadType, ListType, Holds, ClosePcs, WritePcs, BusyPcs
  <1>13. ASSUME KickClient PROVE HeldInv'
    BY <1>13, <1>a, <1>b, <1>c, <1>d, ThreadFacts DEF KickClient, HeldInv, PcInv,
      ThreadType, ListType, Holds, ClosePcs, WritePcs, BusyPcs
  <1>14. ASSUME SemWait PROVE HeldInv'
    BY <1>14, <1>a, <1>b, <1>c, <1>d, ThreadFacts DEF SemWait, HeldInv, PcInv,
      ThreadType, ListType, Holds, ClosePcs, WritePcs, BusyPcs
  <1>15. ASSUME QueueEmpty PROVE HeldInv'
    BY <1>15, <1>a, <1>b, <1>c, <1>d, ThreadFacts DEF QueueEmpty, HeldInv, PcInv,
      ThreadType, ListType, Holds, ClosePcs, WritePcs, BusyPcs
  <1>16. ASSUME LockQueue PROVE HeldInv'
    BY <1>16, <1>a, <1>b, <1>c, <1>d, ThreadFacts DEF LockQueue, HeldInv, PcInv,
      ThreadType, ListType, Holds, ClosePcs, WritePcs, BusyPcs
  <1>17. ASSUME ScanStale PROVE HeldInv'
    BY <1>17, <1>a, <1>b, <1>c, <1>d, ThreadFacts DEF ScanStale, Erase, Scanned,
      Stale, HeldInv, PcInv, ThreadType, ListType, Holds, ClosePcs, WritePcs,
      BusyPcs
  <1>18. ASSUME ScanSkip PROVE HeldInv'
    BY <1>18, <1>a, <1>b, <1>c, <1>d, ThreadFacts DEF ScanSkip, Marked, Scanned,
      Stale, HeldInv, PcInv, ThreadType, ListType, Holds, ClosePcs, WritePcs,
      BusyPcs
  <1>19. ASSUME ScanTake PROVE HeldInv'
    <2>1. Scanned.conn \in Conns /\ place[Scanned.conn] # "free"
      BY <1>19, ScanHeld DEF ScanTake
    <2> QED BY <1>19, <2>1, <1>a, <1>b, <1>c, <1>d, ThreadFacts
        DEF ScanTake, HeldInv, PcInv, ThreadType, ListType, Holds, ClosePcs, WritePcs,
            BusyPcs
  <1>20. ASSUME ScanEnd PROVE HeldInv'
    BY <1>20, <1>a, <1>b, <1>c, <1>d, ThreadFacts DEF ScanEnd, HeldInv, PcInv,
      ThreadType, ListType, Holds, ClosePcs, WritePcs, BusyPcs
  <1>21. ASSUME SendAll PROVE HeldInv'
    BY <1>21, <1>a, <1>b, <1>c, <1>d, ThreadFacts DEF SendAll, Put, SendResults,
      HeldInv, PcInv, ThreadType, ListType, Holds, ClosePcs, WritePcs, BusyPcs
  <1>22. ASSUME SendPart PROVE HeldInv'
    BY <1>22, <1>a, <1>b, <1>c, <1>d, ThreadFacts DEF SendPart, Put, SendResults,
      HeldInv, PcInv, ThreadType, ListType, Holds, ClosePcs, WritePcs, BusyPcs
  <1>23. ASSUME SendFails PROVE HeldInv'
    BY <1>23, <1>a, <1>b, <1>c, <1>d, ThreadFacts DEF SendFails, SendResults,
      HeldInv, PcInv, ThreadType, ListType, Holds, ClosePcs, WritePcs, BusyPcs
  <1>24. ASSUME SendDone PROVE HeldInv'
    BY <1>24, <1>a, <1>b, <1>c, <1>d, ThreadFacts DEF SendDone, HeldInv, PcInv,
      ThreadType, ListType, Holds, ClosePcs, WritePcs, BusyPcs
  <1>25. ASSUME SendMark PROVE HeldInv'
    BY <1>25, <1>a, <1>b, <1>c, <1>d, ThreadFacts DEF SendMark, HeldInv, PcInv,
      ThreadType, ListType, Holds, ClosePcs, WritePcs, BusyPcs
  <1>26. ASSUME SendArm PROVE HeldInv'
    BY <1>26, <1>a, <1>b, <1>c, <1>d, ThreadFacts DEF SendArm, HeldInv, PcInv,
      ThreadType, ListType, Holds, ClosePcs, WritePcs, BusyPcs
  <1>27. ASSUME NEW c \in Conns, Event(c) PROVE HeldInv'
    BY <1>27, <1>a, <1>b, <1>c, <1>d, ThreadFacts DEF Event, OutHalf, HeldInv,
      PcInv, ThreadType, ListType, Holds, ClosePcs, WritePcs, BusyPcs
  <1>28. ASSUME ReadOn PROVE HeldInv'
    BY <1>28, <1>a, <1>b, <1>c, <1>d, ThreadFacts DEF ReadOn, HeldInv, PcInv,
      ThreadType, ListType, Holds, ClosePcs, WritePcs, BusyPcs
  <1>29. ASSUME ReadCloses PROVE HeldInv'
    BY <1>29, <1>a, <1>b, <1>c, <1>d, ThreadFacts DEF ReadCloses, HeldInv, PcInv,
      ThreadType, ListType, Holds, ClosePcs, WritePcs, BusyPcs
  <1>30. ASSUME OutHup PROVE HeldInv'
    BY <1>30, <1>a, <1>b, <1>c, <1>d, ThreadFacts DEF OutHup, Lower, HeldInv, PcInv,
      ThreadType, ListType, Holds, ClosePcs, WritePcs, BusyPcs
  <1>31. ASSUME WriteAll PROVE HeldInv'
    BY <1>31, <1>a, <1>b, <1>c, <1>d, ThreadFacts DEF WriteAll, Put, SendResults,
      HeldInv, PcInv, ThreadType, ListType, Holds, ClosePcs, WritePcs, BusyPcs
  <1>32. ASSUME WritePart PROVE HeldInv'
    BY <1>32, <1>a, <1>b, <1>c, <1>d, ThreadFacts DEF WritePart, Put, SendResults,
      HeldInv, PcInv, ThreadType, ListType, Holds, ClosePcs, WritePcs, BusyPcs
  <1>33. ASSUME WriteFails PROVE HeldInv'
    BY <1>33, <1>a, <1>b, <1>c, <1>d, ThreadFacts DEF WriteFails, SendResults,
      HeldInv, PcInv, ThreadType, ListType, Holds, ClosePcs, WritePcs, BusyPcs
  <1>34. ASSUME WriteDisarm PROVE HeldInv'
    BY <1>34, <1>a, <1>b, <1>c, <1>d, ThreadFacts DEF WriteDisarm, HeldInv, PcInv,
      ThreadType, ListType, Holds, ClosePcs, WritePcs, BusyPcs
  <1>35. ASSUME WritePost PROVE HeldInv'
    BY <1>35, <1>a, <1>b, <1>c, <1>d, ThreadFacts DEF WritePost, HeldInv, PcInv,
      ThreadType, ListType, Holds, ClosePcs, WritePcs, BusyPcs
  <1>36. ASSUME WriteFree PROVE HeldInv'
    BY <1>36, <1>a, <1>b, <1>c, <1>d, ThreadFacts DEF WriteFree, HeldInv, PcInv,
      ThreadType, ListType, Holds, ClosePcs, WritePcs, BusyPcs
  <1>37. ASSUME WriteUnmark PROVE HeldInv'
    BY <1>37, <1>a, <1>b, <1>c, <1>d, ThreadFacts DEF WriteUnmark, Lower, HeldInv,
      PcInv, ThreadType, ListType, Holds, ClosePcs, WritePcs, BusyPcs
  <1>38. CASE UNCHANGED vars
    BY <1>38, <1>a, <1>b, <1>c, <1>d, ThreadFacts DEF vars, HeldInv, PcInv,
      ThreadType, ListType, Holds, ClosePcs, WritePcs, BusyPcs
  <1> QED BY <1>1, <1>2, <1>3, <1>4, <1>5, <1>6, <1>7, <1>8, <1>9, <1>10, <1>11,
       <1>12, <1>13, <1>14, <1>15, <1>16, <1>17, <1>18, <1>19, <1>20, <1>21, <1>22,
       <1>23, <1>24, <1>25, <1>26, <1>27, <1>28, <1>29, <1>30, <1>31, <1>32, <1>33,
       <1>34, <1>35, <1>36, <1>37, <1>38 DEF Next, PoolStep, CloseStep, SendStep,
       WriteStep, Stopped

(* A request keeps the sequence its object had.                            *)
LEMMA StampStep == ASSUME IInv, [Next]_vars PROVE StampInv'
  <1> USE DEF queueVars, objectVars, threadVars, socketVars, boundVars, Goto
  <1>a. PcInv BY DEF IInv
  <1>b. ThreadType BY TypeParts DEF IInv
  <1>c. ListType BY TypeParts DEF IInv
  <1>d. HeldInv BY DEF IInv, HoldInv
  <1>e. StampInv BY DEF IInv, HoldInv
  <1>1. ASSUME NEW c \in Conns, AcceptConn(c) PROVE StampInv'
    <2>1. \A t \in PoolThreads : pc[t] = "reply" => conn[t] # c /\ conn[t] \in Conns
      BY <1>1, <1>d, ThreadFacts DEF AcceptConn, HeldInv, Holds
    <2>2. \A d \in Conns : d # c => sequence'[d] = sequence[d] /\ place'[d] = place[d]
      BY <1>1, <1>c DEF AcceptConn, ListType
    <2>3. pc' = pc /\ conn' = conn /\ request' = request BY <1>1 DEF AcceptConn
    <2> QED BY <1>e, <2>1, <2>2, <2>3 DEF StampInv
  <1>2. ASSUME NEW c \in Conns, FreeConnection(c) PROVE StampInv'
    BY <1>2, <1>a, <1>b, <1>c, <1>d, <1>e, ThreadFacts DEF FreeConnection, Held,
      StampInv, HeldInv, PcInv, ThreadType, ListType, Holds, ClosePcs, WritePcs,
      BusyPcs
  <1>3. ASSUME NEW c \in Conns, ClientReads(c) PROVE StampInv'
    BY <1>3, <1>a, <1>b, <1>c, <1>d, <1>e, ThreadFacts DEF ClientReads, StampInv,
      HeldInv, PcInv, ThreadType, ListType, Holds, ClosePcs, WritePcs, BusyPcs
  <1>4. ASSUME NEW c \in Conns, ClientLeaves(c) PROVE StampInv'
    BY <1>4, <1>a, <1>b, <1>c, <1>d, <1>e, ThreadFacts DEF ClientLeaves, StampInv,
      HeldInv, PcInv, ThreadType, ListType, Holds, ClosePcs, WritePcs, BusyPcs
  <1>5. ASSUME NEW t \in PoolThreads, Request(t) PROVE StampInv'
    BY <1>5, <1>a, <1>b, <1>c, <1>d, <1>e, ThreadFacts DEF Request, StampInv,
      HeldInv, PcInv, ThreadType, ListType, Holds, ClosePcs, WritePcs, BusyPcs
  <1>6. ASSUME NEW t \in PoolThreads, MsgDiscard(t) PROVE StampInv'
    BY <1>6, <1>a, <1>b, <1>c, <1>d, <1>e, ThreadFacts DEF MsgDiscard,
      TooManyQueued, StampInv, HeldInv, PcInv, ThreadType, ListType, Holds,
      ClosePcs, WritePcs, BusyPcs
  <1>7. ASSUME NEW t \in PoolThreads, MsgSend(t) PROVE StampInv'
    BY <1>7, <1>a, <1>b, <1>c, <1>d, <1>e, ThreadFacts DEF MsgSend, TooManyQueued,
      TooSlow, StampInv, HeldInv, PcInv, ThreadType, ListType, Holds, ClosePcs,
      WritePcs, BusyPcs
  <1>8. ASSUME NEW t \in PoolThreads, MsgCutOff(t) PROVE StampInv'
    BY <1>8, <1>a, <1>b, <1>c, <1>d, <1>e, ThreadFacts DEF MsgCutOff, TooManyQueued,
      TooSlow, StampInv, HeldInv, PcInv, ThreadType, ListType, Holds, ClosePcs,
      WritePcs, BusyPcs
  <1>9. ASSUME NEW t \in Closers, ZdClose(t) PROVE StampInv'
    BY <1>9, <1>a, <1>b, <1>c, <1>d, <1>e, ThreadFacts DEF ZdClose, StampInv,
      HeldInv, PcInv, ThreadType, ListType, Holds, ClosePcs, WritePcs, BusyPcs
  <1>10. ASSUME NEW t \in Closers, ZdTestThrow(t) PROVE StampInv'
    BY <1>10, <1>a, <1>b, <1>c, <1>d, <1>e, ThreadFacts DEF ZdTestThrow, StampInv,
      HeldInv, PcInv, ThreadType, ListType, Holds, ClosePcs, WritePcs, BusyPcs
  <1>11. ASSUME NEW t \in Closers, ZdLowerThrow(t) PROVE StampInv'
    BY <1>11, <1>a, <1>b, <1>c, <1>d, <1>e, ThreadFacts DEF ZdLowerThrow, Lower,
      StampInv, HeldInv, PcInv, ThreadType, ListType, Holds, ClosePcs, WritePcs,
      BusyPcs
  <1>12. ASSUME NEW t \in Closers, InRecyConnectQueue(t) PROVE StampInv'
    BY <1>12, <1>a, <1>b, <1>c, <1>d, <1>e, ThreadFacts DEF InRecyConnectQueue,
      StampInv, HeldInv, PcInv, ThreadType, ListType, Holds, ClosePcs, WritePcs,
      BusyPcs
  <1>13. ASSUME KickClient PROVE StampInv'
    BY <1>13, <1>a, <1>b, <1>c, <1>d, <1>e, ThreadFacts DEF KickClient, StampInv,
      HeldInv, PcInv, ThreadType, ListType, Holds, ClosePcs, WritePcs, BusyPcs
  <1>14. ASSUME SemWait PROVE StampInv'
    BY <1>14, <1>a, <1>b, <1>c, <1>d, <1>e, ThreadFacts DEF SemWait, StampInv,
      HeldInv, PcInv, ThreadType, ListType, Holds, ClosePcs, WritePcs, BusyPcs
  <1>15. ASSUME QueueEmpty PROVE StampInv'
    BY <1>15, <1>a, <1>b, <1>c, <1>d, <1>e, ThreadFacts DEF QueueEmpty, StampInv,
      HeldInv, PcInv, ThreadType, ListType, Holds, ClosePcs, WritePcs, BusyPcs
  <1>16. ASSUME LockQueue PROVE StampInv'
    BY <1>16, <1>a, <1>b, <1>c, <1>d, <1>e, ThreadFacts DEF LockQueue, StampInv,
      HeldInv, PcInv, ThreadType, ListType, Holds, ClosePcs, WritePcs, BusyPcs
  <1>17. ASSUME ScanStale PROVE StampInv'
    BY <1>17, <1>a, <1>b, <1>c, <1>d, <1>e, ThreadFacts DEF ScanStale, Erase,
      Scanned, Stale, StampInv, HeldInv, PcInv, ThreadType, ListType, Holds,
      ClosePcs, WritePcs, BusyPcs
  <1>18. ASSUME ScanSkip PROVE StampInv'
    BY <1>18, <1>a, <1>b, <1>c, <1>d, <1>e, ThreadFacts DEF ScanSkip, Marked,
      Scanned, Stale, StampInv, HeldInv, PcInv, ThreadType, ListType, Holds,
      ClosePcs, WritePcs, BusyPcs
  <1>19. ASSUME ScanTake PROVE StampInv'
    BY <1>19, <1>a, <1>b, <1>c, <1>d, <1>e, ThreadFacts DEF ScanTake, Marked, Erase,
      Scanned, Stale, StampInv, HeldInv, PcInv, ThreadType, ListType, Holds,
      ClosePcs, WritePcs, BusyPcs
  <1>20. ASSUME ScanEnd PROVE StampInv'
    BY <1>20, <1>a, <1>b, <1>c, <1>d, <1>e, ThreadFacts DEF ScanEnd, StampInv,
      HeldInv, PcInv, ThreadType, ListType, Holds, ClosePcs, WritePcs, BusyPcs
  <1>21. ASSUME SendAll PROVE StampInv'
    BY <1>21, <1>a, <1>b, <1>c, <1>d, <1>e, ThreadFacts DEF SendAll, Put,
      SendResults, StampInv, HeldInv, PcInv, ThreadType, ListType, Holds, ClosePcs,
      WritePcs, BusyPcs
  <1>22. ASSUME SendPart PROVE StampInv'
    BY <1>22, <1>a, <1>b, <1>c, <1>d, <1>e, ThreadFacts DEF SendPart, Put,
      SendResults, StampInv, HeldInv, PcInv, ThreadType, ListType, Holds, ClosePcs,
      WritePcs, BusyPcs
  <1>23. ASSUME SendFails PROVE StampInv'
    BY <1>23, <1>a, <1>b, <1>c, <1>d, <1>e, ThreadFacts DEF SendFails, SendResults,
      StampInv, HeldInv, PcInv, ThreadType, ListType, Holds, ClosePcs, WritePcs,
      BusyPcs
  <1>24. ASSUME SendDone PROVE StampInv'
    BY <1>24, <1>a, <1>b, <1>c, <1>d, <1>e, ThreadFacts DEF SendDone, StampInv,
      HeldInv, PcInv, ThreadType, ListType, Holds, ClosePcs, WritePcs, BusyPcs
  <1>25. ASSUME SendMark PROVE StampInv'
    BY <1>25, <1>a, <1>b, <1>c, <1>d, <1>e, ThreadFacts DEF SendMark, StampInv,
      HeldInv, PcInv, ThreadType, ListType, Holds, ClosePcs, WritePcs, BusyPcs
  <1>26. ASSUME SendArm PROVE StampInv'
    BY <1>26, <1>a, <1>b, <1>c, <1>d, <1>e, ThreadFacts DEF SendArm, StampInv,
      HeldInv, PcInv, ThreadType, ListType, Holds, ClosePcs, WritePcs, BusyPcs
  <1>27. ASSUME NEW c \in Conns, Event(c) PROVE StampInv'
    BY <1>27, <1>a, <1>b, <1>c, <1>d, <1>e, ThreadFacts DEF Event, OutHalf,
      StampInv, HeldInv, PcInv, ThreadType, ListType, Holds, ClosePcs, WritePcs,
      BusyPcs
  <1>28. ASSUME ReadOn PROVE StampInv'
    BY <1>28, <1>a, <1>b, <1>c, <1>d, <1>e, ThreadFacts DEF ReadOn, StampInv,
      HeldInv, PcInv, ThreadType, ListType, Holds, ClosePcs, WritePcs, BusyPcs
  <1>29. ASSUME ReadCloses PROVE StampInv'
    BY <1>29, <1>a, <1>b, <1>c, <1>d, <1>e, ThreadFacts DEF ReadCloses, StampInv,
      HeldInv, PcInv, ThreadType, ListType, Holds, ClosePcs, WritePcs, BusyPcs
  <1>30. ASSUME OutHup PROVE StampInv'
    BY <1>30, <1>a, <1>b, <1>c, <1>d, <1>e, ThreadFacts DEF OutHup, Lower, StampInv,
      HeldInv, PcInv, ThreadType, ListType, Holds, ClosePcs, WritePcs, BusyPcs
  <1>31. ASSUME WriteAll PROVE StampInv'
    BY <1>31, <1>a, <1>b, <1>c, <1>d, <1>e, ThreadFacts DEF WriteAll, Put,
      SendResults, StampInv, HeldInv, PcInv, ThreadType, ListType, Holds, ClosePcs,
      WritePcs, BusyPcs
  <1>32. ASSUME WritePart PROVE StampInv'
    BY <1>32, <1>a, <1>b, <1>c, <1>d, <1>e, ThreadFacts DEF WritePart, Put,
      SendResults, StampInv, HeldInv, PcInv, ThreadType, ListType, Holds, ClosePcs,
      WritePcs, BusyPcs
  <1>33. ASSUME WriteFails PROVE StampInv'
    BY <1>33, <1>a, <1>b, <1>c, <1>d, <1>e, ThreadFacts DEF WriteFails, SendResults,
      StampInv, HeldInv, PcInv, ThreadType, ListType, Holds, ClosePcs, WritePcs,
      BusyPcs
  <1>34. ASSUME WriteDisarm PROVE StampInv'
    BY <1>34, <1>a, <1>b, <1>c, <1>d, <1>e, ThreadFacts DEF WriteDisarm, StampInv,
      HeldInv, PcInv, ThreadType, ListType, Holds, ClosePcs, WritePcs, BusyPcs
  <1>35. ASSUME WritePost PROVE StampInv'
    BY <1>35, <1>a, <1>b, <1>c, <1>d, <1>e, ThreadFacts DEF WritePost, StampInv,
      HeldInv, PcInv, ThreadType, ListType, Holds, ClosePcs, WritePcs, BusyPcs
  <1>36. ASSUME WriteFree PROVE StampInv'
    BY <1>36, <1>a, <1>b, <1>c, <1>d, <1>e, ThreadFacts DEF WriteFree, StampInv,
      HeldInv, PcInv, ThreadType, ListType, Holds, ClosePcs, WritePcs, BusyPcs
  <1>37. ASSUME WriteUnmark PROVE StampInv'
    BY <1>37, <1>a, <1>b, <1>c, <1>d, <1>e, ThreadFacts DEF WriteUnmark, Lower,
      StampInv, HeldInv, PcInv, ThreadType, ListType, Holds, ClosePcs, WritePcs,
      BusyPcs
  <1>38. CASE UNCHANGED vars
    BY <1>38, <1>a, <1>b, <1>c, <1>d, <1>e, ThreadFacts DEF vars, StampInv, HeldInv,
      PcInv, ThreadType, ListType, Holds, ClosePcs, WritePcs, BusyPcs
  <1> QED BY <1>1, <1>2, <1>3, <1>4, <1>5, <1>6, <1>7, <1>8, <1>9, <1>10, <1>11,
       <1>12, <1>13, <1>14, <1>15, <1>16, <1>17, <1>18, <1>19, <1>20, <1>21, <1>22,
       <1>23, <1>24, <1>25, <1>26, <1>27, <1>28, <1>29, <1>30, <1>31, <1>32, <1>33,
       <1>34, <1>35, <1>36, <1>37, <1>38 DEF Next, PoolStep, CloseStep, SendStep,
       WriteStep, Stopped

(* While msgSend closes a client that does not read, nobody takes a packet *)
(* of it.                                                                  *)
LEMMA LimitStep == ASSUME IInv, [Next]_vars PROVE LimitInv'
  <1> USE DEF queueVars, objectVars, threadVars, socketVars, boundVars, Goto
  <1>a. PcInv BY DEF IInv
  <1>b. ThreadType BY TypeParts DEF IInv
  <1>c. HeldInv BY DEF IInv, HoldInv
  <1>d. LimitInv BY DEF IInv, HoldInv
  <1>e. CountType BY TypeParts DEF IInv
  <1>1. ASSUME NEW c \in Conns, AcceptConn(c) PROVE LimitInv'
    <2>1. mutex \in PoolThreads => conn[mutex] \in Conns /\ conn[mutex] # c
      BY <1>1, <1>a, <1>c, ThreadFacts DEF AcceptConn, PcInv, ClosePcs, HeldInv, Holds
    <2>2. \A d \in Conns : d # c => iSendCount'[d] = iSendCount[d]
      BY <1>1, <1>e DEF AcceptConn, CountType
    <2>3. mutex' = mutex /\ conn' = conn BY <1>1 DEF AcceptConn
    <2> QED BY <1>d, <2>1, <2>2, <2>3 DEF LimitInv
  <1>2. ASSUME NEW c \in Conns, FreeConnection(c) PROVE LimitInv'
    BY <1>2, <1>a, <1>b, <1>c, <1>d, <1>e, ThreadFacts DEF FreeConnection, Held,
      LimitInv, HeldInv, PcInv, ThreadType, CountType, Holds, ClosePcs, WritePcs,
      BusyPcs
  <1>3. ASSUME NEW c \in Conns, ClientReads(c) PROVE LimitInv'
    BY <1>3, <1>a, <1>b, <1>c, <1>d, <1>e, ThreadFacts DEF ClientReads, LimitInv,
      HeldInv, PcInv, ThreadType, CountType, Holds, ClosePcs, WritePcs, BusyPcs
  <1>4. ASSUME NEW c \in Conns, ClientLeaves(c) PROVE LimitInv'
    BY <1>4, <1>a, <1>b, <1>c, <1>d, <1>e, ThreadFacts DEF ClientLeaves, LimitInv,
      HeldInv, PcInv, ThreadType, CountType, Holds, ClosePcs, WritePcs, BusyPcs
  <1>5. ASSUME NEW t \in PoolThreads, Request(t) PROVE LimitInv'
    BY <1>5, <1>a, <1>b, <1>c, <1>d, <1>e, ThreadFacts DEF Request, LimitInv,
      HeldInv, PcInv, ThreadType, CountType, Holds, ClosePcs, WritePcs, BusyPcs
  <1>6. ASSUME NEW t \in PoolThreads, MsgDiscard(t) PROVE LimitInv'
    BY <1>6, <1>a, <1>b, <1>c, <1>d, <1>e, ThreadFacts DEF MsgDiscard,
      TooManyQueued, LimitInv, HeldInv, PcInv, ThreadType, CountType, Holds,
      ClosePcs, WritePcs, BusyPcs
  <1>7. ASSUME NEW t \in PoolThreads, MsgSend(t) PROVE LimitInv'
    BY <1>7, <1>a, <1>b, <1>c, <1>d, <1>e, ThreadFacts DEF MsgSend, TooManyQueued,
      TooSlow, LimitInv, HeldInv, PcInv, ThreadType, CountType, Holds, ClosePcs,
      WritePcs, BusyPcs
  <1>8. ASSUME NEW t \in PoolThreads, MsgCutOff(t) PROVE LimitInv'
    BY <1>8, <1>a, <1>b, <1>c, <1>d, <1>e, ThreadFacts DEF MsgCutOff, TooManyQueued,
      TooSlow, LimitInv, HeldInv, PcInv, ThreadType, CountType, Holds, ClosePcs,
      WritePcs, BusyPcs
  <1>9. ASSUME NEW t \in Closers, ZdClose(t) PROVE LimitInv'
    BY <1>9, <1>a, <1>b, <1>c, <1>d, <1>e, ThreadFacts DEF ZdClose, LimitInv,
      HeldInv, PcInv, ThreadType, CountType, Holds, ClosePcs, WritePcs, BusyPcs
  <1>10. ASSUME NEW t \in Closers, ZdTestThrow(t) PROVE LimitInv'
    BY <1>10, <1>a, <1>b, <1>c, <1>d, <1>e, ThreadFacts DEF ZdTestThrow, LimitInv,
      HeldInv, PcInv, ThreadType, CountType, Holds, ClosePcs, WritePcs, BusyPcs
  <1>11. ASSUME NEW t \in Closers, ZdLowerThrow(t) PROVE LimitInv'
    BY <1>11, <1>a, <1>b, <1>c, <1>d, <1>e, ThreadFacts DEF ZdLowerThrow, Lower,
      LimitInv, HeldInv, PcInv, ThreadType, CountType, Holds, ClosePcs, WritePcs,
      BusyPcs
  <1>12. ASSUME NEW t \in Closers, InRecyConnectQueue(t) PROVE LimitInv'
    BY <1>12, <1>a, <1>b, <1>c, <1>d, <1>e, ThreadFacts DEF InRecyConnectQueue,
      LimitInv, HeldInv, PcInv, ThreadType, CountType, Holds, ClosePcs, WritePcs,
      BusyPcs
  <1>13. ASSUME KickClient PROVE LimitInv'
    BY <1>13, <1>a, <1>b, <1>c, <1>d, <1>e, ThreadFacts DEF KickClient, LimitInv,
      HeldInv, PcInv, ThreadType, CountType, Holds, ClosePcs, WritePcs, BusyPcs
  <1>14. ASSUME SemWait PROVE LimitInv'
    BY <1>14, <1>a, <1>b, <1>c, <1>d, <1>e, ThreadFacts DEF SemWait, LimitInv,
      HeldInv, PcInv, ThreadType, CountType, Holds, ClosePcs, WritePcs, BusyPcs
  <1>15. ASSUME QueueEmpty PROVE LimitInv'
    BY <1>15, <1>a, <1>b, <1>c, <1>d, <1>e, ThreadFacts DEF QueueEmpty, LimitInv,
      HeldInv, PcInv, ThreadType, CountType, Holds, ClosePcs, WritePcs, BusyPcs
  <1>16. ASSUME LockQueue PROVE LimitInv'
    BY <1>16, <1>a, <1>b, <1>c, <1>d, <1>e, ThreadFacts DEF LockQueue, LimitInv,
      HeldInv, PcInv, ThreadType, CountType, Holds, ClosePcs, WritePcs, BusyPcs
  <1>17. ASSUME ScanStale PROVE LimitInv'
    BY <1>17, <1>a, <1>b, <1>c, <1>d, <1>e, ThreadFacts DEF ScanStale, Erase,
      Scanned, Stale, LimitInv, HeldInv, PcInv, ThreadType, CountType, Holds,
      ClosePcs, WritePcs, BusyPcs
  <1>18. ASSUME ScanSkip PROVE LimitInv'
    BY <1>18, <1>a, <1>b, <1>c, <1>d, <1>e, ThreadFacts DEF ScanSkip, Marked,
      Scanned, Stale, LimitInv, HeldInv, PcInv, ThreadType, CountType, Holds,
      ClosePcs, WritePcs, BusyPcs
  <1>19. ASSUME ScanTake PROVE LimitInv'
    BY <1>19, <1>a, <1>b, <1>c, <1>d, <1>e, ThreadFacts DEF ScanTake, Marked, Erase,
      Scanned, Stale, LimitInv, HeldInv, PcInv, ThreadType, CountType, Holds,
      ClosePcs, WritePcs, BusyPcs
  <1>20. ASSUME ScanEnd PROVE LimitInv'
    BY <1>20, <1>a, <1>b, <1>c, <1>d, <1>e, ThreadFacts DEF ScanEnd, LimitInv,
      HeldInv, PcInv, ThreadType, CountType, Holds, ClosePcs, WritePcs, BusyPcs
  <1>21. ASSUME SendAll PROVE LimitInv'
    BY <1>21, <1>a, <1>b, <1>c, <1>d, <1>e, ThreadFacts DEF SendAll, Put,
      SendResults, LimitInv, HeldInv, PcInv, ThreadType, CountType, Holds, ClosePcs,
      WritePcs, BusyPcs
  <1>22. ASSUME SendPart PROVE LimitInv'
    BY <1>22, <1>a, <1>b, <1>c, <1>d, <1>e, ThreadFacts DEF SendPart, Put,
      SendResults, LimitInv, HeldInv, PcInv, ThreadType, CountType, Holds, ClosePcs,
      WritePcs, BusyPcs
  <1>23. ASSUME SendFails PROVE LimitInv'
    BY <1>23, <1>a, <1>b, <1>c, <1>d, <1>e, ThreadFacts DEF SendFails, SendResults,
      LimitInv, HeldInv, PcInv, ThreadType, CountType, Holds, ClosePcs, WritePcs,
      BusyPcs
  <1>24. ASSUME SendDone PROVE LimitInv'
    BY <1>24, <1>a, <1>b, <1>c, <1>d, <1>e, ThreadFacts DEF SendDone, LimitInv,
      HeldInv, PcInv, ThreadType, CountType, Holds, ClosePcs, WritePcs, BusyPcs
  <1>25. ASSUME SendMark PROVE LimitInv'
    BY <1>25, <1>a, <1>b, <1>c, <1>d, <1>e, ThreadFacts DEF SendMark, LimitInv,
      HeldInv, PcInv, ThreadType, CountType, Holds, ClosePcs, WritePcs, BusyPcs
  <1>26. ASSUME SendArm PROVE LimitInv'
    BY <1>26, <1>a, <1>b, <1>c, <1>d, <1>e, ThreadFacts DEF SendArm, LimitInv,
      HeldInv, PcInv, ThreadType, CountType, Holds, ClosePcs, WritePcs, BusyPcs
  <1>27. ASSUME NEW c \in Conns, Event(c) PROVE LimitInv'
    BY <1>27, <1>a, <1>b, <1>c, <1>d, <1>e, ThreadFacts DEF Event, OutHalf,
      LimitInv, HeldInv, PcInv, ThreadType, CountType, Holds, ClosePcs, WritePcs,
      BusyPcs
  <1>28. ASSUME ReadOn PROVE LimitInv'
    BY <1>28, <1>a, <1>b, <1>c, <1>d, <1>e, ThreadFacts DEF ReadOn, LimitInv,
      HeldInv, PcInv, ThreadType, CountType, Holds, ClosePcs, WritePcs, BusyPcs
  <1>29. ASSUME ReadCloses PROVE LimitInv'
    BY <1>29, <1>a, <1>b, <1>c, <1>d, <1>e, ThreadFacts DEF ReadCloses, LimitInv,
      HeldInv, PcInv, ThreadType, CountType, Holds, ClosePcs, WritePcs, BusyPcs
  <1>30. ASSUME OutHup PROVE LimitInv'
    BY <1>30, <1>a, <1>b, <1>c, <1>d, <1>e, ThreadFacts DEF OutHup, Lower, LimitInv,
      HeldInv, PcInv, ThreadType, CountType, Holds, ClosePcs, WritePcs, BusyPcs
  <1>31. ASSUME WriteAll PROVE LimitInv'
    BY <1>31, <1>a, <1>b, <1>c, <1>d, <1>e, ThreadFacts DEF WriteAll, Put,
      SendResults, LimitInv, HeldInv, PcInv, ThreadType, CountType, Holds, ClosePcs,
      WritePcs, BusyPcs
  <1>32. ASSUME WritePart PROVE LimitInv'
    BY <1>32, <1>a, <1>b, <1>c, <1>d, <1>e, ThreadFacts DEF WritePart, Put,
      SendResults, LimitInv, HeldInv, PcInv, ThreadType, CountType, Holds, ClosePcs,
      WritePcs, BusyPcs
  <1>33. ASSUME WriteFails PROVE LimitInv'
    BY <1>33, <1>a, <1>b, <1>c, <1>d, <1>e, ThreadFacts DEF WriteFails, SendResults,
      LimitInv, HeldInv, PcInv, ThreadType, CountType, Holds, ClosePcs, WritePcs,
      BusyPcs
  <1>34. ASSUME WriteDisarm PROVE LimitInv'
    BY <1>34, <1>a, <1>b, <1>c, <1>d, <1>e, ThreadFacts DEF WriteDisarm, LimitInv,
      HeldInv, PcInv, ThreadType, CountType, Holds, ClosePcs, WritePcs, BusyPcs
  <1>35. ASSUME WritePost PROVE LimitInv'
    BY <1>35, <1>a, <1>b, <1>c, <1>d, <1>e, ThreadFacts DEF WritePost, LimitInv,
      HeldInv, PcInv, ThreadType, CountType, Holds, ClosePcs, WritePcs, BusyPcs
  <1>36. ASSUME WriteFree PROVE LimitInv'
    BY <1>36, <1>a, <1>b, <1>c, <1>d, <1>e, ThreadFacts DEF WriteFree, LimitInv,
      HeldInv, PcInv, ThreadType, CountType, Holds, ClosePcs, WritePcs, BusyPcs
  <1>37. ASSUME WriteUnmark PROVE LimitInv'
    BY <1>37, <1>a, <1>b, <1>c, <1>d, <1>e, ThreadFacts DEF WriteUnmark, Lower,
      LimitInv, HeldInv, PcInv, ThreadType, CountType, Holds, ClosePcs, WritePcs,
      BusyPcs
  <1>38. CASE UNCHANGED vars
    BY <1>38, <1>a, <1>b, <1>c, <1>d, <1>e, ThreadFacts DEF vars, LimitInv, HeldInv,
      PcInv, ThreadType, CountType, Holds, ClosePcs, WritePcs, BusyPcs
  <1> QED BY <1>1, <1>2, <1>3, <1>4, <1>5, <1>6, <1>7, <1>8, <1>9, <1>10, <1>11,
       <1>12, <1>13, <1>14, <1>15, <1>16, <1>17, <1>18, <1>19, <1>20, <1>21, <1>22,
       <1>23, <1>24, <1>25, <1>26, <1>27, <1>28, <1>29, <1>30, <1>31, <1>32, <1>33,
       <1>34, <1>35, <1>36, <1>37, <1>38 DEF Next, PoolStep, CloseStep, SendStep,
       WriteStep, Stopped

(* A client that has gone does not come back before the object is free.    *)
LEMMA HangStep == ASSUME IInv, [Next]_vars PROVE HangInv'
  <1> USE DEF queueVars, objectVars, threadVars, socketVars, boundVars, Goto
  <1>a. PcInv BY DEF IInv
  <1>b. ThreadType BY TypeParts DEF IInv
  <1>c. HeldInv BY DEF IInv, HoldInv
  <1>d. HangInv BY DEF IInv, HoldInv
  <1>e. SocketType BY TypeParts DEF IInv
  <1>1. ASSUME NEW c \in Conns, AcceptConn(c) PROVE HangInv'
    <2>1. HangingUp => conn[Main] \in Conns /\ conn[Main] # c
      BY <1>1, <1>c, ThreadFacts DEF AcceptConn, ClosePcs, HeldInv, Holds, HangingUp
    <2>2. \A d \in Conns : d # c => peer'[d] = peer[d]
      BY <1>1, <1>e DEF AcceptConn, SocketType
    <2>3. pc' = pc /\ conn' = conn /\ after' = after BY <1>1 DEF AcceptConn
    <2> QED BY <1>d, <2>1, <2>2, <2>3 DEF HangInv, HangingUp
  <1>2. ASSUME NEW c \in Conns, FreeConnection(c) PROVE HangInv'
    BY <1>2, <1>a, <1>b, <1>c, <1>d, <1>e, ThreadFacts DEF FreeConnection, Held,
      HangInv, HangingUp, HeldInv, PcInv, ThreadType, SocketType, Holds, ClosePcs,
      WritePcs, BusyPcs
  <1>3. ASSUME NEW c \in Conns, ClientReads(c) PROVE HangInv'
    BY <1>3, <1>a, <1>b, <1>c, <1>d, <1>e, ThreadFacts DEF ClientReads, HangInv,
      HangingUp, HeldInv, PcInv, ThreadType, SocketType, Holds, ClosePcs, WritePcs,
      BusyPcs
  <1>4. ASSUME NEW c \in Conns, ClientLeaves(c) PROVE HangInv'
    BY <1>4, <1>a, <1>b, <1>c, <1>d, <1>e, ThreadFacts DEF ClientLeaves, HangInv,
      HangingUp, HeldInv, PcInv, ThreadType, SocketType, Holds, ClosePcs, WritePcs,
      BusyPcs
  <1>5. ASSUME NEW t \in PoolThreads, Request(t) PROVE HangInv'
    BY <1>5, <1>a, <1>b, <1>c, <1>d, <1>e, ThreadFacts DEF Request, HangInv,
      HangingUp, HeldInv, PcInv, ThreadType, SocketType, Holds, ClosePcs, WritePcs,
      BusyPcs
  <1>6. ASSUME NEW t \in PoolThreads, MsgDiscard(t) PROVE HangInv'
    BY <1>6, <1>a, <1>b, <1>c, <1>d, <1>e, ThreadFacts DEF MsgDiscard,
      TooManyQueued, HangInv, HangingUp, HeldInv, PcInv, ThreadType, SocketType,
      Holds, ClosePcs, WritePcs, BusyPcs
  <1>7. ASSUME NEW t \in PoolThreads, MsgSend(t) PROVE HangInv'
    BY <1>7, <1>a, <1>b, <1>c, <1>d, <1>e, ThreadFacts DEF MsgSend, TooManyQueued,
      TooSlow, HangInv, HangingUp, HeldInv, PcInv, ThreadType, SocketType, Holds,
      ClosePcs, WritePcs, BusyPcs
  <1>8. ASSUME NEW t \in PoolThreads, MsgCutOff(t) PROVE HangInv'
    BY <1>8, <1>a, <1>b, <1>c, <1>d, <1>e, ThreadFacts DEF MsgCutOff, TooManyQueued,
      TooSlow, HangInv, HangingUp, HeldInv, PcInv, ThreadType, SocketType, Holds,
      ClosePcs, WritePcs, BusyPcs
  <1>9. ASSUME NEW t \in Closers, ZdClose(t) PROVE HangInv'
    BY <1>9, <1>a, <1>b, <1>c, <1>d, <1>e, ThreadFacts DEF ZdClose, HangInv,
      HangingUp, HeldInv, PcInv, ThreadType, SocketType, Holds, ClosePcs, WritePcs,
      BusyPcs
  <1>10. ASSUME NEW t \in Closers, ZdTestThrow(t) PROVE HangInv'
    BY <1>10, <1>a, <1>b, <1>c, <1>d, <1>e, ThreadFacts DEF ZdTestThrow, HangInv,
      HangingUp, HeldInv, PcInv, ThreadType, SocketType, Holds, ClosePcs, WritePcs,
      BusyPcs
  <1>11. ASSUME NEW t \in Closers, ZdLowerThrow(t) PROVE HangInv'
    BY <1>11, <1>a, <1>b, <1>c, <1>d, <1>e, ThreadFacts DEF ZdLowerThrow, Lower,
      HangInv, HangingUp, HeldInv, PcInv, ThreadType, SocketType, Holds, ClosePcs,
      WritePcs, BusyPcs
  <1>12. ASSUME NEW t \in Closers, InRecyConnectQueue(t) PROVE HangInv'
    BY <1>12, <1>a, <1>b, <1>c, <1>d, <1>e, ThreadFacts DEF InRecyConnectQueue,
      HangInv, HangingUp, HeldInv, PcInv, ThreadType, SocketType, Holds, ClosePcs,
      WritePcs, BusyPcs
  <1>13. ASSUME KickClient PROVE HangInv'
    BY <1>13, <1>a, <1>b, <1>c, <1>d, <1>e, ThreadFacts DEF KickClient, HangInv,
      HangingUp, HeldInv, PcInv, ThreadType, SocketType, Holds, ClosePcs, WritePcs,
      BusyPcs
  <1>14. ASSUME SemWait PROVE HangInv'
    BY <1>14, <1>a, <1>b, <1>c, <1>d, <1>e, ThreadFacts DEF SemWait, HangInv,
      HangingUp, HeldInv, PcInv, ThreadType, SocketType, Holds, ClosePcs, WritePcs,
      BusyPcs
  <1>15. ASSUME QueueEmpty PROVE HangInv'
    BY <1>15, <1>a, <1>b, <1>c, <1>d, <1>e, ThreadFacts DEF QueueEmpty, HangInv,
      HangingUp, HeldInv, PcInv, ThreadType, SocketType, Holds, ClosePcs, WritePcs,
      BusyPcs
  <1>16. ASSUME LockQueue PROVE HangInv'
    BY <1>16, <1>a, <1>b, <1>c, <1>d, <1>e, ThreadFacts DEF LockQueue, HangInv,
      HangingUp, HeldInv, PcInv, ThreadType, SocketType, Holds, ClosePcs, WritePcs,
      BusyPcs
  <1>17. ASSUME ScanStale PROVE HangInv'
    BY <1>17, <1>a, <1>b, <1>c, <1>d, <1>e, ThreadFacts DEF ScanStale, Erase,
      Scanned, Stale, HangInv, HangingUp, HeldInv, PcInv, ThreadType, SocketType,
      Holds, ClosePcs, WritePcs, BusyPcs
  <1>18. ASSUME ScanSkip PROVE HangInv'
    BY <1>18, <1>a, <1>b, <1>c, <1>d, <1>e, ThreadFacts DEF ScanSkip, Marked,
      Scanned, Stale, HangInv, HangingUp, HeldInv, PcInv, ThreadType, SocketType,
      Holds, ClosePcs, WritePcs, BusyPcs
  <1>19. ASSUME ScanTake PROVE HangInv'
    BY <1>19, <1>a, <1>b, <1>c, <1>d, <1>e, ThreadFacts DEF ScanTake, Marked, Erase,
      Scanned, Stale, HangInv, HangingUp, HeldInv, PcInv, ThreadType, SocketType,
      Holds, ClosePcs, WritePcs, BusyPcs
  <1>20. ASSUME ScanEnd PROVE HangInv'
    BY <1>20, <1>a, <1>b, <1>c, <1>d, <1>e, ThreadFacts DEF ScanEnd, HangInv,
      HangingUp, HeldInv, PcInv, ThreadType, SocketType, Holds, ClosePcs, WritePcs,
      BusyPcs
  <1>21. ASSUME SendAll PROVE HangInv'
    BY <1>21, <1>a, <1>b, <1>c, <1>d, <1>e, ThreadFacts DEF SendAll, Put,
      SendResults, HangInv, HangingUp, HeldInv, PcInv, ThreadType, SocketType,
      Holds, ClosePcs, WritePcs, BusyPcs
  <1>22. ASSUME SendPart PROVE HangInv'
    BY <1>22, <1>a, <1>b, <1>c, <1>d, <1>e, ThreadFacts DEF SendPart, Put,
      SendResults, HangInv, HangingUp, HeldInv, PcInv, ThreadType, SocketType,
      Holds, ClosePcs, WritePcs, BusyPcs
  <1>23. ASSUME SendFails PROVE HangInv'
    BY <1>23, <1>a, <1>b, <1>c, <1>d, <1>e, ThreadFacts DEF SendFails, SendResults,
      HangInv, HangingUp, HeldInv, PcInv, ThreadType, SocketType, Holds, ClosePcs,
      WritePcs, BusyPcs
  <1>24. ASSUME SendDone PROVE HangInv'
    BY <1>24, <1>a, <1>b, <1>c, <1>d, <1>e, ThreadFacts DEF SendDone, HangInv,
      HangingUp, HeldInv, PcInv, ThreadType, SocketType, Holds, ClosePcs, WritePcs,
      BusyPcs
  <1>25. ASSUME SendMark PROVE HangInv'
    BY <1>25, <1>a, <1>b, <1>c, <1>d, <1>e, ThreadFacts DEF SendMark, HangInv,
      HangingUp, HeldInv, PcInv, ThreadType, SocketType, Holds, ClosePcs, WritePcs,
      BusyPcs
  <1>26. ASSUME SendArm PROVE HangInv'
    BY <1>26, <1>a, <1>b, <1>c, <1>d, <1>e, ThreadFacts DEF SendArm, HangInv,
      HangingUp, HeldInv, PcInv, ThreadType, SocketType, Holds, ClosePcs, WritePcs,
      BusyPcs
  <1>27. ASSUME NEW c \in Conns, Event(c) PROVE HangInv'
    BY <1>27, <1>a, <1>b, <1>c, <1>d, <1>e, ThreadFacts DEF Event, OutHalf, HangInv,
      HangingUp, HeldInv, PcInv, ThreadType, SocketType, Holds, ClosePcs, WritePcs,
      BusyPcs
  <1>28. ASSUME ReadOn PROVE HangInv'
    BY <1>28, <1>a, <1>b, <1>c, <1>d, <1>e, ThreadFacts DEF ReadOn, HangInv,
      HangingUp, HeldInv, PcInv, ThreadType, SocketType, Holds, ClosePcs, WritePcs,
      BusyPcs
  <1>29. ASSUME ReadCloses PROVE HangInv'
    BY <1>29, <1>a, <1>b, <1>c, <1>d, <1>e, ThreadFacts DEF ReadCloses, HangInv,
      HangingUp, HeldInv, PcInv, ThreadType, SocketType, Holds, ClosePcs, WritePcs,
      BusyPcs
  <1>30. ASSUME OutHup PROVE HangInv'
    BY <1>30, <1>a, <1>b, <1>c, <1>d, <1>e, ThreadFacts DEF OutHup, Lower, HangInv,
      HangingUp, HeldInv, PcInv, ThreadType, SocketType, Holds, ClosePcs, WritePcs,
      BusyPcs
  <1>31. ASSUME WriteAll PROVE HangInv'
    BY <1>31, <1>a, <1>b, <1>c, <1>d, <1>e, ThreadFacts DEF WriteAll, Put,
      SendResults, HangInv, HangingUp, HeldInv, PcInv, ThreadType, SocketType,
      Holds, ClosePcs, WritePcs, BusyPcs
  <1>32. ASSUME WritePart PROVE HangInv'
    BY <1>32, <1>a, <1>b, <1>c, <1>d, <1>e, ThreadFacts DEF WritePart, Put,
      SendResults, HangInv, HangingUp, HeldInv, PcInv, ThreadType, SocketType,
      Holds, ClosePcs, WritePcs, BusyPcs
  <1>33. ASSUME WriteFails PROVE HangInv'
    BY <1>33, <1>a, <1>b, <1>c, <1>d, <1>e, ThreadFacts DEF WriteFails, SendResults,
      HangInv, HangingUp, HeldInv, PcInv, ThreadType, SocketType, Holds, ClosePcs,
      WritePcs, BusyPcs
  <1>34. ASSUME WriteDisarm PROVE HangInv'
    BY <1>34, <1>a, <1>b, <1>c, <1>d, <1>e, ThreadFacts DEF WriteDisarm, HangInv,
      HangingUp, HeldInv, PcInv, ThreadType, SocketType, Holds, ClosePcs, WritePcs,
      BusyPcs
  <1>35. ASSUME WritePost PROVE HangInv'
    BY <1>35, <1>a, <1>b, <1>c, <1>d, <1>e, ThreadFacts DEF WritePost, HangInv,
      HangingUp, HeldInv, PcInv, ThreadType, SocketType, Holds, ClosePcs, WritePcs,
      BusyPcs
  <1>36. ASSUME WriteFree PROVE HangInv'
    BY <1>36, <1>a, <1>b, <1>c, <1>d, <1>e, ThreadFacts DEF WriteFree, HangInv,
      HangingUp, HeldInv, PcInv, ThreadType, SocketType, Holds, ClosePcs, WritePcs,
      BusyPcs
  <1>37. ASSUME WriteUnmark PROVE HangInv'
    BY <1>37, <1>a, <1>b, <1>c, <1>d, <1>e, ThreadFacts DEF WriteUnmark, Lower,
      HangInv, HangingUp, HeldInv, PcInv, ThreadType, SocketType, Holds, ClosePcs,
      WritePcs, BusyPcs
  <1>38. CASE UNCHANGED vars
    BY <1>38, <1>a, <1>b, <1>c, <1>d, <1>e, ThreadFacts DEF vars, HangInv,
      HangingUp, HeldInv, PcInv, ThreadType, SocketType, Holds, ClosePcs, WritePcs,
      BusyPcs
  <1> QED BY <1>1, <1>2, <1>3, <1>4, <1>5, <1>6, <1>7, <1>8, <1>9, <1>10, <1>11,
       <1>12, <1>13, <1>14, <1>15, <1>16, <1>17, <1>18, <1>19, <1>20, <1>21, <1>22,
       <1>23, <1>24, <1>25, <1>26, <1>27, <1>28, <1>29, <1>30, <1>31, <1>32, <1>33,
       <1>34, <1>35, <1>36, <1>37, <1>38 DEF Next, PoolStep, CloseStep, SendStep,
       WriteStep, Stopped

(* The four together.                                                      *)
LEMMA HoldStep == ASSUME IInv, [Next]_vars PROVE HoldInv'
  BY HeldStep, StampStep, LimitStep, HangStep DEF HoldInv

-----------------------------------------------------------------------------
(* Who names a buffer.                                                     *)

(* A sequence with one element taken out.                                  *)
LEMMA Erased ==
  ASSUME NEW S, NEW q \in Seq(S), NEW p \in DOMAIN q, NEW e,
         e = SubSeq(q, 1, p - 1) \o SubSeq(q, p + 1, Len(q))
  PROVE  /\ e \in Seq(S) /\ Len(e) = Len(q) - 1
         /\ \A i \in 1 .. p - 1 : e[i] = q[i]
         /\ \A i \in p .. Len(q) - 1 : e[i] = q[i + 1]
  <1> DEFINE a == SubSeq(q, 1, p - 1)
             b == SubSeq(q, p + 1, Len(q))
  <1>1. p \in 1 .. Len(q) /\ Len(q) \in Nat OBVIOUS
  <1>2. a \in Seq(S) /\ Len(a) = p - 1 /\ \A i \in 1 .. p - 1 : a[i] = q[i] BY <1>1
  <1>3. /\ b \in Seq(S) /\ Len(b) = Len(q) - p
        /\ \A i \in 1 .. Len(q) - p : b[i] = q[i + p]
    BY <1>1, SMTT(30)
  <1>4. e = a \o b OBVIOUS
  <1> HIDE DEF a, b
  <1>5. e \in Seq(S) /\ Len(e) = Len(q) - 1
    <2>1. a \o b \in Seq(S) /\ Len(a \o b) = Len(a) + Len(b) BY <1>2, <1>3, ConcatProperties
    <2>2. e \in Seq(S) /\ Len(e) = (p - 1) + (Len(q) - p) BY <1>2, <1>3, <1>4, <2>1
    <2>3. (p - 1) + (Len(q) - p) = Len(q) - 1 BY <1>1
    <2> QED BY <2>2, <2>3
  <1>6. \A i \in 1 .. p - 1 : e[i] = q[i] BY <1>1, <1>2, <1>3, <1>4
  <1>7. ASSUME NEW i \in p .. Len(q) - 1 PROVE e[i] = q[i + 1]
    <2>0. i \in 1 .. Len(a) + Len(b) /\ i > Len(a) /\ Len(a) = p - 1 BY <1>1, <1>2, <1>3
    <2>1. e[i] = b[i - Len(a)]
      <3>1. a \in Seq(S) /\ b \in Seq(S) /\ e = a \o b BY <1>2, <1>3, <1>4
      <3>2. \A k \in 1 .. Len(a) + Len(b) :
               (a \o b)[k] = IF k <= Len(a) THEN a[k] ELSE b[k - Len(a)]
        BY <3>1, ConcatProperties
      <3>3. e[i] = IF i <= Len(a) THEN a[i] ELSE b[i - Len(a)] BY <2>0, <3>1, <3>2
      <3>4. ~(i <= Len(a)) BY <1>1, <2>0
      <3> QED BY <3>3, <3>4
    <2>2. i - Len(a) \in 1 .. Len(q) - p /\ i - Len(a) + p = i + 1
      <3>1. i \in Int /\ p \in Int /\ p <= i /\ i <= Len(q) - 1 /\ Len(a) = p - 1
        BY <1>1, <2>0
      <3> QED BY <1>1, <3>1, SMTT(30)
    <2> QED BY <1>3, <2>1, <2>2
  <1> QED BY <1>5, <1>6, <1>7

(* The queue without the packet under the scan.                            *)
LEMMA QueueErased ==
  ASSUME IInv, pos <= Len(sendQueue), sendQueue' = Erase(pos)
  PROVE  /\ DOMAIN sendQueue = 1 .. Len(sendQueue) /\ pos \in 1 .. Len(sendQueue)
         /\ DOMAIN sendQueue' = 1 .. Len(sendQueue) - 1 /\ Len(sendQueue) \in Nat
         /\ \A i \in 1 .. pos - 1 : sendQueue'[i] = sendQueue[i]
         /\ \A i \in pos .. Len(sendQueue) - 1 : sendQueue'[i] = sendQueue[i + 1]
         /\ Queued' = Queued \ {sendQueue[pos]}
         /\ \A i, j \in DOMAIN sendQueue' : sendQueue'[i] = sendQueue'[j] => i = j
  <1>1. sendQueue \in Seq(Buffers) /\ pos \in DOMAIN sendQueue BY ScanFacts DEF IInv, TypeOK
  <1>2. /\ DOMAIN sendQueue = 1 .. Len(sendQueue) /\ Len(sendQueue) \in Nat
        /\ pos \in 1 .. Len(sendQueue)
    BY <1>1
  <1>3. /\ sendQueue' \in Seq(Buffers) /\ Len(sendQueue') = Len(sendQueue) - 1
        /\ \A i \in 1 .. pos - 1 : sendQueue'[i] = sendQueue[i]
        /\ \A i \in pos .. Len(sendQueue) - 1 : sendQueue'[i] = sendQueue[i + 1]
    <2>1. sendQueue' = SubSeq(sendQueue, 1, pos - 1)
                        \o SubSeq(sendQueue, pos + 1, Len(sendQueue))
      BY DEF Erase
    <2> QED BY <1>1, <2>1, Erased
  <1>4. DOMAIN sendQueue' = 1 .. Len(sendQueue) - 1 BY <1>3
  <1>5. \A i, j \in DOMAIN sendQueue : sendQueue[i] = sendQueue[j] => i = j
    BY DEF IInv, BufferInv, QueueInv
  <1>6. \A i \in DOMAIN sendQueue' : \E j \in DOMAIN sendQueue :
           j # pos /\ sendQueue'[i] = sendQueue[j] /\ j = IF i < pos THEN i ELSE i + 1
    BY <1>2, <1>3, <1>4
  <1>7. \A j \in DOMAIN sendQueue : j # pos =>
           \E i \in DOMAIN sendQueue' : sendQueue'[i] = sendQueue[j]
    <2> SUFFICES ASSUME NEW j \in DOMAIN sendQueue, j # pos
                 PROVE  \E i \in DOMAIN sendQueue' : sendQueue'[i] = sendQueue[j]
      OBVIOUS
    <2>1. CASE j < pos BY <1>2, <1>3, <1>4, <2>1
    <2>2. CASE j > pos
      <3>1. j - 1 \in pos .. Len(sendQueue) - 1 /\ j - 1 + 1 = j BY <1>2, <2>2
      <3>2. j - 1 \in DOMAIN sendQueue' BY <1>2, <1>4, <3>1
      <3>3. sendQueue'[j - 1] = sendQueue[j] BY <1>3, <3>1
      <3> QED BY <3>2, <3>3
    <2> QED BY <1>2, <2>1, <2>2
  <1>8. Queued' = Queued \ {sendQueue[pos]} BY <1>1, <1>5, <1>6, <1>7 DEF Queued
  <1>9. \A i, j \in DOMAIN sendQueue' : sendQueue'[i] = sendQueue'[j] => i = j
    <2> SUFFICES ASSUME NEW i \in DOMAIN sendQueue', NEW j \in DOMAIN sendQueue',
                        sendQueue'[i] = sendQueue'[j]
                 PROVE  i = j
      OBVIOUS
    <2>1. (IF i < pos THEN i ELSE i + 1) = (IF j < pos THEN j ELSE j + 1)
      BY <1>5, <1>6
    <2> QED BY <1>2, <1>4, <2>1
  <1> QED BY <1>2, <1>3, <1>4, <1>8, <1>9

(* A packet more in the queue.                                             *)
LEMMA QueueAppended ==
  ASSUME IInv, NEW b, NEW m, b = Len(buf) + 1, b \in Buffers,
         m \in [conn : Conns, sequence : Nat],
         buf' = Append(buf, m), sendQueue' = Append(sendQueue, b)
  PROVE  /\ DOMAIN sendQueue = 1 .. Len(sendQueue) /\ Len(sendQueue) \in Nat
         /\ DOMAIN sendQueue' = 1 .. Len(sendQueue) + 1
         /\ \A i \in DOMAIN sendQueue : sendQueue'[i] = sendQueue[i]
         /\ sendQueue'[Len(sendQueue) + 1] = b
         /\ Queued' = Queued \cup {b} /\ b \notin DOMAIN buf
         /\ DOMAIN buf' = DOMAIN buf \cup {b} /\ buf'[b] = m
         /\ \A x \in DOMAIN buf : buf'[x] = buf[x]
  <1>1. sendQueue \in Seq(Buffers) BY DEF IInv, TypeOK
  <1>2. /\ DOMAIN sendQueue = 1 .. Len(sendQueue) /\ Len(sendQueue) \in Nat
        /\ DOMAIN sendQueue' = 1 .. Len(sendQueue) + 1
        /\ \A i \in DOMAIN sendQueue : sendQueue'[i] = sendQueue[i]
        /\ sendQueue'[Len(sendQueue) + 1] = b
    BY <1>1
  <1>3. Queued' = Queued \cup {b}
    <2>1. DOMAIN sendQueue' = DOMAIN sendQueue \cup {Len(sendQueue) + 1} BY <1>2
    <2> QED BY <1>2, <2>1 DEF Queued
  <1> DEFINE H == [conn : Conns, sequence : Nat]
  <1>4. buf \in Seq(H) /\ m \in H BY DEF IInv, TypeOK
  <1> HIDE DEF H
  <1>5. /\ DOMAIN buf = 1 .. Len(buf) /\ Len(buf) \in Nat
        /\ DOMAIN buf' = 1 .. Len(buf) + 1 /\ buf'[Len(buf) + 1] = m
        /\ \A x \in DOMAIN buf : buf'[x] = buf[x]
    BY <1>4
  <1>6. b \notin DOMAIN buf /\ DOMAIN buf' = DOMAIN buf \cup {b} BY <1>5
  <1> QED BY <1>2, <1>3, <1>5, <1>6

(* What msgSend puts in the queue.                                         *)
LEMMA SentFacts ==
  ASSUME IInv, NEW t \in PoolThreads, MsgSend(t), NEW b, NEW m,
         b = Len(buf) + 1, m = [conn |-> conn[t], sequence |-> request[t]]
  PROVE  /\ b \in Buffers /\ m \in [conn : Conns, sequence : Nat] /\ b # NoBuf
         /\ buf' = Append(buf, m) /\ sendQueue' = Append(sendQueue, b)
         /\ allocated' = allocated \cup {b}
         /\ m.conn = conn[t] /\ m.sequence = request[t]
  <1>1. Cardinality(Replying) \in Nat /\ Cardinality(Replying) # 0
    BY FS_CardinalityType, FS_EmptySet DEF IInv, MadeInv, MsgSend, Replying
  <1>2. Len(buf) \in Nat /\ Len(buf) + Cardinality(Replying) <= MaxBuffers /\ request[t] \in Nat
    BY DEF IInv, TypeOK, MadeInv
  <1>3. conn[t] \in Conns BY ThreadFacts, HeldFacts DEF MsgSend, Holds
  <1>4. b \in Buffers /\ b # NoBuf BY <1>1, <1>2, SendAssumption DEF Buffers, NoBuf
  <1> QED BY <1>2, <1>3, <1>4 DEF MsgSend

(* The send thread takes no packet over one the object still has.          *)
LEMMA TakeFree ==
  ASSUME IInv, pc[Send] = "scan", pos <= Len(sendQueue), ~Stale, ~Marked(Scanned.conn),
         ~Lowered(Scanned.conn)
  PROVE  psendMemPointer[Scanned.conn] = NoBuf
  <1> DEFINE c == Scanned.conn
  <1>1. c \in Conns /\ pos \in DOMAIN sendQueue /\ iThrowsendCount[c] \in Int
    BY ScanFacts DEF IInv, TypeOK
  <1>2. LockInvOf(c) BY <1>1 DEF IInv, LockInv
  <1>3. ~SenderBusy(c) BY DEF SenderBusy
  <1>4. ~(iThrowsendCount[c] >= 1) BY <1>1 DEF Marked
  <1>5. ~NoneCurrent(c) BY <1>1 DEF NoneCurrent, Stale, Scanned
  <1>6. mutex \notin PoolThreads BY ThreadFacts DEF IInv, PcInv
  <1>7. ~CutOff(c) BY <1>5, <1>6 DEF CutOff
  <1> QED BY <1>2, <1>3, <1>4, <1>7 DEF LockInvOf, Pending

(* Buffers enter the queue once, when they are made.                       *)
LEMMA QueueStep == ASSUME IInv, [Next]_vars PROVE QueueInv'
  <1> USE DEF queueVars, objectVars, threadVars, socketVars, boundVars, Goto
  <1>a. QueueInv BY DEF IInv, BufferInv
  <1>b. NameInv BY DEF IInv, BufferInv
  <1>1. ASSUME NEW c \in Conns, AcceptConn(c) PROVE QueueInv'
    BY <1>1, <1>a, <1>b, ThreadFacts DEF AcceptConn, QueueInv, Queued
  <1>2. ASSUME NEW c \in Conns, FreeConnection(c) PROVE QueueInv'
    <2>1. c \in Conns OBVIOUS
    <2>2. psendMemPointer[c] \notin Queued
      BY <2>1, <1>b, QueuedFacts DEF NameInv, Buffers, NoBuf, Queued
    <2>3. /\ sendQueue' = sendQueue /\ buf' = buf
          /\ allocated' = allocated \ {psendMemPointer[c]}
      BY <1>2 DEF FreeConnection
    <2> QED BY <2>2, <2>3, <1>a DEF QueueInv, Queued
  <1>3. ASSUME NEW c \in Conns, ClientReads(c) PROVE QueueInv'
    BY <1>3, <1>a, <1>b, ThreadFacts DEF ClientReads, QueueInv, Queued
  <1>4. ASSUME NEW c \in Conns, ClientLeaves(c) PROVE QueueInv'
    BY <1>4, <1>a, <1>b, ThreadFacts DEF ClientLeaves, QueueInv, Queued
  <1>5. ASSUME NEW t \in PoolThreads, Request(t) PROVE QueueInv'
    BY <1>5, <1>a, <1>b, ThreadFacts DEF Request, QueueInv, Queued
  <1>6. ASSUME NEW t \in PoolThreads, MsgDiscard(t) PROVE QueueInv'
    BY <1>6, <1>a, <1>b, ThreadFacts DEF MsgDiscard, TooManyQueued, QueueInv, Queued
  <1>7. ASSUME NEW t \in PoolThreads, MsgSend(t) PROVE QueueInv'
    <2> DEFINE b == Len(buf) + 1
               m == [conn |-> conn[t], sequence |-> request[t]]
    <2>1. /\ b \in Buffers /\ m \in [conn : Conns, sequence : Nat]
          /\ buf' = Append(buf, m) /\ sendQueue' = Append(sendQueue, b)
          /\ allocated' = allocated \cup {b}
      BY <1>7, SentFacts
    <2>2. /\ DOMAIN sendQueue = 1 .. Len(sendQueue) /\ Len(sendQueue) \in Nat
          /\ DOMAIN sendQueue' = 1 .. Len(sendQueue) + 1
          /\ \A i \in DOMAIN sendQueue : sendQueue'[i] = sendQueue[i]
          /\ sendQueue'[Len(sendQueue) + 1] = b
          /\ Queued' = Queued \cup {b} /\ b \notin DOMAIN buf
          /\ DOMAIN buf' = DOMAIN buf \cup {b}
      BY <2>1, QueueAppended
    <2> HIDE DEF b, m
    <2>3. Queued' \subseteq allocated' /\ allocated' \subseteq DOMAIN buf'
      BY <2>1, <2>2, <1>a DEF QueueInv
    <2>4. \A i \in DOMAIN sendQueue : sendQueue[i] # b BY <2>2, QueuedFacts
    <2>5. \A i, j \in DOMAIN sendQueue' : sendQueue'[i] = sendQueue'[j] => i = j
      <3>1. \A i \in DOMAIN sendQueue' : i \in DOMAIN sendQueue \/ i = Len(sendQueue) + 1
        BY <2>2
      <3> QED BY <2>2, <2>4, <3>1, <1>a DEF QueueInv
    <2> QED BY <2>3, <2>5 DEF QueueInv
  <1>8. ASSUME NEW t \in PoolThreads, MsgCutOff(t) PROVE QueueInv'
    BY <1>8, <1>a, <1>b, ThreadFacts DEF MsgCutOff, TooManyQueued, TooSlow,
      QueueInv, Queued
  <1>9. ASSUME NEW t \in Closers, ZdClose(t) PROVE QueueInv'
    BY <1>9, <1>a, <1>b, ThreadFacts DEF ZdClose, QueueInv, Queued
  <1>10. ASSUME NEW t \in Closers, ZdTestThrow(t) PROVE QueueInv'
    BY <1>10, <1>a, <1>b, ThreadFacts DEF ZdTestThrow, QueueInv, Queued
  <1>11. ASSUME NEW t \in Closers, ZdLowerThrow(t) PROVE QueueInv'
    BY <1>11, <1>a, <1>b, ThreadFacts DEF ZdLowerThrow, Lower, QueueInv, Queued
  <1>12. ASSUME NEW t \in Closers, InRecyConnectQueue(t) PROVE QueueInv'
    BY <1>12, <1>a, <1>b, ThreadFacts DEF InRecyConnectQueue, QueueInv, Queued
  <1>13. ASSUME KickClient PROVE QueueInv'
    BY <1>13, <1>a, <1>b, ThreadFacts DEF KickClient, QueueInv, Queued
  <1>14. ASSUME SemWait PROVE QueueInv'
    BY <1>14, <1>a, <1>b, ThreadFacts DEF SemWait, QueueInv, Queued
  <1>15. ASSUME QueueEmpty PROVE QueueInv'
    BY <1>15, <1>a, <1>b, ThreadFacts DEF QueueEmpty, QueueInv, Queued
  <1>16. ASSUME LockQueue PROVE QueueInv'
    BY <1>16, <1>a, <1>b, ThreadFacts DEF LockQueue, QueueInv, Queued
  <1>17. ASSUME ScanStale PROVE QueueInv'
    <2>1. /\ Queued' = Queued \ {sendQueue[pos]} /\ buf' = buf
          /\ allocated' = allocated \ {sendQueue[pos]}
          /\ \A i, j \in DOMAIN sendQueue' : sendQueue'[i] = sendQueue'[j] => i = j
      BY <1>17, QueueErased DEF ScanStale
    <2> QED BY <2>1, <1>a DEF QueueInv
  <1>18. ASSUME ScanSkip PROVE QueueInv'
    BY <1>18, <1>a, <1>b, ThreadFacts DEF ScanSkip, Marked, Scanned, Stale,
      QueueInv, Queued
  <1>19. ASSUME ScanTake PROVE QueueInv'
    <2>1. /\ Queued' = Queued \ {sendQueue[pos]} /\ buf' = buf
          /\ allocated' = allocated
          /\ \A i, j \in DOMAIN sendQueue' : sendQueue'[i] = sendQueue'[j] => i = j
      BY <1>19, QueueErased DEF ScanTake
    <2> QED BY <2>1, <1>a DEF QueueInv
  <1>20. ASSUME ScanEnd PROVE QueueInv'
    BY <1>20, <1>a, <1>b, ThreadFacts DEF ScanEnd, QueueInv, Queued
  <1>21. ASSUME SendAll PROVE QueueInv'
    BY <1>21, <1>a, <1>b, ThreadFacts DEF SendAll, Put, SendResults, QueueInv,
      Queued
  <1>22. ASSUME SendPart PROVE QueueInv'
    BY <1>22, <1>a, <1>b, ThreadFacts DEF SendPart, Put, SendResults, QueueInv,
      Queued
  <1>23. ASSUME SendFails PROVE QueueInv'
    BY <1>23, <1>a, <1>b, ThreadFacts DEF SendFails, SendResults, QueueInv, Queued
  <1>24. ASSUME SendDone PROVE QueueInv'
    <2>1. conn[Send] \in Conns BY <1>24, ThreadFacts, HeldFacts DEF SendDone, Holds
    <2>2. psendMemPointer[conn[Send]] \notin Queued
      BY <2>1, <1>b, QueuedFacts DEF NameInv, Buffers, NoBuf, Queued
    <2>3. /\ sendQueue' = sendQueue /\ buf' = buf
          /\ allocated' = allocated \ {psendMemPointer[conn[Send]]}
      BY <1>24 DEF SendDone
    <2> QED BY <2>2, <2>3, <1>a DEF QueueInv, Queued
  <1>25. ASSUME SendMark PROVE QueueInv'
    BY <1>25, <1>a, <1>b, ThreadFacts DEF SendMark, QueueInv, Queued
  <1>26. ASSUME SendArm PROVE QueueInv'
    BY <1>26, <1>a, <1>b, ThreadFacts DEF SendArm, QueueInv, Queued
  <1>27. ASSUME NEW c \in Conns, Event(c) PROVE QueueInv'
    BY <1>27, <1>a, <1>b, ThreadFacts DEF Event, OutHalf, QueueInv, Queued
  <1>28. ASSUME ReadOn PROVE QueueInv'
    BY <1>28, <1>a, <1>b, ThreadFacts DEF ReadOn, QueueInv, Queued
  <1>29. ASSUME ReadCloses PROVE QueueInv'
    BY <1>29, <1>a, <1>b, ThreadFacts DEF ReadCloses, QueueInv, Queued
  <1>30. ASSUME OutHup PROVE QueueInv'
    BY <1>30, <1>a, <1>b, ThreadFacts DEF OutHup, Lower, QueueInv, Queued
  <1>31. ASSUME WriteAll PROVE QueueInv'
    BY <1>31, <1>a, <1>b, ThreadFacts DEF WriteAll, Put, SendResults, QueueInv,
      Queued
  <1>32. ASSUME WritePart PROVE QueueInv'
    BY <1>32, <1>a, <1>b, ThreadFacts DEF WritePart, Put, SendResults, QueueInv,
      Queued
  <1>33. ASSUME WriteFails PROVE QueueInv'
    BY <1>33, <1>a, <1>b, ThreadFacts DEF WriteFails, SendResults, QueueInv, Queued
  <1>34. ASSUME WriteDisarm PROVE QueueInv'
    BY <1>34, <1>a, <1>b, ThreadFacts DEF WriteDisarm, QueueInv, Queued
  <1>35. ASSUME WritePost PROVE QueueInv'
    BY <1>35, <1>a, <1>b, ThreadFacts DEF WritePost, QueueInv, Queued
  <1>36. ASSUME WriteFree PROVE QueueInv'
    <2>1. conn[Main] \in Conns BY <1>36, ThreadFacts, HeldFacts DEF WriteFree, Holds
    <2>2. psendMemPointer[conn[Main]] \notin Queued
      BY <2>1, <1>b, QueuedFacts DEF NameInv, Buffers, NoBuf, Queued
    <2>3. /\ sendQueue' = sendQueue /\ buf' = buf
          /\ allocated' = allocated \ {psendMemPointer[conn[Main]]}
      BY <1>36 DEF WriteFree
    <2> QED BY <2>2, <2>3, <1>a DEF QueueInv, Queued
  <1>37. ASSUME WriteUnmark PROVE QueueInv'
    BY <1>37, <1>a, <1>b, ThreadFacts DEF WriteUnmark, Lower, QueueInv, Queued
  <1>38. CASE UNCHANGED vars
    BY <1>38, <1>a, <1>b, ThreadFacts DEF vars, QueueInv, Queued
  <1> QED BY <1>1, <1>2, <1>3, <1>4, <1>5, <1>6, <1>7, <1>8, <1>9, <1>10, <1>11,
       <1>12, <1>13, <1>14, <1>15, <1>16, <1>17, <1>18, <1>19, <1>20, <1>21, <1>22,
       <1>23, <1>24, <1>25, <1>26, <1>27, <1>28, <1>29, <1>30, <1>31, <1>32, <1>33,
       <1>34, <1>35, <1>36, <1>37, <1>38 DEF Next, PoolStep, CloseStep, SendStep,
       WriteStep, Stopped

(* A sequence number only grows, and grows when the object is freed.       *)
LEMMA AgeStep == ASSUME IInv, [Next]_vars PROVE AgeInv'
  <1> USE DEF queueVars, objectVars, threadVars, socketVars, boundVars, Goto
  <1>a. AgeInv BY DEF IInv, BufferInv
  <1>b. StampInv BY DEF IInv, HoldInv
  <1>c. ListType BY TypeParts DEF IInv
  <1>1. ASSUME NEW c \in Conns, AcceptConn(c) PROVE AgeInv'
    BY <1>1, <1>a, <1>b, <1>c, ThreadFacts, QueuedFacts DEF AcceptConn, AgeInv, ListType
  <1>2. ASSUME NEW c \in Conns, FreeConnection(c) PROVE AgeInv'
    BY <1>2, <1>a, <1>b, <1>c, ThreadFacts, QueuedFacts DEF FreeConnection, Held, AgeInv,
      ListType
  <1>3. ASSUME NEW c \in Conns, ClientReads(c) PROVE AgeInv'
    BY <1>3, <1>a, <1>b, <1>c, ThreadFacts, QueuedFacts DEF ClientReads, AgeInv, ListType
  <1>4. ASSUME NEW c \in Conns, ClientLeaves(c) PROVE AgeInv'
    BY <1>4, <1>a, <1>b, <1>c, ThreadFacts, QueuedFacts DEF ClientLeaves, AgeInv, ListType
  <1>5. ASSUME NEW t \in PoolThreads, Request(t) PROVE AgeInv'
    BY <1>5, <1>a, <1>b, <1>c, ThreadFacts, QueuedFacts DEF Request, AgeInv, ListType
  <1>6. ASSUME NEW t \in PoolThreads, MsgDiscard(t) PROVE AgeInv'
    BY <1>6, <1>a, <1>b, <1>c, ThreadFacts, QueuedFacts DEF MsgDiscard, TooManyQueued,
       AgeInv,
      ListType
  <1>7. ASSUME NEW t \in PoolThreads, MsgSend(t) PROVE AgeInv'
    <2> DEFINE b == Len(buf) + 1
               m == [conn |-> conn[t], sequence |-> request[t]]
    <2>1. /\ b \in Buffers /\ m \in [conn : Conns, sequence : Nat]
          /\ buf' = Append(buf, m) /\ sendQueue' = Append(sendQueue, b)
          /\ m.conn = conn[t] /\ m.sequence = request[t]
      BY <1>7, SentFacts
    <2>2. /\ DOMAIN buf' = DOMAIN buf \cup {b} /\ buf'[b] = m
          /\ \A x \in DOMAIN buf : buf'[x] = buf[x]
      BY <2>1, QueueAppended
    <2> HIDE DEF b, m
    <2>3. m.sequence <= sequence[m.conn] /\ place[m.conn] # "free"
      BY <1>7, <2>1, <1>b, ThreadFacts, HeldFacts DEF StampInv, MsgSend, Holds
    <2>4. sequence' = sequence /\ place' = place BY <1>7 DEF MsgSend
    <2> QED BY <2>2, <2>3, <2>4, <1>a DEF AgeInv
  <1>8. ASSUME NEW t \in PoolThreads, MsgCutOff(t) PROVE AgeInv'
    BY <1>8, <1>a, <1>b, <1>c, ThreadFacts, QueuedFacts DEF MsgCutOff, TooManyQueued,
       TooSlow,
      AgeInv, ListType
  <1>9. ASSUME NEW t \in Closers, ZdClose(t) PROVE AgeInv'
    BY <1>9, <1>a, <1>b, <1>c, ThreadFacts, QueuedFacts DEF ZdClose, AgeInv, ListType
  <1>10. ASSUME NEW t \in Closers, ZdTestThrow(t) PROVE AgeInv'
    BY <1>10, <1>a, <1>b, <1>c, ThreadFacts, QueuedFacts DEF ZdTestThrow, AgeInv, ListType
  <1>11. ASSUME NEW t \in Closers, ZdLowerThrow(t) PROVE AgeInv'
    BY <1>11, <1>a, <1>b, <1>c, ThreadFacts, QueuedFacts DEF ZdLowerThrow, Lower, AgeInv,
      ListType
  <1>12. ASSUME NEW t \in Closers, InRecyConnectQueue(t) PROVE AgeInv'
    BY <1>12, <1>a, <1>b, <1>c, ThreadFacts, QueuedFacts DEF InRecyConnectQueue, AgeInv,
       ListType
  <1>13. ASSUME KickClient PROVE AgeInv'
    BY <1>13, <1>a, <1>b, <1>c, ThreadFacts, QueuedFacts DEF KickClient, AgeInv, ListType
  <1>14. ASSUME SemWait PROVE AgeInv'
    BY <1>14, <1>a, <1>b, <1>c, ThreadFacts, QueuedFacts DEF SemWait, AgeInv, ListType
  <1>15. ASSUME QueueEmpty PROVE AgeInv'
    BY <1>15, <1>a, <1>b, <1>c, ThreadFacts, QueuedFacts DEF QueueEmpty, AgeInv, ListType
  <1>16. ASSUME LockQueue PROVE AgeInv'
    BY <1>16, <1>a, <1>b, <1>c, ThreadFacts, QueuedFacts DEF LockQueue, AgeInv, ListType
  <1>17. ASSUME ScanStale PROVE AgeInv'
    BY <1>17, <1>a, <1>b, <1>c, ThreadFacts, QueuedFacts DEF ScanStale, Erase, Scanned,
       Stale,
      AgeInv, ListType
  <1>18. ASSUME ScanSkip PROVE AgeInv'
    BY <1>18, <1>a, <1>b, <1>c, ThreadFacts, QueuedFacts DEF ScanSkip, Marked, Scanned,
       Stale,
      AgeInv, ListType
  <1>19. ASSUME ScanTake PROVE AgeInv'
    BY <1>19, <1>a, <1>b, <1>c, ThreadFacts, QueuedFacts DEF ScanTake, Marked, Erase,
       Scanned,
      Stale, AgeInv, ListType
  <1>20. ASSUME ScanEnd PROVE AgeInv'
    BY <1>20, <1>a, <1>b, <1>c, ThreadFacts, QueuedFacts DEF ScanEnd, AgeInv, ListType
  <1>21. ASSUME SendAll PROVE AgeInv'
    BY <1>21, <1>a, <1>b, <1>c, ThreadFacts, QueuedFacts DEF SendAll, Put, SendResults,
       AgeInv,
      ListType
  <1>22. ASSUME SendPart PROVE AgeInv'
    BY <1>22, <1>a, <1>b, <1>c, ThreadFacts, QueuedFacts DEF SendPart, Put, SendResults,
       AgeInv,
      ListType
  <1>23. ASSUME SendFails PROVE AgeInv'
    BY <1>23, <1>a, <1>b, <1>c, ThreadFacts, QueuedFacts DEF SendFails, SendResults, AgeInv,
      ListType
  <1>24. ASSUME SendDone PROVE AgeInv'
    BY <1>24, <1>a, <1>b, <1>c, ThreadFacts, QueuedFacts DEF SendDone, AgeInv, ListType
  <1>25. ASSUME SendMark PROVE AgeInv'
    BY <1>25, <1>a, <1>b, <1>c, ThreadFacts, QueuedFacts DEF SendMark, AgeInv, ListType
  <1>26. ASSUME SendArm PROVE AgeInv'
    BY <1>26, <1>a, <1>b, <1>c, ThreadFacts, QueuedFacts DEF SendArm, AgeInv, ListType
  <1>27. ASSUME NEW c \in Conns, Event(c) PROVE AgeInv'
    BY <1>27, <1>a, <1>b, <1>c, ThreadFacts, QueuedFacts DEF Event, OutHalf, AgeInv,
       ListType
  <1>28. ASSUME ReadOn PROVE AgeInv'
    BY <1>28, <1>a, <1>b, <1>c, ThreadFacts, QueuedFacts DEF ReadOn, AgeInv, ListType
  <1>29. ASSUME ReadCloses PROVE AgeInv'
    BY <1>29, <1>a, <1>b, <1>c, ThreadFacts, QueuedFacts DEF ReadCloses, AgeInv, ListType
  <1>30. ASSUME OutHup PROVE AgeInv'
    BY <1>30, <1>a, <1>b, <1>c, ThreadFacts, QueuedFacts DEF OutHup, Lower, AgeInv, ListType
  <1>31. ASSUME WriteAll PROVE AgeInv'
    BY <1>31, <1>a, <1>b, <1>c, ThreadFacts, QueuedFacts DEF WriteAll, Put, SendResults,
       AgeInv,
      ListType
  <1>32. ASSUME WritePart PROVE AgeInv'
    BY <1>32, <1>a, <1>b, <1>c, ThreadFacts, QueuedFacts DEF WritePart, Put, SendResults,
       AgeInv,
      ListType
  <1>33. ASSUME WriteFails PROVE AgeInv'
    BY <1>33, <1>a, <1>b, <1>c, ThreadFacts, QueuedFacts DEF WriteFails, SendResults,
       AgeInv,
      ListType
  <1>34. ASSUME WriteDisarm PROVE AgeInv'
    BY <1>34, <1>a, <1>b, <1>c, ThreadFacts, QueuedFacts DEF WriteDisarm, AgeInv, ListType
  <1>35. ASSUME WritePost PROVE AgeInv'
    BY <1>35, <1>a, <1>b, <1>c, ThreadFacts, QueuedFacts DEF WritePost, AgeInv, ListType
  <1>36. ASSUME WriteFree PROVE AgeInv'
    BY <1>36, <1>a, <1>b, <1>c, ThreadFacts, QueuedFacts DEF WriteFree, AgeInv, ListType
  <1>37. ASSUME WriteUnmark PROVE AgeInv'
    BY <1>37, <1>a, <1>b, <1>c, ThreadFacts, QueuedFacts DEF WriteUnmark, Lower, AgeInv,
       ListType
  <1>38. CASE UNCHANGED vars
    BY <1>38, <1>a, <1>b, <1>c, ThreadFacts, QueuedFacts DEF vars, AgeInv, ListType
  <1> QED BY <1>1, <1>2, <1>3, <1>4, <1>5, <1>6, <1>7, <1>8, <1>9, <1>10, <1>11,
       <1>12, <1>13, <1>14, <1>15, <1>16, <1>17, <1>18, <1>19, <1>20, <1>21, <1>22,
       <1>23, <1>24, <1>25, <1>26, <1>27, <1>28, <1>29, <1>30, <1>31, <1>32, <1>33,
       <1>34, <1>35, <1>36, <1>37, <1>38 DEF Next, PoolStep, CloseStep, SendStep,
       WriteStep, Stopped

(* An object names a packet only between ScanTake and the free.            *)
LEMMA NameStep == ASSUME IInv, [Next]_vars PROVE NameInv'
  <1> USE DEF queueVars, objectVars, threadVars, socketVars, boundVars, Goto
  <1>a. NameInv BY DEF IInv, BufferInv
  <1>b. CountType BY TypeParts DEF IInv
  <1>c. ListType BY TypeParts DEF IInv
  <1>1. ASSUME NEW c \in Conns, AcceptConn(c) PROVE NameInv'
    BY <1>1, <1>a, <1>b, <1>c, ThreadFacts DEF AcceptConn, NameInv, CountType,
      ListType, Queued
  <1>2. ASSUME NEW c \in Conns, FreeConnection(c) PROVE NameInv'
    BY <1>2, <1>a, <1>b, <1>c, ThreadFacts DEF FreeConnection, Held, NameInv,
      CountType, ListType, Queued
  <1>3. ASSUME NEW c \in Conns, ClientReads(c) PROVE NameInv'
    BY <1>3, <1>a, <1>b, <1>c, ThreadFacts DEF ClientReads, NameInv, CountType,
      ListType, Queued
  <1>4. ASSUME NEW c \in Conns, ClientLeaves(c) PROVE NameInv'
    BY <1>4, <1>a, <1>b, <1>c, ThreadFacts DEF ClientLeaves, NameInv, CountType,
      ListType, Queued
  <1>5. ASSUME NEW t \in PoolThreads, Request(t) PROVE NameInv'
    BY <1>5, <1>a, <1>b, <1>c, ThreadFacts DEF Request, NameInv, CountType,
      ListType, Queued
  <1>6. ASSUME NEW t \in PoolThreads, MsgDiscard(t) PROVE NameInv'
    BY <1>6, <1>a, <1>b, <1>c, ThreadFacts DEF MsgDiscard, TooManyQueued, NameInv,
      CountType, ListType, Queued
  <1>7. ASSUME NEW t \in PoolThreads, MsgSend(t) PROVE NameInv'
    <2> DEFINE b == Len(buf) + 1
               m == [conn |-> conn[t], sequence |-> request[t]]
    <2>1. /\ b \in Buffers /\ m \in [conn : Conns, sequence : Nat]
          /\ buf' = Append(buf, m) /\ sendQueue' = Append(sendQueue, b)
      BY <1>7, SentFacts
    <2>2. /\ DOMAIN buf' = DOMAIN buf \cup {b} /\ b \notin DOMAIN buf
          /\ \A x \in DOMAIN buf : buf'[x] = buf[x]
          /\ Queued' = Queued \cup {b}
      BY <2>1, QueueAppended
    <2> HIDE DEF b, m
    <2>3. psendMemPointer' = psendMemPointer /\ place' = place BY <1>7 DEF MsgSend
    <2> QED BY <2>2, <2>3, <1>a DEF NameInv
  <1>8. ASSUME NEW t \in PoolThreads, MsgCutOff(t) PROVE NameInv'
    BY <1>8, <1>a, <1>b, <1>c, ThreadFacts DEF MsgCutOff, TooManyQueued, TooSlow,
      NameInv, CountType, ListType, Queued
  <1>9. ASSUME NEW t \in Closers, ZdClose(t) PROVE NameInv'
    BY <1>9, <1>a, <1>b, <1>c, ThreadFacts DEF ZdClose, NameInv, CountType,
      ListType, Queued
  <1>10. ASSUME NEW t \in Closers, ZdTestThrow(t) PROVE NameInv'
    BY <1>10, <1>a, <1>b, <1>c, ThreadFacts DEF ZdTestThrow, NameInv, CountType,
      ListType, Queued
  <1>11. ASSUME NEW t \in Closers, ZdLowerThrow(t) PROVE NameInv'
    BY <1>11, <1>a, <1>b, <1>c, ThreadFacts DEF ZdLowerThrow, Lower, NameInv,
      CountType, ListType, Queued
  <1>12. ASSUME NEW t \in Closers, InRecyConnectQueue(t) PROVE NameInv'
    BY <1>12, <1>a, <1>b, <1>c, ThreadFacts DEF InRecyConnectQueue, NameInv,
      CountType, ListType, Queued
  <1>13. ASSUME KickClient PROVE NameInv'
    BY <1>13, <1>a, <1>b, <1>c, ThreadFacts DEF KickClient, NameInv, CountType,
      ListType, Queued
  <1>14. ASSUME SemWait PROVE NameInv'
    BY <1>14, <1>a, <1>b, <1>c, ThreadFacts DEF SemWait, NameInv, CountType,
      ListType, Queued
  <1>15. ASSUME QueueEmpty PROVE NameInv'
    BY <1>15, <1>a, <1>b, <1>c, ThreadFacts DEF QueueEmpty, NameInv, CountType,
      ListType, Queued
  <1>16. ASSUME LockQueue PROVE NameInv'
    BY <1>16, <1>a, <1>b, <1>c, ThreadFacts DEF LockQueue, NameInv, CountType,
      ListType, Queued
  <1>17. ASSUME ScanStale PROVE NameInv'
    <2>1. /\ Queued' = Queued \ {sendQueue[pos]} /\ buf' = buf
          /\ psendMemPointer' = psendMemPointer /\ place' = place
      BY <1>17, QueueErased DEF ScanStale
    <2> QED BY <2>1, <1>a DEF NameInv
  <1>18. ASSUME ScanSkip PROVE NameInv'
    BY <1>18, <1>a, <1>b, <1>c, ThreadFacts DEF ScanSkip, Marked, Scanned, Stale,
      NameInv, CountType, ListType, Queued
  <1>19. ASSUME ScanTake PROVE NameInv'
    <2> DEFINE c == Scanned.conn
               b == sendQueue[pos]
    <2>1. /\ Queued' = Queued \ {b} /\ buf' = buf /\ place' = place
          /\ psendMemPointer' = [psendMemPointer EXCEPT ![c] = b]
      BY <1>19, QueueErased DEF ScanTake
    <2>2. c \in Conns /\ place[c] # "free" /\ b \in DOMAIN buf /\ buf[b].conn = c
      BY <1>19, ScanHeld, ScanFacts DEF ScanTake, Scanned
    <2> HIDE DEF b, c
    <2> QED BY <2>1, <2>2, <1>a, <1>b DEF NameInv, CountType
  <1>20. ASSUME ScanEnd PROVE NameInv'
    BY <1>20, <1>a, <1>b, <1>c, ThreadFacts DEF ScanEnd, NameInv, CountType,
      ListType, Queued
  <1>21. ASSUME SendAll PROVE NameInv'
    BY <1>21, <1>a, <1>b, <1>c, ThreadFacts DEF SendAll, Put, SendResults, NameInv,
      CountType, ListType, Queued
  <1>22. ASSUME SendPart PROVE NameInv'
    BY <1>22, <1>a, <1>b, <1>c, ThreadFacts DEF SendPart, Put, SendResults, NameInv,
      CountType, ListType, Queued
  <1>23. ASSUME SendFails PROVE NameInv'
    BY <1>23, <1>a, <1>b, <1>c, ThreadFacts DEF SendFails, SendResults, NameInv,
      CountType, ListType, Queued
  <1>24. ASSUME SendDone PROVE NameInv'
    BY <1>24, <1>a, <1>b, <1>c, ThreadFacts DEF SendDone, NameInv, CountType,
      ListType, Queued
  <1>25. ASSUME SendMark PROVE NameInv'
    BY <1>25, <1>a, <1>b, <1>c, ThreadFacts DEF SendMark, NameInv, CountType,
      ListType, Queued
  <1>26. ASSUME SendArm PROVE NameInv'
    BY <1>26, <1>a, <1>b, <1>c, ThreadFacts DEF SendArm, NameInv, CountType,
      ListType, Queued
  <1>27. ASSUME NEW c \in Conns, Event(c) PROVE NameInv'
    BY <1>27, <1>a, <1>b, <1>c, ThreadFacts DEF Event, OutHalf, NameInv, CountType,
      ListType, Queued
  <1>28. ASSUME ReadOn PROVE NameInv'
    BY <1>28, <1>a, <1>b, <1>c, ThreadFacts DEF ReadOn, NameInv, CountType,
      ListType, Queued
  <1>29. ASSUME ReadCloses PROVE NameInv'
    BY <1>29, <1>a, <1>b, <1>c, ThreadFacts DEF ReadCloses, NameInv, CountType,
      ListType, Queued
  <1>30. ASSUME OutHup PROVE NameInv'
    BY <1>30, <1>a, <1>b, <1>c, ThreadFacts DEF OutHup, Lower, NameInv, CountType,
      ListType, Queued
  <1>31. ASSUME WriteAll PROVE NameInv'
    BY <1>31, <1>a, <1>b, <1>c, ThreadFacts DEF WriteAll, Put, SendResults, NameInv,
      CountType, ListType, Queued
  <1>32. ASSUME WritePart PROVE NameInv'
    BY <1>32, <1>a, <1>b, <1>c, ThreadFacts DEF WritePart, Put, SendResults,
      NameInv, CountType, ListType, Queued
  <1>33. ASSUME WriteFails PROVE NameInv'
    BY <1>33, <1>a, <1>b, <1>c, ThreadFacts DEF WriteFails, SendResults, NameInv,
      CountType, ListType, Queued
  <1>34. ASSUME WriteDisarm PROVE NameInv'
    BY <1>34, <1>a, <1>b, <1>c, ThreadFacts DEF WriteDisarm, NameInv, CountType,
      ListType, Queued
  <1>35. ASSUME WritePost PROVE NameInv'
    BY <1>35, <1>a, <1>b, <1>c, ThreadFacts DEF WritePost, NameInv, CountType,
      ListType, Queued
  <1>36. ASSUME WriteFree PROVE NameInv'
    BY <1>36, <1>a, <1>b, <1>c, ThreadFacts DEF WriteFree, NameInv, CountType,
      ListType, Queued
  <1>37. ASSUME WriteUnmark PROVE NameInv'
    BY <1>37, <1>a, <1>b, <1>c, ThreadFacts DEF WriteUnmark, Lower, NameInv,
      CountType, ListType, Queued
  <1>38. CASE UNCHANGED vars
    BY <1>38, <1>a, <1>b, <1>c, ThreadFacts DEF vars, NameInv, CountType, ListType,
      Queued
  <1> QED BY <1>1, <1>2, <1>3, <1>4, <1>5, <1>6, <1>7, <1>8, <1>9, <1>10, <1>11,
       <1>12, <1>13, <1>14, <1>15, <1>16, <1>17, <1>18, <1>19, <1>20, <1>21, <1>22,
       <1>23, <1>24, <1>25, <1>26, <1>27, <1>28, <1>29, <1>30, <1>31, <1>32, <1>33,
       <1>34, <1>35, <1>36, <1>37, <1>38 DEF Next, PoolStep, CloseStep, SendStep,
       WriteStep, Stopped

(* What is out of the queue and not freed is named by its object.          *)
LEMMA OwnStep == ASSUME IInv, [Next]_vars PROVE OwnInv'
  <1> USE DEF queueVars, objectVars, threadVars, socketVars, boundVars, Goto
  <1>a. OwnInv BY DEF IInv, BufferInv
  <1>b. QueueInv BY DEF IInv, BufferInv
  <1>c. NameInv BY DEF IInv, BufferInv
  <1>d. CountType BY TypeParts DEF IInv
  <1>1. ASSUME NEW c \in Conns, AcceptConn(c) PROVE OwnInv'
    BY <1>1, <1>a, <1>b, <1>c, <1>d, ThreadFacts DEF AcceptConn, OwnInv, QueueInv,
      NameInv, CountType, Queued
  <1>2. ASSUME NEW c \in Conns, FreeConnection(c) PROVE OwnInv'
    <2> DEFINE d == c
               p == psendMemPointer[d]
    <2>1. d \in Conns OBVIOUS
    <2>2. /\ Queued' = Queued /\ buf' = buf /\ unmarked' = unmarked
          /\ allocated' = allocated \ {p}
          /\ psendMemPointer' = [psendMemPointer EXCEPT ![d] = NoBuf]
      BY <1>2 DEF FreeConnection, Queued
    <2> HIDE DEF d
    <2>3. \A e \in Conns \ unmarked' :
             psendMemPointer'[e] # NoBuf => psendMemPointer'[e] \in allocated'
      BY <2>1, <2>2, <1>a, <1>c, <1>d DEF OwnInv, NameInv, CountType
    <2>4. \A x \in allocated : x # NoBuf /\ buf[x].conn \in Conns
      BY <1>b, QueuedFacts DEF QueueInv, Buffers, NoBuf
    <2>5. \A x \in allocated' \ Queued' :
             buf'[x].conn \in unmarked' \/ psendMemPointer'[buf'[x].conn] = x
      BY <2>1, <2>2, <2>4, <1>a, <1>d DEF OwnInv, CountType
    <2> QED BY <2>3, <2>5 DEF OwnInv
  <1>3. ASSUME NEW c \in Conns, ClientReads(c) PROVE OwnInv'
    BY <1>3, <1>a, <1>b, <1>c, <1>d, ThreadFacts DEF ClientReads, OwnInv, QueueInv,
      NameInv, CountType, Queued
  <1>4. ASSUME NEW c \in Conns, ClientLeaves(c) PROVE OwnInv'
    BY <1>4, <1>a, <1>b, <1>c, <1>d, ThreadFacts DEF ClientLeaves, OwnInv, QueueInv,
      NameInv, CountType, Queued
  <1>5. ASSUME NEW t \in PoolThreads, Request(t) PROVE OwnInv'
    BY <1>5, <1>a, <1>b, <1>c, <1>d, ThreadFacts DEF Request, OwnInv, QueueInv,
      NameInv, CountType, Queued
  <1>6. ASSUME NEW t \in PoolThreads, MsgDiscard(t) PROVE OwnInv'
    BY <1>6, <1>a, <1>b, <1>c, <1>d, ThreadFacts DEF MsgDiscard, TooManyQueued,
      OwnInv, QueueInv, NameInv, CountType, Queued
  <1>7. ASSUME NEW t \in PoolThreads, MsgSend(t) PROVE OwnInv'
    <2> DEFINE b == Len(buf) + 1
               m == [conn |-> conn[t], sequence |-> request[t]]
    <2>1. /\ b \in Buffers /\ m \in [conn : Conns, sequence : Nat]
          /\ buf' = Append(buf, m) /\ sendQueue' = Append(sendQueue, b)
          /\ allocated' = allocated \cup {b}
      BY <1>7, SentFacts
    <2>2. /\ b \notin DOMAIN buf /\ Queued' = Queued \cup {b}
          /\ \A x \in DOMAIN buf : buf'[x] = buf[x]
      BY <2>1, QueueAppended
    <2> HIDE DEF b, m
    <2>3. psendMemPointer' = psendMemPointer /\ unmarked' = unmarked BY <1>7 DEF MsgSend
    <2> QED BY <2>1, <2>2, <2>3, <1>a, <1>b DEF OwnInv, QueueInv
  <1>8. ASSUME NEW t \in PoolThreads, MsgCutOff(t) PROVE OwnInv'
    BY <1>8, <1>a, <1>b, <1>c, <1>d, ThreadFacts DEF MsgCutOff, TooManyQueued,
      TooSlow, OwnInv, QueueInv, NameInv, CountType, Queued
  <1>9. ASSUME NEW t \in Closers, ZdClose(t) PROVE OwnInv'
    BY <1>9, <1>a, <1>b, <1>c, <1>d, ThreadFacts DEF ZdClose, OwnInv, QueueInv,
      NameInv, CountType, Queued
  <1>10. ASSUME NEW t \in Closers, ZdTestThrow(t) PROVE OwnInv'
    BY <1>10, <1>a, <1>b, <1>c, <1>d, ThreadFacts DEF ZdTestThrow, OwnInv, QueueInv,
      NameInv, CountType, Queued
  <1>11. ASSUME NEW t \in Closers, ZdLowerThrow(t) PROVE OwnInv'
    BY <1>11, <1>a, <1>b, <1>c, <1>d, ThreadFacts DEF ZdLowerThrow, Lower, OwnInv,
      QueueInv, NameInv, CountType, Queued
  <1>12. ASSUME NEW t \in Closers, InRecyConnectQueue(t) PROVE OwnInv'
    BY <1>12, <1>a, <1>b, <1>c, <1>d, ThreadFacts DEF InRecyConnectQueue, OwnInv,
      QueueInv, NameInv, CountType, Queued
  <1>13. ASSUME KickClient PROVE OwnInv'
    BY <1>13, <1>a, <1>b, <1>c, <1>d, ThreadFacts DEF KickClient, OwnInv, QueueInv,
      NameInv, CountType, Queued
  <1>14. ASSUME SemWait PROVE OwnInv'
    BY <1>14, <1>a, <1>b, <1>c, <1>d, ThreadFacts DEF SemWait, OwnInv, QueueInv,
      NameInv, CountType, Queued
  <1>15. ASSUME QueueEmpty PROVE OwnInv'
    BY <1>15, <1>a, <1>b, <1>c, <1>d, ThreadFacts DEF QueueEmpty, OwnInv, QueueInv,
      NameInv, CountType, Queued
  <1>16. ASSUME LockQueue PROVE OwnInv'
    BY <1>16, <1>a, <1>b, <1>c, <1>d, ThreadFacts DEF LockQueue, OwnInv, QueueInv,
      NameInv, CountType, Queued
  <1>17. ASSUME ScanStale PROVE OwnInv'
    <2>1. /\ Queued' = Queued \ {sendQueue[pos]} /\ buf' = buf
          /\ allocated' = allocated \ {sendQueue[pos]}
          /\ psendMemPointer' = psendMemPointer /\ unmarked' = unmarked
      BY <1>17, QueueErased DEF ScanStale
    <2>2. sendQueue[pos] \in Queued /\ pos <= Len(sendQueue)
      BY <1>17, ScanFacts DEF Queued, ScanStale
    <2> QED BY <2>1, <2>2, <1>a, <1>c DEF OwnInv, NameInv
  <1>18. ASSUME ScanSkip PROVE OwnInv'
    BY <1>18, <1>a, <1>b, <1>c, <1>d, ThreadFacts DEF ScanSkip, Marked, Scanned,
      Stale, OwnInv, QueueInv, NameInv, CountType, Queued
  <1>19. ASSUME ScanTake PROVE OwnInv'
    <2> DEFINE c == Scanned.conn
               b == sendQueue[pos]
    <2>1. /\ Queued' = Queued \ {b} /\ buf' = buf /\ allocated' = allocated
          /\ psendMemPointer' = [psendMemPointer EXCEPT ![c] = b] /\ unmarked' = unmarked
      BY <1>19, QueueErased DEF ScanTake
    <2>2. c \in Conns /\ b \in DOMAIN buf /\ buf[b].conn = c /\ b \in Queued
      BY <1>19, ScanFacts DEF ScanTake, Scanned, Queued
    <2>3. c \in unmarked \/ psendMemPointer[c] = NoBuf
      BY <1>19, TakeFree DEF ScanTake, Lowered
    <2>4. b \in allocated /\ b # NoBuf
      BY <2>2, <1>b, QueuedFacts DEF QueueInv, Buffers, NoBuf
    <2> HIDE DEF b, c
    <2>5. \A d \in Conns \ unmarked' :
             psendMemPointer'[d] # NoBuf => psendMemPointer'[d] \in allocated'
      BY <2>1, <2>2, <2>4, <1>a, <1>d DEF OwnInv, CountType
    <2>6. ASSUME NEW x \in allocated' \ Queued', buf'[x].conn \notin unmarked'
          PROVE  psendMemPointer'[buf'[x].conn] = x
      <3>1. CASE x = b BY <2>1, <2>2, <3>1, <1>d DEF CountType
      <3>2. CASE x # b
        <4>1. x \in allocated \ Queued /\ x \in DOMAIN buf /\ x # NoBuf
          BY <2>1, <2>6, <3>2, <1>b, QueuedFacts DEF QueueInv, Buffers, NoBuf
        <4>2. psendMemPointer[buf[x].conn] = x BY <4>1, <2>1, <2>6, <1>a DEF OwnInv
        <4>3. buf[x].conn # c BY <2>1, <2>3, <2>6, <4>1, <4>2
        <4> QED BY <2>1, <4>2, <4>3, <1>d DEF CountType
      <3> QED BY <3>1, <3>2
    <2> QED BY <2>5, <2>6 DEF OwnInv
  <1>20. ASSUME ScanEnd PROVE OwnInv'
    BY <1>20, <1>a, <1>b, <1>c, <1>d, ThreadFacts DEF ScanEnd, OwnInv, QueueInv,
      NameInv, CountType, Queued
  <1>21. ASSUME SendAll PROVE OwnInv'
    BY <1>21, <1>a, <1>b, <1>c, <1>d, ThreadFacts DEF SendAll, Put, SendResults,
      OwnInv, QueueInv, NameInv, CountType, Queued
  <1>22. ASSUME SendPart PROVE OwnInv'
    BY <1>22, <1>a, <1>b, <1>c, <1>d, ThreadFacts DEF SendPart, Put, SendResults,
      OwnInv, QueueInv, NameInv, CountType, Queued
  <1>23. ASSUME SendFails PROVE OwnInv'
    BY <1>23, <1>a, <1>b, <1>c, <1>d, ThreadFacts DEF SendFails, SendResults,
      OwnInv, QueueInv, NameInv, CountType, Queued
  <1>24. ASSUME SendDone PROVE OwnInv'
    <2> DEFINE d == conn[Send]
               p == psendMemPointer[d]
    <2>1. d \in Conns BY <1>24, ThreadFacts, HeldFacts DEF SendDone, Holds
    <2>2. /\ Queued' = Queued /\ buf' = buf /\ unmarked' = unmarked
          /\ allocated' = allocated \ {p}
          /\ psendMemPointer' = [psendMemPointer EXCEPT ![d] = NoBuf]
      BY <1>24 DEF SendDone, Queued
    <2> HIDE DEF d
    <2>3. \A e \in Conns \ unmarked' :
             psendMemPointer'[e] # NoBuf => psendMemPointer'[e] \in allocated'
      BY <2>1, <2>2, <1>a, <1>c, <1>d DEF OwnInv, NameInv, CountType
    <2>4. \A x \in allocated : x # NoBuf /\ buf[x].conn \in Conns
      BY <1>b, QueuedFacts DEF QueueInv, Buffers, NoBuf
    <2>5. \A x \in allocated' \ Queued' :
             buf'[x].conn \in unmarked' \/ psendMemPointer'[buf'[x].conn] = x
      BY <2>1, <2>2, <2>4, <1>a, <1>d DEF OwnInv, CountType
    <2> QED BY <2>3, <2>5 DEF OwnInv
  <1>25. ASSUME SendMark PROVE OwnInv'
    BY <1>25, <1>a, <1>b, <1>c, <1>d, ThreadFacts DEF SendMark, OwnInv, QueueInv,
      NameInv, CountType, Queued
  <1>26. ASSUME SendArm PROVE OwnInv'
    BY <1>26, <1>a, <1>b, <1>c, <1>d, ThreadFacts DEF SendArm, OwnInv, QueueInv,
      NameInv, CountType, Queued
  <1>27. ASSUME NEW c \in Conns, Event(c) PROVE OwnInv'
    BY <1>27, <1>a, <1>b, <1>c, <1>d, ThreadFacts DEF Event, OutHalf, OwnInv,
      QueueInv, NameInv, CountType, Queued
  <1>28. ASSUME ReadOn PROVE OwnInv'
    BY <1>28, <1>a, <1>b, <1>c, <1>d, ThreadFacts DEF ReadOn, OwnInv, QueueInv,
      NameInv, CountType, Queued
  <1>29. ASSUME ReadCloses PROVE OwnInv'
    BY <1>29, <1>a, <1>b, <1>c, <1>d, ThreadFacts DEF ReadCloses, OwnInv, QueueInv,
      NameInv, CountType, Queued
  <1>30. ASSUME OutHup PROVE OwnInv'
    BY <1>30, <1>a, <1>b, <1>c, <1>d, ThreadFacts DEF OutHup, Lower, OwnInv,
      QueueInv, NameInv, CountType, Queued
  <1>31. ASSUME WriteAll PROVE OwnInv'
    BY <1>31, <1>a, <1>b, <1>c, <1>d, ThreadFacts DEF WriteAll, Put, SendResults,
      OwnInv, QueueInv, NameInv, CountType, Queued
  <1>32. ASSUME WritePart PROVE OwnInv'
    BY <1>32, <1>a, <1>b, <1>c, <1>d, ThreadFacts DEF WritePart, Put, SendResults,
      OwnInv, QueueInv, NameInv, CountType, Queued
  <1>33. ASSUME WriteFails PROVE OwnInv'
    BY <1>33, <1>a, <1>b, <1>c, <1>d, ThreadFacts DEF WriteFails, SendResults,
      OwnInv, QueueInv, NameInv, CountType, Queued
  <1>34. ASSUME WriteDisarm PROVE OwnInv'
    BY <1>34, <1>a, <1>b, <1>c, <1>d, ThreadFacts DEF WriteDisarm, OwnInv, QueueInv,
      NameInv, CountType, Queued
  <1>35. ASSUME WritePost PROVE OwnInv'
    BY <1>35, <1>a, <1>b, <1>c, <1>d, ThreadFacts DEF WritePost, OwnInv, QueueInv,
      NameInv, CountType, Queued
  <1>36. ASSUME WriteFree PROVE OwnInv'
    <2> DEFINE d == conn[Main]
               p == psendMemPointer[d]
    <2>1. d \in Conns BY <1>36, ThreadFacts, HeldFacts DEF WriteFree, Holds
    <2>2. /\ Queued' = Queued /\ buf' = buf /\ unmarked' = unmarked
          /\ allocated' = allocated \ {p}
          /\ psendMemPointer' = [psendMemPointer EXCEPT ![d] = NoBuf]
      BY <1>36 DEF WriteFree, Queued
    <2> HIDE DEF d
    <2>3. \A e \in Conns \ unmarked' :
             psendMemPointer'[e] # NoBuf => psendMemPointer'[e] \in allocated'
      BY <2>1, <2>2, <1>a, <1>c, <1>d DEF OwnInv, NameInv, CountType
    <2>4. \A x \in allocated : x # NoBuf /\ buf[x].conn \in Conns
      BY <1>b, QueuedFacts DEF QueueInv, Buffers, NoBuf
    <2>5. \A x \in allocated' \ Queued' :
             buf'[x].conn \in unmarked' \/ psendMemPointer'[buf'[x].conn] = x
      BY <2>1, <2>2, <2>4, <1>a, <1>d DEF OwnInv, CountType
    <2> QED BY <2>3, <2>5 DEF OwnInv
  <1>37. ASSUME WriteUnmark PROVE OwnInv'
    BY <1>37, <1>a, <1>b, <1>c, <1>d, ThreadFacts DEF WriteUnmark, Lower, OwnInv,
      QueueInv, NameInv, CountType, Queued
  <1>38. CASE UNCHANGED vars
    BY <1>38, <1>a, <1>b, <1>c, <1>d, ThreadFacts DEF vars, OwnInv, QueueInv,
      NameInv, CountType, Queued
  <1> QED BY <1>1, <1>2, <1>3, <1>4, <1>5, <1>6, <1>7, <1>8, <1>9, <1>10, <1>11,
       <1>12, <1>13, <1>14, <1>15, <1>16, <1>17, <1>18, <1>19, <1>20, <1>21, <1>22,
       <1>23, <1>24, <1>25, <1>26, <1>27, <1>28, <1>29, <1>30, <1>31, <1>32, <1>33,
       <1>34, <1>35, <1>36, <1>37, <1>38 DEF Next, PoolStep, CloseStep, SendStep,
       WriteStep, Stopped

(* The four together.                                                      *)
LEMMA BufferStep == ASSUME IInv, [Next]_vars PROVE BufferInv'
  BY QueueStep, AgeStep, NameStep, OwnStep DEF BufferInv

-----------------------------------------------------------------------------
(* What the counter says.                                                  *)

(* An object that is cut off stays so until its packet is freed.           *)
LEMMA CutKept ==
  ASSUME IInv, [Next]_vars, NEW d \in Conns, CutOff(d)
  PROVE  CutOff(d)' \/ psendMemPointer'[d] = NoBuf
  <1> USE DEF queueVars, objectVars, threadVars, socketVars, boundVars, Goto
  <1>a. PcInv BY DEF IInv
  <1>b. ThreadType BY TypeParts DEF IInv
  <1>c. ListType BY TypeParts DEF IInv
  <1>d. CountType BY TypeParts DEF IInv
  <1>e. AgeInv BY DEF IInv, BufferInv
  <1>1. ASSUME NEW c \in Conns, AcceptConn(c)
         PROVE CutOff(d)' \/ psendMemPointer'[d] = NoBuf
    BY <1>1, <1>a, <1>b, <1>c, <1>d, <1>e, ThreadFacts DEF AcceptConn, CutOff,
      NoneCurrent, PcInv, ThreadType, ListType, CountType, ClosePcs, WritePcs,
      BusyPcs, Holds
  <1>2. ASSUME NEW c \in Conns, FreeConnection(c)
         PROVE CutOff(d)' \/ psendMemPointer'[d] = NoBuf
    BY <1>2, <1>a, <1>b, <1>c, <1>d, <1>e, ThreadFacts DEF FreeConnection, Held,
      CutOff, NoneCurrent, PcInv, ThreadType, ListType, CountType, ClosePcs,
      WritePcs, BusyPcs, Holds
  <1>3. ASSUME NEW c \in Conns, ClientReads(c)
         PROVE CutOff(d)' \/ psendMemPointer'[d] = NoBuf
    BY <1>3, <1>a, <1>b, <1>c, <1>d, <1>e, ThreadFacts DEF ClientReads, CutOff,
      NoneCurrent, PcInv, ThreadType, ListType, CountType, ClosePcs, WritePcs,
      BusyPcs, Holds
  <1>4. ASSUME NEW c \in Conns, ClientLeaves(c)
         PROVE CutOff(d)' \/ psendMemPointer'[d] = NoBuf
    BY <1>4, <1>a, <1>b, <1>c, <1>d, <1>e, ThreadFacts DEF ClientLeaves, CutOff,
      NoneCurrent, PcInv, ThreadType, ListType, CountType, ClosePcs, WritePcs,
      BusyPcs, Holds
  <1>5. ASSUME NEW t \in PoolThreads, Request(t)
         PROVE CutOff(d)' \/ psendMemPointer'[d] = NoBuf
    BY <1>5, <1>a, <1>b, <1>c, <1>d, <1>e, ThreadFacts DEF Request, CutOff,
      NoneCurrent, PcInv, ThreadType, ListType, CountType, ClosePcs, WritePcs,
      BusyPcs, Holds
  <1>6. ASSUME NEW t \in PoolThreads, MsgDiscard(t)
         PROVE CutOff(d)' \/ psendMemPointer'[d] = NoBuf
    BY <1>6, <1>a, <1>b, <1>c, <1>d, <1>e, ThreadFacts DEF MsgDiscard,
      TooManyQueued, CutOff, NoneCurrent, PcInv, ThreadType, ListType, CountType,
      ClosePcs, WritePcs, BusyPcs, Holds
  <1>7. ASSUME NEW t \in PoolThreads, MsgSend(t)
         PROVE CutOff(d)' \/ psendMemPointer'[d] = NoBuf
    <2> DEFINE b == Len(buf) + 1
               m == [conn |-> conn[t], sequence |-> request[t]]
    <2>1. /\ b \in Buffers /\ m \in [conn : Conns, sequence : Nat]
          /\ buf' = Append(buf, m) /\ sendQueue' = Append(sendQueue, b)
          /\ m.conn = conn[t] /\ conn[t] \in Conns
      BY <1>7, SentFacts
    <2>2. /\ DOMAIN sendQueue = 1 .. Len(sendQueue) /\ Len(sendQueue) \in Nat
          /\ DOMAIN sendQueue' = 1 .. Len(sendQueue) + 1
          /\ \A i \in DOMAIN sendQueue : sendQueue'[i] = sendQueue[i]
          /\ sendQueue'[Len(sendQueue) + 1] = b /\ buf'[b] = m
          /\ \A x \in DOMAIN buf : buf'[x] = buf[x]
      BY <2>1, QueueAppended
    <2> HIDE DEF b, m
    <2>3. mutex \notin PoolThreads /\ conn[t] # d
      BY <1>7, ThreadFacts DEF MsgSend, TooSlow, CutOff
    <2>4. /\ sequence' = sequence /\ place' = place /\ connected' = connected
          /\ iSendCount'[d] = iSendCount[d]
      BY <1>7, <2>1, <2>3, <1>d DEF MsgSend, CountType
    <2>5. NoneCurrent(d)' 
      <3>1. NoneCurrent(d) BY <2>3 DEF CutOff
      <3>2. ASSUME NEW i \in DOMAIN sendQueue', buf'[sendQueue'[i]].conn = d
            PROVE  buf'[sendQueue'[i]].sequence # sequence'[d]
        <4>1. i \in DOMAIN sendQueue \/ i = Len(sendQueue) + 1 BY <2>2
        <4>2. CASE i \in DOMAIN sendQueue
          <5>1. buf'[sendQueue'[i]] = buf[sendQueue[i]] BY <2>2, <4>2, QueuedFacts
          <5> QED BY <3>1, <3>2, <4>2, <5>1, <2>4 DEF NoneCurrent
        <4>3. CASE i = Len(sendQueue) + 1 BY <2>1, <2>2, <2>3, <3>2, <4>3
        <4> QED BY <4>1, <4>2, <4>3
      <3> QED BY <3>2 DEF NoneCurrent
    <2> QED BY <2>3, <2>4, <2>5 DEF CutOff
  <1>8. ASSUME NEW t \in PoolThreads, MsgCutOff(t)
         PROVE CutOff(d)' \/ psendMemPointer'[d] = NoBuf
    BY <1>8, <1>a, <1>b, <1>c, <1>d, <1>e, ThreadFacts DEF MsgCutOff, TooManyQueued,
      TooSlow, CutOff, NoneCurrent, PcInv, ThreadType, ListType, CountType,
      ClosePcs, WritePcs, BusyPcs, Holds
  <1>9. ASSUME NEW t \in Closers, ZdClose(t) PROVE CutOff(d)' \/ psendMemPointer'[d] = NoBuf
    BY <1>9, <1>a, <1>b, <1>c, <1>d, <1>e, ThreadFacts DEF ZdClose, CutOff,
      NoneCurrent, PcInv, ThreadType, ListType, CountType, ClosePcs, WritePcs,
      BusyPcs, Holds
  <1>10. ASSUME NEW t \in Closers, ZdTestThrow(t)
         PROVE CutOff(d)' \/ psendMemPointer'[d] = NoBuf
    BY <1>10, <1>a, <1>b, <1>c, <1>d, <1>e, ThreadFacts DEF ZdTestThrow, CutOff,
      NoneCurrent, PcInv, ThreadType, ListType, CountType, ClosePcs, WritePcs,
      BusyPcs, Holds
  <1>11. ASSUME NEW t \in Closers, ZdLowerThrow(t)
         PROVE CutOff(d)' \/ psendMemPointer'[d] = NoBuf
    BY <1>11, <1>a, <1>b, <1>c, <1>d, <1>e, ThreadFacts DEF ZdLowerThrow, Lower,
      CutOff, NoneCurrent, PcInv, ThreadType, ListType, CountType, ClosePcs,
      WritePcs, BusyPcs, Holds
  <1>12. ASSUME NEW t \in Closers, InRecyConnectQueue(t)
         PROVE CutOff(d)' \/ psendMemPointer'[d] = NoBuf
    <2>1. conn[t] \in Conns /\ t \in Threads
      BY <1>12, ThreadFacts, HeldFacts DEF InRecyConnectQueue, Holds
    <2>2. /\ sendQueue' = sendQueue /\ buf' = buf /\ connected' = connected
          /\ iSendCount' = iSendCount /\ conn' = conn
      BY <1>12 DEF InRecyConnectQueue
    <2>3. CASE conn[t] = d /\ place[d] = "use"
      <3>1. place'[d] = "recycle" /\ sequence'[d] = sequence[d] + 1
        BY <1>12, <2>3, <1>c DEF InRecyConnectQueue, ListType
      <3>2. NoneCurrent(d)'
        <4>1. \A i \in DOMAIN sendQueue : buf[sendQueue[i]].conn = d =>
                 /\ buf[sendQueue[i]].sequence <= sequence[d]
                 /\ buf[sendQueue[i]].sequence \in Nat
          BY <1>e, QueuedFacts DEF AgeInv
        <4>2. sequence[d] \in Nat BY <1>c DEF ListType
        <4> QED BY <2>2, <3>1, <4>1, <4>2 DEF NoneCurrent
      <3> QED BY <2>2, <3>1, <3>2 DEF CutOff
    <2>4. CASE ~(conn[t] = d /\ place[d] = "use")
      <3>1. place'[d] = place[d] /\ sequence'[d] = sequence[d]
        BY <1>12, <2>1, <2>4, <1>c DEF InRecyConnectQueue, ListType
      <3>2. NoneCurrent(d)' <=> NoneCurrent(d) BY <2>2, <3>1 DEF NoneCurrent
      <3>3. CASE place[d] = "recycle" BY <2>2, <3>1, <3>2, <3>3 DEF CutOff
      <3>4. CASE place[d] # "recycle"
        <4>1. place[d] = "use" /\ mutex \in PoolThreads /\ pc[mutex] = "recycle" /\ conn[mutex] = d
          BY <3>4 DEF CutOff
        <4>2. t # mutex BY <2>4, <4>1
        <4>3. mutex' = mutex /\ pc'[mutex] = pc[mutex]
          BY <1>12, <4>1, <4>2, <1>b, ThreadFacts DEF InRecyConnectQueue, ThreadType
        <4> QED BY <2>2, <3>1, <4>1, <4>3 DEF CutOff
      <3> QED BY <3>3, <3>4
    <2> QED BY <2>3, <2>4
  <1>13. ASSUME KickClient PROVE CutOff(d)' \/ psendMemPointer'[d] = NoBuf
    BY <1>13, <1>a, <1>b, <1>c, <1>d, <1>e, ThreadFacts DEF KickClient, CutOff,
      NoneCurrent, PcInv, ThreadType, ListType, CountType, ClosePcs, WritePcs,
      BusyPcs, Holds
  <1>14. ASSUME SemWait PROVE CutOff(d)' \/ psendMemPointer'[d] = NoBuf
    BY <1>14, <1>a, <1>b, <1>c, <1>d, <1>e, ThreadFacts DEF SemWait, CutOff,
      NoneCurrent, PcInv, ThreadType, ListType, CountType, ClosePcs, WritePcs,
      BusyPcs, Holds
  <1>15. ASSUME QueueEmpty PROVE CutOff(d)' \/ psendMemPointer'[d] = NoBuf
    BY <1>15, <1>a, <1>b, <1>c, <1>d, <1>e, ThreadFacts DEF QueueEmpty, CutOff,
      NoneCurrent, PcInv, ThreadType, ListType, CountType, ClosePcs, WritePcs,
      BusyPcs, Holds
  <1>16. ASSUME LockQueue PROVE CutOff(d)' \/ psendMemPointer'[d] = NoBuf
    BY <1>16, <1>a, <1>b, <1>c, <1>d, <1>e, ThreadFacts DEF LockQueue, CutOff,
      NoneCurrent, PcInv, ThreadType, ListType, CountType, ClosePcs, WritePcs,
      BusyPcs, Holds
  <1>17. ASSUME ScanStale PROVE CutOff(d)' \/ psendMemPointer'[d] = NoBuf
    <2>1. mutex \notin PoolThreads BY <1>17, <1>a, ThreadFacts DEF ScanStale, PcInv
    <2>2. NoneCurrent(d) BY <2>1 DEF CutOff
    <2>3. /\ DOMAIN sendQueue = 1 .. Len(sendQueue) /\ pos \in 1 .. Len(sendQueue)
          /\ DOMAIN sendQueue' = 1 .. Len(sendQueue) - 1 /\ Len(sendQueue) \in Nat
          /\ \A i \in 1 .. pos - 1 : sendQueue'[i] = sendQueue[i]
          /\ \A i \in pos .. Len(sendQueue) - 1 : sendQueue'[i] = sendQueue[i + 1]
      BY <1>17, QueueErased DEF ScanStale
    <2>4. \A i \in DOMAIN sendQueue' : \E j \in DOMAIN sendQueue : sendQueue'[i] = sendQueue[j]
      <3> SUFFICES ASSUME NEW i \in DOMAIN sendQueue'
                   PROVE  \E j \in DOMAIN sendQueue : sendQueue'[i] = sendQueue[j]
        OBVIOUS
      <3>1. CASE i < pos BY <2>3, <3>1
      <3>2. CASE i >= pos
        <4>1. i + 1 \in DOMAIN sendQueue /\ sendQueue'[i] = sendQueue[i + 1] BY <2>3, <3>2
        <4> QED BY <4>1
      <3> QED BY <2>3, <3>1, <3>2
    <2>5. /\ buf' = buf /\ sequence' = sequence /\ place' = place /\ connected' = connected
      BY <1>17 DEF ScanStale
    <2>6. NoneCurrent(d)' BY <2>2, <2>4, <2>5 DEF NoneCurrent
    <2>7. iSendCount'[d] = iSendCount[d]
      BY <1>17 DEF ScanStale
    <2> QED BY <2>1, <2>5, <2>6, <2>7 DEF CutOff
  <1>18. ASSUME ScanSkip PROVE CutOff(d)' \/ psendMemPointer'[d] = NoBuf
    BY <1>18, <1>a, <1>b, <1>c, <1>d, <1>e, ThreadFacts DEF ScanSkip, Marked,
      Scanned, Stale, CutOff, NoneCurrent, PcInv, ThreadType, ListType, CountType,
      ClosePcs, WritePcs, BusyPcs, Holds
  <1>19. ASSUME ScanTake PROVE CutOff(d)' \/ psendMemPointer'[d] = NoBuf
    <2>1. mutex \notin PoolThreads BY <1>19, <1>a, ThreadFacts DEF ScanTake, PcInv
    <2>2. NoneCurrent(d) BY <2>1 DEF CutOff
    <2>3. /\ DOMAIN sendQueue = 1 .. Len(sendQueue) /\ pos \in 1 .. Len(sendQueue)
          /\ DOMAIN sendQueue' = 1 .. Len(sendQueue) - 1 /\ Len(sendQueue) \in Nat
          /\ \A i \in 1 .. pos - 1 : sendQueue'[i] = sendQueue[i]
          /\ \A i \in pos .. Len(sendQueue) - 1 : sendQueue'[i] = sendQueue[i + 1]
      BY <1>19, QueueErased DEF ScanTake
    <2>4. \A i \in DOMAIN sendQueue' : \E j \in DOMAIN sendQueue : sendQueue'[i] = sendQueue[j]
      <3> SUFFICES ASSUME NEW i \in DOMAIN sendQueue'
                   PROVE  \E j \in DOMAIN sendQueue : sendQueue'[i] = sendQueue[j]
        OBVIOUS
      <3>1. CASE i < pos BY <2>3, <3>1
      <3>2. CASE i >= pos
        <4>1. i + 1 \in DOMAIN sendQueue /\ sendQueue'[i] = sendQueue[i + 1] BY <2>3, <3>2
        <4> QED BY <4>1
      <3> QED BY <2>3, <3>1, <3>2
    <2>5. /\ buf' = buf /\ sequence' = sequence /\ place' = place /\ connected' = connected
      BY <1>19 DEF ScanTake
    <2>6. NoneCurrent(d)' BY <2>2, <2>4, <2>5 DEF NoneCurrent
    <2>7. iSendCount'[d] = iSendCount[d]
      <3>1. Scanned.conn # d
        BY <1>19, <2>2, ScanFacts DEF NoneCurrent, ScanTake, Stale, Scanned
      <3> QED BY <1>19, <3>1, <1>d DEF ScanTake, CountType
    <2> QED BY <2>1, <2>5, <2>6, <2>7 DEF CutOff
  <1>20. ASSUME ScanEnd PROVE CutOff(d)' \/ psendMemPointer'[d] = NoBuf
    BY <1>20, <1>a, <1>b, <1>c, <1>d, <1>e, ThreadFacts DEF ScanEnd, CutOff,
      NoneCurrent, PcInv, ThreadType, ListType, CountType, ClosePcs, WritePcs,
      BusyPcs, Holds
  <1>21. ASSUME SendAll PROVE CutOff(d)' \/ psendMemPointer'[d] = NoBuf
    BY <1>21, <1>a, <1>b, <1>c, <1>d, <1>e, ThreadFacts DEF SendAll, Put,
      SendResults, CutOff, NoneCurrent, PcInv, ThreadType, ListType, CountType,
      ClosePcs, WritePcs, BusyPcs, Holds
  <1>22. ASSUME SendPart PROVE CutOff(d)' \/ psendMemPointer'[d] = NoBuf
    BY <1>22, <1>a, <1>b, <1>c, <1>d, <1>e, ThreadFacts DEF SendPart, Put,
      SendResults, CutOff, NoneCurrent, PcInv, ThreadType, ListType, CountType,
      ClosePcs, WritePcs, BusyPcs, Holds
  <1>23. ASSUME SendFails PROVE CutOff(d)' \/ psendMemPointer'[d] = NoBuf
    BY <1>23, <1>a, <1>b, <1>c, <1>d, <1>e, ThreadFacts DEF SendFails, SendResults,
      CutOff, NoneCurrent, PcInv, ThreadType, ListType, CountType, ClosePcs,
      WritePcs, BusyPcs, Holds
  <1>24. ASSUME SendDone PROVE CutOff(d)' \/ psendMemPointer'[d] = NoBuf
    BY <1>24, <1>a, <1>b, <1>c, <1>d, <1>e, ThreadFacts DEF SendDone, CutOff,
      NoneCurrent, PcInv, ThreadType, ListType, CountType, ClosePcs, WritePcs,
      BusyPcs, Holds
  <1>25. ASSUME SendMark PROVE CutOff(d)' \/ psendMemPointer'[d] = NoBuf
    BY <1>25, <1>a, <1>b, <1>c, <1>d, <1>e, ThreadFacts DEF SendMark, CutOff,
      NoneCurrent, PcInv, ThreadType, ListType, CountType, ClosePcs, WritePcs,
      BusyPcs, Holds
  <1>26. ASSUME SendArm PROVE CutOff(d)' \/ psendMemPointer'[d] = NoBuf
    BY <1>26, <1>a, <1>b, <1>c, <1>d, <1>e, ThreadFacts DEF SendArm, CutOff,
      NoneCurrent, PcInv, ThreadType, ListType, CountType, ClosePcs, WritePcs,
      BusyPcs, Holds
  <1>27. ASSUME NEW c \in Conns, Event(c) PROVE CutOff(d)' \/ psendMemPointer'[d] = NoBuf
    BY <1>27, <1>a, <1>b, <1>c, <1>d, <1>e, ThreadFacts DEF Event, OutHalf, CutOff,
      NoneCurrent, PcInv, ThreadType, ListType, CountType, ClosePcs, WritePcs,
      BusyPcs, Holds
  <1>28. ASSUME ReadOn PROVE CutOff(d)' \/ psendMemPointer'[d] = NoBuf
    BY <1>28, <1>a, <1>b, <1>c, <1>d, <1>e, ThreadFacts DEF ReadOn, CutOff,
      NoneCurrent, PcInv, ThreadType, ListType, CountType, ClosePcs, WritePcs,
      BusyPcs, Holds
  <1>29. ASSUME ReadCloses PROVE CutOff(d)' \/ psendMemPointer'[d] = NoBuf
    BY <1>29, <1>a, <1>b, <1>c, <1>d, <1>e, ThreadFacts DEF ReadCloses, CutOff,
      NoneCurrent, PcInv, ThreadType, ListType, CountType, ClosePcs, WritePcs,
      BusyPcs, Holds
  <1>30. ASSUME OutHup PROVE CutOff(d)' \/ psendMemPointer'[d] = NoBuf
    BY <1>30, <1>a, <1>b, <1>c, <1>d, <1>e, ThreadFacts DEF OutHup, Lower, CutOff,
      NoneCurrent, PcInv, ThreadType, ListType, CountType, ClosePcs, WritePcs,
      BusyPcs, Holds
  <1>31. ASSUME WriteAll PROVE CutOff(d)' \/ psendMemPointer'[d] = NoBuf
    BY <1>31, <1>a, <1>b, <1>c, <1>d, <1>e, ThreadFacts DEF WriteAll, Put,
      SendResults, CutOff, NoneCurrent, PcInv, ThreadType, ListType, CountType,
      ClosePcs, WritePcs, BusyPcs, Holds
  <1>32. ASSUME WritePart PROVE CutOff(d)' \/ psendMemPointer'[d] = NoBuf
    BY <1>32, <1>a, <1>b, <1>c, <1>d, <1>e, ThreadFacts DEF WritePart, Put,
      SendResults, CutOff, NoneCurrent, PcInv, ThreadType, ListType, CountType,
      ClosePcs, WritePcs, BusyPcs, Holds
  <1>33. ASSUME WriteFails PROVE CutOff(d)' \/ psendMemPointer'[d] = NoBuf
    BY <1>33, <1>a, <1>b, <1>c, <1>d, <1>e, ThreadFacts DEF WriteFails, SendResults,
      CutOff, NoneCurrent, PcInv, ThreadType, ListType, CountType, ClosePcs,
      WritePcs, BusyPcs, Holds
  <1>34. ASSUME WriteDisarm PROVE CutOff(d)' \/ psendMemPointer'[d] = NoBuf
    BY <1>34, <1>a, <1>b, <1>c, <1>d, <1>e, ThreadFacts DEF WriteDisarm, CutOff,
      NoneCurrent, PcInv, ThreadType, ListType, CountType, ClosePcs, WritePcs,
      BusyPcs, Holds
  <1>35. ASSUME WritePost PROVE CutOff(d)' \/ psendMemPointer'[d] = NoBuf
    BY <1>35, <1>a, <1>b, <1>c, <1>d, <1>e, ThreadFacts DEF WritePost, CutOff,
      NoneCurrent, PcInv, ThreadType, ListType, CountType, ClosePcs, WritePcs,
      BusyPcs, Holds
  <1>36. ASSUME WriteFree PROVE CutOff(d)' \/ psendMemPointer'[d] = NoBuf
    BY <1>36, <1>a, <1>b, <1>c, <1>d, <1>e, ThreadFacts DEF WriteFree, CutOff,
      NoneCurrent, PcInv, ThreadType, ListType, CountType, ClosePcs, WritePcs,
      BusyPcs, Holds
  <1>37. ASSUME WriteUnmark PROVE CutOff(d)' \/ psendMemPointer'[d] = NoBuf
    BY <1>37, <1>a, <1>b, <1>c, <1>d, <1>e, ThreadFacts DEF WriteUnmark, Lower,
      CutOff, NoneCurrent, PcInv, ThreadType, ListType, CountType, ClosePcs,
      WritePcs, BusyPcs, Holds
  <1>38. CASE UNCHANGED vars
    BY <1>38, <1>a, <1>b, <1>c, <1>d, <1>e, ThreadFacts DEF vars, CutOff,
      NoneCurrent, PcInv, ThreadType, ListType, CountType, ClosePcs, WritePcs,
      BusyPcs, Holds
  <1> QED BY <1>1, <1>2, <1>3, <1>4, <1>5, <1>6, <1>7, <1>8, <1>9, <1>10, <1>11,
       <1>12, <1>13, <1>14, <1>15, <1>16, <1>17, <1>18, <1>19, <1>20, <1>21, <1>22,
       <1>23, <1>24, <1>25, <1>26, <1>27, <1>28, <1>29, <1>30, <1>31, <1>32, <1>33,
       <1>34, <1>35, <1>36, <1>37, <1>38 DEF Next, PoolStep, CloseStep, SendStep,
       WriteStep, Stopped

(* Nothing of the object begins anew.                                      *)
NotOpened(d) ==
    /\ d \in unmarked => d \in unmarked'
    /\ connected'[d] => connected[d]
    /\ peer'[d] = "there" => peer[d] = "there"

(* Only an accept opens a connection or brings its client back.            *)
LEMMA Unopened ==
  ASSUME IInv, [Next]_vars, NEW d \in Conns, ~AcceptConn(d)
  PROVE  NotOpened(d)
  <1> USE DEF queueVars, objectVars, threadVars, socketVars, boundVars, Goto
  <1>a. ListType BY TypeParts DEF IInv
  <1>b. SocketType BY TypeParts DEF IInv
  <1>1. ASSUME NEW c \in Conns, AcceptConn(c) PROVE NotOpened(d)
    BY <1>1, <1>a, <1>b, ThreadFacts DEF AcceptConn, ListType, SocketType, NotOpened
  <1>2. ASSUME NEW c \in Conns, FreeConnection(c) PROVE NotOpened(d)
    BY <1>2, <1>a, <1>b, ThreadFacts DEF FreeConnection, Held, ListType, SocketType,
      NotOpened
  <1>3. ASSUME NEW c \in Conns, ClientReads(c) PROVE NotOpened(d)
    BY <1>3, <1>a, <1>b, ThreadFacts DEF ClientReads, ListType, SocketType,
      NotOpened
  <1>4. ASSUME NEW c \in Conns, ClientLeaves(c) PROVE NotOpened(d)
    BY <1>4, <1>a, <1>b, ThreadFacts DEF ClientLeaves, ListType, SocketType,
      NotOpened
  <1>5. ASSUME NEW t \in PoolThreads, Request(t) PROVE NotOpened(d)
    BY <1>5, <1>a, <1>b, ThreadFacts DEF Request, ListType, SocketType, NotOpened
  <1>6. ASSUME NEW t \in PoolThreads, MsgDiscard(t) PROVE NotOpened(d)
    BY <1>6, <1>a, <1>b, ThreadFacts DEF MsgDiscard, TooManyQueued, ListType,
      SocketType, NotOpened
  <1>7. ASSUME NEW t \in PoolThreads, MsgSend(t) PROVE NotOpened(d)
    BY <1>7, <1>a, <1>b, ThreadFacts DEF MsgSend, TooManyQueued, TooSlow, ListType,
      SocketType, NotOpened
  <1>8. ASSUME NEW t \in PoolThreads, MsgCutOff(t) PROVE NotOpened(d)
    BY <1>8, <1>a, <1>b, ThreadFacts DEF MsgCutOff, TooManyQueued, TooSlow,
      ListType, SocketType, NotOpened
  <1>9. ASSUME NEW t \in Closers, ZdClose(t) PROVE NotOpened(d)
    BY <1>9, <1>a, <1>b, ThreadFacts DEF ZdClose, ListType, SocketType, NotOpened
  <1>10. ASSUME NEW t \in Closers, ZdTestThrow(t) PROVE NotOpened(d)
    BY <1>10, <1>a, <1>b, ThreadFacts DEF ZdTestThrow, ListType, SocketType,
      NotOpened
  <1>11. ASSUME NEW t \in Closers, ZdLowerThrow(t) PROVE NotOpened(d)
    BY <1>11, <1>a, <1>b, ThreadFacts DEF ZdLowerThrow, Lower, ListType, SocketType,
      NotOpened
  <1>12. ASSUME NEW t \in Closers, InRecyConnectQueue(t) PROVE NotOpened(d)
    BY <1>12, <1>a, <1>b, ThreadFacts DEF InRecyConnectQueue, ListType, SocketType,
      NotOpened
  <1>13. ASSUME KickClient PROVE NotOpened(d)
    BY <1>13, <1>a, <1>b, ThreadFacts DEF KickClient, ListType, SocketType,
      NotOpened
  <1>14. ASSUME SemWait PROVE NotOpened(d)
    BY <1>14, <1>a, <1>b, ThreadFacts DEF SemWait, ListType, SocketType, NotOpened
  <1>15. ASSUME QueueEmpty PROVE NotOpened(d)
    BY <1>15, <1>a, <1>b, ThreadFacts DEF QueueEmpty, ListType, SocketType,
      NotOpened
  <1>16. ASSUME LockQueue PROVE NotOpened(d)
    BY <1>16, <1>a, <1>b, ThreadFacts DEF LockQueue, ListType, SocketType, NotOpened
  <1>17. ASSUME ScanStale PROVE NotOpened(d)
    BY <1>17, <1>a, <1>b, ThreadFacts DEF ScanStale, Erase, Scanned, Stale,
      ListType, SocketType, NotOpened
  <1>18. ASSUME ScanSkip PROVE NotOpened(d)
    BY <1>18, <1>a, <1>b, ThreadFacts DEF ScanSkip, Marked, Scanned, Stale,
      ListType, SocketType, NotOpened
  <1>19. ASSUME ScanTake PROVE NotOpened(d)
    BY <1>19, <1>a, <1>b, ThreadFacts DEF ScanTake, Marked, Erase, Scanned, Stale,
      ListType, SocketType, NotOpened
  <1>20. ASSUME ScanEnd PROVE NotOpened(d)
    BY <1>20, <1>a, <1>b, ThreadFacts DEF ScanEnd, ListType, SocketType, NotOpened
  <1>21. ASSUME SendAll PROVE NotOpened(d)
    BY <1>21, <1>a, <1>b, ThreadFacts DEF SendAll, Put, SendResults, ListType,
      SocketType, NotOpened
  <1>22. ASSUME SendPart PROVE NotOpened(d)
    BY <1>22, <1>a, <1>b, ThreadFacts DEF SendPart, Put, SendResults, ListType,
      SocketType, NotOpened
  <1>23. ASSUME SendFails PROVE NotOpened(d)
    BY <1>23, <1>a, <1>b, ThreadFacts DEF SendFails, SendResults, ListType,
      SocketType, NotOpened
  <1>24. ASSUME SendDone PROVE NotOpened(d)
    BY <1>24, <1>a, <1>b, ThreadFacts DEF SendDone, ListType, SocketType, NotOpened
  <1>25. ASSUME SendMark PROVE NotOpened(d)
    BY <1>25, <1>a, <1>b, ThreadFacts DEF SendMark, ListType, SocketType, NotOpened
  <1>26. ASSUME SendArm PROVE NotOpened(d)
    BY <1>26, <1>a, <1>b, ThreadFacts DEF SendArm, ListType, SocketType, NotOpened
  <1>27. ASSUME NEW c \in Conns, Event(c) PROVE NotOpened(d)
    BY <1>27, <1>a, <1>b, ThreadFacts DEF Event, OutHalf, ListType, SocketType,
      NotOpened
  <1>28. ASSUME ReadOn PROVE NotOpened(d)
    BY <1>28, <1>a, <1>b, ThreadFacts DEF ReadOn, ListType, SocketType, NotOpened
  <1>29. ASSUME ReadCloses PROVE NotOpened(d)
    BY <1>29, <1>a, <1>b, ThreadFacts DEF ReadCloses, ListType, SocketType,
      NotOpened
  <1>30. ASSUME OutHup PROVE NotOpened(d)
    BY <1>30, <1>a, <1>b, ThreadFacts DEF OutHup, Lower, ListType, SocketType,
      NotOpened
  <1>31. ASSUME WriteAll PROVE NotOpened(d)
    BY <1>31, <1>a, <1>b, ThreadFacts DEF WriteAll, Put, SendResults, ListType,
      SocketType, NotOpened
  <1>32. ASSUME WritePart PROVE NotOpened(d)
    BY <1>32, <1>a, <1>b, ThreadFacts DEF WritePart, Put, SendResults, ListType,
      SocketType, NotOpened
  <1>33. ASSUME WriteFails PROVE NotOpened(d)
    BY <1>33, <1>a, <1>b, ThreadFacts DEF WriteFails, SendResults, ListType,
      SocketType, NotOpened
  <1>34. ASSUME WriteDisarm PROVE NotOpened(d)
    BY <1>34, <1>a, <1>b, ThreadFacts DEF WriteDisarm, ListType, SocketType,
      NotOpened
  <1>35. ASSUME WritePost PROVE NotOpened(d)
    BY <1>35, <1>a, <1>b, ThreadFacts DEF WritePost, ListType, SocketType, NotOpened
  <1>36. ASSUME WriteFree PROVE NotOpened(d)
    BY <1>36, <1>a, <1>b, ThreadFacts DEF WriteFree, ListType, SocketType, NotOpened
  <1>37. ASSUME WriteUnmark PROVE NotOpened(d)
    BY <1>37, <1>a, <1>b, ThreadFacts DEF WriteUnmark, Lower, ListType, SocketType,
      NotOpened
  <1>38. CASE UNCHANGED vars
    BY <1>38, <1>a, <1>b, ThreadFacts DEF vars, ListType, SocketType, NotOpened
  <1> QED BY <1>1, <1>2, <1>3, <1>4, <1>5, <1>6, <1>7, <1>8, <1>9, <1>10, <1>11,
       <1>12, <1>13, <1>14, <1>15, <1>16, <1>17, <1>18, <1>19, <1>20, <1>21, <1>22,
       <1>23, <1>24, <1>25, <1>26, <1>27, <1>28, <1>29, <1>30, <1>31, <1>32, <1>33,
       <1>34, <1>35, <1>36, <1>37, <1>38 DEF Next, PoolStep, CloseStep, SendStep,
       WriteStep, Stopped

(* A new connection starts with nothing in hand.                           *)
LEMMA AcceptLock ==
  ASSUME IInv, NEW d \in Conns, AcceptConn(d)
  PROVE  LockInvOf(d)'
  <1>1. PcInv /\ HeldInv BY DEF IInv, HoldInv
  <1>2. ListType /\ CountType BY TypeParts DEF IInv
  <1>3. /\ psendMemPointer'[d] = NoBuf /\ iThrowsendCount'[d] = 0 /\ ~epollOut'[d]
        /\ pc' = pc /\ conn' = conn
    BY <1>2 DEF AcceptConn, ListType, CountType, threadVars
  <1>4. /\ ~(conn[Main] = d /\ Holds(Main)) /\ ~(conn[Send] = d /\ Holds(Send))
    BY <1>1, ThreadFacts DEF HeldInv, AcceptConn
  <1> QED BY <1>3, <1>4
      DEF LockInvOf, Pending, SenderBusy, Writing, MainAt, SendAt, Holds, WritePcs, ClosePcs

(* What the counter says of one object.                                    *)
LEMMA LockStepOf ==
  ASSUME IInv, [Next]_vars, NEW d \in Conns, ~Lowered(d), ~Lowered(d)'
  PROVE  LockInvOf(d)'
  <1> USE DEF queueVars, objectVars, threadVars, socketVars, boundVars, Goto
  <1>a. PcInv BY DEF IInv
  <1>b. ThreadType BY TypeParts DEF IInv
  <1>c. ListType BY TypeParts DEF IInv
  <1>d. CountType BY TypeParts DEF IInv
  <1>e. SocketType BY TypeParts DEF IInv
  <1>f. HeldInv BY DEF IInv, HoldInv
  <1>g. HangInv BY DEF IInv, HoldInv
  <1>h. LockInvOf(d) BY DEF IInv, LockInv
  <1>k. CutOff(d) => CutOff(d)' \/ psendMemPointer'[d] = NoBuf BY CutKept
  <1>1. ASSUME NEW c \in Conns, AcceptConn(c) PROVE LockInvOf(d)'
    <2>1. CASE c = d BY <1>1, <2>1, AcceptLock
    <2>2. CASE c # d
      <3>1. /\ connected'[d] = connected[d] /\ epollOut'[d] = epollOut[d] /\ peer'[d] = peer[d]
            /\ iThrowsendCount'[d] = iThrowsendCount[d]
            /\ psendMemPointer'[d] = psendMemPointer[d]
            /\ pc' = pc /\ conn' = conn /\ after' = after
        BY <1>1, <2>2, <1>c, <1>d, <1>e DEF AcceptConn, ListType, CountType, SocketType
      <3> QED BY <3>1, <1>h, <1>k
          DEF LockInvOf, Pending, SenderBusy, Writing, MainAt, SendAt, Open
    <2> QED BY <2>1, <2>2
  <1>2. ASSUME NEW c \in Conns, FreeConnection(c) PROVE LockInvOf(d)'
    <2>1. CASE c = d
      <3>1. /\ psendMemPointer'[d] = NoBuf /\ ~connected'[d] /\ pc' = pc /\ conn' = conn
        BY <1>2, <2>1, <1>c, <1>d, <1>f DEF FreeConnection, ListType, CountType, HeldInv
      <3>2. /\ ~(conn[Main] = d /\ pc[Main] # "idle")
            /\ ~(conn[Send] = d /\ pc[Send] \in BusyPcs)
        BY <1>2, <2>1, <1>a, ThreadFacts DEF FreeConnection, Held, BusyPcs, PcInv,
           ClosePcs, WritePcs
      <3> QED BY <3>1, <3>2
          DEF LockInvOf, Pending, SenderBusy, Writing, MainAt, SendAt, Open, BusyPcs,
              ClosePcs, WritePcs
    <2>2. CASE c # d
      <3>1. /\ connected'[d] = connected[d] /\ epollOut'[d] = epollOut[d] /\ peer'[d] = peer[d]
            /\ iThrowsendCount'[d] = iThrowsendCount[d]
            /\ psendMemPointer'[d] = psendMemPointer[d]
            /\ pc' = pc /\ conn' = conn /\ after' = after
        BY <1>2, <2>2, <1>c, <1>d, <1>e DEF FreeConnection, ListType, CountType, SocketType
      <3> QED BY <3>1, <1>h, <1>k
          DEF LockInvOf, Pending, SenderBusy, Writing, MainAt, SendAt, Open
    <2> QED BY <2>1, <2>2
  <1>3. ASSUME NEW c \in Conns, ClientReads(c) PROVE LockInvOf(d)'
    BY <1>3, <1>a, <1>b, <1>c, <1>d, <1>e, <1>f, <1>g, <1>h, <1>k, ThreadFacts DEF
       ClientReads,
      LockInvOf, Pending, SenderBusy, Writing, MainAt, SendAt, Open, PcInv,
      ThreadType, ListType, CountType, SocketType, HeldInv, ClosePcs, WritePcs,
      BusyPcs, Holds
  <1>4. ASSUME NEW c \in Conns, ClientLeaves(c) PROVE LockInvOf(d)'
    BY <1>4, <1>a, <1>b, <1>c, <1>d, <1>e, <1>f, <1>g, <1>h, <1>k, ThreadFacts DEF
       ClientLeaves,
      LockInvOf, Pending, SenderBusy, Writing, MainAt, SendAt, Open, PcInv,
      ThreadType, ListType, CountType, SocketType, HeldInv, ClosePcs, WritePcs,
      BusyPcs, Holds
  <1>5. ASSUME NEW t \in PoolThreads, Request(t) PROVE LockInvOf(d)'
    BY <1>5, <1>a, <1>b, <1>c, <1>d, <1>e, <1>f, <1>g, <1>h, <1>k, ThreadFacts DEF Request,
      LockInvOf, Pending, SenderBusy, Writing, MainAt, SendAt, Open, PcInv,
      ThreadType, ListType, CountType, SocketType, HeldInv, ClosePcs, WritePcs,
      BusyPcs, Holds
  <1>6. ASSUME NEW t \in PoolThreads, MsgDiscard(t) PROVE LockInvOf(d)'
    BY <1>6, <1>a, <1>b, <1>c, <1>d, <1>e, <1>f, <1>g, <1>h, <1>k, ThreadFacts DEF
       MsgDiscard,
      TooManyQueued, LockInvOf, Pending, SenderBusy, Writing, MainAt, SendAt, Open,
      PcInv, ThreadType, ListType, CountType, SocketType, HeldInv, ClosePcs,
      WritePcs, BusyPcs, Holds
  <1>7. ASSUME NEW t \in PoolThreads, MsgSend(t) PROVE LockInvOf(d)'
    BY <1>7, <1>a, <1>b, <1>c, <1>d, <1>e, <1>f, <1>g, <1>h, <1>k, ThreadFacts DEF MsgSend,
      TooManyQueued, TooSlow, LockInvOf, Pending, SenderBusy, Writing, MainAt,
      SendAt, Open, PcInv, ThreadType, ListType, CountType, SocketType, HeldInv,
      ClosePcs, WritePcs, BusyPcs, Holds
  <1>8. ASSUME NEW t \in PoolThreads, MsgCutOff(t) PROVE LockInvOf(d)'
    BY <1>8, <1>a, <1>b, <1>c, <1>d, <1>e, <1>f, <1>g, <1>h, <1>k, ThreadFacts DEF
       MsgCutOff,
      TooManyQueued, TooSlow, LockInvOf, Pending, SenderBusy, Writing, MainAt,
      SendAt, Open, PcInv, ThreadType, ListType, CountType, SocketType, HeldInv,
      ClosePcs, WritePcs, BusyPcs, Holds
  <1>9. ASSUME NEW t \in Closers, ZdClose(t) PROVE LockInvOf(d)'
    BY <1>9, <1>a, <1>b, <1>c, <1>d, <1>e, <1>f, <1>g, <1>h, <1>k, ThreadFacts DEF ZdClose,
      LockInvOf, Pending, SenderBusy, Writing, MainAt, SendAt, Open, PcInv,
      ThreadType, ListType, CountType, SocketType, HeldInv, ClosePcs, WritePcs,
      BusyPcs, Holds
  <1>10. ASSUME NEW t \in Closers, ZdTestThrow(t) PROVE LockInvOf(d)'
    BY <1>10, <1>a, <1>b, <1>c, <1>d, <1>e, <1>f, <1>g, <1>h, <1>k, ThreadFacts DEF
       ZdTestThrow,
      LockInvOf, Pending, SenderBusy, Writing, MainAt, SendAt, Open, PcInv,
      ThreadType, ListType, CountType, SocketType, HeldInv, ClosePcs, WritePcs,
      BusyPcs, Holds
  <1>11. ASSUME NEW t \in Closers, ZdLowerThrow(t) PROVE LockInvOf(d)'
    <2>1. /\ connected' = connected /\ epollOut' = epollOut /\ peer' = peer /\ conn' = conn
          /\ psendMemPointer' = psendMemPointer /\ after' = after /\ place' = place
          /\ iSendCount' = iSendCount /\ mutex' = mutex
      BY <1>11 DEF ZdLowerThrow
    <2>2. /\ pc'[t] = "recycle" /\ pc[t] = "lower" /\ \A u \in Threads : u # t => pc'[u] = pc[u]
          /\ t \in Threads /\ t # Send /\ pc'[Send] = pc[Send]
          /\ conn[t] \in Conns /\ ~connected[conn[t]]
      BY <1>11, <1>b, <1>f, ThreadFacts DEF ZdLowerThrow, ThreadType, HeldInv, Holds
    <2>3. Writing(d)' <=> Writing(d)
      BY <2>1, <2>2, ThreadFacts DEF Writing, WritePcs, ClosePcs
    <2>4. MainAt(d, {"unmark"})' <=> MainAt(d, {"unmark"})
      BY <2>1, <2>2, ThreadFacts DEF MainAt
    <2>5. ~MainAt(d, {"post", "free", "unmark"}) => ~MainAt(d, {"post", "free", "unmark"})'
      BY <2>1, <2>2, ThreadFacts DEF MainAt
    <2>6. CASE conn[t] # d
      <3>1. iThrowsendCount'[d] = iThrowsendCount[d]
        BY <1>11, <2>6, <2>2, <1>d DEF ZdLowerThrow, Lower, CountType
      <3> QED BY <2>1, <2>2, <2>3, <2>4, <2>5, <3>1, <1>h, <1>k
          DEF LockInvOf, Pending, SenderBusy, SendAt, Open
    <2>7. CASE conn[t] = d
      <3>1. ~Open(d)' /\ ~connected[d] BY <2>1, <2>2, <2>7 DEF Open
      <3>2. d \notin unmarked' BY <3>1 DEF Lowered, Open
      <3>3. psendMemPointer[d] = NoBuf \/ (mutex = t /\ place[d] = "use")
        BY <1>11, <2>7, <3>2 DEF ZdLowerThrow
      <3>4. CASE psendMemPointer[d] = NoBuf
        <4>1. ~SenderBusy(d) /\ ~Pending(d) /\ ~Writing(d)
          BY <3>4, <1>h DEF LockInvOf, Pending
        <4> QED BY <2>1, <2>2, <2>3, <3>1, <3>4, <4>1
            DEF LockInvOf, Pending, SenderBusy, SendAt, Open
      <3>5. CASE mutex = t /\ place[d] = "use"
        <4>1. t \in PoolThreads /\ pc[Send] \notin BusyPcs
          BY <3>5, <2>2, <1>a, ThreadFacts DEF PcInv, BusyPcs
        <4>2. iSendCount[d] > SendLimit BY <3>5, <4>1, <2>7 DEF IInv, HoldInv, LimitInv
        <4>3. CutOff(d)' BY <2>1, <2>2, <2>7, <3>1, <3>5, <4>1, <4>2 DEF CutOff
        <4> QED BY <2>1, <2>2, <2>3, <2>4, <3>1, <4>1, <4>3, <1>h
            DEF LockInvOf, Pending, SenderBusy, SendAt, Open, BusyPcs
      <3> QED BY <3>3, <3>4, <3>5
    <2> QED BY <2>6, <2>7
  <1>12. ASSUME NEW t \in Closers, InRecyConnectQueue(t) PROVE LockInvOf(d)'
    BY <1>12, <1>a, <1>b, <1>c, <1>d, <1>e, <1>f, <1>g, <1>h, <1>k, ThreadFacts DEF
      InRecyConnectQueue, LockInvOf, Pending, SenderBusy, Writing, MainAt, SendAt,
      Open, PcInv, ThreadType, ListType, CountType, SocketType, HeldInv, ClosePcs,
      WritePcs, BusyPcs, Holds
  <1>13. ASSUME KickClient PROVE LockInvOf(d)'
    BY <1>13, <1>a, <1>b, <1>c, <1>d, <1>e, <1>f, <1>g, <1>h, <1>k, ThreadFacts DEF
       KickClient,
      LockInvOf, Pending, SenderBusy, Writing, MainAt, SendAt, Open, PcInv,
      ThreadType, ListType, CountType, SocketType, HeldInv, ClosePcs, WritePcs,
      BusyPcs, Holds
  <1>14. ASSUME SemWait PROVE LockInvOf(d)'
    BY <1>14, <1>a, <1>b, <1>c, <1>d, <1>e, <1>f, <1>g, <1>h, <1>k, ThreadFacts DEF SemWait,
      LockInvOf, Pending, SenderBusy, Writing, MainAt, SendAt, Open, PcInv,
      ThreadType, ListType, CountType, SocketType, HeldInv, ClosePcs, WritePcs,
      BusyPcs, Holds
  <1>15. ASSUME QueueEmpty PROVE LockInvOf(d)'
    BY <1>15, <1>a, <1>b, <1>c, <1>d, <1>e, <1>f, <1>g, <1>h, <1>k, ThreadFacts DEF
       QueueEmpty,
      LockInvOf, Pending, SenderBusy, Writing, MainAt, SendAt, Open, PcInv,
      ThreadType, ListType, CountType, SocketType, HeldInv, ClosePcs, WritePcs,
      BusyPcs, Holds
  <1>16. ASSUME LockQueue PROVE LockInvOf(d)'
    BY <1>16, <1>a, <1>b, <1>c, <1>d, <1>e, <1>f, <1>g, <1>h, <1>k, ThreadFacts DEF
       LockQueue,
      LockInvOf, Pending, SenderBusy, Writing, MainAt, SendAt, Open, PcInv,
      ThreadType, ListType, CountType, SocketType, HeldInv, ClosePcs, WritePcs,
      BusyPcs, Holds
  <1>17. ASSUME ScanStale PROVE LockInvOf(d)'
    BY <1>17, <1>a, <1>b, <1>c, <1>d, <1>e, <1>f, <1>g, <1>h, <1>k, ThreadFacts DEF
       ScanStale,
      Erase, Scanned, Stale, LockInvOf, Pending, SenderBusy, Writing, MainAt,
      SendAt, Open, PcInv, ThreadType, ListType, CountType, SocketType, HeldInv,
      ClosePcs, WritePcs, BusyPcs, Holds
  <1>18. ASSUME ScanSkip PROVE LockInvOf(d)'
    BY <1>18, <1>a, <1>b, <1>c, <1>d, <1>e, <1>f, <1>g, <1>h, <1>k, ThreadFacts DEF
       ScanSkip,
      Marked, Scanned, Stale, LockInvOf, Pending, SenderBusy, Writing, MainAt,
      SendAt, Open, PcInv, ThreadType, ListType, CountType, SocketType, HeldInv,
      ClosePcs, WritePcs, BusyPcs, Holds
  <1>19. ASSUME ScanTake PROVE LockInvOf(d)'
    <2> DEFINE c == Scanned.conn
    <2>1. /\ c \in Conns /\ sendQueue[pos] \in Buffers /\ ~Marked(c) /\ pc[Send] = "scan"
          /\ pos <= Len(sendQueue) /\ ~Stale /\ conn' = [conn EXCEPT ![Send] = c]
          /\ pc' = [pc EXCEPT ![Send] = "send"]
          /\ psendMemPointer' = [psendMemPointer EXCEPT ![c] = sendQueue[pos]]
      BY <1>19, ScanFacts DEF ScanTake
    <2>2. /\ connected' = connected /\ epollOut' = epollOut /\ peer' = peer
          /\ iThrowsendCount' = iThrowsendCount /\ after' = after
      BY <1>19 DEF ScanTake
    <2>3. /\ conn'[Send] = c /\ pc'[Send] = "send"
          /\ conn'[Main] = conn[Main] /\ pc'[Main] = pc[Main]
      BY <2>1, <1>b, ThreadFacts DEF ThreadType
    <2>4. ~SenderBusy(d) BY <2>1 DEF SenderBusy
    <2>5. /\ Writing(d)' <=> Writing(d)
          /\ MainAt(d, {"unmark"})' <=> MainAt(d, {"unmark"})
          /\ MainAt(d, {"post", "free", "unmark"})' <=> MainAt(d, {"post", "free", "unmark"})
      BY <2>2, <2>3 DEF Writing, MainAt
    <2>6. CASE c # d
      <3>1. psendMemPointer'[d] = psendMemPointer[d] BY <2>1, <2>6, <1>d DEF CountType
      <3> QED BY <2>1, <2>2, <2>3, <2>4, <2>5, <2>6, <3>1, <1>h, <1>k
          DEF LockInvOf, Pending, SenderBusy, SendAt, Open
    <2>7. CASE c = d
      <3>1. psendMemPointer[d] = NoBuf BY <2>1, <2>7, TakeFree
      <3>2. ~Writing(d) /\ ~(Open(d) /\ epollOut[d]) BY <3>1, <1>h DEF LockInvOf, Pending
      <3>3. ~(iThrowsendCount[d] >= 1) BY <2>1, <2>7, <1>d DEF Marked, CountType
      <3>4. MainAt(d, {"unmark"}) => ~connected[d] BY <3>3, <1>h DEF LockInvOf
      <3>5. SenderBusy(d)' /\ SendAt(d, {"send", "failed"})' /\ ~SendAt(d, {"mark"})'
            /\ ~SendAt(d, {"arm"})' /\ ~SendAt(d, {"failed"})'
        BY <2>3, <2>7 DEF SenderBusy, SendAt
      <3>6. psendMemPointer'[d] # NoBuf
        BY <2>1, <2>7, <1>d, SendAssumption DEF CountType, Buffers, NoBuf
      <3>7. connected[d] => iThrowsendCount[d] >= 0 BY <1>h DEF LockInvOf
      <3> QED BY <2>2, <2>5, <3>2, <3>4, <3>5, <3>6, <3>7 DEF LockInvOf, Pending, Open
    <2> QED BY <2>6, <2>7
  <1>20. ASSUME ScanEnd PROVE LockInvOf(d)'
    BY <1>20, <1>a, <1>b, <1>c, <1>d, <1>e, <1>f, <1>g, <1>h, <1>k, ThreadFacts DEF ScanEnd,
      LockInvOf, Pending, SenderBusy, Writing, MainAt, SendAt, Open, PcInv,
      ThreadType, ListType, CountType, SocketType, HeldInv, ClosePcs, WritePcs,
      BusyPcs, Holds
  <1>21. ASSUME SendAll PROVE LockInvOf(d)'
    <2>1. conn[Send] \in Conns BY <1>21, ThreadFacts, HeldFacts DEF SendAll, Holds
    <2>2. connected[conn[Send]]
      BY <1>21, <2>1, SendFacts, IsendlenNat DEF SendAll, Failed
    <2>3. /\ connected' = connected /\ epollOut' = epollOut /\ peer' = peer /\ conn' = conn
          /\ iThrowsendCount' = iThrowsendCount /\ after' = after
          /\ psendMemPointer' = psendMemPointer
      BY <1>21 DEF SendAll
    <2>4. pc[Send] = "send" /\ pc'[Send] = "sent" /\ pc'[Main] = pc[Main]
      BY <1>21, <1>b, ThreadFacts DEF SendAll, ThreadType
    <2>5. /\ Writing(d)' <=> Writing(d)
          /\ MainAt(d, {"unmark"})' <=> MainAt(d, {"unmark"})
          /\ MainAt(d, {"post", "free", "unmark"})' <=> MainAt(d, {"post", "free", "unmark"})
          /\ SenderBusy(d)' <=> SenderBusy(d)
      BY <2>3, <2>4 DEF Writing, MainAt, SenderBusy
    <2>6. CASE conn[Send] # d
      BY <2>3, <2>4, <2>5, <2>6, <1>h, <1>k DEF LockInvOf, Pending, SendAt, Open
    <2>7. CASE conn[Send] = d
      <3>1. SenderBusy(d) /\ ~Pending(d) /\ psendMemPointer[d] # NoBuf
        BY <2>4, <2>7, <1>h DEF SenderBusy, Pending, LockInvOf
      <3> QED BY <2>2, <2>3, <2>4, <2>5, <2>7, <3>1, <1>h
          DEF LockInvOf, Pending, SendAt, Open
    <2> QED BY <2>6, <2>7
  <1>22. ASSUME SendPart PROVE LockInvOf(d)'
    <2>1. conn[Send] \in Conns BY <1>22, ThreadFacts, HeldFacts DEF SendPart, Holds
    <2>2. connected[conn[Send]]
      BY <1>22, <2>1, SendFacts DEF SendPart, Failed, Again
    <2>3. /\ connected' = connected /\ epollOut' = epollOut /\ peer' = peer /\ conn' = conn
          /\ iThrowsendCount' = iThrowsendCount /\ after' = after
          /\ psendMemPointer' = psendMemPointer
      BY <1>22 DEF SendPart
    <2>4. pc[Send] = "send" /\ pc'[Send] = "mark" /\ pc'[Main] = pc[Main]
      BY <1>22, <1>b, ThreadFacts DEF SendPart, ThreadType
    <2>5. /\ Writing(d)' <=> Writing(d)
          /\ MainAt(d, {"unmark"})' <=> MainAt(d, {"unmark"})
          /\ MainAt(d, {"post", "free", "unmark"})' <=> MainAt(d, {"post", "free", "unmark"})
          /\ SenderBusy(d)' <=> SenderBusy(d)
      BY <2>3, <2>4 DEF Writing, MainAt, SenderBusy
    <2>6. CASE conn[Send] # d
      BY <2>3, <2>4, <2>5, <2>6, <1>h, <1>k DEF LockInvOf, Pending, SendAt, Open
    <2>7. CASE conn[Send] = d
      <3>1. SenderBusy(d) /\ ~Pending(d) /\ psendMemPointer[d] # NoBuf
        BY <2>4, <2>7, <1>h DEF SenderBusy, Pending, LockInvOf
      <3> QED BY <2>2, <2>3, <2>4, <2>5, <2>7, <3>1, <1>h
          DEF LockInvOf, Pending, SendAt, Open
    <2> QED BY <2>6, <2>7
  <1>23. ASSUME SendFails PROVE LockInvOf(d)'
    <2>1. conn[Send] \in Conns BY <1>23, ThreadFacts, HeldFacts DEF SendFails, Holds
    <2>2. ~Open(conn[Send])
      BY <1>23, <2>1, SendFacts DEF SendFails
    <2>3. /\ connected' = connected /\ epollOut' = epollOut /\ peer' = peer /\ conn' = conn
          /\ iThrowsendCount' = iThrowsendCount /\ after' = after
          /\ psendMemPointer' = psendMemPointer
      BY <1>23 DEF SendFails
    <2>4. pc[Send] = "send" /\ pc'[Send] = "failed" /\ pc'[Main] = pc[Main]
      BY <1>23, <1>b, ThreadFacts DEF SendFails, ThreadType
    <2>5. /\ Writing(d)' <=> Writing(d)
          /\ MainAt(d, {"unmark"})' <=> MainAt(d, {"unmark"})
          /\ MainAt(d, {"post", "free", "unmark"})' <=> MainAt(d, {"post", "free", "unmark"})
          /\ SenderBusy(d)' <=> SenderBusy(d)
      BY <2>3, <2>4 DEF Writing, MainAt, SenderBusy
    <2>6. CASE conn[Send] # d
      BY <2>3, <2>4, <2>5, <2>6, <1>h, <1>k DEF LockInvOf, Pending, SendAt, Open
    <2>7. CASE conn[Send] = d
      <3>1. SenderBusy(d) /\ ~Pending(d) /\ psendMemPointer[d] # NoBuf
        BY <2>4, <2>7, <1>h DEF SenderBusy, Pending, LockInvOf
      <3> QED BY <2>2, <2>3, <2>4, <2>5, <2>7, <3>1, <1>h
          DEF LockInvOf, Pending, SendAt, Open
    <2> QED BY <2>6, <2>7
  <1>24. ASSUME SendDone PROVE LockInvOf(d)'
    BY <1>24, <1>a, <1>b, <1>c, <1>d, <1>e, <1>f, <1>g, <1>h, <1>k, ThreadFacts DEF
       SendDone,
      LockInvOf, Pending, SenderBusy, Writing, MainAt, SendAt, Open, PcInv,
      ThreadType, ListType, CountType, SocketType, HeldInv, ClosePcs, WritePcs,
      BusyPcs, Holds
  <1>25. ASSUME SendMark PROVE LockInvOf(d)'
    BY <1>25, <1>a, <1>b, <1>c, <1>d, <1>e, <1>f, <1>g, <1>h, <1>k, ThreadFacts DEF
       SendMark,
      LockInvOf, Pending, SenderBusy, Writing, MainAt, SendAt, Open, PcInv,
      ThreadType, ListType, CountType, SocketType, HeldInv, ClosePcs, WritePcs,
      BusyPcs, Holds
  <1>26. ASSUME SendArm PROVE LockInvOf(d)'
    BY <1>26, <1>a, <1>b, <1>c, <1>d, <1>e, <1>f, <1>g, <1>h, <1>k, ThreadFacts DEF SendArm,
      LockInvOf, Pending, SenderBusy, Writing, MainAt, SendAt, Open, PcInv,
      ThreadType, ListType, CountType, SocketType, HeldInv, ClosePcs, WritePcs,
      BusyPcs, Holds
  <1>27. ASSUME NEW c \in Conns, Event(c) PROVE LockInvOf(d)'
    BY <1>27, <1>a, <1>b, <1>c, <1>d, <1>e, <1>f, <1>g, <1>h, <1>k, ThreadFacts DEF Event,
      OutHalf, LockInvOf, Pending, SenderBusy, Writing, MainAt, SendAt, Open, PcInv,
      ThreadType, ListType, CountType, SocketType, HeldInv, ClosePcs, WritePcs,
      BusyPcs, Holds
  <1>28. ASSUME ReadOn PROVE LockInvOf(d)'
    BY <1>28, <1>a, <1>b, <1>c, <1>d, <1>e, <1>f, <1>g, <1>h, <1>k, ThreadFacts DEF ReadOn,
      LockInvOf, Pending, SenderBusy, Writing, MainAt, SendAt, Open, PcInv,
      ThreadType, ListType, CountType, SocketType, HeldInv, ClosePcs, WritePcs,
      BusyPcs, Holds
  <1>29. ASSUME ReadCloses PROVE LockInvOf(d)'
    BY <1>29, <1>a, <1>b, <1>c, <1>d, <1>e, <1>f, <1>g, <1>h, <1>k, ThreadFacts DEF
       ReadCloses,
      LockInvOf, Pending, SenderBusy, Writing, MainAt, SendAt, Open, PcInv,
      ThreadType, ListType, CountType, SocketType, HeldInv, ClosePcs, WritePcs,
      BusyPcs, Holds
  <1>30. ASSUME OutHup PROVE LockInvOf(d)'
    <2>1. conn[Main] \in Conns BY <1>30, ThreadFacts, HeldFacts DEF OutHup, Holds
    <2>2. peer[conn[Main]] = "gone" BY <1>30, <1>g DEF HangInv, HangingUp, OutHup
    <2>3. conn[Main] # d BY <1>30, <2>2 DEF OutHup, Lowered
    <2>4. /\ connected' = connected /\ epollOut' = epollOut /\ peer' = peer /\ conn' = conn
          /\ after' = after /\ psendMemPointer' = psendMemPointer
          /\ iThrowsendCount'[d] = iThrowsendCount[d]
      BY <1>30, <2>1, <2>3, <1>d DEF OutHup, Lower, CountType
    <2>5. pc'[Send] = pc[Send] BY <1>30, <1>b, ThreadFacts DEF OutHup, ThreadType
    <2> QED BY <2>3, <2>4, <2>5, <1>h, <1>k
        DEF LockInvOf, Pending, SenderBusy, Writing, MainAt, SendAt, Open
  <1>31. ASSUME WriteAll PROVE LockInvOf(d)'
    BY <1>31, <1>a, <1>b, <1>c, <1>d, <1>e, <1>f, <1>g, <1>h, <1>k, ThreadFacts DEF
       WriteAll,
      Put, SendResults, LockInvOf, Pending, SenderBusy, Writing, MainAt, SendAt,
      Open, PcInv, ThreadType, ListType, CountType, SocketType, HeldInv, ClosePcs,
      WritePcs, BusyPcs, Holds
  <1>32. ASSUME WritePart PROVE LockInvOf(d)'
    BY <1>32, <1>a, <1>b, <1>c, <1>d, <1>e, <1>f, <1>g, <1>h, <1>k, ThreadFacts DEF
       WritePart,
      Put, SendResults, LockInvOf, Pending, SenderBusy, Writing, MainAt, SendAt,
      Open, PcInv, ThreadType, ListType, CountType, SocketType, HeldInv, ClosePcs,
      WritePcs, BusyPcs, Holds
  <1>33. ASSUME WriteFails PROVE LockInvOf(d)'
    <2>1. conn[Main] \in Conns BY <1>33, ThreadFacts, HeldFacts DEF WriteFails, Holds
    <2>2. ~Open(conn[Main]) BY <1>33, <2>1, SendFacts DEF WriteFails
    <2>3. /\ connected' = connected /\ epollOut' = epollOut /\ peer' = peer /\ conn' = conn
          /\ iThrowsendCount' = iThrowsendCount /\ after' = after
          /\ psendMemPointer' = psendMemPointer
      BY <1>33 DEF WriteFails
    <2>4. pc[Main] = "write" /\ pc'[Main] = "post" /\ pc'[Send] = pc[Send]
      BY <1>33, <1>b, ThreadFacts DEF WriteFails, ThreadType
    <2> QED BY <2>2, <2>3, <2>4, <1>h, <1>k
        DEF LockInvOf, Pending, SenderBusy, Writing, MainAt, SendAt, Open, WritePcs
  <1>34. ASSUME WriteDisarm PROVE LockInvOf(d)'
    BY <1>34, <1>a, <1>b, <1>c, <1>d, <1>e, <1>f, <1>g, <1>h, <1>k, ThreadFacts DEF
       WriteDisarm,
      LockInvOf, Pending, SenderBusy, Writing, MainAt, SendAt, Open, PcInv,
      ThreadType, ListType, CountType, SocketType, HeldInv, ClosePcs, WritePcs,
      BusyPcs, Holds
  <1>35. ASSUME WritePost PROVE LockInvOf(d)'
    BY <1>35, <1>a, <1>b, <1>c, <1>d, <1>e, <1>f, <1>g, <1>h, <1>k, ThreadFacts DEF
       WritePost,
      LockInvOf, Pending, SenderBusy, Writing, MainAt, SendAt, Open, PcInv,
      ThreadType, ListType, CountType, SocketType, HeldInv, ClosePcs, WritePcs,
      BusyPcs, Holds
  <1>36. ASSUME WriteFree PROVE LockInvOf(d)'
    <2>1. conn[Main] \in Conns BY <1>36, ThreadFacts, HeldFacts DEF WriteFree, Holds
    <2>2. /\ connected' = connected /\ epollOut' = epollOut /\ peer' = peer /\ conn' = conn
          /\ iThrowsendCount' = iThrowsendCount /\ after' = after
          /\ psendMemPointer' = [psendMemPointer EXCEPT ![conn[Main]] = NoBuf]
      BY <1>36 DEF WriteFree
    <2>3. pc[Main] = "free" /\ pc'[Main] = "unmark" /\ pc'[Send] = pc[Send]
      BY <1>36, <1>b, ThreadFacts DEF WriteFree, ThreadType
    <2>4. CASE conn[Main] # d
      <3>1. psendMemPointer'[d] = psendMemPointer[d] BY <2>2, <2>4, <1>d DEF CountType
      <3> QED BY <2>2, <2>3, <2>4, <3>1, <1>h, <1>k
          DEF LockInvOf, Pending, SenderBusy, Writing, MainAt, SendAt, Open
    <2>5. CASE conn[Main] = d
      <3>1. psendMemPointer'[d] = NoBuf BY <2>2, <2>5, <1>d DEF CountType
      <3>2. Pending(d) /\ ~SenderBusy(d) /\ ~(Open(d) /\ epollOut[d])
        BY <2>3, <2>5, <1>h DEF LockInvOf, Writing, WritePcs, MainAt, Pending
      <3>3. connected[d] => iThrowsendCount[d] >= 1 BY <3>2, <1>h DEF LockInvOf, CutOff
      <3> QED BY <2>2, <2>3, <2>5, <3>1, <3>2, <3>3, <1>h
          DEF LockInvOf, Pending, SenderBusy, Writing, MainAt, SendAt, Open, WritePcs,
              ClosePcs
    <2> QED BY <2>4, <2>5
  <1>37. ASSUME WriteUnmark PROVE LockInvOf(d)'
    BY <1>37, <1>a, <1>b, <1>c, <1>d, <1>e, <1>f, <1>g, <1>h, <1>k, ThreadFacts DEF
       WriteUnmark,
      Lower, LockInvOf, Pending, SenderBusy, Writing, MainAt, SendAt, Open, PcInv,
      ThreadType, ListType, CountType, SocketType, HeldInv, ClosePcs, WritePcs,
      BusyPcs, Holds
  <1>38. CASE UNCHANGED vars
    BY <1>38, <1>a, <1>b, <1>c, <1>d, <1>e, <1>f, <1>g, <1>h, <1>k, ThreadFacts DEF vars,
      LockInvOf, Pending, SenderBusy, Writing, MainAt, SendAt, Open, PcInv,
      ThreadType, ListType, CountType, SocketType, HeldInv, ClosePcs, WritePcs,
      BusyPcs, Holds
  <1> QED BY <1>1, <1>2, <1>3, <1>4, <1>5, <1>6, <1>7, <1>8, <1>9, <1>10, <1>11,
       <1>12, <1>13, <1>14, <1>15, <1>16, <1>17, <1>18, <1>19, <1>20, <1>21, <1>22,
       <1>23, <1>24, <1>25, <1>26, <1>27, <1>28, <1>29, <1>30, <1>31, <1>32, <1>33,
       <1>34, <1>35, <1>36, <1>37, <1>38 DEF Next, PoolStep, CloseStep, SendStep,
       WriteStep, Stopped

(* Every step keeps LockInv: a lowered object stays so until it is         *)
(* accepted again.                                                         *)
LEMMA LockStep == ASSUME IInv, [Next]_vars PROVE LockInv'
  <1> SUFFICES ASSUME NEW d \in Conns, ~Lowered(d)' PROVE LockInvOf(d)'
    BY DEF LockInv
  <1>1. CASE ~Lowered(d) BY <1>1, LockStepOf
  <1>2. CASE Lowered(d)
    <2>1. CASE AcceptConn(d) BY <2>1, AcceptLock
    <2>2. CASE ~AcceptConn(d)
      <3>1. NotOpened(d) BY <2>2, Unopened
      <3> QED BY <1>2, <3>1 DEF Lowered, NotOpened
    <2> QED BY <2>1, <2>2
  <1> QED BY <1>1, <1>2

-----------------------------------------------------------------------------
(* What the client receives.                                               *)

(* The block an index belongs to.                                          *)
LEMMA DivBlock ==
  ASSUME NEW d \in Nat \ {0}, NEW k \in Nat, NEW a \in Nat
  PROVE  /\ d * k <= a /\ a < d * k + d => a \div d = k
         /\ a < d * k => a \div d # k
  <1> DEFINE q == a \div d
  <1>1. q \in Nat /\ d * q <= a /\ a < d * q + d OBVIOUS
  <1> HIDE DEF q
  <1>2. ASSUME NEW x \in Nat, NEW y \in Nat, x < y PROVE d * x + d <= d * y BY <1>2
  <1>3. d * k <= a /\ a < d * k + d => q = k
    <2>1. d * k \in Nat /\ d * q \in Nat BY <1>1
    <2>2. q < k => d * q + d <= d * k BY <1>1, <1>2
    <2>3. k < q => d * k + d <= d * q BY <1>1, <1>2
    <2> QED BY <1>1, <2>1, <2>2, <2>3
  <1>4. a < d * k => q # k BY <1>1
  <1> QED BY <1>3, <1>4 DEF q

(* The units of whole packets stay so when more of the last one is sent.   *)
Whole(w) ==
    \A i, j \in DOMAIN w : (i - 1) \div PacketLen = (j - 1) \div PacketLen <=> w[i] = w[j]

(* Appending a run of one packet keeps packets whole, if the run is new or *)
(* goes on with the last block.                                            *)
LEMMA WholeExtended ==
  ASSUME NEW w, NEW v, NEW L \in Nat, NEW n \in Nat, NEW k \in Nat, NEW p,
         DOMAIN w = 1 .. L, DOMAIN v = 1 .. L + n, Whole(w),
         \A i \in 1 .. L : v[i] = w[i],
         \A i \in L + 1 .. L + n : v[i] = p,
         PacketLen * k <= L, L + n <= PacketLen * k + PacketLen,
         \A i \in 1 .. L : i > PacketLen * k <=> w[i] = p
  PROVE  Whole(v)
  <1> DEFINE K == PacketLen * k
  <1>1. K \in Nat /\ PacketLen \in Nat \ {0} BY SendAssumption
  <1>2. ASSUME NEW i \in 1 .. L + n
        PROVE  /\ i > K <=> v[i] = p
               /\ i > K => (i - 1) \div PacketLen = k
               /\ ~(i > K) => (i - 1) \div PacketLen # k
    <2>1. i - 1 \in Nat /\ i \in Nat /\ i >= 1 /\ i <= L + n OBVIOUS
    <2>2. i > K <=> v[i] = p
      <3>1. CASE i <= L
        <4>1. i \in 1 .. L BY <2>1, <3>1
        <4> QED BY <4>1
      <3>2. CASE i > L
        <4>1. i \in L + 1 .. L + n BY <2>1, <3>2
        <4> QED BY <1>1, <2>1, <3>2, <4>1
      <3> QED BY <2>1, <3>1, <3>2
    <2>3. i > K => (i - 1) \div PacketLen = k
      <3> SUFFICES ASSUME i > K PROVE (i - 1) \div PacketLen = k OBVIOUS
      <3>1. K <= i - 1 /\ i - 1 < K + PacketLen BY <1>1, <2>1
      <3> QED BY <1>1, <2>1, <3>1, DivBlock
    <2>4. ~(i > K) => (i - 1) \div PacketLen # k
      <3> SUFFICES ASSUME ~(i > K) PROVE (i - 1) \div PacketLen # k OBVIOUS
      <3>1. i - 1 < K BY <1>1, <2>1
      <3> QED BY <1>1, <2>1, <3>1, DivBlock
    <2> QED BY <2>2, <2>3, <2>4
  <1> SUFFICES ASSUME NEW i \in 1 .. L + n, NEW j \in 1 .. L + n
               PROVE  (i - 1) \div PacketLen = (j - 1) \div PacketLen <=> v[i] = v[j]
    BY DEF Whole
  <1>3. CASE i > K \/ j > K
    <2> HIDE DEF K
    <2> QED BY <1>2, <1>3
  <1>4. CASE ~(i > K) /\ ~(j > K)
    <2>1. i \in 1 .. L /\ j \in 1 .. L BY <1>1, <1>4
    <2> QED BY <2>1 DEF Whole
  <1> QED BY <1>3, <1>4

(* Writing n units of the packet in hand.                                  *)
LEMMA PutFacts ==
  ASSUME IInv, NEW c \in Conns, NEW n \in SendResults(c), n >= 0, Put(c, n)
  PROVE  /\ n \in Nat /\ 1 <= n /\ n <= isendlen[c] /\ connected[c]
         /\ DOMAIN wire[c] = 1 .. Len(wire[c]) /\ Len(wire[c]) \in Nat
         /\ DOMAIN wire'[c] = 1 .. Len(wire[c]) + n /\ Len(wire'[c]) = Len(wire[c]) + n
         /\ \A i \in 1 .. Len(wire[c]) : wire'[c][i] = wire[c][i]
         /\ \A i \in Len(wire[c]) + 1 .. Len(wire[c]) + n : wire'[c][i] = psendMemPointer[c]
         /\ \A d \in Conns : d # c => wire'[d] = wire[d]
  <1>1. n \in Nat /\ 1 <= n /\ n <= isendlen[c] /\ connected[c]
    BY SendFacts DEF Failed
  <1>2. /\ wire \in [Conns -> Seq(Buffers \cup {NoBuf})]
        /\ psendMemPointer[c] \in Buffers \cup {NoBuf}
    BY DEF IInv, TypeOK
  <1> DEFINE p == psendMemPointer[c]
             u == [i \in 1 .. n |-> p]
             w == wire[c]
             B == Buffers \cup {NoBuf}
  <1>3. wire' = [wire EXCEPT ![c] = w \o u] BY DEF Put
  <1>4. wire'[c] = w \o u /\ \A d \in Conns : d # c => wire'[d] = wire[d] BY <1>2, <1>3
  <1>5. u \in Seq(B) /\ Len(u) = n /\ \A i \in 1 .. n : u[i] = p BY <1>1, <1>2
  <1>6. w \in Seq(B) BY <1>2
  <1> HIDE DEF u, w, B
  <1>7. /\ DOMAIN w = 1 .. Len(w) /\ Len(w) \in Nat
        /\ DOMAIN (w \o u) = 1 .. Len(w) + n /\ Len(w \o u) = Len(w) + n
    BY <1>1, <1>5, <1>6
  <1>8. \A i \in 1 .. Len(w) + n : (w \o u)[i] = IF i <= Len(w) THEN w[i] ELSE u[i - Len(w)]
    BY <1>5, <1>6, ConcatProperties
  <1>9. \A i \in 1 .. Len(w) : (w \o u)[i] = w[i] BY <1>1, <1>7, <1>8
  <1>10. ASSUME NEW i \in Len(w) + 1 .. Len(w) + n PROVE (w \o u)[i] = p
    <2>1. i \in 1 .. Len(w) + n /\ ~(i <= Len(w)) /\ i - Len(w) \in 1 .. n BY <1>1, <1>7
    <2> QED BY <1>5, <1>8, <2>1
  <1> QED BY <1>1, <1>4, <1>7, <1>9, <1>10 DEF w

(* Writing keeps whole packets whole.                                      *)
LEMMA PutWhole ==
  ASSUME IInv, NEW c \in Conns, Open(c), Unfinished(c), Whole(wire[c]),
         NEW n \in SendResults(c), n >= 0, Put(c, n)
  PROVE  /\ Whole(wire'[c])
         /\ \A i \in DOMAIN wire'[c] : wire'[c][i] \in DOMAIN buf \ Queued
         /\ \E k \in Nat :
               /\ Len(wire'[c]) + (isendlen[c] - n) = PacketLen * k + PacketLen
               /\ \A i \in DOMAIN wire'[c] :
                     i > PacketLen * k <=> wire'[c][i] = psendMemPointer[c]
  <1>1. WireInvOf(c) BY DEF IInv, WireInv
  <1>2. PICK k \in Nat :
           /\ Len(wire[c]) + isendlen[c] = PacketLen * k + PacketLen
           /\ \A i \in DOMAIN wire[c] : i > PacketLen * k <=> wire[c][i] = psendMemPointer[c]
    BY <1>1 DEF WireInvOf
  <1> DEFINE K == PacketLen * k
             L == Len(wire[c])
             p == psendMemPointer[c]
  <1>3. /\ n \in Nat /\ 1 <= n /\ n <= isendlen[c]
        /\ DOMAIN wire[c] = 1 .. L /\ L \in Nat
        /\ DOMAIN wire'[c] = 1 .. L + n /\ Len(wire'[c]) = L + n
        /\ \A i \in 1 .. L : wire'[c][i] = wire[c][i]
        /\ \A i \in L + 1 .. L + n : wire'[c][i] = p
    BY PutFacts
  <1>4. K \in Nat /\ PacketLen \in Nat /\ isendlen[c] \in 0 .. PacketLen
    BY SendAssumption DEF IInv, TypeOK
  <1>5. K <= L /\ L + n <= K + PacketLen BY <1>2, <1>3, <1>4
  <1>6. Whole(wire'[c]) BY <1>2, <1>3, <1>5, WholeExtended
  <1>7. p \in DOMAIN buf \ Queued BY DEF IInv, BufferInv, NameInv, Unfinished
  <1>8. ASSUME NEW i \in DOMAIN wire'[c]
        PROVE  wire'[c][i] \in DOMAIN buf \ Queued /\ (i > K <=> wire'[c][i] = p)
    <2>1. CASE i <= L
      <3>1. i \in 1 .. L BY <1>3, <2>1
      <3> QED BY <1>1, <1>2, <1>3, <3>1 DEF WireInvOf
    <2>2. CASE i > L
      <3>1. i \in L + 1 .. L + n /\ i > K BY <1>3, <1>4, <1>5, <2>2
      <3> QED BY <1>3, <1>7, <3>1
    <2> QED BY <1>3, <2>1, <2>2
  <1>9. Len(wire'[c]) + (isendlen[c] - n) = K + PacketLen BY <1>2, <1>3, <1>4
  <1> QED BY <1>6, <1>8, <1>9

Out == DOMAIN buf \ Queued

(* A packet out of the queue never returns to it.                          *)
LEMMA OutOfQueue == ASSUME IInv, [Next]_vars PROVE Out \subseteq Out'
  <1> USE DEF queueVars, objectVars, threadVars, socketVars, boundVars, Goto
  <1>1. ASSUME NEW c \in Conns, AcceptConn(c) PROVE Out \subseteq Out'
    BY <1>1 DEF AcceptConn, Out, Queued
  <1>2. ASSUME NEW c \in Conns, FreeConnection(c) PROVE Out \subseteq Out'
    BY <1>2 DEF FreeConnection, Held, Out, Queued
  <1>3. ASSUME NEW c \in Conns, ClientReads(c) PROVE Out \subseteq Out'
    BY <1>3 DEF ClientReads, Out, Queued
  <1>4. ASSUME NEW c \in Conns, ClientLeaves(c) PROVE Out \subseteq Out'
    BY <1>4 DEF ClientLeaves, Out, Queued
  <1>5. ASSUME NEW t \in PoolThreads, Request(t) PROVE Out \subseteq Out'
    BY <1>5 DEF Request, Out, Queued
  <1>6. ASSUME NEW t \in PoolThreads, MsgDiscard(t) PROVE Out \subseteq Out'
    BY <1>6 DEF MsgDiscard, TooManyQueued, Out, Queued
  <1>7. ASSUME NEW t \in PoolThreads, MsgSend(t) PROVE Out \subseteq Out'
    <2> DEFINE b == Len(buf) + 1
               m == [conn |-> conn[t], sequence |-> request[t]]
    <2>1. /\ b \in Buffers /\ m \in [conn : Conns, sequence : Nat]
          /\ buf' = Append(buf, m) /\ sendQueue' = Append(sendQueue, b)
      BY <1>7, SentFacts
    <2>2. /\ b \notin DOMAIN buf /\ DOMAIN buf' = DOMAIN buf \cup {b}
          /\ Queued' = Queued \cup {b}
      BY <2>1, QueueAppended
    <2> QED BY <2>2 DEF Out
  <1>8. ASSUME NEW t \in PoolThreads, MsgCutOff(t) PROVE Out \subseteq Out'
    BY <1>8 DEF MsgCutOff, TooManyQueued, TooSlow, Out, Queued
  <1>9. ASSUME NEW t \in Closers, ZdClose(t) PROVE Out \subseteq Out'
    BY <1>9 DEF ZdClose, Out, Queued
  <1>10. ASSUME NEW t \in Closers, ZdTestThrow(t) PROVE Out \subseteq Out'
    BY <1>10 DEF ZdTestThrow, Out, Queued
  <1>11. ASSUME NEW t \in Closers, ZdLowerThrow(t) PROVE Out \subseteq Out'
    BY <1>11 DEF ZdLowerThrow, Lower, Out, Queued
  <1>12. ASSUME NEW t \in Closers, InRecyConnectQueue(t) PROVE Out \subseteq Out'
    BY <1>12 DEF InRecyConnectQueue, Out, Queued
  <1>13. ASSUME KickClient PROVE Out \subseteq Out'
    BY <1>13 DEF KickClient, Out, Queued
  <1>14. ASSUME SemWait PROVE Out \subseteq Out'
    BY <1>14 DEF SemWait, Out, Queued
  <1>15. ASSUME QueueEmpty PROVE Out \subseteq Out'
    BY <1>15 DEF QueueEmpty, Out, Queued
  <1>16. ASSUME LockQueue PROVE Out \subseteq Out'
    BY <1>16 DEF LockQueue, Out, Queued
  <1>17. ASSUME ScanStale PROVE Out \subseteq Out'
    <2>1. Queued' = Queued \ {sendQueue[pos]} /\ buf' = buf
      BY <1>17, QueueErased DEF ScanStale
    <2> QED BY <2>1 DEF Out
  <1>18. ASSUME ScanSkip PROVE Out \subseteq Out'
    BY <1>18 DEF ScanSkip, Marked, Scanned, Stale, Out, Queued
  <1>19. ASSUME ScanTake PROVE Out \subseteq Out'
    <2>1. Queued' = Queued \ {sendQueue[pos]} /\ buf' = buf
      BY <1>19, QueueErased DEF ScanTake
    <2> QED BY <2>1 DEF Out
  <1>20. ASSUME ScanEnd PROVE Out \subseteq Out'
    BY <1>20 DEF ScanEnd, Out, Queued
  <1>21. ASSUME SendAll PROVE Out \subseteq Out'
    BY <1>21 DEF SendAll, Put, SendResults, Out, Queued
  <1>22. ASSUME SendPart PROVE Out \subseteq Out'
    BY <1>22 DEF SendPart, Put, SendResults, Out, Queued
  <1>23. ASSUME SendFails PROVE Out \subseteq Out'
    BY <1>23 DEF SendFails, SendResults, Out, Queued
  <1>24. ASSUME SendDone PROVE Out \subseteq Out'
    BY <1>24 DEF SendDone, Out, Queued
  <1>25. ASSUME SendMark PROVE Out \subseteq Out'
    BY <1>25 DEF SendMark, Out, Queued
  <1>26. ASSUME SendArm PROVE Out \subseteq Out'
    BY <1>26 DEF SendArm, Out, Queued
  <1>27. ASSUME NEW c \in Conns, Event(c) PROVE Out \subseteq Out'
    BY <1>27 DEF Event, OutHalf, Out, Queued
  <1>28. ASSUME ReadOn PROVE Out \subseteq Out'
    BY <1>28 DEF ReadOn, Out, Queued
  <1>29. ASSUME ReadCloses PROVE Out \subseteq Out'
    BY <1>29 DEF ReadCloses, Out, Queued
  <1>30. ASSUME OutHup PROVE Out \subseteq Out'
    BY <1>30 DEF OutHup, Lower, Out, Queued
  <1>31. ASSUME WriteAll PROVE Out \subseteq Out'
    BY <1>31 DEF WriteAll, Put, SendResults, Out, Queued
  <1>32. ASSUME WritePart PROVE Out \subseteq Out'
    BY <1>32 DEF WritePart, Put, SendResults, Out, Queued
  <1>33. ASSUME WriteFails PROVE Out \subseteq Out'
    BY <1>33 DEF WriteFails, SendResults, Out, Queued
  <1>34. ASSUME WriteDisarm PROVE Out \subseteq Out'
    BY <1>34 DEF WriteDisarm, Out, Queued
  <1>35. ASSUME WritePost PROVE Out \subseteq Out'
    BY <1>35 DEF WritePost, Out, Queued
  <1>36. ASSUME WriteFree PROVE Out \subseteq Out'
    BY <1>36 DEF WriteFree, Out, Queued
  <1>37. ASSUME WriteUnmark PROVE Out \subseteq Out'
    BY <1>37 DEF WriteUnmark, Lower, Out, Queued
  <1>38. CASE UNCHANGED vars
    BY <1>38 DEF vars, Out, Queued
  <1> QED BY <1>1, <1>2, <1>3, <1>4, <1>5, <1>6, <1>7, <1>8, <1>9, <1>10, <1>11,
       <1>12, <1>13, <1>14, <1>15, <1>16, <1>17, <1>18, <1>19, <1>20, <1>21, <1>22,
       <1>23, <1>24, <1>25, <1>26, <1>27, <1>28, <1>29, <1>30, <1>31, <1>32, <1>33,
       <1>34, <1>35, <1>36, <1>37, <1>38 DEF Next, PoolStep, CloseStep, SendStep,
       WriteStep, Stopped

(* The packet in hand stays the same, or nothing is in hand.               *)
HandSame(d) ==
    /\ wire'[d] = wire[d] /\ (Unfinished(d)' <=> Unfinished(d))
    /\ Unfinished(d) => psendMemPointer'[d] = psendMemPointer[d] /\ isendlen'[d] = isendlen[d]

Sends(d) ==
    \/ ScanTake /\ Scanned.conn = d
    \/ (SendAll \/ SendPart) /\ conn[Send] = d
    \/ (WriteAll \/ WritePart) /\ conn[Main] = d

(* Only taking a packet and writing change what is in hand.                *)
LEMMA HandStep ==
  ASSUME IInv, [Next]_vars, NEW d \in Conns, Open(d), Open(d)'
  PROVE  HandSame(d) \/ Sends(d)
  <1> USE DEF queueVars, objectVars, threadVars, socketVars, boundVars, Goto
  <1>a. PcInv BY DEF IInv
  <1>b. ThreadType BY TypeParts DEF IInv
  <1>c. ListType BY TypeParts DEF IInv
  <1>d. CountType BY TypeParts DEF IInv
  <1>e. SocketType BY TypeParts DEF IInv
  <1>f. HeldInv BY DEF IInv, HoldInv
  <1>h. LockInvOf(d) BY DEF IInv, LockInv, Lowered, Open
  <1>1. ASSUME NEW c \in Conns, AcceptConn(c) PROVE HandSame(d) \/ Sends(d)
    <2>1. c # d BY <1>1, <1>f DEF AcceptConn, HeldInv, Open
    <2>2. /\ wire'[d] = wire[d] /\ psendMemPointer'[d] = psendMemPointer[d]
          /\ isendlen'[d] = isendlen[d] /\ pc' = pc /\ conn' = conn
      BY <1>1, <2>1, <1>d, <1>e DEF AcceptConn, CountType, SocketType
    <2> QED BY <2>2 DEF HandSame, Unfinished, MainAt, SendAt
  <1>2. ASSUME NEW c \in Conns, FreeConnection(c) PROVE HandSame(d) \/ Sends(d)
    <2>1. c # d BY <1>2, <1>f DEF FreeConnection, HeldInv, Open
    <2>2. /\ wire'[d] = wire[d] /\ psendMemPointer'[d] = psendMemPointer[d]
          /\ isendlen'[d] = isendlen[d] /\ pc' = pc /\ conn' = conn
      BY <1>2, <2>1, <1>d DEF FreeConnection, CountType
    <2> QED BY <2>2 DEF HandSame, Unfinished, MainAt, SendAt
  <1>3. ASSUME NEW c \in Conns, ClientReads(c) PROVE HandSame(d) \/ Sends(d)
    BY <1>3, <1>a, <1>b, <1>c, <1>d, <1>e, <1>f, ThreadFacts DEF ClientReads,
      HandSame, Unfinished, MainAt, SendAt, ThreadType, CountType, PcInv, ClosePcs,
      WritePcs, BusyPcs
  <1>4. ASSUME NEW c \in Conns, ClientLeaves(c) PROVE HandSame(d) \/ Sends(d)
    BY <1>4, <1>a, <1>b, <1>c, <1>d, <1>e, <1>f, ThreadFacts DEF ClientLeaves,
      HandSame, Unfinished, MainAt, SendAt, ThreadType, CountType, PcInv, ClosePcs,
      WritePcs, BusyPcs
  <1>5. ASSUME NEW t \in PoolThreads, Request(t) PROVE HandSame(d) \/ Sends(d)
    BY <1>5, <1>a, <1>b, <1>c, <1>d, <1>e, <1>f, ThreadFacts DEF Request, HandSame,
      Unfinished, MainAt, SendAt, ThreadType, CountType, PcInv, ClosePcs, WritePcs,
      BusyPcs
  <1>6. ASSUME NEW t \in PoolThreads, MsgDiscard(t) PROVE HandSame(d) \/ Sends(d)
    BY <1>6, <1>a, <1>b, <1>c, <1>d, <1>e, <1>f, ThreadFacts DEF MsgDiscard,
      TooManyQueued, HandSame, Unfinished, MainAt, SendAt, ThreadType, CountType,
      PcInv, ClosePcs, WritePcs, BusyPcs
  <1>7. ASSUME NEW t \in PoolThreads, MsgSend(t) PROVE HandSame(d) \/ Sends(d)
    BY <1>7, <1>a, <1>b, <1>c, <1>d, <1>e, <1>f, ThreadFacts DEF MsgSend,
      TooManyQueued, TooSlow, HandSame, Unfinished, MainAt, SendAt, ThreadType,
      CountType, PcInv, ClosePcs, WritePcs, BusyPcs
  <1>8. ASSUME NEW t \in PoolThreads, MsgCutOff(t) PROVE HandSame(d) \/ Sends(d)
    BY <1>8, <1>a, <1>b, <1>c, <1>d, <1>e, <1>f, ThreadFacts DEF MsgCutOff,
      TooManyQueued, TooSlow, HandSame, Unfinished, MainAt, SendAt, ThreadType,
      CountType, PcInv, ClosePcs, WritePcs, BusyPcs
  <1>9. ASSUME NEW t \in Closers, ZdClose(t) PROVE HandSame(d) \/ Sends(d)
    BY <1>9, <1>a, <1>b, <1>c, <1>d, <1>e, <1>f, ThreadFacts DEF ZdClose, HandSame,
      Unfinished, MainAt, SendAt, ThreadType, CountType, PcInv, ClosePcs, WritePcs,
      BusyPcs
  <1>10. ASSUME NEW t \in Closers, ZdTestThrow(t) PROVE HandSame(d) \/ Sends(d)
    BY <1>10, <1>a, <1>b, <1>c, <1>d, <1>e, <1>f, ThreadFacts DEF ZdTestThrow,
      HandSame, Unfinished, MainAt, SendAt, ThreadType, CountType, PcInv, ClosePcs,
      WritePcs, BusyPcs
  <1>11. ASSUME NEW t \in Closers, ZdLowerThrow(t) PROVE HandSame(d) \/ Sends(d)
    BY <1>11, <1>a, <1>b, <1>c, <1>d, <1>e, <1>f, ThreadFacts DEF ZdLowerThrow,
      Lower, HandSame, Unfinished, MainAt, SendAt, ThreadType, CountType, PcInv,
      ClosePcs, WritePcs, BusyPcs
  <1>12. ASSUME NEW t \in Closers, InRecyConnectQueue(t) PROVE HandSame(d) \/ Sends(d)
    BY <1>12, <1>a, <1>b, <1>c, <1>d, <1>e, <1>f, ThreadFacts DEF
      InRecyConnectQueue, HandSame, Unfinished, MainAt, SendAt, ThreadType,
      CountType, PcInv, ClosePcs, WritePcs, BusyPcs
  <1>13. ASSUME KickClient PROVE HandSame(d) \/ Sends(d)
    BY <1>13, <1>a, <1>b, <1>c, <1>d, <1>e, <1>f, ThreadFacts DEF KickClient,
      HandSame, Unfinished, MainAt, SendAt, ThreadType, CountType, PcInv, ClosePcs,
      WritePcs, BusyPcs
  <1>14. ASSUME SemWait PROVE HandSame(d) \/ Sends(d)
    BY <1>14, <1>a, <1>b, <1>c, <1>d, <1>e, <1>f, ThreadFacts DEF SemWait, HandSame,
      Unfinished, MainAt, SendAt, ThreadType, CountType, PcInv, ClosePcs, WritePcs,
      BusyPcs
  <1>15. ASSUME QueueEmpty PROVE HandSame(d) \/ Sends(d)
    BY <1>15, <1>a, <1>b, <1>c, <1>d, <1>e, <1>f, ThreadFacts DEF QueueEmpty,
      HandSame, Unfinished, MainAt, SendAt, ThreadType, CountType, PcInv, ClosePcs,
      WritePcs, BusyPcs
  <1>16. ASSUME LockQueue PROVE HandSame(d) \/ Sends(d)
    BY <1>16, <1>a, <1>b, <1>c, <1>d, <1>e, <1>f, ThreadFacts DEF LockQueue,
      HandSame, Unfinished, MainAt, SendAt, ThreadType, CountType, PcInv, ClosePcs,
      WritePcs, BusyPcs
  <1>17. ASSUME ScanStale PROVE HandSame(d) \/ Sends(d)
    BY <1>17, <1>a, <1>b, <1>c, <1>d, <1>e, <1>f, ThreadFacts DEF ScanStale, Erase,
      Scanned, Stale, HandSame, Unfinished, MainAt, SendAt, ThreadType, CountType,
      PcInv, ClosePcs, WritePcs, BusyPcs
  <1>18. ASSUME ScanSkip PROVE HandSame(d) \/ Sends(d)
    BY <1>18, <1>a, <1>b, <1>c, <1>d, <1>e, <1>f, ThreadFacts DEF ScanSkip, Marked,
      Scanned, Stale, HandSame, Unfinished, MainAt, SendAt, ThreadType, CountType,
      PcInv, ClosePcs, WritePcs, BusyPcs
  <1>19. ASSUME ScanTake PROVE HandSame(d) \/ Sends(d)
    <2> DEFINE c == Scanned.conn
    <2>1. c \in Conns BY <1>19, ScanFacts DEF ScanTake
    <2>2. CASE c # d
      <3>1. /\ wire'[d] = wire[d] /\ psendMemPointer'[d] = psendMemPointer[d]
            /\ isendlen'[d] = isendlen[d]
        BY <1>19, <2>2, <1>d DEF ScanTake, CountType
      <3>2. /\ conn'[Send] = c /\ pc[Send] = "scan" /\ pc'[Send] = "send"
            /\ conn'[Main] = conn[Main] /\ pc'[Main] = pc[Main]
        BY <1>19, <2>1, <1>b, ThreadFacts DEF ScanTake, ThreadType
      <3> QED BY <3>1, <3>2 DEF HandSame, Unfinished, MainAt, SendAt
    <2> QED BY <1>19, <2>2 DEF Sends
  <1>20. ASSUME ScanEnd PROVE HandSame(d) \/ Sends(d)
    BY <1>20, <1>a, <1>b, <1>c, <1>d, <1>e, <1>f, ThreadFacts DEF ScanEnd, HandSame,
      Unfinished, MainAt, SendAt, ThreadType, CountType, PcInv, ClosePcs, WritePcs,
      BusyPcs
  <1>21. ASSUME SendAll PROVE HandSame(d) \/ Sends(d)
    <2> DEFINE c == conn[Send]
    <2>1. c \in Conns BY <1>21, ThreadFacts, HeldFacts DEF SendAll, Holds
    <2>2. CASE c # d
      <3>1. /\ isendlen[c] \in SendResults(c) /\ isendlen[c] >= 0 /\ Put(c, isendlen[c])
            /\ isendlen' = isendlen
        BY <1>21, <2>1, IsendlenNat DEF SendAll
      <3>2. wire'[d] = wire[d] /\ isendlen'[d] = isendlen[d] BY <2>1, <2>2, <3>1, PutFacts
      <3>4. /\ psendMemPointer' = psendMemPointer /\ conn' = conn
            /\ pc'[Main] = pc[Main]
        BY <1>21, <1>b, ThreadFacts DEF SendAll, ThreadType
      <3> QED BY <2>2, <3>1, <3>2, <3>4 DEF HandSame, Unfinished, MainAt, SendAt
    <2> QED BY <1>21, <2>2 DEF Sends
  <1>22. ASSUME SendPart PROVE HandSame(d) \/ Sends(d)
    <2> DEFINE c == conn[Send]
    <2>1. c \in Conns BY <1>22, ThreadFacts, HeldFacts DEF SendPart, Holds
    <2>2. CASE c # d
      <3>1. PICK n \in SendResults(c) :
               \/ /\ 0 < n /\ n < isendlen[c] /\ Put(c, n)
                  /\ isendlen' = [isendlen EXCEPT ![c] = @ - n]
               \/ wire' = wire /\ isendlen' = isendlen
        BY <1>22, Zenon DEF SendPart
      <3>2. wire'[d] = wire[d]
        <4>1. n \in Int BY <2>1, SendFacts
        <4>2. CASE 0 < n /\ Put(c, n)
          <5>1. n >= 0 BY <4>1, <4>2
          <5> QED BY <2>1, <2>2, <4>2, <5>1, PutFacts
        <4> QED BY <3>1, <4>2
      <3>3. isendlen'[d] = isendlen[d] BY <2>2, <3>1, <1>d DEF CountType
      <3>4. /\ psendMemPointer' = psendMemPointer /\ conn' = conn
            /\ pc'[Main] = pc[Main]
        BY <1>22, <1>b, ThreadFacts DEF SendPart, ThreadType
      <3> QED BY <2>2, <3>2, <3>3, <3>4 DEF HandSame, Unfinished, MainAt, SendAt
    <2> QED BY <1>22, <2>2 DEF Sends
  <1>23. ASSUME SendFails PROVE HandSame(d) \/ Sends(d)
    <2>1. conn[Send] \in Conns BY <1>23, ThreadFacts, HeldFacts DEF SendFails, Holds
    <2>2. conn[Send] # d BY <1>23, <2>1, SendFacts DEF SendFails
    <2>3. /\ psendMemPointer' = psendMemPointer
          /\ wire' = wire /\ isendlen' = isendlen /\ conn' = conn /\ pc'[Main] = pc[Main]
      BY <1>23, <1>b, ThreadFacts DEF SendFails, ThreadType
    <2> QED BY <2>2, <2>3 DEF HandSame, Unfinished, MainAt, SendAt
  <1>24. ASSUME SendDone PROVE HandSame(d) \/ Sends(d)
    <2> DEFINE c == conn[Send]
    <2>1. /\ psendMemPointer' = [psendMemPointer EXCEPT ![c] = NoBuf]
          /\ wire' = wire /\ isendlen' = isendlen /\ conn' = conn
          /\ pc[Send] \in {"sent", "failed"} /\ pc'[Send] = "scan" /\ pc'[Main] = pc[Main]
      BY <1>24, <1>b, ThreadFacts DEF SendDone, ThreadType
    <2>2. CASE c # d
      <3>1. psendMemPointer'[d] = psendMemPointer[d] BY <2>1, <2>2, <1>d DEF CountType
      <3> QED BY <2>1, <2>2, <3>1 DEF HandSame, Unfinished, MainAt, SendAt
    <2>3. CASE c = d
      <3>1. psendMemPointer'[d] = NoBuf BY <2>1, <2>3, <1>d DEF CountType
      <3>2. pc[Send] = "sent" BY <2>1, <2>3, <1>h DEF LockInvOf, SendAt
      <3> QED BY <2>1, <2>3, <3>1, <3>2 DEF HandSame, Unfinished, MainAt, SendAt
    <2> QED BY <2>2, <2>3
  <1>25. ASSUME SendMark PROVE HandSame(d) \/ Sends(d)
    BY <1>25, <1>a, <1>b, <1>c, <1>d, <1>e, <1>f, ThreadFacts DEF SendMark,
      HandSame, Unfinished, MainAt, SendAt, ThreadType, CountType, PcInv, ClosePcs,
      WritePcs, BusyPcs
  <1>26. ASSUME SendArm PROVE HandSame(d) \/ Sends(d)
    BY <1>26, <1>a, <1>b, <1>c, <1>d, <1>e, <1>f, ThreadFacts DEF SendArm, HandSame,
      Unfinished, MainAt, SendAt, ThreadType, CountType, PcInv, ClosePcs, WritePcs,
      BusyPcs
  <1>27. ASSUME NEW c \in Conns, Event(c) PROVE HandSame(d) \/ Sends(d)
    BY <1>27, <1>a, <1>b, <1>c, <1>d, <1>e, <1>f, ThreadFacts DEF Event, OutHalf,
      HandSame, Unfinished, MainAt, SendAt, ThreadType, CountType, PcInv, ClosePcs,
      WritePcs, BusyPcs
  <1>28. ASSUME ReadOn PROVE HandSame(d) \/ Sends(d)
    BY <1>28, <1>a, <1>b, <1>c, <1>d, <1>e, <1>f, ThreadFacts DEF ReadOn, HandSame,
      Unfinished, MainAt, SendAt, ThreadType, CountType, PcInv, ClosePcs, WritePcs,
      BusyPcs
  <1>29. ASSUME ReadCloses PROVE HandSame(d) \/ Sends(d)
    BY <1>29, <1>a, <1>b, <1>c, <1>d, <1>e, <1>f, ThreadFacts DEF ReadCloses,
      HandSame, Unfinished, MainAt, SendAt, ThreadType, CountType, PcInv, ClosePcs,
      WritePcs, BusyPcs
  <1>30. ASSUME OutHup PROVE HandSame(d) \/ Sends(d)
    BY <1>30, <1>a, <1>b, <1>c, <1>d, <1>e, <1>f, ThreadFacts DEF OutHup, Lower,
      HandSame, Unfinished, MainAt, SendAt, ThreadType, CountType, PcInv, ClosePcs,
      WritePcs, BusyPcs
  <1>31. ASSUME WriteAll PROVE HandSame(d) \/ Sends(d)
    <2> DEFINE c == conn[Main]
    <2>1. c \in Conns BY <1>31, ThreadFacts, HeldFacts DEF WriteAll, Holds
    <2>2. CASE c # d
      <3>1. /\ isendlen[c] \in SendResults(c) /\ isendlen[c] >= 0 /\ Put(c, isendlen[c])
            /\ isendlen' = isendlen
        BY <1>31, <2>1, IsendlenNat DEF WriteAll
      <3>2. wire'[d] = wire[d] /\ isendlen'[d] = isendlen[d] BY <2>1, <2>2, <3>1, PutFacts
      <3>4. /\ psendMemPointer' = psendMemPointer /\ conn' = conn
            /\ pc'[Send] = pc[Send]
        BY <1>31, <1>b, ThreadFacts DEF WriteAll, ThreadType
      <3> QED BY <2>2, <3>1, <3>2, <3>4 DEF HandSame, Unfinished, MainAt, SendAt
    <2> QED BY <1>31, <2>2 DEF Sends
  <1>32. ASSUME WritePart PROVE HandSame(d) \/ Sends(d)
    <2> DEFINE c == conn[Main]
    <2>1. c \in Conns BY <1>32, ThreadFacts, HeldFacts DEF WritePart, Holds
    <2>2. CASE c # d
      <3>1. PICK n \in SendResults(c) :
               \/ /\ 0 < n /\ n < isendlen[c] /\ Put(c, n)
                  /\ isendlen' = [isendlen EXCEPT ![c] = @ - n]
               \/ wire' = wire /\ isendlen' = isendlen
        BY <1>32, Zenon DEF WritePart
      <3>2. wire'[d] = wire[d]
        <4>1. n \in Int BY <2>1, SendFacts
        <4>2. CASE 0 < n /\ Put(c, n)
          <5>1. n >= 0 BY <4>1, <4>2
          <5> QED BY <2>1, <2>2, <4>2, <5>1, PutFacts
        <4> QED BY <3>1, <4>2
      <3>3. isendlen'[d] = isendlen[d] BY <2>2, <3>1, <1>d DEF CountType
      <3>4. /\ psendMemPointer' = psendMemPointer /\ conn' = conn
            /\ pc'[Send] = pc[Send]
        BY <1>32, <1>b, ThreadFacts DEF WritePart, ThreadType
      <3> QED BY <2>2, <3>2, <3>3, <3>4 DEF HandSame, Unfinished, MainAt, SendAt
    <2> QED BY <1>32, <2>2 DEF Sends
  <1>33. ASSUME WriteFails PROVE HandSame(d) \/ Sends(d)
    <2>1. conn[Main] \in Conns BY <1>33, ThreadFacts, HeldFacts DEF WriteFails, Holds
    <2>2. conn[Main] # d BY <1>33, <2>1, SendFacts DEF WriteFails
    <2>3. /\ psendMemPointer' = psendMemPointer
          /\ wire' = wire /\ isendlen' = isendlen /\ conn' = conn /\ pc'[Send] = pc[Send]
      BY <1>33, <1>b, ThreadFacts DEF WriteFails, ThreadType
    <2> QED BY <2>2, <2>3 DEF HandSame, Unfinished, MainAt, SendAt
  <1>34. ASSUME WriteDisarm PROVE HandSame(d) \/ Sends(d)
    BY <1>34, <1>a, <1>b, <1>c, <1>d, <1>e, <1>f, ThreadFacts DEF WriteDisarm,
      HandSame, Unfinished, MainAt, SendAt, ThreadType, CountType, PcInv, ClosePcs,
      WritePcs, BusyPcs
  <1>35. ASSUME WritePost PROVE HandSame(d) \/ Sends(d)
    BY <1>35, <1>a, <1>b, <1>c, <1>d, <1>e, <1>f, ThreadFacts DEF WritePost,
      HandSame, Unfinished, MainAt, SendAt, ThreadType, CountType, PcInv, ClosePcs,
      WritePcs, BusyPcs
  <1>36. ASSUME WriteFree PROVE HandSame(d) \/ Sends(d)
    BY <1>36, <1>a, <1>b, <1>c, <1>d, <1>e, <1>f, ThreadFacts DEF WriteFree,
      HandSame, Unfinished, MainAt, SendAt, ThreadType, CountType, PcInv, ClosePcs,
      WritePcs, BusyPcs
  <1>37. ASSUME WriteUnmark PROVE HandSame(d) \/ Sends(d)
    BY <1>37, <1>a, <1>b, <1>c, <1>d, <1>e, <1>f, ThreadFacts DEF WriteUnmark,
      Lower, HandSame, Unfinished, MainAt, SendAt, ThreadType, CountType, PcInv,
      ClosePcs, WritePcs, BusyPcs
  <1>38. CASE UNCHANGED vars
    BY <1>38, <1>a, <1>b, <1>c, <1>d, <1>e, <1>f, ThreadFacts DEF vars, HandSame,
      Unfinished, MainAt, SendAt, ThreadType, CountType, PcInv, ClosePcs, WritePcs,
      BusyPcs
  <1> QED BY <1>1, <1>2, <1>3, <1>4, <1>5, <1>6, <1>7, <1>8, <1>9, <1>10, <1>11,
       <1>12, <1>13, <1>14, <1>15, <1>16, <1>17, <1>18, <1>19, <1>20, <1>21, <1>22,
       <1>23, <1>24, <1>25, <1>26, <1>27, <1>28, <1>29, <1>30, <1>31, <1>32, <1>33,
       <1>34, <1>35, <1>36, <1>37, <1>38 DEF Next, PoolStep, CloseStep, SendStep,
       WriteStep, Stopped

(* An open connection has whole packets, and the packet in hand at the     *)
(* end.                                                                    *)
LEMMA WireStepOf ==
  ASSUME IInv, [Next]_vars, NEW d \in Conns, Open(d), Open(d)'
  PROVE  WireInvOf(d)' /\ Whole(wire'[d])
  <1>1. WireInvOf(d) /\ LockInvOf(d) /\ Out \subseteq Out'
    BY OutOfQueue DEF IInv, WireInv, LockInv, Lowered, Open
  <1>2. ThreadType /\ CountType BY TypeParts DEF IInv
  <1>3. Whole(wire[d]) BY DEF IInv, WholePackets, Whole, Open
  <1>4. CASE HandSame(d)
    <2>1. \A i \in DOMAIN wire'[d] : wire'[d][i] \in Out'
      BY <1>1, <1>4 DEF HandSame, WireInvOf, Out
    <2> QED BY <1>1, <1>3, <1>4, <2>1 DEF HandSame, WireInvOf, Out
  <1>5. CASE ScanTake /\ Scanned.conn = d
    <2>1. /\ ~Marked(d) /\ ~Stale /\ pos <= Len(sendQueue) /\ pc[Send] = "scan"
          /\ wire' = wire /\ psendMemPointer'[d] = sendQueue[pos] /\ isendlen'[d] = PacketLen
          /\ conn'[Send] = d /\ pc'[Send] = "send"
          /\ conn'[Main] = conn[Main] /\ pc'[Main] = pc[Main]
      BY <1>2, <1>5, ThreadFacts DEF ScanTake, ThreadType, CountType,
      queueVars, objectVars, threadVars, socketVars, boundVars, Goto
    <2>2. sendQueue[pos] \in Queued /\ sendQueue[pos] # NoBuf
      BY <2>1, ScanFacts DEF Queued, Buffers, NoBuf
    <2>3. psendMemPointer[d] = NoBuf BY <1>5, <2>1, TakeFree DEF Lowered, Open
    <2>4. ~Unfinished(d) /\ ~Writing(d) BY <1>1, <2>3 DEF Unfinished, LockInvOf, Pending
    <2>5. Unfinished(d)'
      BY <2>1, <2>2, <2>4 DEF Unfinished, Writing, WritePcs, SendAt, MainAt
    <2>6. \A i \in DOMAIN wire'[d] : wire'[d][i] \in Out' /\ wire'[d][i] # psendMemPointer'[d]
      BY <1>1, <2>1, <2>2 DEF WireInvOf, Out
    <2>7. PICK k \in Nat : Len(wire[d]) = PacketLen * k BY <1>1, <2>4 DEF WireInvOf
    <2>8. /\ Len(wire'[d]) + isendlen'[d] = PacketLen * k + PacketLen /\ isendlen'[d] >= 1
          /\ \A i \in DOMAIN wire'[d] : ~(i > PacketLen * k)
      <3>1. DOMAIN wire[d] = 1 .. Len(wire[d]) BY DEF IInv, TypeOK
      <3>2. PacketLen * k \in Nat /\ PacketLen >= 1 BY SendAssumption
      <3> QED BY <2>1, <2>7, <3>1, <3>2
    <2> QED BY <1>3, <2>1, <2>5, <2>6, <2>8 DEF WireInvOf, Out
  <1>6. ASSUME NEW n \in SendResults(d), n >= 0, Put(d, n), Unfinished(d),
               psendMemPointer' = psendMemPointer,
               \/ ~Unfinished(d)' /\ n = isendlen[d]
               \/ Unfinished(d)' /\ n < isendlen[d] /\ isendlen'[d] = isendlen[d] - n
        PROVE  WireInvOf(d)' /\ Whole(wire'[d])
    <2>1. Whole(wire'[d]) /\ \A i \in DOMAIN wire'[d] : wire'[d][i] \in Out
      BY <1>3, <1>6, PutWhole DEF Out
    <2>2. PICK k \in Nat :
             /\ Len(wire'[d]) + (isendlen[d] - n) = PacketLen * k + PacketLen
             /\ \A i \in DOMAIN wire'[d] : i > PacketLen * k <=> wire'[d][i] = psendMemPointer[d]
      BY <1>3, <1>6, PutWhole
    <2>3. \A i \in DOMAIN wire'[d] : wire'[d][i] \in Out' BY <1>1, <2>1
    <2>4. n \in Nat /\ isendlen[d] \in Nat /\ Len(wire'[d]) \in Nat
      BY <1>6, PutFacts, IsendlenNat
    <2>5. CASE ~Unfinished(d)' /\ n = isendlen[d]
      <3>1. Len(wire'[d]) = PacketLen * (k + 1) BY <2>2, <2>4, <2>5, SendAssumption
      <3> QED BY <2>1, <2>3, <2>5, <3>1 DEF WireInvOf, Out
    <2>6. CASE Unfinished(d)' /\ n < isendlen[d] /\ isendlen'[d] = isendlen[d] - n
      <3>1. isendlen'[d] >= 1 /\ Len(wire'[d]) + isendlen'[d] = PacketLen * k + PacketLen
        BY <2>2, <2>4, <2>6
      <3>2. \A i \in DOMAIN wire'[d] : i > PacketLen * k <=> wire'[d][i] = psendMemPointer'[d]
        BY <1>6, <2>2
      <3> QED BY <2>1, <2>3, <2>6, <3>1, <3>2 DEF WireInvOf, Out
    <2> QED BY <1>6, <2>5, <2>6
  <1>7. CASE SendAll /\ conn[Send] = d
    <2>1. /\ pc[Send] = "send" /\ pc'[Send] = "sent" /\ pc'[Main] = pc[Main]
          /\ conn' = conn /\ psendMemPointer' = psendMemPointer
      BY <1>2, <1>7, ThreadFacts DEF SendAll, ThreadType,
         queueVars, objectVars, threadVars, socketVars, boundVars, Goto
    <2>2. SenderBusy(d) /\ psendMemPointer[d] # NoBuf /\ ~Writing(d)
      BY <1>1, <1>7, <2>1 DEF SenderBusy, LockInvOf, Pending
    <2>3. Unfinished(d) /\ ~Unfinished(d)'
      BY <1>7, <2>1, <2>2 DEF Unfinished, Writing, WritePcs, SendAt, MainAt
    <2>4. isendlen[d] \in SendResults(d) /\ Put(d, isendlen[d]) /\ isendlen[d] >= 0
      BY <1>7, IsendlenNat DEF SendAll
    <2> QED BY <1>6, <2>1, <2>3, <2>4
  <1>8. CASE SendPart /\ conn[Send] = d
    <2>1. /\ pc[Send] = "send" /\ pc'[Send] = "mark" /\ pc'[Main] = pc[Main]
          /\ conn' = conn /\ psendMemPointer' = psendMemPointer
      BY <1>2, <1>8, ThreadFacts DEF SendPart, ThreadType,
         queueVars, objectVars, threadVars, socketVars, boundVars, Goto
    <2>2. SenderBusy(d) /\ psendMemPointer[d] # NoBuf /\ ~Writing(d)
      BY <1>1, <1>8, <2>1 DEF SenderBusy, LockInvOf, Pending
    <2>3. Unfinished(d) /\ Unfinished(d)'
      BY <1>8, <2>1, <2>2 DEF Unfinished, Writing, WritePcs, SendAt, MainAt
    <2>4. PICK n \in SendResults(d) :
             \/ 0 < n /\ n < isendlen[d] /\ Put(d, n) /\ isendlen' = [isendlen EXCEPT ![d] = @ - n]
             \/ wire' = wire /\ isendlen' = isendlen
      BY <1>8, Zenon DEF SendPart
    <2>5. CASE wire' = wire /\ isendlen' = isendlen
      BY <1>4, <2>1, <2>3, <2>5 DEF HandSame
    <2>6. CASE 0 < n /\ n < isendlen[d] /\ Put(d, n) /\ isendlen' = [isendlen EXCEPT ![d] = @ - n]
      <3>1. n \in Int /\ isendlen \in [Conns -> 0 .. PacketLen]
        BY SendFacts, <1>2 DEF CountType
      <3>2. n >= 0 BY <3>1, <2>6
      <3>3. isendlen'[d] = isendlen[d] - n BY <2>6, <3>1
      <3> QED BY <1>6, <2>1, <2>3, <2>6, <3>2, <3>3
    <2> QED BY <2>4, <2>5, <2>6
  <1>9. CASE WriteAll /\ conn[Main] = d
    <2>1. /\ pc[Main] = "write" /\ pc'[Main] = "disarm" /\ pc'[Send] = pc[Send]
          /\ conn' = conn /\ psendMemPointer' = psendMemPointer
      BY <1>2, <1>9, ThreadFacts DEF WriteAll, ThreadType,
         queueVars, objectVars, threadVars, socketVars, boundVars, Goto
    <2>2. Pending(d) BY <1>1, <1>9, <2>1 DEF Writing, WritePcs, LockInvOf
    <2>3. Unfinished(d) /\ ~Unfinished(d)'
      BY <1>9, <2>1, <2>2 DEF Unfinished, Pending, SenderBusy, SendAt, MainAt
    <2>4. isendlen[d] \in SendResults(d) /\ Put(d, isendlen[d]) /\ isendlen[d] >= 0
      BY <1>9, IsendlenNat DEF WriteAll
    <2> QED BY <1>6, <2>1, <2>3, <2>4
  <1>10. CASE WritePart /\ conn[Main] = d
    <2>1. /\ pc[Main] = "write" /\ pc'[Main] = "idle" /\ pc'[Send] = pc[Send]
          /\ conn' = conn /\ psendMemPointer' = psendMemPointer
      BY <1>2, <1>10, ThreadFacts DEF WritePart, ThreadType,
         queueVars, objectVars, threadVars, socketVars, boundVars, Goto
    <2>2. Pending(d) BY <1>1, <1>10, <2>1 DEF Writing, WritePcs, LockInvOf
    <2>3. Unfinished(d) /\ Unfinished(d)'
      BY <1>10, <2>1, <2>2 DEF Unfinished, Pending, SenderBusy, SendAt, MainAt
    <2>4. PICK n \in SendResults(d) :
             \/ 0 < n /\ n < isendlen[d] /\ Put(d, n) /\ isendlen' = [isendlen EXCEPT ![d] = @ - n]
             \/ wire' = wire /\ isendlen' = isendlen
      BY <1>10, Zenon DEF WritePart
    <2>5. CASE wire' = wire /\ isendlen' = isendlen
      BY <1>4, <2>1, <2>3, <2>5 DEF HandSame
    <2>6. CASE 0 < n /\ n < isendlen[d] /\ Put(d, n) /\ isendlen' = [isendlen EXCEPT ![d] = @ - n]
      <3>1. n \in Int /\ isendlen \in [Conns -> 0 .. PacketLen]
        BY SendFacts, <1>2 DEF CountType
      <3>2. n >= 0 BY <3>1, <2>6
      <3>3. isendlen'[d] = isendlen[d] - n BY <2>6, <3>1
      <3> QED BY <1>6, <2>1, <2>3, <2>6, <3>2, <3>3
    <2> QED BY <2>4, <2>5, <2>6
  <1> QED BY <1>4, <1>5, <1>7, <1>8, <1>9, <1>10, HandStep DEF Sends

(* Nothing is written to a connection that is closed or being closed.      *)
LEMMA WireClosed ==
  ASSUME IInv, [Next]_vars, NEW d \in Conns, ~AcceptConn(d), ~connected[d] \/ ~connected'[d]
  PROVE  wire'[d] = wire[d]
  <1> USE DEF queueVars, objectVars, threadVars, socketVars, boundVars, Goto
  <1>a. SocketType BY TypeParts DEF IInv
  <1>1. ASSUME NEW c \in Conns, AcceptConn(c) PROVE wire'[d] = wire[d]
    BY <1>1, <1>a, ThreadFacts DEF AcceptConn, SocketType
  <1>2. ASSUME NEW c \in Conns, FreeConnection(c) PROVE wire'[d] = wire[d]
    BY <1>2, <1>a, ThreadFacts DEF FreeConnection, Held, SocketType
  <1>3. ASSUME NEW c \in Conns, ClientReads(c) PROVE wire'[d] = wire[d]
    BY <1>3, <1>a, ThreadFacts DEF ClientReads, SocketType
  <1>4. ASSUME NEW c \in Conns, ClientLeaves(c) PROVE wire'[d] = wire[d]
    BY <1>4, <1>a, ThreadFacts DEF ClientLeaves, SocketType
  <1>5. ASSUME NEW t \in PoolThreads, Request(t) PROVE wire'[d] = wire[d]
    BY <1>5, <1>a, ThreadFacts DEF Request, SocketType
  <1>6. ASSUME NEW t \in PoolThreads, MsgDiscard(t) PROVE wire'[d] = wire[d]
    BY <1>6, <1>a, ThreadFacts DEF MsgDiscard, TooManyQueued, SocketType
  <1>7. ASSUME NEW t \in PoolThreads, MsgSend(t) PROVE wire'[d] = wire[d]
    BY <1>7, <1>a, ThreadFacts DEF MsgSend, TooManyQueued, TooSlow, SocketType
  <1>8. ASSUME NEW t \in PoolThreads, MsgCutOff(t) PROVE wire'[d] = wire[d]
    BY <1>8, <1>a, ThreadFacts DEF MsgCutOff, TooManyQueued, TooSlow, SocketType
  <1>9. ASSUME NEW t \in Closers, ZdClose(t) PROVE wire'[d] = wire[d]
    BY <1>9, <1>a, ThreadFacts DEF ZdClose, SocketType
  <1>10. ASSUME NEW t \in Closers, ZdTestThrow(t) PROVE wire'[d] = wire[d]
    BY <1>10, <1>a, ThreadFacts DEF ZdTestThrow, SocketType
  <1>11. ASSUME NEW t \in Closers, ZdLowerThrow(t) PROVE wire'[d] = wire[d]
    BY <1>11, <1>a, ThreadFacts DEF ZdLowerThrow, Lower, SocketType
  <1>12. ASSUME NEW t \in Closers, InRecyConnectQueue(t) PROVE wire'[d] = wire[d]
    BY <1>12, <1>a, ThreadFacts DEF InRecyConnectQueue, SocketType
  <1>13. ASSUME KickClient PROVE wire'[d] = wire[d]
    BY <1>13, <1>a, ThreadFacts DEF KickClient, SocketType
  <1>14. ASSUME SemWait PROVE wire'[d] = wire[d]
    BY <1>14, <1>a, ThreadFacts DEF SemWait, SocketType
  <1>15. ASSUME QueueEmpty PROVE wire'[d] = wire[d]
    BY <1>15, <1>a, ThreadFacts DEF QueueEmpty, SocketType
  <1>16. ASSUME LockQueue PROVE wire'[d] = wire[d]
    BY <1>16, <1>a, ThreadFacts DEF LockQueue, SocketType
  <1>17. ASSUME ScanStale PROVE wire'[d] = wire[d]
    BY <1>17, <1>a, ThreadFacts DEF ScanStale, Erase, Scanned, Stale, SocketType
  <1>18. ASSUME ScanSkip PROVE wire'[d] = wire[d]
    BY <1>18, <1>a, ThreadFacts DEF ScanSkip, Marked, Scanned, Stale, SocketType
  <1>19. ASSUME ScanTake PROVE wire'[d] = wire[d]
    BY <1>19, <1>a, ThreadFacts DEF ScanTake, Marked, Erase, Scanned, Stale,
      SocketType
  <1>20. ASSUME ScanEnd PROVE wire'[d] = wire[d]
    BY <1>20, <1>a, ThreadFacts DEF ScanEnd, SocketType
  <1>21. ASSUME SendAll PROVE wire'[d] = wire[d]
    <2> DEFINE c == conn[Send]
    <2>1. /\ isendlen[c] \in SendResults(c) /\ Put(c, isendlen[c]) /\ connected' = connected
      BY <1>21 DEF SendAll
    <2>2. c \in Conns BY <1>21, ThreadFacts, HeldFacts DEF SendAll, Holds
    <2>3. isendlen[c] >= 0 BY <2>2, IsendlenNat
    <2>4. connected[c] BY <2>1, <2>2, <2>3, PutFacts
    <2>5. c # d BY <2>1, <2>4
    <2> QED BY <2>1, <2>2, <2>3, <2>5, PutFacts
  <1>22. ASSUME SendPart PROVE wire'[d] = wire[d]
    <2> DEFINE c == conn[Send]
    <2>1. PICK n \in SendResults(c) : (0 < n /\ Put(c, n)) \/ wire' = wire
      BY <1>22, Zenon DEF SendPart
    <2>2. c \in Conns BY <1>22, ThreadFacts, HeldFacts DEF SendPart, Holds
    <2>3. connected' = connected BY <1>22 DEF SendPart
    <2>4. CASE 0 < n /\ Put(c, n)
      <3>1. n \in Int BY <2>2, SendFacts
      <3>2. n >= 0 BY <2>4, <3>1
      <3>3. connected[c] BY <2>2, <2>4, <3>2, PutFacts
      <3>4. c # d BY <2>3, <3>3
      <3> QED BY <2>2, <2>4, <3>2, <3>4, PutFacts
    <2> QED BY <2>1, <2>4
  <1>23. ASSUME SendFails PROVE wire'[d] = wire[d]
    BY <1>23, <1>a, ThreadFacts DEF SendFails, SendResults, SocketType
  <1>24. ASSUME SendDone PROVE wire'[d] = wire[d]
    BY <1>24, <1>a, ThreadFacts DEF SendDone, SocketType
  <1>25. ASSUME SendMark PROVE wire'[d] = wire[d]
    BY <1>25, <1>a, ThreadFacts DEF SendMark, SocketType
  <1>26. ASSUME SendArm PROVE wire'[d] = wire[d]
    BY <1>26, <1>a, ThreadFacts DEF SendArm, SocketType
  <1>27. ASSUME NEW c \in Conns, Event(c) PROVE wire'[d] = wire[d]
    BY <1>27, <1>a, ThreadFacts DEF Event, OutHalf, SocketType
  <1>28. ASSUME ReadOn PROVE wire'[d] = wire[d]
    BY <1>28, <1>a, ThreadFacts DEF ReadOn, SocketType
  <1>29. ASSUME ReadCloses PROVE wire'[d] = wire[d]
    BY <1>29, <1>a, ThreadFacts DEF ReadCloses, SocketType
  <1>30. ASSUME OutHup PROVE wire'[d] = wire[d]
    BY <1>30, <1>a, ThreadFacts DEF OutHup, Lower, SocketType
  <1>31. ASSUME WriteAll PROVE wire'[d] = wire[d]
    <2> DEFINE c == conn[Main]
    <2>1. /\ isendlen[c] \in SendResults(c) /\ Put(c, isendlen[c]) /\ connected' = connected
      BY <1>31 DEF WriteAll
    <2>2. c \in Conns BY <1>31, ThreadFacts, HeldFacts DEF WriteAll, Holds
    <2>3. isendlen[c] >= 0 BY <2>2, IsendlenNat
    <2>4. connected[c] BY <2>1, <2>2, <2>3, PutFacts
    <2>5. c # d BY <2>1, <2>4
    <2> QED BY <2>1, <2>2, <2>3, <2>5, PutFacts
  <1>32. ASSUME WritePart PROVE wire'[d] = wire[d]
    <2> DEFINE c == conn[Main]
    <2>1. PICK n \in SendResults(c) : (0 < n /\ Put(c, n)) \/ wire' = wire
      BY <1>32, Zenon DEF WritePart
    <2>2. c \in Conns BY <1>32, ThreadFacts, HeldFacts DEF WritePart, Holds
    <2>3. connected' = connected BY <1>32 DEF WritePart
    <2>4. CASE 0 < n /\ Put(c, n)
      <3>1. n \in Int BY <2>2, SendFacts
      <3>2. n >= 0 BY <2>4, <3>1
      <3>3. connected[c] BY <2>2, <2>4, <3>2, PutFacts
      <3>4. c # d BY <2>3, <3>3
      <3> QED BY <2>2, <2>4, <3>2, <3>4, PutFacts
    <2> QED BY <2>1, <2>4
  <1>33. ASSUME WriteFails PROVE wire'[d] = wire[d]
    BY <1>33, <1>a, ThreadFacts DEF WriteFails, SendResults, SocketType
  <1>34. ASSUME WriteDisarm PROVE wire'[d] = wire[d]
    BY <1>34, <1>a, ThreadFacts DEF WriteDisarm, SocketType
  <1>35. ASSUME WritePost PROVE wire'[d] = wire[d]
    BY <1>35, <1>a, ThreadFacts DEF WritePost, SocketType
  <1>36. ASSUME WriteFree PROVE wire'[d] = wire[d]
    BY <1>36, <1>a, ThreadFacts DEF WriteFree, SocketType
  <1>37. ASSUME WriteUnmark PROVE wire'[d] = wire[d]
    BY <1>37, <1>a, ThreadFacts DEF WriteUnmark, Lower, SocketType
  <1>38. CASE UNCHANGED vars
    BY <1>38, <1>a, ThreadFacts DEF vars, SocketType
  <1> QED BY <1>1, <1>2, <1>3, <1>4, <1>5, <1>6, <1>7, <1>8, <1>9, <1>10, <1>11,
       <1>12, <1>13, <1>14, <1>15, <1>16, <1>17, <1>18, <1>19, <1>20, <1>21, <1>22,
       <1>23, <1>24, <1>25, <1>26, <1>27, <1>28, <1>29, <1>30, <1>31, <1>32, <1>33,
       <1>34, <1>35, <1>36, <1>37, <1>38 DEF Next, PoolStep, CloseStep, SendStep,
       WriteStep, Stopped

(* The wire of a connection that was just accepted is empty.               *)
LEMMA AcceptWire ==
  ASSUME IInv, NEW d \in Conns, AcceptConn(d)
  PROVE  WireInvOf(d)' /\ Whole(wire'[d])
  <1>1. wire'[d] = <<>> /\ psendMemPointer'[d] = NoBuf
    BY TypeParts DEF AcceptConn, IInv, SocketType, CountType
  <1>2. DOMAIN wire'[d] = {} /\ Len(wire'[d]) = 0 BY <1>1
  <1>3. 0 \in Nat /\ Len(wire'[d]) = PacketLen * 0 BY <1>2, SendAssumption
  <1> QED BY <1>1, <1>2, <1>3 DEF WireInvOf, Whole, Unfinished

(* Every step keeps WireInv.                                               *)
LEMMA WireStep == ASSUME IInv, [Next]_vars PROVE WireInv'
  <1> SUFFICES ASSUME NEW d \in Conns, Open(d)' PROVE WireInvOf(d)'
    BY DEF WireInv
  <1>1. CASE AcceptConn(d) BY <1>1, AcceptWire
  <1>2. CASE ~AcceptConn(d)
    <2>1. NotOpened(d) BY <1>2, Unopened
    <2>2. Open(d) BY <2>1 DEF Open, NotOpened
    <2> QED BY <2>2, WireStepOf
  <1> QED BY <1>1, <1>2

(* Every step keeps packets whole, also those of a connection closed       *)
(* meanwhile.                                                              *)
LEMMA WholeStep == ASSUME IInv, [Next]_vars PROVE WholePackets'
  <1> SUFFICES ASSUME NEW d \in Conns, peer'[d] = "there" PROVE Whole(wire'[d])
    BY DEF WholePackets, Whole
  <1>1. CASE AcceptConn(d) BY <1>1, AcceptWire
  <1>2. CASE ~AcceptConn(d)
    <2>1. NotOpened(d) BY <1>2, Unopened
    <2>2. peer[d] = "there" BY <2>1 DEF NotOpened
    <2>3. Whole(wire[d]) BY <2>2 DEF IInv, WholePackets, Whole
    <2>4. CASE connected[d] /\ connected'[d]
      <3>1. Open(d) /\ Open(d)' BY <2>2, <2>4 DEF Open
      <3> QED BY <3>1, WireStepOf
    <2>5. CASE ~connected[d] \/ ~connected'[d] BY <1>2, <2>3, <2>5, WireClosed
    <2> QED BY <2>4, <2>5
  <1> QED BY <1>1, <1>2

-----------------------------------------------------------------------------
(* The invariant.                                                          *)

(* It holds at the start.                                                  *)
LEMMA InitIInv == Init => IInv
  <1> SUFFICES ASSUME Init PROVE IInv
    OBVIOUS
  <1>1. /\ \A t \in Threads : pc[t] = "idle" /\ conn[t] = NoConn
        /\ \A c \in Conns : /\ psendMemPointer[c] = NoBuf /\ iThrowsendCount[c] = 0
                            /\ ~connected[c] /\ ~epollOut[c] /\ place[c] = "free"
                            /\ wire[c] = <<>>
        /\ after = "idle" /\ mutex = NoThread /\ sendQueue = <<>> /\ buf = <<>>
        /\ allocated = {} /\ unmarked = {}
    BY DEF Init
  <1>2. Queued = {} /\ DOMAIN buf = {} /\ DOMAIN sendQueue = {} BY <1>1 DEF Queued
  <1>3. TypeOK
    <2>1. QueueType
      <3>1. <<>> \in Seq(Buffers) /\ <<>> \in Seq([conn : Conns, sequence : Nat])
        OBVIOUS
      <3>2. Len(buf) <= MaxBuffers BY <1>1, SendAssumption
      <3> QED BY <3>1, <3>2 DEF Init, QueueType
    <2>2. ListType BY DEF Init, ListType
    <2>3. CountType
      <3>1. 0 \in 0 .. PacketLen BY SendAssumption
      <3> QED BY <3>1 DEF Init, CountType, NoBuf
    <2>4. ThreadType BY DEF Init, ThreadType
    <2>5. SocketType
      <3>1. Room \in 0 .. Room BY SendAssumption
      <3>2. <<>> \in Seq(Buffers \cup {NoBuf}) OBVIOUS
      <3> QED BY <3>1, <3>2 DEF Init, SocketType
    <2> QED BY <2>1, <2>2, <2>3, <2>4, <2>5, TypeParts
  <1>4. PcInv BY <1>1, ThreadFacts, SendAssumption DEF PcInv, BusyPcs
  <1>5. MadeInv
    <2>1. Replying = {} BY <1>1, ThreadFacts DEF Replying
    <2> QED BY <1>1, <2>1, FS_EmptySet, SendAssumption DEF MadeInv
  <1>6. HoldInv
    BY <1>1, ThreadFacts, SendAssumption
       DEF HoldInv, HeldInv, StampInv, LimitInv, HangInv, HangingUp, Holds, ClosePcs
  <1>7. BufferInv BY <1>1, <1>2 DEF BufferInv, QueueInv, AgeInv, NameInv, OwnInv
  <1>8. LockInv
    BY <1>1, ThreadFacts DEF LockInv, LockInvOf, Pending, Writing, MainAt, SendAt,
       SenderBusy,
       WritePcs, ClosePcs
  <1>9. WireInv BY <1>1 DEF WireInv, Open
  <1>10. WholePackets
    <2>1. \A c \in Conns : DOMAIN wire[c] = {} BY <1>1
    <2> QED BY <2>1 DEF WholePackets
  <1> QED BY <1>3, <1>4, <1>5, <1>6, <1>7, <1>8, <1>9, <1>10 DEF IInv

(* Every step keeps it.                                                    *)
LEMMA StepIInv == IInv /\ [Next]_vars => IInv'
  BY TypeStep, PcStep, MadeStep, HoldStep, BufferStep, LockStep, WireStep, WholeStep DEF
     IInv

(* Every reachable state satisfies IInv.                                   *)
THEOREM Inductive == Spec => []IInv
  BY InitIInv, StepIInv, PTL DEF Spec

(* All variables keep the type TypeOK gives them.                          *)
THEOREM TypeCorrect == Spec => []TypeOK
  <1>1. IInv => TypeOK BY DEF IInv
  <1> QED BY <1>1, Inductive, PTL

(* A client that is there receives whole packets, each at most once,       *)
(* although ServerSendQueueThread and the epoll thread both write to its   *)
(* socket and other threads may be closing it.                             *)
THEOREM WholeReceived == Spec => []WholePackets
  <1>1. IInv => WholePackets BY DEF IInv
  <1> QED BY <1>1, Inductive, PTL

(* iThrowsendCount works as a lock over psendMemPointer, psendbuf and      *)
(* isendlen, of any number of connections and against any number of        *)
(* closing threads, except where the counter was lowered over unsent bytes *)
(* of a connection that is no longer open.                                 *)
THEOREM NeverTwoSenders == Spec => []OneSender
  <1>1. ASSUME IInv PROVE OneSender
    <2> SUFFICES ASSUME NEW c \in Conns, ~Lowered(c), SenderBusy(c), WriterBusy(c)
                 PROVE  FALSE
      BY DEF OneSender
    <2>1. LockInvOf(c) BY <1>1 DEF IInv, LockInv
    <2>2. Writing(c) BY DEF WriterBusy, Writing, WritePcs
    <2> QED BY <2>1, <2>2 DEF LockInvOf, Pending
  <1> QED BY <1>1, Inductive, PTL

(* A queued packet is not freed; a packet taken out of the queue is named  *)
(* by its object until it is freed, once.                                  *)
THEOREM BuffersAccounted == Spec => []BuffersOwned
  <1>1. ASSUME IInv PROVE BuffersOwned
    <2>1. Queued \subseteq allocated BY <1>1 DEF IInv, BufferInv, QueueInv
    <2>2. ASSUME NEW c \in Conns \ unmarked, psendMemPointer[c] # NoBuf
          PROVE  psendMemPointer[c] \in allocated \ Queued
      BY <1>1, <2>2 DEF IInv, BufferInv, OwnInv, NameInv
    <2>3. ASSUME NEW c \in Conns \ unmarked, NEW b \in allocated \ Queued, buf[b].conn = c
          PROVE  psendMemPointer[c] = b
      BY <1>1, <2>3 DEF IInv, BufferInv, OwnInv
    <2> QED BY <2>1, <2>2, <2>3 DEF BuffersOwned
  <1> QED BY <1>1, Inductive, PTL

-----------------------------------------------------------------------------
(* The counter of the packets queued for a connection.                     *)

(* The queued packets of the object that a scan would send.                *)
Current(c) == {b \in Queued : buf[b].conn = c /\ buf[b].sequence = sequence[c]}
Counted(c) == place[c] = "use" => iSendCount[c] = Cardinality(Current(c))
CountInv == \A c \in Conns : Counted(c)

(* A step that leaves alone what is counted and its counter.               *)
CountSame(d) ==
    place'[d] = "use" =>
        place[d] = "use" /\ iSendCount'[d] = iSendCount[d] /\ Current(d)' = Current(d)

Counts(d) ==
    \/ AcceptConn(d)
    \/ \E t \in PoolThreads : MsgSend(t) /\ conn[t] = d
    \/ ScanTake /\ Scanned.conn = d

(* Accepting, msgSend and ScanTake are all that changes the count.         *)
LEMMA CountStays ==
  ASSUME IInv, [Next]_vars, NEW d \in Conns
  PROVE  CountSame(d) \/ Counts(d)
  <1> USE DEF queueVars, objectVars, threadVars, socketVars, boundVars, Goto
  <1>a. ListType BY TypeParts DEF IInv
  <1>b. CountType BY TypeParts DEF IInv
  <1>c. \A x \in Queued : x \in DOMAIN buf BY QueuedFacts DEF Queued
  <1>1. ASSUME NEW c \in Conns, AcceptConn(c) PROVE CountSame(d) \/ Counts(d)
    <2>1. CASE c = d BY <1>1, <2>1 DEF Counts
    <2>2. CASE c # d
      <3>1. /\ place'[d] = place[d] /\ iSendCount'[d] = iSendCount[d] /\ sequence'[d] = sequence[d]
            /\ Queued' = Queued /\ buf' = buf
        BY <1>1, <2>2, <1>a, <1>b DEF AcceptConn, ListType, CountType, Queued
      <3> QED BY <3>1 DEF CountSame, Current
    <2> QED BY <2>1, <2>2
  <1>2. ASSUME NEW c \in Conns, FreeConnection(c) PROVE CountSame(d) \/ Counts(d)
    <2>1. /\ place'[c] = "free" /\ (c # d => sequence'[d] = sequence[d] /\ place'[d] = place[d])
          /\ iSendCount' = iSendCount /\ Queued' = Queued /\ buf' = buf
      BY <1>2, <1>a DEF FreeConnection, ListType, Queued
    <2> QED BY <2>1 DEF CountSame, Current
  <1>3. ASSUME NEW c \in Conns, ClientReads(c) PROVE CountSame(d) \/ Counts(d)
    BY <1>3, <1>a, <1>b, ThreadFacts DEF ClientReads, CountSame, Current, Queued
  <1>4. ASSUME NEW c \in Conns, ClientLeaves(c) PROVE CountSame(d) \/ Counts(d)
    BY <1>4, <1>a, <1>b, ThreadFacts DEF ClientLeaves, CountSame, Current, Queued
  <1>5. ASSUME NEW t \in PoolThreads, Request(t) PROVE CountSame(d) \/ Counts(d)
    BY <1>5, <1>a, <1>b, ThreadFacts DEF Request, CountSame, Current, Queued
  <1>6. ASSUME NEW t \in PoolThreads, MsgDiscard(t) PROVE CountSame(d) \/ Counts(d)
    BY <1>6, <1>a, <1>b, ThreadFacts DEF MsgDiscard, TooManyQueued, CountSame,
      Current, Queued
  <1>7. ASSUME NEW t \in PoolThreads, MsgSend(t) PROVE CountSame(d) \/ Counts(d)
    <2>1. CASE conn[t] = d BY <1>7, <2>1 DEF Counts
    <2>2. CASE conn[t] # d
      <3> DEFINE b == Len(buf) + 1
                 m == [conn |-> conn[t], sequence |-> request[t]]
      <3>1. /\ b \in Buffers /\ m \in [conn : Conns, sequence : Nat]
            /\ buf' = Append(buf, m) /\ sendQueue' = Append(sendQueue, b)
            /\ m.conn # d
        BY <1>7, <2>2, SentFacts
      <3>2. /\ Queued' = Queued \cup {b} /\ buf'[b] = m
            /\ \A x \in DOMAIN buf : buf'[x] = buf[x]
        BY <3>1, QueueAppended
      <3>3. place' = place /\ sequence' = sequence /\ iSendCount'[d] = iSendCount[d]
        BY <1>7, <2>2, <1>b DEF MsgSend, CountType
      <3> HIDE DEF b, m
      <3>4. Current(d)' = Current(d) BY <3>1, <3>2, <3>3, <1>c DEF Current
      <3> QED BY <3>3, <3>4 DEF CountSame
    <2> QED BY <2>1, <2>2
  <1>8. ASSUME NEW t \in PoolThreads, MsgCutOff(t) PROVE CountSame(d) \/ Counts(d)
    BY <1>8, <1>a, <1>b, ThreadFacts DEF MsgCutOff, TooManyQueued, TooSlow,
      CountSame, Current, Queued
  <1>9. ASSUME NEW t \in Closers, ZdClose(t) PROVE CountSame(d) \/ Counts(d)
    BY <1>9, <1>a, <1>b, ThreadFacts DEF ZdClose, CountSame, Current, Queued
  <1>10. ASSUME NEW t \in Closers, ZdTestThrow(t) PROVE CountSame(d) \/ Counts(d)
    BY <1>10, <1>a, <1>b, ThreadFacts DEF ZdTestThrow, CountSame, Current, Queued
  <1>11. ASSUME NEW t \in Closers, ZdLowerThrow(t) PROVE CountSame(d) \/ Counts(d)
    BY <1>11, <1>a, <1>b, ThreadFacts DEF ZdLowerThrow, Lower, CountSame, Current,
      Queued
  <1>12. ASSUME NEW t \in Closers, InRecyConnectQueue(t) PROVE CountSame(d) \/ Counts(d)
    <2>1. /\ place'[d] = "use" => place[d] = "use" /\ sequence'[d] = sequence[d]
          /\ iSendCount' = iSendCount /\ Queued' = Queued /\ buf' = buf
      <3>1. CASE place[conn[t]] = "use"
        BY <1>12, <3>1, <1>a DEF InRecyConnectQueue, ListType, Queued
      <3>2. CASE place[conn[t]] # "use" BY <1>12, <3>2 DEF InRecyConnectQueue, Queued
      <3> QED BY <3>1, <3>2
    <2> QED BY <2>1 DEF CountSame, Current
  <1>13. ASSUME KickClient PROVE CountSame(d) \/ Counts(d)
    BY <1>13, <1>a, <1>b, ThreadFacts DEF KickClient, CountSame, Current, Queued
  <1>14. ASSUME SemWait PROVE CountSame(d) \/ Counts(d)
    BY <1>14, <1>a, <1>b, ThreadFacts DEF SemWait, CountSame, Current, Queued
  <1>15. ASSUME QueueEmpty PROVE CountSame(d) \/ Counts(d)
    BY <1>15, <1>a, <1>b, ThreadFacts DEF QueueEmpty, CountSame, Current, Queued
  <1>16. ASSUME LockQueue PROVE CountSame(d) \/ Counts(d)
    BY <1>16, <1>a, <1>b, ThreadFacts DEF LockQueue, CountSame, Current, Queued
  <1>17. ASSUME ScanStale PROVE CountSame(d) \/ Counts(d)
    <2>1. /\ Queued' = Queued \ {sendQueue[pos]} /\ buf' = buf /\ sequence' = sequence
          /\ place' = place /\ iSendCount' = iSendCount
      BY <1>17, QueueErased DEF ScanStale
    <2>2. sendQueue[pos] \notin Current(d)
      BY <1>17 DEF ScanStale, Stale, Scanned, Current
    <2> QED BY <2>1, <2>2 DEF CountSame, Current
  <1>18. ASSUME ScanSkip PROVE CountSame(d) \/ Counts(d)
    BY <1>18, <1>a, <1>b, ThreadFacts DEF ScanSkip, Marked, Scanned, Stale,
      CountSame, Current, Queued
  <1>19. ASSUME ScanTake PROVE CountSame(d) \/ Counts(d)
    <2>1. CASE Scanned.conn = d BY <1>19, <2>1 DEF Counts
    <2>2. CASE Scanned.conn # d
      <3>1. /\ Queued' = Queued \ {sendQueue[pos]} /\ buf' = buf /\ sequence' = sequence
            /\ place' = place
        BY <1>19, QueueErased DEF ScanTake
      <3>2. iSendCount'[d] = iSendCount[d] BY <1>19, <2>2, <1>b DEF ScanTake, CountType
      <3>3. sendQueue[pos] \notin Current(d) BY <2>2 DEF Scanned, Current
      <3> QED BY <3>1, <3>2, <3>3 DEF CountSame, Current
    <2> QED BY <2>1, <2>2
  <1>20. ASSUME ScanEnd PROVE CountSame(d) \/ Counts(d)
    BY <1>20, <1>a, <1>b, ThreadFacts DEF ScanEnd, CountSame, Current, Queued
  <1>21. ASSUME SendAll PROVE CountSame(d) \/ Counts(d)
    BY <1>21, <1>a, <1>b, ThreadFacts DEF SendAll, Put, SendResults, CountSame,
      Current, Queued
  <1>22. ASSUME SendPart PROVE CountSame(d) \/ Counts(d)
    BY <1>22, <1>a, <1>b, ThreadFacts DEF SendPart, Put, SendResults, CountSame,
      Current, Queued
  <1>23. ASSUME SendFails PROVE CountSame(d) \/ Counts(d)
    BY <1>23, <1>a, <1>b, ThreadFacts DEF SendFails, SendResults, CountSame,
      Current, Queued
  <1>24. ASSUME SendDone PROVE CountSame(d) \/ Counts(d)
    BY <1>24, <1>a, <1>b, ThreadFacts DEF SendDone, CountSame, Current, Queued
  <1>25. ASSUME SendMark PROVE CountSame(d) \/ Counts(d)
    BY <1>25, <1>a, <1>b, ThreadFacts DEF SendMark, CountSame, Current, Queued
  <1>26. ASSUME SendArm PROVE CountSame(d) \/ Counts(d)
    BY <1>26, <1>a, <1>b, ThreadFacts DEF SendArm, CountSame, Current, Queued
  <1>27. ASSUME NEW c \in Conns, Event(c) PROVE CountSame(d) \/ Counts(d)
    BY <1>27, <1>a, <1>b, ThreadFacts DEF Event, OutHalf, CountSame, Current, Queued
  <1>28. ASSUME ReadOn PROVE CountSame(d) \/ Counts(d)
    BY <1>28, <1>a, <1>b, ThreadFacts DEF ReadOn, CountSame, Current, Queued
  <1>29. ASSUME ReadCloses PROVE CountSame(d) \/ Counts(d)
    BY <1>29, <1>a, <1>b, ThreadFacts DEF ReadCloses, CountSame, Current, Queued
  <1>30. ASSUME OutHup PROVE CountSame(d) \/ Counts(d)
    BY <1>30, <1>a, <1>b, ThreadFacts DEF OutHup, Lower, CountSame, Current, Queued
  <1>31. ASSUME WriteAll PROVE CountSame(d) \/ Counts(d)
    BY <1>31, <1>a, <1>b, ThreadFacts DEF WriteAll, Put, SendResults, CountSame,
      Current, Queued
  <1>32. ASSUME WritePart PROVE CountSame(d) \/ Counts(d)
    BY <1>32, <1>a, <1>b, ThreadFacts DEF WritePart, Put, SendResults, CountSame,
      Current, Queued
  <1>33. ASSUME WriteFails PROVE CountSame(d) \/ Counts(d)
    BY <1>33, <1>a, <1>b, ThreadFacts DEF WriteFails, SendResults, CountSame,
      Current, Queued
  <1>34. ASSUME WriteDisarm PROVE CountSame(d) \/ Counts(d)
    BY <1>34, <1>a, <1>b, ThreadFacts DEF WriteDisarm, CountSame, Current, Queued
  <1>35. ASSUME WritePost PROVE CountSame(d) \/ Counts(d)
    BY <1>35, <1>a, <1>b, ThreadFacts DEF WritePost, CountSame, Current, Queued
  <1>36. ASSUME WriteFree PROVE CountSame(d) \/ Counts(d)
    BY <1>36, <1>a, <1>b, ThreadFacts DEF WriteFree, CountSame, Current, Queued
  <1>37. ASSUME WriteUnmark PROVE CountSame(d) \/ Counts(d)
    BY <1>37, <1>a, <1>b, ThreadFacts DEF WriteUnmark, Lower, CountSame, Current,
      Queued
  <1>38. CASE UNCHANGED vars
    BY <1>38, <1>a, <1>b, ThreadFacts DEF vars, CountSame, Current, Queued
  <1> QED BY <1>1, <1>2, <1>3, <1>4, <1>5, <1>6, <1>7, <1>8, <1>9, <1>10, <1>11,
       <1>12, <1>13, <1>14, <1>15, <1>16, <1>17, <1>18, <1>19, <1>20, <1>21, <1>22,
       <1>23, <1>24, <1>25, <1>26, <1>27, <1>28, <1>29, <1>30, <1>31, <1>32, <1>33,
       <1>34, <1>35, <1>36, <1>37, <1>38 DEF Next, PoolStep, CloseStep, SendStep,
       WriteStep, Stopped

(* A connection has finitely many packets queued.                          *)
LEMMA CurrentFinite ==
  ASSUME IInv, NEW c \in Conns
  PROVE  /\ IsFiniteSet(Current(c)) /\ Cardinality(Current(c)) \in Nat
         /\ Current(c) \subseteq DOMAIN buf
  <1>1. DOMAIN buf = 1 .. Len(buf) /\ Len(buf) \in Int BY QueuedFacts DEF IInv, TypeOK
  <1>2. IsFiniteSet(DOMAIN buf) BY <1>1, FS_Interval
  <1>3. Current(c) \subseteq DOMAIN buf BY QueuedFacts DEF Current, Queued
  <1> QED BY <1>2, <1>3, FS_Subset, FS_CardinalityType

(* Every step keeps the counter exact.                                     *)
LEMMA CountStep == ASSUME IInv, CountInv, [Next]_vars PROVE CountInv'
  <1> SUFFICES ASSUME NEW d \in Conns PROVE Counted(d)'
    BY DEF CountInv
  <1>1. Counted(d) BY DEF CountInv
  <1>2. ListType /\ CountType BY TypeParts DEF IInv
  <1>3. CASE CountSame(d) BY <1>1, <1>3 DEF CountSame, Counted
  <1>4. CASE AcceptConn(d)
    <2>1. /\ sequence'[d] = sequence[d] + 1 /\ iSendCount'[d] = 0 /\ buf' = buf
          /\ Queued' = Queued
      BY <1>2, <1>4 DEF AcceptConn, ListType, CountType, queueVars, Queued
    <2>2. ASSUME NEW b \in Queued, buf[b].conn = d PROVE buf[b].sequence # sequence[d] + 1
      <3>1. b \in DOMAIN buf BY QueuedFacts DEF Queued
      <3>2. buf[b].sequence <= sequence[d] BY <2>2, <3>1 DEF IInv, BufferInv, AgeInv
      <3>3. buf[b].sequence \in Nat /\ sequence[d] \in Nat
        BY <1>2, <3>1, QueuedFacts DEF ListType
      <3> QED BY <3>2, <3>3
    <2>3. Current(d)' = {} BY <2>1, <2>2 DEF Current
    <2> QED BY <2>1, <2>3, FS_EmptySet DEF Counted
  <1>5. ASSUME NEW t \in PoolThreads, MsgSend(t), conn[t] = d PROVE Counted(d)'
    <2> DEFINE b == Len(buf) + 1
               m == [conn |-> conn[t], sequence |-> request[t]]
    <2>1. /\ b \in Buffers /\ m \in [conn : Conns, sequence : Nat]
          /\ buf' = Append(buf, m) /\ sendQueue' = Append(sendQueue, b)
          /\ m.conn = d /\ m.sequence = request[t]
      BY <1>5, SentFacts
    <2>2. /\ Queued' = Queued \cup {b} /\ buf'[b] = m /\ b \notin DOMAIN buf
          /\ \A x \in DOMAIN buf : buf'[x] = buf[x]
      BY <2>1, QueueAppended
    <2>3. /\ place' = place /\ sequence' = sequence /\ iSendCount'[d] = iSendCount[d] + 1
          /\ pc[t] = "reply"
      BY <1>2, <1>5 DEF MsgSend, CountType
    <2> HIDE DEF b, m
    <2>4. CASE place[d] = "use"
      <3>1. request[t] = sequence[d]
        BY <1>5, <2>3, <2>4 DEF IInv, HoldInv, StampInv
      <3>2. \A x \in Queued : x \in DOMAIN buf BY QueuedFacts DEF Queued
      <3>3. Current(d)' = Current(d) \cup {b} BY <2>1, <2>2, <2>3, <3>1, <3>2 DEF Current
      <3>4. b \notin Current(d) /\ IsFiniteSet(Current(d)) BY <2>2, CurrentFinite
      <3>5. Cardinality(Current(d)') = Cardinality(Current(d)) + 1
        BY <3>3, <3>4, FS_AddElement
      <3> QED BY <1>1, <2>3, <2>4, <3>5 DEF Counted
    <2> QED BY <2>3, <2>4 DEF Counted
  <1>6. CASE ScanTake /\ Scanned.conn = d
    <2>1. /\ Queued' = Queued \ {sendQueue[pos]} /\ buf' = buf /\ sequence' = sequence
          /\ place' = place /\ iSendCount'[d] = iSendCount[d] - 1
          /\ pos \in DOMAIN sendQueue
      BY <1>2, <1>6, QueueErased, ScanFacts DEF ScanTake, CountType
    <2>2. sendQueue[pos] \in Current(d)
      BY <1>6, <2>1 DEF ScanTake, Stale, Scanned, Current, Queued
    <2>3. Current(d)' = Current(d) \ {sendQueue[pos]} BY <2>1 DEF Current
    <2>4. Cardinality(Current(d)') = Cardinality(Current(d)) - 1
      BY <2>2, <2>3, CurrentFinite, FS_RemoveElement
    <2> QED BY <1>1, <2>1, <2>4 DEF Counted
  <1> QED BY <1>3, <1>4, <1>5, <1>6, CountStays DEF Counts

(* A buffer is in the queue at most once: counting the places of the queue *)
(* is counting the buffers.                                                *)
LEMMA PlacesCounted ==
  ASSUME IInv, NEW c \in Conns
  PROVE  Cardinality({i \in DOMAIN sendQueue :
                        buf[sendQueue[i]] = [conn |-> c, sequence |-> sequence[c]]})
            = Cardinality(Current(c))
  <1> DEFINE P == {i \in DOMAIN sendQueue :
                     buf[sendQueue[i]] = [conn |-> c, sequence |-> sequence[c]]}
             f == [i \in P |-> sendQueue[i]]
  <1>1. \A i, j \in DOMAIN sendQueue : sendQueue[i] = sendQueue[j] => i = j
    BY DEF IInv, BufferInv, QueueInv
  <1>2. DOMAIN sendQueue = 1 .. Len(sendQueue) /\ Len(sendQueue) \in Int BY DEF IInv, TypeOK
  <1>3. IsFiniteSet(P)
    <2>1. IsFiniteSet(DOMAIN sendQueue) BY <1>2, FS_Interval
    <2> QED BY <2>1, FS_Subset
  <1>4. \A i \in P : sendQueue[i] \in Current(c)
    BY DEF Current, Queued
  <1>5. \A b \in Current(c) : \E i \in P : sendQueue[i] = b
    <2> SUFFICES ASSUME NEW b \in Current(c) PROVE \E i \in P : sendQueue[i] = b
      OBVIOUS
    <2>1. PICK i \in DOMAIN sendQueue : sendQueue[i] = b BY DEF Current, Queued
    <2>2. b \in DOMAIN buf /\ buf[b].conn = c /\ buf[b].sequence = sequence[c]
      BY CurrentFinite DEF Current
    <2>3. buf[b] = [conn |-> c, sequence |-> sequence[c]] BY <2>2, QueuedFacts
    <2> QED BY <2>1, <2>3
  <1>6. f \in Bijection(P, Current(c))
    <2>1. f \in [P -> Current(c)] BY <1>4
    <2>2. f \in Injection(P, Current(c)) BY <1>1, <2>1 DEF Injection, IsInjective
    <2>3. f \in Surjection(P, Current(c)) BY <1>5, <2>1 DEF Surjection
    <2> QED BY <2>2, <2>3 DEF Bijection
  <1>7. ExistsBijection(P, Current(c)) BY <1>6 DEF ExistsBijection
  <1> QED BY <1>3, <1>7, FS_Bijection

(* iSendCount counts exactly the queued packets of a connection in use,    *)
(* whatever an earlier life of the object left in the queue.               *)
THEOREM CounterExact == Spec => []SendCountExact
  <1>1. Init => CountInv BY FS_EmptySet DEF Init, CountInv, Counted
  <1>2. IInv /\ CountInv /\ [Next]_vars => CountInv' BY CountStep
  <1>3. IInv /\ CountInv => SendCountExact
    BY PlacesCounted DEF CountInv, Counted, SendCountExact
  <1> QED BY <1>1, <1>2, <1>3, Inductive, PTL DEF Spec

=============================================================================
