----------------------------- MODULE TimerQueue -----------------------------
(***************************************************************************)
(* When a silent client is kicked.  Every connection has an entry in       *)
(* m_timerQueuemap, ordered by the time it falls due; the timer thread     *)
(* polls the head of the queue, collects the entries that are due, puts    *)
(* each back for m_iWaitTime seconds later, and closes the connections     *)
(* whose last ping is too old (or all of them, if m_ifTimeOutKick is 1).   *)
(*                                                                         *)
(* m_cur_size_ and m_timer_value_ cache the size and the head of the map   *)
(* and are read without the mutex.  The epoll thread adds and deletes      *)
(* entries meanwhile and a thread of the pool handles pings.               *)
(*                                                                         *)
(* Time is in whole seconds, as time() gives it.  ConnPool shows that an   *)
(* object is not handed out again while a thread holds it, so every object *)
(* is accepted once here.                                                  *)
(***************************************************************************)
EXTENDS Integers, FiniteSets, FiniteSetsExt

CONSTANTS
    Conns,          \* pool objects
    MaxWaitTime,    \* Sock_MaxWaitTime
    Delay,          \* seconds a thread may need for a round of its work
    MaxPings,       \* bound: pings sent in one behaviour
    LastAccept,     \* bound: no connection after this second
    Horizon         \* bound: time ends

NoConn == "none"
Main == "main"      \* qc_epoll_process_events
Timer == "timer"    \* ServerTimerQueueMonitorThread
Pool == "pool"      \* a thread that runs _HandlePing
Threads == {Main, Timer, Pool}

ASSUME TimerAssumption ==
    /\ MaxWaitTime \in Nat /\ Delay \in Nat \ {0} /\ MaxPings \in Nat
    /\ LastAccept \in Nat /\ Horizon \in Nat /\ NoConn \notin Conns

(* ReadConf: m_iWaitTime.                                                  *)
WaitTime == IF MaxWaitTime > 5 THEN MaxWaitTime ELSE 5

(* procPingTimeOutChecking: silence that is not tolerated.                 *)
KickTime == WaitTime * 3 + 10

VARIABLES
    timerQueue,     \* m_timerQueuemap
    curSize,        \* m_cur_size_
    timerValue,     \* m_timer_value_
    timeOutKick,    \* m_ifTimeOutKick == 1
    place,          \* list the object is in
    sequence,       \* iCurrsequence
    lastPingTime,   \* lastPingTime
    pc, conn,       \* each thread: where, with which object ...
    since,          \* ... since when; the timer thread: its last poll
    futtime,        \* AddToTimerQueue
    idleList,       \* m_lsIdleList
    curTime,        \* cur_time of the timer thread
    pings,          \* pings in m_MsgRecvQueue
    sent,           \* pings sent so far
    lastSent,       \* when the client last sent something
    late,           \* clients that let too much time pass
    acceptedAt,     \* when the connection began
    clock           \* time(nullptr)

queueVars  == <<timerQueue, curSize, timerValue, timeOutKick>>
objectVars == <<place, sequence, lastPingTime, acceptedAt>>
threadVars == <<pc, conn, since, futtime>>
timerVars  == <<idleList, curTime>>
clientVars == <<pings, sent, lastSent, late>>
vars == <<queueVars, objectVars, threadVars, timerVars, clientVars, clock>>

Goto(t, label) == pc' = [pc EXCEPT ![t] = label]
Entry(due, c, s) == [due |-> due, conn |-> c, sequence |-> s]
Dues(q) == {e.due : e \in q}

(* Mutant: the latest time instead of the earliest.                        *)
CacheTail(q) == timerValue' = IF q = {} THEN timerValue ELSE Max(Dues(q))

(* m_timer_value_ = GetEarliestTime(), left alone if the queue is empty.   *)
CacheHead(q) == timerValue' = IF q = {} THEN timerValue ELSE Min(Dues(q))

Init ==
    /\ timerQueue = {} /\ curSize = 0 /\ timerValue = 0 /\ timeOutKick \in BOOLEAN
    /\ place = [c \in Conns |-> "free"]
    /\ sequence = [c \in Conns |-> 1]
    /\ lastPingTime = [c \in Conns |-> 0]
    /\ acceptedAt = [c \in Conns |-> 0]
    /\ pc = [t \in Threads |-> "idle"]
    /\ conn = [t \in Threads |-> NoConn]
    /\ since = [t \in Threads |-> 0]
    /\ futtime = 0
    /\ idleList = {} /\ curTime = 0
    /\ pings = {} /\ sent = 0 /\ lastSent = [c \in Conns |-> 0] /\ late = {}
    /\ clock = 0

Start(t, c, label, at) ==
    /\ pc[t] = "idle"
    /\ conn' = [conn EXCEPT ![t] = c]
    /\ since' = [since EXCEPT ![t] = at]
    /\ Goto(t, label)

-----------------------------------------------------------------------------
(* The epoll thread.                                                       *)

(* qc_event_accept, as far as GetOneToUse.                                 *)
Accept(c) ==
    /\ place[c] = "free" /\ sequence[c] = 1 /\ clock <= LastAccept
    /\ Start(Main, c, "accepted", clock)
    /\ place' = [place EXCEPT ![c] = "use"]
    /\ sequence' = [sequence EXCEPT ![c] = @ + 1]
    /\ lastPingTime' = [lastPingTime EXCEPT ![c] = clock]
    /\ acceptedAt' = [acceptedAt EXCEPT ![c] = clock]
    /\ lastSent' = [lastSent EXCEPT ![c] = clock]
    /\ UNCHANGED <<queueVars, futtime, timerVars, pings, sent, late, clock>>

(* AddToTimerQueue: the time is taken before the mutex.                    *)
ReadTime ==
    /\ pc[Main] = "accepted"
    /\ futtime' = clock + WaitTime
    /\ Goto(Main, "add")
    /\ UNCHANGED <<queueVars, objectVars, conn, since, timerVars, clientVars, clock>>

AddToTimerQueue ==
    /\ pc[Main] = "add"
    /\ timerQueue' = timerQueue \cup {Entry(futtime, conn[Main], sequence[conn[Main]])}
    /\ curSize' = curSize + 1
    /\ CacheHead(timerQueue')
    /\ Goto(Main, "idle")
    /\ UNCHANGED <<timeOutKick, objectVars, conn, since, futtime, timerVars, clientVars, clock>>

(* The read handler closes the connection.                                 *)
ReadCloses(c) ==
    /\ place[c] = "use"
    /\ Start(Main, c, "zd", clock)
    /\ UNCHANGED <<queueVars, objectVars, futtime, timerVars, clientVars, clock>>

MainStep == ReadTime \/ AddToTimerQueue

-----------------------------------------------------------------------------
(* zdClosesocketProc(conn[t]).                                             *)

(* Mutant: m_cur_size_ goes down whether an entry is found or not.         *)
DeletesAlways(t) ==
    /\ pc[t] = "zd"
    /\ timerQueue' = {e \in timerQueue : e.conn # conn[t]}
    /\ curSize' = curSize - 1
    /\ CacheHead(timerQueue')
    /\ Goto(t, "recycle")
    /\ UNCHANGED <<timeOutKick, objectVars, conn, since, futtime, timerVars, clientVars, clock>>

DeleteFromTimerQueue(t) ==
    /\ pc[t] = "zd"
    /\ LET gone == {e \in timerQueue : e.conn = conn[t]}
       IN /\ timerQueue' = timerQueue \ gone
          /\ curSize' = curSize - Cardinality(gone)
          /\ CacheHead(timerQueue')
    /\ Goto(t, "recycle")
    /\ UNCHANGED <<timeOutKick, objectVars, conn, since, futtime, timerVars, clientVars, clock>>

InRecyConnectQueue(t) ==
    /\ pc[t] = "recycle"
    /\ IF place[conn[t]] = "use"
       THEN /\ place' = [place EXCEPT ![conn[t]] = "recycle"]
            /\ sequence' = [sequence EXCEPT ![conn[t]] = @ + 1]
       ELSE UNCHANGED <<place, sequence>>
    /\ Goto(t, IF t = Timer THEN "check" ELSE "idle")
    /\ UNCHANGED <<queueVars, lastPingTime, acceptedAt, conn, since, futtime, timerVars,
                   clientVars, clock>>

CloseStep(t) == DeleteFromTimerQueue(t) \/ InRecyConnectQueue(t)

-----------------------------------------------------------------------------
(* ServerTimerQueueMonitorThread.                                          *)

(* Twice a second: is the head of the queue past?  No mutex is held.       *)
Poll ==
    /\ pc[Timer] = "idle" /\ since[Timer] < clock
    /\ since' = [since EXCEPT ![Timer] = clock]
    /\ IF curSize > 0 /\ timerValue < clock
       THEN curTime' = clock /\ Goto(Timer, "collect")
       ELSE UNCHANGED <<curTime, pc>>
    /\ UNCHANGED <<queueVars, objectVars, conn, futtime, idleList, clientVars, clock>>

(* Mutant: an entry that was checked is not put back.                      *)
NotRequeued(due) == {}

(* What GetOverTimeTimer puts back for an entry it returns.                *)
Requeued(due) ==
    IF timeOutKick THEN {} ELSE {Entry(curTime + WaitTime, e.conn, e.sequence) : e \in due}

(* GetOverTimeTimer until nothing is due.                                  *)
Collect ==
    /\ pc[Timer] = "collect"
    /\ LET due == {e \in timerQueue : e.due <= curTime}
       IN /\ timerQueue' = (timerQueue \ due) \cup Requeued(due)
          /\ curSize' = curSize - Cardinality(due) + Cardinality(Requeued(due))
          /\ idleList' = due
    /\ CacheHead(timerQueue')
    /\ Goto(Timer, "check")
    /\ UNCHANGED <<timeOutKick, objectVars, conn, since, futtime, curTime, clientVars, clock>>

(* procPingTimeOutChecking.                                                *)
Alive(e) == e.sequence = sequence[e.conn]

(* Mutant: three missed pings, without the ten seconds of grace.           *)
SilentSooner(e) == curTime - lastPingTime[e.conn] > WaitTime * 3
Silent(e) == curTime - lastPingTime[e.conn] > KickTime

Keep ==
    /\ pc[Timer] = "check"
    /\ \E e \in idleList : /\ ~Alive(e) \/ (~timeOutKick /\ ~Silent(e))
                           /\ idleList' = idleList \ {e}
    /\ UNCHANGED <<queueVars, objectVars, threadVars, curTime, clientVars, clock>>

Kick ==
    /\ pc[Timer] = "check"
    /\ \E e \in idleList : /\ Alive(e) /\ (timeOutKick \/ Silent(e))
                           /\ idleList' = idleList \ {e}
                           /\ conn' = [conn EXCEPT ![Timer] = e.conn]
    /\ Goto(Timer, "zd")
    /\ UNCHANGED <<queueVars, objectVars, since, futtime, curTime, clientVars, clock>>

EndCheck ==
    /\ pc[Timer] = "check" /\ idleList = {}
    /\ Goto(Timer, "idle")
    /\ UNCHANGED <<queueVars, objectVars, conn, since, futtime, timerVars, clientVars, clock>>

TimerStep == Poll \/ Collect \/ Keep \/ Kick \/ EndCheck

-----------------------------------------------------------------------------
(* Pings.                                                                  *)

SendPing(c) ==
    /\ place[c] = "use" /\ sent < MaxPings
    /\ pings' = pings \cup {[conn |-> c, sequence |-> sequence[c], at |-> clock]}
    /\ sent' = sent + 1
    /\ lastSent' = [lastSent EXCEPT ![c] = clock]
    /\ UNCHANGED <<queueVars, objectVars, threadVars, timerVars, late, clock>>

(* threadRecvProcFunc: the message is dropped if the sequence has changed. *)
DropPing ==
    /\ pc[Pool] = "idle"
    /\ \E p \in pings : p.sequence # sequence[p.conn] /\ pings' = pings \ {p}
    /\ UNCHANGED <<queueVars, objectVars, threadVars, timerVars, sent, lastSent, late, clock>>

TakePing ==
    /\ \E p \in pings : /\ p.sequence = sequence[p.conn]
                        /\ Start(Pool, p.conn, "ping", p.at)
                        /\ pings' = pings \ {p}
    /\ UNCHANGED <<queueVars, objectVars, futtime, timerVars, sent, lastSent, late, clock>>

HandlePing ==
    /\ pc[Pool] = "ping"
    /\ lastPingTime' = [lastPingTime EXCEPT ![conn[Pool]] = clock]
    /\ Goto(Pool, "idle")
    /\ UNCHANGED <<queueVars, place, sequence, acceptedAt, conn, since, futtime, timerVars,
                   clientVars, clock>>

PoolStep == DropPing \/ TakePing \/ HandlePing

-----------------------------------------------------------------------------
(* A second passes: the timer thread polls at least every Delay seconds,   *)
(* and no thread needs longer for the call it is working on.               *)
Tick ==
    /\ clock < Horizon
    /\ \A t \in Threads : pc[t] # "idle" \/ t = Timer => clock < since[t] + Delay
    /\ \A p \in pings : clock < p.at + Delay
    /\ clock' = clock + 1
    /\ late' = late \cup {c \in Conns : place[c] = "use" /\ clock' - lastSent[c] > KickTime - Delay}
    /\ UNCHANGED <<queueVars, objectVars, threadVars, timerVars, pings, sent, lastSent>>

(* The bound on time stops the model where the program would wait.         *)
Stopped ==
    /\ clock = Horizon /\ pings = {} /\ \A t \in Threads : pc[t] = "idle"
    /\ UNCHANGED vars

Next ==
    \/ \E c \in Conns : Accept(c) \/ ReadCloses(c) \/ SendPing(c)
    \/ MainStep \/ TimerStep \/ PoolStep
    \/ \E t \in {Main, Timer} : CloseStep(t)
    \/ Tick \/ Stopped

Spec == Init /\ [][Next]_vars

-----------------------------------------------------------------------------
(* Properties.                                                             *)

TypeOK ==
    /\ timerQueue \subseteq [due : Nat, conn : Conns, sequence : Nat]
    /\ curSize \in Nat /\ timerValue \in Nat /\ timeOutKick \in BOOLEAN
    /\ place \in [Conns -> {"free", "use", "recycle"}]
    /\ sequence \in [Conns -> Nat]
    /\ lastPingTime \in [Conns -> Nat] /\ acceptedAt \in [Conns -> Nat]
    /\ pc \in [Threads -> {"idle", "accepted", "add", "zd", "recycle", "collect", "check",
                           "ping"}]
    /\ conn \in [Threads -> Conns \cup {NoConn}] /\ since \in [Threads -> Nat]
    /\ futtime \in Nat /\ curTime \in Nat
    /\ idleList \subseteq [due : Nat, conn : Conns, sequence : Nat]
    /\ pings \subseteq [conn : Conns, sequence : Nat, at : Nat]
    /\ sent \in Nat /\ lastSent \in [Conns -> Nat] /\ late \subseteq Conns /\ clock \in Nat

(* What the timer thread reads without the mutex is the size and the head  *)
(* of the queue, whoever changed it last.                                  *)
HeadCached ==
    /\ curSize = Cardinality(timerQueue)
    /\ timerQueue # {} => timerValue = Min(Dues(timerQueue))

(* A connection that no thread is opening or closing is watched: it has    *)
(* one entry, in the queue, or among those the timer thread is checking if *)
(* checked connections are kicked; a closed one has none in the queue.     *)
Watched ==
    \A c \in Conns :
        LET entries == {e \in timerQueue \cup (IF timeOutKick THEN idleList ELSE {}) :
                            e.conn = c /\ Alive(e)}
            busy == \E t \in {Main, Timer} : pc[t] # "idle" /\ conn[t] = c
        IN  /\ place[c] = "use" /\ ~busy => Cardinality(entries) = 1
            /\ place[c] # "use" => \A e \in timerQueue : e.conn # c

(* A client whose pings are never more than KickTime - Delay seconds apart *)
(* is not kicked for silence, although a ping takes up to Delay seconds to *)
(* be handled and the timer thread tests lastPingTime without the mutex    *)
(* _HandlePing holds, against a time it read earlier.                      *)
PunctualKept ==
    pc[Timer] \in {"zd", "recycle"} /\ ~timeOutKick => conn[Timer] \in late

(* A silent client does not stay for ever: it is closed at the first check *)
(* after KickTime, and checks are never further apart than m_iWaitTime and *)
(* a poll; if m_ifTimeOutKick is 1, no client outlives its first check.    *)
SilentClosed ==
    \A c \in Conns : place[c] = "use" =>
        IF timeOutKick
        THEN clock <= acceptedAt[c] + WaitTime + 4 * Delay
        ELSE clock <= lastPingTime[c] + KickTime + WaitTime + 3 * Delay

=============================================================================
