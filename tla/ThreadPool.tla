----------------------------- MODULE ThreadPool -----------------------------
(***************************************************************************)
(* CThreadPool: the epoll thread ("main") pushes messages into a queue and *)
(* signals a condition variable, the threads of the pool wait for it and   *)
(* take the messages out.  Create waits for every thread to be running,    *)
(* StopAll wakes all of them and joins them.                               *)
(*                                                                         *)
(* m_shutdown is read and written outside m_pthreadMutex by StopAll, so    *)
(* the test of the condition, pthread_cond_wait and the second test of     *)
(* m_shutdown are steps of their own.  m_iRunningThreadNum, which only a   *)
(* log line reads, is left out.                                            *)
(***************************************************************************)
EXTENDS Integers, Sequences, FiniteSets

CONSTANTS
    Workers,        \* threads of the pool
    Messages        \* bound: messages pushed in one behaviour

NoMessage == "no message"
NoThread == "no thread"

ASSUME ThreadPoolAssumption ==
    NoMessage \notin Messages /\ NoThread \notin Workers /\ IsFiniteSet(Workers)

VARIABLES
    main,           \* what the epoll thread is doing
    pc,             \* what each thread of the pool is doing
    mutex,          \* who holds m_pthreadMutex between two steps
    ifrunning,      \* threads that have reached the wait
    queue,          \* m_MsgRecvQueue
    job,            \* jobbuf of each thread
    shutdown,       \* m_shutdown
    submitted, started, finished    \* messages, for the properties

vars == <<main, pc, mutex, ifrunning, queue, job, shutdown, submitted, started, finished>>

Goto(w, label) == pc' = [pc EXCEPT ![w] = label]
Waiting == {w \in Workers : pc[w] = "wait"}

Init ==
    /\ main = "create" /\ pc = [w \in Workers |-> "new"]
    /\ mutex = NoThread /\ ifrunning = {}
    /\ queue = <<>> /\ job = [w \in Workers |-> NoMessage]
    /\ shutdown = FALSE
    /\ submitted = {} /\ started = {} /\ finished = {}

-----------------------------------------------------------------------------
(* Create: pthread_create for every thread, then wait for ifrunning.       *)

CreateThread(w) ==
    /\ main = "create" /\ pc[w] = "new"
    /\ Goto(w, "lock")
    /\ UNCHANGED <<main, mutex, ifrunning, queue, job, shutdown, submitted, started, finished>>

CreateReturns ==
    /\ main = "create" /\ ifrunning = Workers
    /\ main' = "loop"
    /\ UNCHANGED <<pc, mutex, ifrunning, queue, job, shutdown, submitted, started, finished>>

-----------------------------------------------------------------------------
(* inMsgRecvQueueAndSignal, and Call outside the mutex.                    *)

Push ==
    /\ main = "loop" /\ mutex = NoThread
    /\ \E m \in Messages \ submitted : /\ queue' = Append(queue, m)
                                       /\ submitted' = submitted \cup {m}
    /\ main' = "signal"
    /\ UNCHANGED <<pc, mutex, ifrunning, job, shutdown, started, finished>>

(* Mutant: nobody is signalled.                                            *)
NoCall ==
    /\ main = "signal"
    /\ main' = "loop"
    /\ UNCHANGED <<pc, mutex, ifrunning, queue, job, shutdown, submitted, started, finished>>

Call ==
    /\ main = "signal"
    /\ IF Waiting = {} THEN UNCHANGED pc ELSE \E w \in Waiting : Goto(w, "woken")
    /\ main' = "loop"
    /\ UNCHANGED <<mutex, ifrunning, queue, job, shutdown, submitted, started, finished>>

-----------------------------------------------------------------------------
(* StopAll, then the destructor.                                           *)

SetShutdown ==
    /\ main = "loop"
    /\ shutdown' = TRUE
    /\ main' = "broadcast"
    /\ UNCHANGED <<pc, mutex, ifrunning, queue, job, submitted, started, finished>>

(* Mutant: StopAll wakes one thread.                                       *)
BroadcastOne ==
    /\ main = "broadcast"
    /\ \/ (\A w \in Workers : pc[w] # "wait") /\ UNCHANGED pc
       \/ \E w \in Workers : pc[w] = "wait" /\ pc' = [pc EXCEPT ![w] = "woken"]
    /\ main' = "join"
    /\ UNCHANGED <<mutex, ifrunning, queue, job, shutdown, submitted, started, finished>>

Broadcast ==
    /\ main = "broadcast"
    /\ pc' = [w \in Workers |-> IF pc[w] = "wait" THEN "woken" ELSE pc[w]]
    /\ main' = "join"
    /\ UNCHANGED <<mutex, ifrunning, queue, job, shutdown, submitted, started, finished>>

(* Mutant: the threads are not joined.                                     *)
NoJoin ==
    /\ main = "join"
    /\ main' = "stopped"
    /\ UNCHANGED <<pc, mutex, ifrunning, queue, job, shutdown, submitted, started, finished>>

Join ==
    /\ main = "join" /\ \A w \in Workers : pc[w] = "exited"
    /\ main' = "stopped"
    /\ UNCHANGED <<pc, mutex, ifrunning, queue, job, shutdown, submitted, started, finished>>

ClearMsgRecvQueue ==
    /\ main = "stopped"
    /\ queue' = <<>>
    /\ main' = "end"
    /\ UNCHANGED <<pc, mutex, ifrunning, job, shutdown, submitted, started, finished>>

MainStep == \/ (\E w \in Workers : CreateThread(w)) \/ CreateReturns \/ Push \/ Call
            \/ SetShutdown \/ Broadcast \/ Join \/ ClearMsgRecvQueue

-----------------------------------------------------------------------------
(* ThreadFunc.                                                             *)

Lock(w) ==
    /\ pc[w] \in {"lock", "woken"} /\ mutex = NoThread
    /\ mutex' = w
    /\ Goto(w, "test")
    /\ UNCHANGED <<main, ifrunning, queue, job, shutdown, submitted, started, finished>>

(* The loop condition: the thread is about to wait ...                     *)
FindEmpty(w) ==
    /\ pc[w] = "test" /\ queue = <<>> /\ ~shutdown
    /\ ifrunning' = ifrunning \cup {w}
    /\ Goto(w, "enter")
    /\ UNCHANGED <<main, mutex, queue, job, shutdown, submitted, started, finished>>

(* ... and waits, which releases the mutex.                                *)
Wait(w) ==
    /\ pc[w] = "enter"
    /\ mutex' = NoThread
    /\ Goto(w, "wait")
    /\ UNCHANGED <<main, ifrunning, queue, job, shutdown, submitted, started, finished>>

(* pthread_cond_wait may return without a signal.                          *)
SpuriousWake(w) ==
    /\ pc[w] = "wait"
    /\ Goto(w, "woken")
    /\ UNCHANGED <<main, mutex, ifrunning, queue, job, shutdown, submitted, started, finished>>

LeaveLoop(w) ==
    /\ pc[w] = "test" /\ (queue # <<>> \/ shutdown)
    /\ Goto(w, "decide")
    /\ UNCHANGED <<main, mutex, ifrunning, queue, job, shutdown, submitted, started, finished>>

Exit(w) ==
    /\ pc[w] = "decide" /\ shutdown
    /\ mutex' = NoThread
    /\ Goto(w, "exited")
    /\ UNCHANGED <<main, ifrunning, queue, job, shutdown, submitted, started, finished>>

(* Mutant: the message taken out is lost.                                  *)
TakeLoses(w) ==
    /\ pc[w] = "decide" /\ ~shutdown
    /\ started' = started \cup {Head(queue)}
    /\ queue' = Tail(queue)
    /\ mutex' = NoThread
    /\ Goto(w, "run")
    /\ UNCHANGED <<main, ifrunning, job, shutdown, submitted, finished>>

Take(w) ==
    /\ pc[w] = "decide" /\ ~shutdown
    /\ job' = [job EXCEPT ![w] = Head(queue)]
    /\ started' = started \cup {Head(queue)}
    /\ queue' = Tail(queue)
    /\ mutex' = NoThread
    /\ Goto(w, "run")
    /\ UNCHANGED <<main, ifrunning, shutdown, submitted, finished>>

(* threadRecvProcFunc returns, and the message is freed.                   *)
Finish(w) ==
    /\ pc[w] = "run"
    /\ finished' = finished \cup {job[w]}
    /\ job' = [job EXCEPT ![w] = NoMessage]
    /\ Goto(w, "lock")
    /\ UNCHANGED <<main, mutex, ifrunning, queue, shutdown, submitted, started>>

WorkerStep(w) == \/ Lock(w) \/ FindEmpty(w) \/ Wait(w) \/ LeaveLoop(w) \/ Exit(w) \/ Take(w)
                 \/ Finish(w)

-----------------------------------------------------------------------------
(* StopAll has returned: the process ends.                                 *)
Ended == main = "end" /\ UNCHANGED vars

Next == MainStep \/ Ended \/ \E w \in Workers : WorkerStep(w) \/ SpuriousWake(w)

Spec == Init /\ [][Next]_vars

-----------------------------------------------------------------------------
(* Properties.                                                             *)

TypeOK ==
    /\ main \in {"create", "loop", "signal", "broadcast", "join", "stopped", "end"}
    /\ pc \in [Workers -> {"new", "lock", "test", "enter", "wait", "woken", "decide", "run",
                           "exited"}]
    /\ mutex \in Workers \cup {NoThread}
    /\ ifrunning \subseteq Workers
    /\ queue \in Seq(Messages) /\ job \in [Workers -> Messages \cup {NoMessage}]
    /\ shutdown \in BOOLEAN
    /\ submitted \subseteq Messages /\ started \subseteq submitted /\ finished \subseteq started

(* Threads that will look at the queue before they wait again.             *)
Awake == {w \in Workers : pc[w] \in {"lock", "woken", "test", "decide"}}

(* No lost wakeup: while a thread waits for work, there are no more        *)
(* messages in the queue than threads already on their way to take one,    *)
(* counting the signal inMsgRecvQueueAndSignal is about to send outside    *)
(* the mutex.                                                              *)
NoIdleWorker ==
    Waiting # {} /\ ~shutdown =>
        Len(queue) <= Cardinality(Awake) + (IF main = "signal" THEN 1 ELSE 0)

(* Whatever the threads do with the mutex, the condition variable and the  *)
(* flag, the pool is the queue the epoll thread expects: each message is   *)
(* started once, in order, and StopAll throws messages away only when no   *)
(* thread still handles one.                                               *)
Abstract == INSTANCE WorkQueue WITH pending <- queue, open <- main # "end"

ImplementsWorkQueue == Abstract!Spec

(* Fairness: the threads run, and pthread_mutex_lock starves nobody; the   *)
(* epoll thread need not push, nor stop the pool.                          *)
Fairness ==
    /\ WF_vars(MainStep /\ main \notin {"loop"})
    /\ \A w \in Workers : WF_vars(WorkerStep(w)) /\ SF_vars(Lock(w))

FairSpec == Spec /\ Fairness

(* A message handed over is handled, unless the pool is being stopped.     *)
EveryMessageHandled == \A m \in Messages : m \in submitted ~> m \in finished \/ shutdown

(* StopAll joins every thread, provided that none is between its test of   *)
(* m_shutdown and its wait when m_shutdown is set, outside the mutex: that *)
(* thread would miss the broadcast too, and be joined for ever.            *)
StopAllReturns ==
    (main = "broadcast" /\ \A w \in Workers : pc[w] # "enter") ~> main = "end"

=============================================================================
