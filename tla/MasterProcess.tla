--------------------------- MODULE MasterProcess ---------------------------
(***************************************************************************)
(* The processes of the server: main starts as the launcher, becomes the   *)
(* master (directly, or in the child qc_daemon forks), opens the listening *)
(* sockets, forks the workers and then sleeps in sigsuspend for ever;      *)
(* signal handlers run on top of whatever it was doing.                    *)
(*                                                                         *)
(* The master is single-threaded, so its control state is a stack: the     *)
(* main program at the bottom and above it the handlers that interrupted   *)
(* it and one another (sa_mask is empty: a handler blocks its own signal   *)
(* only).  Every line of the log takes the lock of the time zone inside    *)
(* localtime_r (external: the C library), which is not recursive.  A       *)
(* signal is pending or not: several of one kind are merged.               *)
(*                                                                         *)
(* "CHLD" is SIGCHLD; "TERM" stands for the signals whose handler only     *)
(* writes a log line (SIGHUP, SIGINT, SIGTERM, SIGQUIT, SIGIO); "USR1" for *)
(* those that are blocked and have no handler, so that they end the        *)
(* process (SIGUSR1, SIGUSR2, SIGALRM).                                    *)
(***************************************************************************)
EXTENDS Integers, Sequences, FiniteSets

CONSTANTS
    WorkerProcesses,    \* configuration: workers to fork
    ListenPortCount,    \* configuration: ports to listen at
    Daemon,             \* configuration: TRUE when Daemon = 1
    MaxToMaster,        \* bound: signals other processes send to the master
    MaxToWorkers        \* bound: signals other processes send to workers

Workers == 1..WorkerProcesses
Signals == {"CHLD", "TERM", "USR1"}
Handled == {"CHLD", "TERM"}     \* signals[] of qc_signal.cc

ASSUME MasterAssumption ==
    /\ WorkerProcesses \in Nat /\ ListenPortCount \in Nat
    /\ MaxToMaster \in Nat /\ MaxToWorkers \in Nat
    /\ Daemon \in BOOLEAN

VARIABLES
    stack,      \* main program and handlers of the master, innermost last
    alive,      \* FALSE once the process of main has ended
    installed,  \* qc_init_signals has been called
    blocked,    \* the signal mask of the main program holds the ten signals
    pending,    \* signals that wait to be delivered to the master
    tz,         \* depth in stack of the holder of the time zone lock, 0: none
    reap,       \* qc_reap
    ports,      \* length of m_ListenSocketList
    inum,       \* workers qc_start_worker_processes has tried to fork
    exitcode,   \* exitcode of main
    status,     \* what the launcher's parent has been told
    worker,     \* each worker process
    sent        \* signals sent from outside so far

startVars == <<installed, blocked, ports, inum, exitcode>>
vars == <<startVars, stack, alive, pending, tz, reap, status, worker, sent>>

NotYet == -1    \* values of status that are no exit codes
Killed == 3

MainLabels == {"load", "install", "listen", "daemon", "detach", "block", "title",
               "spawn", "asleep", "awake", "bye", "exit"}
WorkerLabels == {"none", "forked", "unblock", "create", "subproc", "epoll",
                 "serving", "zombie", "gone"}

Activation == [sig : Signals \cup {"main"}, at : MainLabels \cup {"enter", "wait", "done"},
               log : {"no", "want", "held"}, one : BOOLEAN]
Activate(s, label) == [sig |-> s, at |-> label, log |-> "no", one |-> FALSE]

Depth == Len(stack)
Top == stack[Depth]
Main == stack[1]
Running == {stack[i].sig : i \in 1..Depth}     \* handlers block their own signal

Zombies == {w \in Workers : worker[w].at = "zombie"}
Children == {w \in Workers : worker[w].at \notin {"none", "gone"}}
Live == Children \ Zombies

Init ==
    /\ stack = <<Activate("main", "load")>>
    /\ alive = TRUE /\ installed = FALSE /\ blocked = FALSE
    /\ pending = {} /\ tz = 0 /\ reap = 0 /\ ports = 0 /\ inum = 0
    /\ exitcode = 0 /\ status = NotYet
    /\ worker = [w \in Workers |-> [at |-> "none", role |-> "MASTER", blocked |-> FALSE,
                                    pending |-> {}, as |-> {}]]
    /\ sent = [master |-> 0, worker |-> 0]

(* The innermost activation has nothing to log and is at label.            *)
At(label) == alive /\ Top.at = label /\ Top.log = "no"
(* It goes on at label; l = "want": after writing a line to the log.       *)
Goto(label, l) == stack' = [stack EXCEPT ![Depth].at = label, ![Depth].log = l]

(* The master ends; init adopts its children and waits for them.  In       *)
(* daemon mode the launcher has reported before.                           *)
End(code) ==
    /\ alive' = FALSE
    /\ status' = IF status = NotYet THEN code ELSE status
    /\ worker' = [w \in Workers |-> IF w \in Zombies THEN [worker[w] EXCEPT !.at = "gone"]
                                                     ELSE worker[w]]

-----------------------------------------------------------------------------
(* localtime_r, as every call of qc_log_error_core meets it.               *)

LogLock ==
    /\ alive /\ Top.log = "want" /\ tz = 0
    /\ tz' = Depth
    /\ stack' = [stack EXCEPT ![Depth].log = "held"]
    /\ UNCHANGED <<startVars, alive, pending, reap, status, worker, sent>>

LogUnlock ==
    /\ alive /\ Top.log = "held"
    /\ tz' = 0
    /\ stack' = [stack EXCEPT ![Depth].log = "no"]
    /\ UNCHANGED <<startVars, alive, pending, reap, status, worker, sent>>

-----------------------------------------------------------------------------
(* main, up to the master cycle.                                           *)

(* A step of main that fails: goto lblexit with this exit code.            *)
Fail(code, l) == Goto("bye", l) /\ exitcode' = code

LoadConfig ==
    /\ At("load")
    /\ Fail(2, "want") \/ (Goto("install", "no") /\ UNCHANGED exitcode)
    /\ UNCHANGED <<installed, blocked, ports, inum, alive, pending, tz, reap, status, worker, sent>>

(* sigaction cannot fail for the signals of the table, nor sigprocmask     *)
(* below.                                                                  *)
InitSignals ==
    /\ At("install")
    /\ installed' = TRUE
    /\ Goto("listen", "no")
    /\ UNCHANGED <<blocked, ports, inum, exitcode, alive, pending, tz, reap, status, worker, sent>>

(* One round of qc_open_listening_sockets, or its end: every port is       *)
(* logged, and so is the call that failed.                                 *)
OpenListening ==
    /\ At("listen")
    /\ \/ /\ ports < ListenPortCount
          /\ \/ ports' = ports + 1 /\ Goto("listen", "want") /\ UNCHANGED exitcode
             \/ Fail(1, "want") /\ UNCHANGED ports
       \/ /\ ports = ListenPortCount /\ UNCHANGED ports
          /\ IF ports = 0 THEN Fail(1, "no")
             ELSE /\ Goto(IF Daemon THEN "daemon" ELSE "block", "no")
                  /\ UNCHANGED exitcode
    /\ UNCHANGED <<installed, blocked, inum, alive, pending, tz, reap, status, worker, sent>>

(* qc_daemon: the launcher returns 0 as soon as fork has succeeded, and    *)
(* the child, which becomes the master, has no pending signal.             *)
DaemonFork ==
    /\ At("daemon")
    /\ \/ Goto("detach", "no") /\ status' = 0 /\ pending' = {} /\ UNCHANGED exitcode
       \/ Fail(1, "want") /\ UNCHANGED <<status, pending>>
    /\ UNCHANGED <<installed, blocked, ports, inum, alive, tz, reap, worker, sent>>

(* setsid, open and dup2 in that child.                                    *)
DaemonDetach ==
    /\ At("detach")
    /\ Fail(1, "want") \/ (Goto("block", "no") /\ UNCHANGED exitcode)
    /\ UNCHANGED <<installed, blocked, ports, inum, alive, pending, tz, reap, status, worker, sent>>

Bye ==
    /\ At("bye")
    /\ Goto("exit", "want")
    /\ UNCHANGED <<startVars, alive, pending, tz, reap, status, worker, sent>>

Exit ==
    /\ At("exit")
    /\ End(exitcode)
    /\ UNCHANGED <<startVars, stack, pending, tz, reap, sent>>

-----------------------------------------------------------------------------
(* qc_master_process_cycle.                                                *)

(* Mutant: sigprocmask is forgotten.                                       *)
BlockNothing ==
    /\ At("block")
    /\ Goto("title", "no")
    /\ UNCHANGED <<startVars, alive, pending, tz, reap, status, worker, sent>>

BlockSignals ==
    /\ At("block")
    /\ blocked' = TRUE
    /\ Goto("title", "no")
    /\ UNCHANGED <<installed, ports, inum, exitcode, alive, pending, tz, reap, status, worker, sent>>

(* A title that is too long is neither set nor logged.                     *)
SetTitle ==
    /\ At("title")
    /\ \E l \in {"want", "no"} : Goto("spawn", l)
    /\ UNCHANGED <<startVars, alive, pending, tz, reap, status, worker, sent>>

(* Mutant: one worker more than configured.                                *)
SpawnOneMore ==
    /\ At("spawn") /\ inum <= WorkerProcesses
    /\ inum' = inum + 1
    /\ Goto("spawn", "want")
    /\ UNCHANGED <<installed, blocked, ports, exitcode, alive, pending, tz, reap, status, worker, sent>>

(* A child of fork inherits the mask and qc_process, not pending signals.  *)
SpawnProcess ==
    /\ At("spawn") /\ inum < WorkerProcesses
    /\ inum' = inum + 1
    /\ \/ /\ worker' = [worker EXCEPT ![inum'].at = "forked", ![inum'].blocked = blocked]
          /\ UNCHANGED stack
       \/ Goto("spawn", "want") /\ UNCHANGED worker
    /\ UNCHANGED <<installed, blocked, ports, exitcode, alive, pending, tz, reap, status, sent>>

(* Mutant: the master waits for a worker to be there.                      *)
SleepWithWorkers ==
    /\ At("awake") \/ (At("spawn") /\ inum = WorkerProcesses /\ Children # {})
    /\ Goto("asleep", "no")
    /\ UNCHANGED <<startVars, alive, pending, tz, reap, status, worker, sent>>

(* sigsuspend with an empty mask, the first time and again.                *)
Sleep ==
    /\ At("awake") \/ (At("spawn") /\ inum = WorkerProcesses)
    /\ Goto("asleep", "no")
    /\ UNCHANGED <<startVars, alive, pending, tz, reap, status, worker, sent>>

-----------------------------------------------------------------------------
(* Delivery of a signal to the master, and qc_signal_handler.              *)

(* Mutant: sigsuspend keeps the ten signals blocked.                       *)
DeliverableEarly(s) == s \in pending \ Running /\ ~blocked

Deliverable(s) == /\ s \in pending \ Running
                  /\ blocked => Main.at = "asleep"

Deliver(s) ==
    /\ alive /\ Deliverable(s)
    /\ pending' = pending \ {s}
    /\ IF s \in Handled /\ installed
       THEN stack' = Append(stack, Activate(s, "enter")) /\ UNCHANGED <<alive, status, worker>>
       ELSE /\ UNCHANGED stack
            /\ IF s = "CHLD" THEN UNCHANGED <<alive, status, worker>> ELSE End(Killed)
    /\ UNCHANGED <<startVars, tz, reap, sent>>

HandlerEnter ==
    /\ At("enter")
    /\ reap' = IF Top.sig = "CHLD" THEN 1 ELSE reap
    /\ Goto(IF Top.sig = "CHLD" THEN "wait" ELSE "done", "want")
    /\ UNCHANGED <<startVars, alive, pending, tz, status, worker, sent>>

(* Mutant: one SIGCHLD is taken to mean one child, there is no loop.       *)
WaitPidOnce ==
    /\ At("wait")
    /\ \/ \E w \in Zombies :
            /\ worker' = [worker EXCEPT ![w].at = "gone"]
            /\ Goto("done", "want")
       \/ Zombies = {} /\ Goto("done", "no") /\ UNCHANGED worker
    /\ UNCHANGED <<startVars, alive, pending, tz, reap, status, sent>>

(* One waitpid of qc_process_get_status: a child that has ended is logged  *)
(* and the loop goes on; 0 or ECHILD end it.                               *)
WaitPid ==
    /\ At("wait")
    /\ \/ \E w \in Zombies :
            /\ worker' = [worker EXCEPT ![w].at = "gone"]
            /\ stack' = [stack EXCEPT ![Depth].one = TRUE, ![Depth].log = "want"]
       \/ /\ Zombies = {} /\ UNCHANGED worker
          /\ Goto("done", IF Children # {} \/ Top.one THEN "no" ELSE "want")
    /\ UNCHANGED <<startVars, alive, pending, tz, reap, status, sent>>

(* The handler returns; sigsuspend returns once the first one has.         *)
HandlerReturn ==
    /\ At("done")
    /\ stack' = IF Depth = 2 /\ Main.at = "asleep"
                THEN <<[Main EXCEPT !.at = "awake"]>>
                ELSE SubSeq(stack, 1, Depth - 1)
    /\ UNCHANGED <<startVars, alive, pending, tz, reap, status, worker, sent>>

MasterStep ==
    \/ LogLock \/ LogUnlock \/ LoadConfig \/ InitSignals \/ OpenListening \/ DaemonFork
    \/ DaemonDetach \/ Bye \/ Exit \/ BlockSignals \/ SetTitle \/ SpawnProcess \/ Sleep
    \/ HandlerEnter \/ WaitPid \/ HandlerReturn

-----------------------------------------------------------------------------
(* A worker: qc_worker_process_cycle and qc_worker_process_init.           *)

(* The process ends: SIGCHLD to the master, or to init, which waits.       *)
Ends(w) ==
    /\ worker' = [worker EXCEPT ![w].at = IF alive THEN "zombie" ELSE "gone",
                                ![w].pending = {}]
    /\ pending' = IF alive THEN pending \cup {"CHLD"} ELSE pending

(* Mutant: qc_process stays what it was in the master.                     *)
SetNoRole(w) ==
    /\ worker[w].at = "forked"
    /\ worker' = [worker EXCEPT ![w].at = "unblock"]
    /\ UNCHANGED pending

SetRole(w) ==
    /\ worker[w].at = "forked"
    /\ worker' = [worker EXCEPT ![w].at = "unblock", ![w].role = "WORKER"]
    /\ UNCHANGED pending

Unblock(w) ==
    /\ worker[w].at = "unblock"
    /\ worker' = [worker EXCEPT ![w].at = "create", ![w].blocked = FALSE]
    /\ UNCHANGED pending

(* The pool's threads, Initialize_subproc (mutexes, semaphore, the threads *)
(* that send, recycle and watch the timer) and qc_epoll_init; each of the  *)
(* three ends the process when it fails.                                   *)
Prepare(w) ==
    \/ \E step \in {<<"create", "subproc">>, <<"subproc", "epoll">>, <<"epoll", "serving">>} :
          /\ worker[w].at = step[1]
          /\ worker' = [worker EXCEPT ![w].at = step[2]]
          /\ UNCHANGED pending
    \/ worker[w].at \in {"create", "subproc", "epoll"} /\ Ends(w)

(* A handler in a worker writes a log line; signals without one end it.    *)
WorkerHandler(w) ==
    /\ w \in Live /\ ~worker[w].blocked
    /\ \E s \in worker[w].pending :
          IF s \in Handled
          THEN /\ worker' = [worker EXCEPT ![w].pending = @ \ {s}, ![w].as = @ \cup {worker[w].role}]
               /\ UNCHANGED pending
          ELSE Ends(w)

(* A worker may crash, or be killed, at any time.                          *)
Crash(w) == w \in Live /\ Ends(w)

WorkerStep(w) ==
    /\ SetRole(w) \/ Unblock(w) \/ Prepare(w) \/ WorkerHandler(w)
    /\ UNCHANGED <<startVars, stack, alive, tz, reap, status, sent>>

-----------------------------------------------------------------------------
(* Signals from outside.                                                   *)

SendMaster(s) ==
    /\ alive /\ sent.master < MaxToMaster
    /\ pending' = pending \cup {s}
    /\ sent' = [sent EXCEPT !.master = @ + 1]
    /\ UNCHANGED <<startVars, stack, alive, tz, reap, status, worker>>

SendWorker(w, s) ==
    /\ w \in Live /\ sent.worker < MaxToWorkers
    /\ worker' = [worker EXCEPT ![w].pending = @ \cup {s}]
    /\ sent' = [sent EXCEPT !.worker = @ + 1]
    /\ UNCHANGED <<startVars, stack, alive, pending, tz, reap, status>>

Next ==
    \/ MasterStep
    \/ \E s \in Signals : Deliver(s) \/ SendMaster(s)
    \/ \E w \in Workers : \/ WorkerStep(w)
                          \/ /\ Crash(w)
                             /\ UNCHANGED <<startVars, stack, alive, tz, reap, status, sent>>
                          \/ \E s \in Signals : SendWorker(w, s)

Spec == Init /\ [][Next]_vars

(* The processes run and the kernel delivers; nobody has to send a signal, *)
(* and no worker has to crash.                                             *)
Fairness ==
    /\ WF_vars(MasterStep)
    /\ WF_vars(\E s \in Signals : Deliver(s))
    /\ \A w \in Workers : WF_vars(WorkerStep(w))

FairSpec == Spec /\ Fairness

-----------------------------------------------------------------------------
(* Properties.                                                             *)

TypeOK ==
    /\ stack \in Seq(Activation) /\ Depth >= 1 /\ Main.sig = "main"
    /\ \A i \in 2..Depth : stack[i].sig \in Handled
    /\ alive \in BOOLEAN /\ installed \in BOOLEAN /\ blocked \in BOOLEAN
    /\ pending \subseteq Signals
    /\ tz \in 0..Depth
    /\ reap \in {0, 1}
    /\ ports \in 0..ListenPortCount
    /\ inum \in 0..WorkerProcesses
    /\ exitcode \in 0..2
    /\ status \in NotYet..Killed
    /\ worker \in [Workers -> [at : WorkerLabels, role : {"MASTER", "WORKER"},
                               blocked : BOOLEAN, pending : SUBSET Signals,
                               as : SUBSET {"MASTER", "WORKER"}]]
    /\ sent \in [master : 0..MaxToMaster, worker : 0..MaxToWorkers]

(* A worker that has ended is never forgotten: SIGCHLD is pending, or a    *)
(* handler has still to come to its next waitpid.                          *)
NoChildForgotten ==
    alive /\ Zombies # {} =>
        \/ "CHLD" \in pending
        \/ \E i \in 2..Depth : stack[i].sig = "CHLD" /\ stack[i].at \in {"enter", "wait"}

(* The ten signals are blocked so that none disturbs the forks (comment of *)
(* qc_worker_process_init): no handler runs while the master forks, and a  *)
(* handler that runs in a worker finds qc_process = WORKER, so that it     *)
(* never acts as the master's.                                             *)
ForkUndisturbed ==
    /\ alive /\ Main.at \in {"title", "spawn"} => Depth = 1
    /\ \A w \in Workers : "MASTER" \notin worker[w].as

(* A handler waits for the lock that an activation it interrupted holds.   *)
Stuck == alive /\ Top.log = "want" /\ tz # 0

(* The master comes to sleep, or ends, or hangs in the lock of the log;    *)
(* each worker comes to serve, or ends.                                    *)
Settles ==
    /\ <>(~alive \/ Main.at \in {"asleep", "awake"} \/ Stuck)
    /\ \A w \in Workers : worker[w].at = "forked" ~> worker[w].at \in {"serving", "zombie", "gone"}

(* A worker that has ended is waited for, unless the master hangs.         *)
Reaped == \A w \in Workers : worker[w].at = "zombie" ~> worker[w].at = "gone" \/ Stuck

(* The comment of qc_process_get_status: it is there so that a child that  *)
(* is killed does not become a zombie.                                     *)
ZombiesReaped == \A w \in Workers : worker[w].at = "zombie" ~> worker[w].at = "gone"
=============================================================================
