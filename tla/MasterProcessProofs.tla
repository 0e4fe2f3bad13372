------------------------ MODULE MasterProcessProofs -------------------------
(***************************************************************************)
(* Proofs about MasterProcess, for any number of workers, ports and        *)
(* signals from outside: types, that no child is forgotten, and that forks *)
(* are undisturbed.  The heart is the shape of the stack: main at its      *)
(* bottom, handlers above it, so that a step of main finds no handler      *)
(* running, and handlers only where the mask admits them.                  *)
(***************************************************************************)
EXTENDS MasterProcess, TLAPS

HandlerLabels == {"enter", "wait", "done"}
Labels == MainLabels \cup HandlerLabels
Logs == {"no", "want", "held"}

USE DEF startVars, HandlerLabels, Labels, Logs

(* main is at the bottom and handlers are above it.                        *)
StackInv ==
    /\ Main.at \in MainLabels
    /\ \A i \in 2..Depth : stack[i].at \in HandlerLabels

(* The lock of the time zone has one holder, and it is inside localtime_r. *)
LockInv ==
    /\ tz # 0 => stack[tz].log = "held"
    /\ \A i \in 1..Depth : stack[i].log = "held" => i = tz

(* Handlers run, and workers exist, only once the signals are installed;   *)
(* from the mask to the last fork no handler runs.                         *)
WithSignals == {"listen", "daemon", "detach", "block", "title", "spawn", "asleep", "awake"}
WithWorkers == {"spawn", "asleep", "awake"}
StartInv ==
    /\ Main.at \in WithSignals \/ Depth > 1 => installed
    /\ Main.at \in {"title", "spawn"} => blocked /\ Depth = 1
    /\ \A w \in Workers : /\ worker[w].at # "none" => Main.at \in WithWorkers
                          /\ w > inum => worker[w].at = "none"

(* A worker that may still take itself for the master has signals blocked. *)
RoleInv ==
    \A w \in Workers :
        /\ worker[w].role = "MASTER" => worker[w].at \in {"none", "forked", "zombie", "gone"}
        /\ worker[w].at = "forked" => worker[w].blocked
        /\ "MASTER" \notin worker[w].as

IInv == TypeOK /\ StackInv /\ LockInv /\ StartInv /\ RoleInv /\ NoChildForgotten

(* TypeOK, but for the stack and the lock.                                 *)
RestType ==
    /\ alive \in BOOLEAN /\ installed \in BOOLEAN /\ blocked \in BOOLEAN
    /\ pending \subseteq Signals
    /\ reap \in {0, 1}
    /\ ports \in 0..ListenPortCount
    /\ inum \in 0..WorkerProcesses
    /\ exitcode \in 0..2
    /\ status \in NotYet..Killed
    /\ worker \in [Workers -> [at : WorkerLabels, role : {"MASTER", "WORKER"},
                               blocked : BOOLEAN, pending : SUBSET Signals,
                               as : SUBSET {"MASTER", "WORKER"}]]
    /\ sent \in [master : 0..MaxToMaster, worker : 0..MaxToWorkers]

-----------------------------------------------------------------------------
(* What happens to the stack.                                              *)

(* A stack as TypeOK has it.                                               *)
StackType(s) ==
    /\ s \in Seq(Activation) /\ Len(s) >= 1 /\ s[1].sig = "main"
    /\ \A i \in 2..Len(s) : s[i].sig \in Handled

LEMMA TypeParts == TypeOK <=> StackType(stack) /\ tz \in 0..Depth /\ RestType
  BY DEF TypeOK, StackType, RestType, Depth, Main

(* The top is replaced, the rest stays.                                    *)
Replaced(label, l) ==
    /\ StackType(stack') /\ Len(stack') = Len(stack)
    /\ \A i \in 1..(Len(stack) - 1) : stack'[i] = stack[i]
    /\ stack'[Len(stack)].at = label /\ stack'[Len(stack)].log = l
    /\ stack'[Len(stack)].sig = stack[Len(stack)].sig

LEMMA TopReplaced ==
  ASSUME StackType(stack), NEW a \in Activation, a.sig = Top.sig, stack' = [stack EXCEPT ![Depth] = a]
  PROVE  Replaced(a.at, a.log)
  <1> DEFINE n == Len(stack)
  <1>1. n \in Nat /\ n \in 1..n /\ DOMAIN stack = 1..n
    BY DEF StackType
  <1>2. stack' = [stack EXCEPT ![n] = a]
    BY DEF Depth
  <1>3. stack' \in Seq(Activation) /\ Len(stack') = n
    <2>1. stack \in Seq(Activation)
      BY DEF StackType
    <2> HIDE DEF n
    <2>2. [stack EXCEPT ![n] = a] \in Seq(Activation) /\ Len([stack EXCEPT ![n] = a]) = Len(stack)
      BY <1>1, <2>1
    <2> QED BY <1>2, <2>2 DEF n
  <1>4. stack'[n] = a /\ \A i \in 1..n : i # n => stack'[i] = stack[i]
    BY <1>1, <1>2
  <1>5. \A i \in 1..n : stack'[i].sig = stack[i].sig
    BY <1>4 DEF Depth, Top
  <1>6. StackType(stack')
    BY <1>1, <1>3, <1>5 DEF StackType
  <1> QED BY <1>1, <1>3, <1>4, <1>5, <1>6 DEF Replaced

LEMMA GotoReplaces ==
  ASSUME StackType(stack), NEW label \in Labels, NEW l \in Logs, Goto(label, l)
  PROVE  Replaced(label, l)
  <1> DEFINE a == [Top EXCEPT !.at = label, !.log = l]
  <1>1. Depth \in 1..Depth /\ Top \in Activation
    BY DEF StackType, Depth, Top
  <1>2. a \in Activation /\ a.at = label /\ a.log = l /\ a.sig = Top.sig
    BY <1>1 DEF Activation
  <1>3. stack' = [stack EXCEPT ![Depth] = a]
    BY <1>1 DEF Goto, Depth, Top, Activation, StackType
  <1> QED BY <1>2, <1>3, TopReplaced

(* Where main is when it is about to make a step.                          *)
LEMMA MainAt ==
  ASSUME IInv, NEW from \in MainLabels, At(from)
  PROVE  Depth = 1 /\ Main.at = from /\ Main.log = "no"
  <1>1. StackType(stack) /\ Depth \in Nat
    BY TypeParts DEF IInv, StackType, Depth
  <1>2. Depth = 1
    <2>1. Depth >= 1 /\ stack[Depth].at \in MainLabels
      BY <1>1 DEF At, Top, StackType, Depth
    <2>2. Depth \in 2..Depth => stack[Depth].at \in HandlerLabels
      BY DEF IInv, StackInv
    <2>3. MainLabels \cap HandlerLabels = {}
      BY DEF MainLabels
    <2> QED BY <1>1, <2>1, <2>2, <2>3
  <1> QED BY <1>2 DEF At, Top, Main

(* A step of main: no handler is running, and none has the lock.           *)
LEMMA MainGoes ==
  ASSUME IInv, NEW from \in MainLabels, At(from),
         NEW to \in MainLabels, NEW l \in {"no", "want"}, Goto(to, l), tz' = tz
  PROVE  /\ Depth = 1 /\ Main.at = from /\ tz = 0
         /\ StackType(stack') /\ Depth' = 1 /\ Main'.at = to
         /\ StackInv' /\ LockInv'
  <1>1. StackType(stack) /\ Depth \in Nat
    BY DEF IInv, TypeOK, StackType, Depth, Main
  <1>2. Depth = 1 /\ Main.at = from /\ Main.log = "no"
    BY MainAt
  <1>4. tz = 0
    BY <1>2 DEF IInv, TypeOK, LockInv, Main
  <1>5. Replaced(to, l)
    BY <1>1, GotoReplaces
  <1>6. StackType(stack') /\ Depth' = 1 /\ Main'.at = to /\ Main'.log = l
    BY <1>2, <1>5 DEF Replaced, Depth, Main
  <1>7. StackInv' /\ LockInv'
    BY <1>4, <1>6 DEF StackInv, LockInv, Main
  <1> QED BY <1>2, <1>4, <1>6, <1>7

(* The top is replaced by one of the same kind that does not hold the lock.*)
LEMMA HandlerGoes ==
  ASSUME IInv, NEW from \in HandlerLabels, At(from),
         NEW to \in HandlerLabels, NEW l \in {"no", "want"}, Replaced(to, l), tz' = tz
  PROVE  /\ Depth > 1 /\ Depth' = Depth /\ Main' = Main
         /\ StackType(stack') /\ StackInv' /\ LockInv'
  <1>1. StackType(stack) /\ Depth \in Nat
    BY DEF IInv, TypeOK, StackType, Depth, Main
  <1>2. Depth > 1
    BY <1>1 DEF IInv, StackInv, At, Top, MainLabels, StackType, Depth, Main
  <1>3. StackType(stack') /\ Depth' = Depth /\ Main' = Main
    BY <1>1, <1>2 DEF Replaced, Depth, Main
  <1>4. StackInv'
    BY <1>1, <1>2, <1>3 DEF Replaced, StackInv, IInv, Depth
  <1>5. tz # Depth
    BY <1>1, <1>2 DEF IInv, LockInv, At, Top
  <1>6. LockInv'
    <2>1. tz \in 0..Depth
      BY DEF IInv, TypeOK
    <2>2. tz' # 0 => stack'[tz'].log = "held"
      BY <1>1, <1>5, <2>1 DEF Replaced, LockInv, IInv, Depth
    <2>3. \A i \in 1..Depth : stack'[i].log = "held" => i = tz
      BY <1>1, <1>2 DEF Replaced, LockInv, IInv, Depth
    <2> QED BY <1>3, <2>2, <2>3 DEF LockInv
  <1> QED BY <1>2, <1>3, <1>4, <1>6
-----------------------------------------------------------------------------
(* Steps of main.                                                          *)

(* Main at the bottom alone, and no worker there before the first fork.    *)
LEMMA MainPreserves ==
  ASSUME IInv, NEW from \in MainLabels, At(from),
         NEW to \in MainLabels, NEW l \in {"no", "want"}, Goto(to, l), tz' = tz,
         RestType', alive' = alive, worker' = worker, inum' = inum,
         to \in WithSignals => installed',
         to \in {"title", "spawn"} => blocked',
         from \in WithWorkers => to \in WithWorkers /\ pending' = pending
  PROVE  IInv'
  <1>1. /\ Depth = 1 /\ Main.at = from /\ tz = 0
        /\ StackType(stack') /\ Depth' = 1 /\ Main'.at = to
        /\ StackInv' /\ LockInv'
    BY MainGoes
  <1>2. TypeOK'
    BY <1>1 DEF TypeOK, StackType, RestType, Depth, Main
  <1>3. StartInv'
    BY <1>1 DEF StartInv, IInv, WithWorkers
  <1>4. RoleInv'
    BY DEF RoleInv, IInv
  <1>5. NoChildForgotten'
    <2>1. Zombies' = Zombies
      BY DEF Zombies
    <2>2. CASE from \in WithWorkers
      BY <1>1, <2>1, <2>2 DEF NoChildForgotten, IInv
    <2>3. CASE from \notin WithWorkers
      BY <1>1, <2>1, <2>3 DEF NoChildForgotten, IInv, StartInv, Zombies
    <2> QED BY <2>2, <2>3
  <1> QED BY <1>1, <1>2, <1>3, <1>4, <1>5 DEF IInv

LEMMA StartPreserves ==
  ASSUME IInv, \/ LoadConfig \/ InitSignals \/ OpenListening \/ DaemonFork \/ DaemonDetach
               \/ Bye \/ BlockSignals \/ SetTitle \/ Sleep
  PROVE  IInv'
  <1>0. RestType /\ MasterAssumption
    BY TypeParts, MasterAssumption DEF IInv
  <1>1. CASE LoadConfig
    <2>1. PICK to \in {"bye", "install"}, l \in {"no", "want"} : Goto(to, l)
      BY <1>1 DEF LoadConfig, Fail
    <2>2. At("load") /\ RestType'
      BY <1>0, <1>1 DEF LoadConfig, Fail, RestType
    <2> QED BY <1>1, <2>1, <2>2, MainPreserves DEF LoadConfig, MainLabels, WithSignals, WithWorkers
  <1>2. CASE InitSignals
    <2>1. RestType'
      BY <1>0, <1>2 DEF InitSignals, RestType
    <2> QED BY <1>2, <2>1, MainPreserves DEF InitSignals, MainLabels, WithSignals, WithWorkers
  <1>3. CASE OpenListening
    <2>1. PICK to \in {"bye", "listen", "daemon", "block"}, l \in {"no", "want"} : Goto(to, l)
      BY <1>3 DEF OpenListening, Fail
    <2>2. RestType'
      BY <1>0, <1>3 DEF OpenListening, Fail, RestType, MasterAssumption
    <2>3. installed
      <3>1. At("listen")
        BY <1>3 DEF OpenListening
      <3> QED BY <3>1, MainAt DEF MainLabels, IInv, StartInv, WithSignals
    <2> QED BY <1>3, <2>1, <2>2, <2>3, MainPreserves
            DEF OpenListening, MainLabels, WithSignals, WithWorkers
  <1>4. CASE DaemonFork
    <2>1. PICK to \in {"bye", "detach"}, l \in {"no", "want"} : Goto(to, l)
      BY <1>4 DEF DaemonFork, Fail
    <2>2. At("daemon") /\ RestType'
      BY <1>0, <1>4 DEF DaemonFork, Fail, RestType, NotYet, Killed
    <2>3. installed
      BY <2>2, MainAt DEF MainLabels, IInv, StartInv, WithSignals
    <2> QED BY <1>4, <2>1, <2>2, <2>3, MainPreserves
            DEF DaemonFork, MainLabels, WithSignals, WithWorkers
  <1>5. CASE DaemonDetach
    <2>1. PICK to \in {"bye", "block"}, l \in {"no", "want"} : Goto(to, l)
      BY <1>5 DEF DaemonDetach, Fail
    <2>2. At("detach") /\ RestType'
      BY <1>0, <1>5 DEF DaemonDetach, Fail, RestType
    <2>3. installed
      BY <2>2, MainAt DEF MainLabels, IInv, StartInv, WithSignals
    <2> QED BY <1>5, <2>1, <2>2, <2>3, MainPreserves
            DEF DaemonDetach, MainLabels, WithSignals, WithWorkers
  <1>6. CASE Bye
    <2>1. RestType'
      BY <1>0, <1>6 DEF Bye, RestType
    <2> QED BY <1>6, <2>1, MainPreserves DEF Bye, MainLabels, WithSignals, WithWorkers
  <1>7. CASE BlockSignals
    <2>1. At("block") /\ RestType'
      BY <1>0, <1>7 DEF BlockSignals, RestType
    <2>2. installed
      BY <2>1, MainAt DEF MainLabels, IInv, StartInv, WithSignals
    <2> QED BY <1>7, <2>1, <2>2, MainPreserves DEF BlockSignals, MainLabels, WithSignals, WithWorkers
  <1>8. CASE SetTitle
    <2>1. At("title") /\ RestType'
      BY <1>0, <1>8 DEF SetTitle, RestType
    <2>2. PICK l \in {"no", "want"} : Goto("spawn", l)
      BY <1>8 DEF SetTitle
    <2>3. installed /\ blocked
      BY <2>1, MainAt DEF MainLabels, IInv, StartInv, WithSignals
    <2> QED BY <1>8, <2>1, <2>2, <2>3, MainPreserves DEF SetTitle, MainLabels, WithSignals, WithWorkers
  <1>9. CASE Sleep
    <2>1. PICK from \in {"awake", "spawn"} : At(from)
      BY <1>9 DEF Sleep
    <2>2. RestType'
      BY <1>0, <1>9 DEF Sleep, RestType
    <2>3. installed
      BY <2>1, MainAt DEF MainLabels, IInv, StartInv, WithSignals
    <2> QED BY <1>9, <2>1, <2>2, <2>3, MainPreserves DEF Sleep, MainLabels, WithSignals, WithWorkers
  <1> QED BY <1>1, <1>2, <1>3, <1>4, <1>5, <1>6, <1>7, <1>8, <1>9

LEMMA SpawnPreserves == ASSUME IInv, SpawnProcess PROVE IInv'
  <1>1. /\ At("spawn") /\ inum < WorkerProcesses /\ inum' = inum + 1 /\ inum' \in Workers
        /\ alive' = alive /\ pending' = pending /\ tz' = tz
    BY MasterAssumption, TypeParts DEF SpawnProcess, IInv, RestType, Workers, MasterAssumption
  <1>2. Depth = 1 /\ Main.at = "spawn" /\ installed /\ blocked
    BY <1>1, MainAt DEF MainLabels, IInv, StartInv, WithSignals
  <1>3. worker' \in [Workers -> [at : WorkerLabels, role : {"MASTER", "WORKER"},
                               blocked : BOOLEAN, pending : SUBSET Signals,
                               as : SUBSET {"MASTER", "WORKER"}]]
    BY <1>1, <1>2, TypeParts DEF SpawnProcess, IInv, RestType, WorkerLabels
  <1>4. /\ \A w \in Workers : w # inum' => worker'[w] = worker[w]
        /\ worker'[inum'].role = worker[inum'].role /\ worker'[inum'].as = worker[inum'].as
        /\ \/ worker'[inum'] = worker[inum']
           \/ worker'[inum'].at = "forked" /\ worker'[inum'].blocked
    <2>1. DOMAIN worker = Workers
      BY TypeParts DEF IInv, RestType
    <2>2. CASE worker' = worker
      BY <2>2
    <2>3. CASE worker' = [worker EXCEPT ![inum'].at = "forked", ![inum'].blocked = blocked]
      <3>1. worker[inum'] \in [at : WorkerLabels, role : {"MASTER", "WORKER"},
                               blocked : BOOLEAN, pending : SUBSET Signals,
                               as : SUBSET {"MASTER", "WORKER"}]
        BY <1>1, TypeParts DEF IInv, RestType
      <3> QED BY <1>1, <1>2, <2>1, <2>3, <3>1
    <2> QED BY <2>2, <2>3 DEF SpawnProcess
  <1>5. StackType(stack') /\ Depth' = 1 /\ Main'.at = "spawn" /\ StackInv' /\ LockInv'
    <2>1. CASE stack' = stack
      BY <1>1, <1>2, <2>1, TypeParts DEF IInv, StackType, StackInv, LockInv, Depth, Main
    <2>2. CASE Goto("spawn", "want")
      BY <1>1, <2>2, MainGoes DEF MainLabels
    <2> QED BY <2>1, <2>2 DEF SpawnProcess
  <1>6. TypeOK'
    <2>1. inum' \in 0..WorkerProcesses
      BY <1>1, MasterAssumption, TypeParts DEF IInv, RestType, MasterAssumption
    <2>2. tz' \in 0..Depth'
      BY <1>1, <1>2, <1>5 DEF IInv, TypeOK
    <2> QED BY <1>1, <1>3, <1>5, <2>1, <2>2, TypeParts, SMTT(30)
            DEF SpawnProcess, IInv, RestType, TypeOK, StackType, Depth, Main
  <1>7. StartInv'
    BY <1>1, <1>2, <1>4, <1>5, MasterAssumption, TypeParts
       DEF SpawnProcess, IInv, StartInv, WithSignals, WithWorkers, Workers, RestType, MasterAssumption
  <1>8. RoleInv'
    BY <1>4 DEF IInv, RoleInv
  <1>9. NoChildForgotten'
    <2>1. Zombies' \subseteq Zombies
      BY <1>4 DEF Zombies
    <2> QED BY <1>1, <1>2, <2>1 DEF IInv, NoChildForgotten
  <1> QED BY <1>5, <1>6, <1>7, <1>8, <1>9 DEF IInv

-----------------------------------------------------------------------------
(* Steps that leave the stack alone.                                       *)

(* Ended workers are waited for by init once the master has ended.         *)
LEMMA EndPreserves ==
  ASSUME IInv, NEW code \in NotYet..Killed, End(code), pending' \subseteq pending,
         UNCHANGED <<startVars, stack, tz, reap, sent>>
  PROVE  IInv'
  <1>1. worker' \in [Workers -> [at : WorkerLabels, role : {"MASTER", "WORKER"},
                               blocked : BOOLEAN, pending : SUBSET Signals,
                               as : SUBSET {"MASTER", "WORKER"}]]
    BY TypeParts DEF End, IInv, RestType, WorkerLabels
  <1>2. \A w \in Workers :
           /\ worker'[w].role = worker[w].role /\ worker'[w].as = worker[w].as
           /\ worker'[w].blocked = worker[w].blocked
           /\ \/ worker'[w].at = worker[w].at
              \/ worker[w].at = "zombie" /\ worker'[w].at = "gone"
    BY TypeParts DEF End, IInv, RestType, Zombies
  <1>3. TypeOK'
    BY <1>1, TypeParts DEF End, IInv, RestType, TypeOK, StackType, Depth, Main
  <1>4. StackInv' /\ LockInv'
    BY DEF IInv, StackInv, LockInv, Depth, Main
  <1>5. StartInv'
    BY <1>2 DEF IInv, StartInv, Depth, Main
  <1>6. RoleInv'
    BY <1>2 DEF IInv, RoleInv
  <1>7. NoChildForgotten'
    BY DEF NoChildForgotten, End
  <1> QED BY <1>3, <1>4, <1>5, <1>6, <1>7 DEF IInv

LEMMA ExitPreserves == ASSUME IInv, Exit PROVE IInv'
  <1>1. exitcode \in NotYet..Killed
    BY TypeParts DEF IInv, RestType, NotYet, Killed
  <1> QED BY <1>1, EndPreserves DEF Exit

(* One worker moves, or gets a signal.                                     *)
LEMMA WorkerMoves ==
  ASSUME IInv, NEW w \in Workers, UNCHANGED <<startVars, stack, alive, tz, reap, status>>,
         sent' \in [master : 0..MaxToMaster, worker : 0..MaxToWorkers],
         pending' \in {pending, pending \cup {"CHLD"}},
         worker' \in [Workers -> [at : WorkerLabels, role : {"MASTER", "WORKER"},
                               blocked : BOOLEAN, pending : SUBSET Signals,
                               as : SUBSET {"MASTER", "WORKER"}]],
         \A v \in Workers : v # w => worker'[v] = worker[v],
         worker'[w].at # "none" => worker[w].at # "none",
         worker'[w].role = "MASTER" => worker'[w].at \in {"none", "forked", "zombie", "gone"},
         worker'[w].at = "forked" => worker'[w].blocked,
         "MASTER" \notin worker'[w].as,
         alive /\ worker'[w].at = "zombie" => worker[w].at = "zombie" \/ "CHLD" \in pending'
  PROVE  IInv'
  <1>1. TypeOK'
    BY TypeParts DEF IInv, RestType, TypeOK, StackType, Depth, Main, Signals
  <1>2. StackInv' /\ LockInv'
    BY DEF IInv, StackInv, LockInv, Depth, Main
  <1>3. StartInv'
    BY DEF IInv, StartInv, Depth, Main
  <1>4. RoleInv'
    BY DEF IInv, RoleInv
  <1>5. NoChildForgotten'
    BY DEF IInv, NoChildForgotten, Zombies, Depth
  <1> QED BY <1>1, <1>2, <1>3, <1>4, <1>5 DEF IInv

LEMMA WorkerPreserves ==
  ASSUME IInv, NEW w \in Workers,
         WorkerStep(w) \/ (Crash(w) /\ UNCHANGED <<startVars, stack, alive, tz, reap, status, sent>>)
  PROVE  IInv'
  <1> DEFINE WorkerType == [at : WorkerLabels, role : {"MASTER", "WORKER"},
                            blocked : BOOLEAN, pending : SUBSET Signals,
                            as : SUBSET {"MASTER", "WORKER"}]
  <1>0. /\ worker \in [Workers -> WorkerType] /\ worker[w] \in WorkerType
        /\ sent \in [master : 0..MaxToMaster, worker : 0..MaxToWorkers]
    BY TypeParts DEF IInv, RestType
  <1>1. UNCHANGED <<startVars, stack, alive, tz, reap, status>> /\ sent' = sent
    BY DEF WorkerStep
  <1>2. CASE Ends(w) /\ worker[w].at # "none"
    <2>1. worker'[w] = [worker[w] EXCEPT !.at = IF alive THEN "zombie" ELSE "gone", !.pending = {}]
      BY <1>0, <1>2 DEF Ends
    <2>2. \A v \in Workers : v # w => worker'[v] = worker[v]
      BY <1>0, <1>2 DEF Ends
    <2>3. worker'[w] \in WorkerType
      BY <1>0, <2>1 DEF WorkerLabels
    <2>4. worker' \in [Workers -> WorkerType]
      BY <1>0, <1>2, <2>2, <2>3 DEF Ends
    <2>5. /\ worker'[w].at \in {"zombie", "gone"} /\ worker'[w].as = worker[w].as
          /\ worker'[w].at = "zombie" => "CHLD" \in pending'
          /\ pending' \in {pending, pending \cup {"CHLD"}}
      BY <1>0, <1>2, <2>1 DEF Ends
    <2>6. "MASTER" \notin worker[w].as
      BY DEF IInv, RoleInv
    <2> QED BY <1>0, <1>1, <1>2, <2>2, <2>4, <2>5, <2>6, WorkerMoves
  <1>3. CASE SetRole(w)
    <2>1. /\ worker'[w] = [worker[w] EXCEPT !.at = "unblock", !.role = "WORKER"]
          /\ \A v \in Workers : v # w => worker'[v] = worker[v]
      BY <1>0, <1>3 DEF SetRole
    <2>2. /\ worker'[w] \in WorkerType /\ worker'[w].as = worker[w].as
          /\ worker'[w].at = "unblock" /\ worker'[w].role = "WORKER"
      BY <1>0, <2>1 DEF WorkerLabels
    <2>3. worker' \in [Workers -> WorkerType]
      BY <1>0, <1>3, <2>2 DEF SetRole
    <2>4. worker[w].at = "forked" /\ pending' = pending
      BY <1>3 DEF SetRole
    <2> QED BY <1>0, <1>1, <2>1, <2>2, <2>3, <2>4, WorkerMoves DEF IInv, RoleInv
  <1>4. CASE Unblock(w)
    <2>1. /\ worker'[w] = [worker[w] EXCEPT !.at = "create", !.blocked = FALSE]
          /\ \A v \in Workers : v # w => worker'[v] = worker[v]
      BY <1>0, <1>4 DEF Unblock
    <2>2. /\ worker'[w] \in WorkerType /\ worker'[w].as = worker[w].as
          /\ worker'[w].at = "create" /\ worker'[w].role = worker[w].role
      BY <1>0, <2>1 DEF WorkerLabels
    <2>3. worker' \in [Workers -> WorkerType]
      BY <1>0, <1>4, <2>2 DEF Unblock
    <2>4. worker[w].at = "unblock" /\ pending' = pending
      BY <1>4 DEF Unblock
    <2>5. worker[w].role # "MASTER" /\ "MASTER" \notin worker[w].as
      BY <2>4 DEF IInv, RoleInv
    <2> QED BY <1>0, <1>1, <2>1, <2>2, <2>3, <2>4, <2>5, WorkerMoves
  <1>5. CASE Prepare(w) /\ ~Ends(w)
    <2>1. PICK step \in {<<"create", "subproc">>, <<"subproc", "epoll">>, <<"epoll", "serving">>} :
             /\ worker[w].at = step[1] /\ pending' = pending
             /\ worker' = [worker EXCEPT ![w].at = step[2]]
      BY <1>5 DEF Prepare
    <2>2. step[1] \notin {"none", "forked", "zombie", "gone"} /\ step[2] \in {"subproc", "epoll", "serving"}
      OBVIOUS
    <2>3. /\ worker'[w] = [worker[w] EXCEPT !.at = step[2]]
          /\ \A v \in Workers : v # w => worker'[v] = worker[v]
      BY <1>0, <2>1
    <2>4. /\ worker'[w] \in WorkerType /\ worker'[w].as = worker[w].as
          /\ worker'[w].at = step[2] /\ worker'[w].role = worker[w].role
      BY <1>0, <2>2, <2>3 DEF WorkerLabels
    <2>5. worker' \in [Workers -> WorkerType]
      BY <1>0, <2>1, <2>4
    <2>6. worker[w].role # "MASTER" /\ "MASTER" \notin worker[w].as
      BY <2>1, <2>2 DEF IInv, RoleInv
    <2> QED BY <1>0, <1>1, <2>1, <2>2, <2>3, <2>4, <2>5, <2>6, WorkerMoves
  <1>6. CASE WorkerHandler(w) /\ ~Ends(w)
    <2>1. PICK s \in worker[w].pending :
             /\ worker' = [worker EXCEPT ![w].pending = @ \ {s}, ![w].as = @ \cup {worker[w].role}]
             /\ pending' = pending
      BY <1>6 DEF WorkerHandler
    <2>2. worker[w].at \notin {"none", "gone", "zombie", "forked"} /\ worker[w].role # "MASTER"
      BY <1>6 DEF WorkerHandler, Live, Children, Zombies, IInv, RoleInv
    <2>3. /\ worker'[w] = [worker[w] EXCEPT !.pending = @ \ {s}, !.as = @ \cup {worker[w].role}]
          /\ \A v \in Workers : v # w => worker'[v] = worker[v]
      BY <1>0, <2>1
    <2>4. /\ worker'[w] \in WorkerType /\ worker'[w].as = worker[w].as \cup {worker[w].role}
          /\ worker'[w].at = worker[w].at /\ worker'[w].role = worker[w].role
      <3> DEFINE p == worker[w].pending \ {s}
                 a == worker[w].as \cup {worker[w].role}
      <3>1. p \in SUBSET Signals /\ a \in SUBSET {"MASTER", "WORKER"}
        BY <1>0
      <3>2. worker'[w] = [worker[w] EXCEPT !.pending = p, !.as = a]
        BY <2>3
      <3> HIDE DEF p
      <3> QED BY <1>0, <3>1, <3>2
    <2>5. worker' \in [Workers -> WorkerType]
      BY <1>0, <2>1, <2>4
    <2>6. "MASTER" \notin worker'[w].as
      BY <2>2, <2>4 DEF IInv, RoleInv
    <2> QED BY <1>0, <1>1, <2>1, <2>2, <2>3, <2>4, <2>5, <2>6, WorkerMoves
  <1> QED
    <2>1. Prepare(w) /\ Ends(w) => worker[w].at # "none"
      BY DEF Prepare
    <2>2. WorkerHandler(w) \/ Crash(w) => worker[w].at # "none"
      BY DEF WorkerHandler, Crash, Live, Children
    <2> QED BY <1>2, <1>3, <1>4, <1>5, <1>6, <2>1, <2>2 DEF WorkerStep, Crash

(* Signals from outside.                                                   *)
LEMMA SendPreserves ==
  ASSUME IInv, NEW s \in Signals, SendMaster(s) \/ \E w \in Workers : SendWorker(w, s)
  PROVE  IInv'
  <1> DEFINE WorkerType == [at : WorkerLabels, role : {"MASTER", "WORKER"},
                            blocked : BOOLEAN, pending : SUBSET Signals,
                            as : SUBSET {"MASTER", "WORKER"}]
  <1>0. /\ worker \in [Workers -> WorkerType] /\ MasterAssumption
        /\ sent \in [master : 0..MaxToMaster, worker : 0..MaxToWorkers]
    BY TypeParts, MasterAssumption DEF IInv, RestType
  <1>1. CASE SendMaster(s)
    <2>1. sent' \in [master : 0..MaxToMaster, worker : 0..MaxToWorkers]
      BY <1>0, <1>1 DEF SendMaster, MasterAssumption
    <2>2. TypeOK'
      BY <1>1, <2>1, TypeParts DEF SendMaster, IInv, RestType, TypeOK, StackType, Depth, Main
    <2>3. StackInv' /\ LockInv' /\ StartInv' /\ RoleInv'
      BY <1>1 DEF SendMaster, IInv, StackInv, LockInv, StartInv, RoleInv, Depth, Main
    <2>4. NoChildForgotten'
      BY <1>1 DEF SendMaster, IInv, NoChildForgotten, Zombies, Depth
    <2> QED BY <2>2, <2>3, <2>4 DEF IInv
  <1>2. ASSUME NEW w \in Workers, SendWorker(w, s) PROVE IInv'
    <2>1. sent' \in [master : 0..MaxToMaster, worker : 0..MaxToWorkers]
      BY <1>0, <1>2 DEF SendWorker, MasterAssumption
    <2>2. /\ worker'[w] = [worker[w] EXCEPT !.pending = @ \cup {s}]
          /\ \A v \in Workers : v # w => worker'[v] = worker[v]
      BY <1>0, <1>2 DEF SendWorker
    <2>3. /\ worker'[w] \in WorkerType /\ worker'[w].as = worker[w].as
          /\ worker'[w].at = worker[w].at /\ worker'[w].role = worker[w].role
          /\ worker'[w].blocked = worker[w].blocked
      <3> DEFINE p == worker[w].pending \cup {s}
      <3>1. p \in SUBSET Signals /\ worker[w] \in WorkerType
        BY <1>0
      <3>2. worker'[w] = [worker[w] EXCEPT !.pending = p]
        BY <2>2
      <3> HIDE DEF p
      <3> QED BY <3>1, <3>2
    <2>4. worker' \in [Workers -> WorkerType]
      BY <1>0, <1>2, <2>3 DEF SendWorker
    <2>5. /\ worker[w].role = "MASTER" => worker[w].at \in {"none", "forked", "zombie", "gone"}
          /\ worker[w].at = "forked" => worker[w].blocked
          /\ "MASTER" \notin worker[w].as
      BY DEF IInv, RoleInv
    <2> QED BY <1>2, <2>1, <2>2, <2>3, <2>4, <2>5, WorkerMoves DEF SendWorker
  <1> QED BY <1>1, <1>2

-----------------------------------------------------------------------------
(* Handlers, and the lock of the log.                                      *)

(* Steps that change no more than the stack and the lock.                  *)
LEMMA StackMoves ==
  ASSUME IInv, UNCHANGED <<startVars, alive, pending, status, sent>>, reap' \in {0, 1},
         StackType(stack'), StackInv', LockInv', tz' \in 0..Depth',
         worker' \in [Workers -> [at : WorkerLabels, role : {"MASTER", "WORKER"},
                               blocked : BOOLEAN, pending : SUBSET Signals,
                               as : SUBSET {"MASTER", "WORKER"}]],
         \A w \in Workers : /\ worker'[w].role = worker[w].role /\ worker'[w].as = worker[w].as
                            /\ worker'[w].blocked = worker[w].blocked
                            /\ \/ worker'[w].at = worker[w].at
                               \/ worker[w].at = "zombie" /\ worker'[w].at = "gone",
         Main'.at = Main.at \/ (Main.at = "asleep" /\ Main'.at = "awake"),
         Depth' <= Depth,
         NoChildForgotten'
  PROVE  IInv'
  <1>1. TypeOK'
    BY TypeParts DEF IInv, RestType, TypeOK, StackType, Depth, Main
  <1>2. StartInv'
    <2>1. Depth \in Nat /\ Depth' \in Nat /\ Depth' >= 1
      BY TypeParts DEF IInv, StackType, Depth
    <2> QED BY <2>1 DEF IInv, StartInv, WithSignals, WithWorkers
  <1>3. RoleInv'
    BY DEF IInv, RoleInv
  <1> QED BY <1>1, <1>2, <1>3 DEF IInv

(* A handler that keeps its place in front of waitpid, or need not.        *)
LEMMA HandlerPreserves == ASSUME IInv, HandlerEnter \/ WaitPid PROVE IInv'
  <1> DEFINE WorkerType == [at : WorkerLabels, role : {"MASTER", "WORKER"},
                            blocked : BOOLEAN, pending : SUBSET Signals,
                            as : SUBSET {"MASTER", "WORKER"}]
  <1>0. /\ StackType(stack) /\ worker \in [Workers -> WorkerType] /\ reap \in {0, 1}
        /\ tz \in 0..Depth /\ Depth \in Nat /\ Depth >= 1 /\ Depth = Len(stack) /\ Top \in Activation
    BY TypeParts DEF IInv, RestType, StackType, Depth, Top
  <1>1. CASE HandlerEnter
    <2> DEFINE to == IF Top.sig = "CHLD" THEN "wait" ELSE "done"
    <2>1. At("enter") /\ Goto(to, "want") /\ tz' = tz /\ worker' = worker
      BY <1>1 DEF HandlerEnter
    <2>2. Replaced(to, "want")
      BY <1>0, <2>1, GotoReplaces
    <2>3. /\ Depth > 1 /\ Depth' = Depth /\ Main' = Main
          /\ StackType(stack') /\ StackInv' /\ LockInv'
      BY <2>1, <2>2, HandlerGoes
    <2>4. NoChildForgotten'
      <3>1. Zombies' = Zombies /\ alive' = alive /\ pending' = pending
        BY <1>1 DEF HandlerEnter, Zombies
      <3>2. ASSUME NEW i \in 2..Depth, stack[i].sig = "CHLD", stack[i].at \in {"enter", "wait"}
            PROVE  i \in 2..Depth' /\ stack'[i].sig = "CHLD" /\ stack'[i].at \in {"enter", "wait"}
        BY <1>0, <2>2, <2>3, <3>2 DEF Replaced, Top, Depth
      <3> QED BY <3>1, <3>2 DEF IInv, NoChildForgotten
    <2> QED BY <1>0, <1>1, <2>1, <2>3, <2>4, StackMoves DEF HandlerEnter
  <1>2. CASE WaitPid
    <2>1. At("wait") /\ tz' = tz /\ alive' = alive /\ pending' = pending
      BY <1>2 DEF WaitPid
    <2>2. ASSUME NEW w \in Zombies, worker' = [worker EXCEPT ![w].at = "gone"],
                 stack' = [stack EXCEPT ![Depth].one = TRUE, ![Depth].log = "want"]
          PROVE  IInv'
      <3> DEFINE a == [Top EXCEPT !.one = TRUE, !.log = "want"]
      <3>1. a \in Activation /\ a.at = "wait" /\ a.log = "want" /\ a.sig = Top.sig
        BY <1>0, <2>1 DEF Activation, At
      <3>2. stack' = [stack EXCEPT ![Depth] = a]
        BY <1>0, <2>2 DEF Top, Activation, StackType
      <3>3. Replaced("wait", "want")
        BY <1>0, <3>1, <3>2, TopReplaced
      <3>4. /\ Depth > 1 /\ Depth' = Depth /\ Main' = Main
            /\ StackType(stack') /\ StackInv' /\ LockInv'
        BY <2>1, <3>3, HandlerGoes
      <3>5. /\ worker'[w] = [worker[w] EXCEPT !.at = "gone"]
            /\ \A v \in Workers : v # w => worker'[v] = worker[v]
            /\ w \in Workers /\ worker[w].at = "zombie"
        BY <1>0, <2>2 DEF Zombies
      <3>6. /\ worker'[w] \in WorkerType /\ worker'[w].role = worker[w].role
            /\ worker'[w].as = worker[w].as /\ worker'[w].blocked = worker[w].blocked
            /\ worker'[w].at = "gone"
        BY <1>0, <3>5 DEF WorkerLabels
      <3>7. worker' \in [Workers -> WorkerType]
        BY <1>0, <2>2, <3>6
      <3>8. NoChildForgotten'
        <4>1. Zombies' \subseteq Zombies
          BY <3>5, <3>6 DEF Zombies
        <4>2. \A i \in 2..Depth : stack'[i].sig = stack[i].sig /\ stack'[i].at = stack[i].at
          BY <1>0, <2>1, <3>3, <3>4 DEF Replaced, At, Top
        <4> QED BY <2>1, <3>4, <4>1, <4>2 DEF IInv, NoChildForgotten
      <3> QED BY <1>0, <1>2, <2>1, <3>4, <3>5, <3>6, <3>7, <3>8, StackMoves DEF WaitPid
    <2>3. CASE Zombies = {} /\ worker' = worker /\ \E l \in {"no", "want"} : Goto("done", l)
      <3>1. PICK l \in {"no", "want"} : Goto("done", l)
        BY <2>3
      <3>2. Replaced("done", l)
        BY <1>0, <3>1, GotoReplaces
      <3>3. /\ Depth > 1 /\ Depth' = Depth /\ Main' = Main
            /\ StackType(stack') /\ StackInv' /\ LockInv'
        BY <2>1, <3>2, HandlerGoes
      <3>4. NoChildForgotten'
        BY <2>3 DEF NoChildForgotten, Zombies
      <3> QED BY <1>0, <1>2, <2>1, <2>3, <3>3, <3>4, StackMoves DEF WaitPid
    <2> QED BY <1>2, <2>2, <2>3 DEF WaitPid
  <1> QED BY <1>1, <1>2

(* localtime_r: the lock is taken and given back by the top of the stack.  *)
LEMMA LogPreserves == ASSUME IInv, LogLock \/ LogUnlock PROVE IInv'
  <1>0. /\ StackType(stack) /\ tz \in 0..Depth /\ Depth \in Nat /\ Depth >= 1 /\ Depth = Len(stack)
        /\ Top \in Activation /\ Top = stack[Depth] /\ reap \in {0, 1}
        /\ worker \in [Workers -> [at : WorkerLabels, role : {"MASTER", "WORKER"},
                               blocked : BOOLEAN, pending : SUBSET Signals,
                               as : SUBSET {"MASTER", "WORKER"}]]
    BY TypeParts DEF IInv, RestType, StackType, Depth, Top
  <1>1. PICK l \in Logs : stack' = [stack EXCEPT ![Depth].log = l]
    BY DEF LogLock, LogUnlock
  <1> DEFINE a == [Top EXCEPT !.log = l]
  <1>2. a \in Activation /\ a.at = Top.at /\ a.log = l /\ a.sig = Top.sig
    BY <1>0 DEF Activation
  <1>3. stack' = [stack EXCEPT ![Depth] = a]
    BY <1>0, <1>1 DEF Activation, StackType
  <1>4. Replaced(Top.at, l)
    BY <1>0, <1>2, <1>3, TopReplaced
  <1>5. /\ Depth' = Depth /\ StackType(stack')
        /\ \A i \in 1..Depth : stack'[i].sig = stack[i].sig /\ stack'[i].at = stack[i].at
        /\ \A i \in 1..Depth : i # Depth => stack'[i] = stack[i]
        /\ stack'[Depth].log = l
    BY <1>0, <1>4 DEF Replaced, Depth
  <1>6. StackInv' /\ Main'.at = Main.at
    BY <1>0, <1>5 DEF IInv, StackInv, Main
  <1>7. LockInv' /\ tz' \in 0..Depth'
    <2>1. CASE LogLock
      <3>1. tz = 0 /\ tz' = Depth /\ Top.log = "want"
        BY <2>1 DEF LogLock
      <3>2. l = "held"
        BY <1>0, <1>3, <1>5, <2>1 DEF LogLock, StackType, Activation
      <3> QED BY <1>0, <1>5, <3>1, <3>2 DEF IInv, LockInv
    <2>2. CASE LogUnlock
      <3>1. tz' = 0 /\ Top.log = "held"
        BY <2>2 DEF LogUnlock
      <3>2. tz = Depth
        BY <1>0, <3>1 DEF IInv, LockInv
      <3>3. l = "no"
        BY <1>0, <1>3, <1>5, <2>2 DEF LogUnlock, StackType, Activation
      <3> QED BY <1>0, <1>5, <3>1, <3>2, <3>3 DEF IInv, LockInv
    <2> QED BY <2>1, <2>2
  <1>8. NoChildForgotten'
    <2>1. Zombies' = Zombies /\ alive' = alive /\ pending' = pending
      BY DEF LogLock, LogUnlock, Zombies
    <2> QED BY <1>0, <1>5, <2>1 DEF IInv, NoChildForgotten
  <1> QED BY <1>0, <1>5, <1>6, <1>7, <1>8, StackMoves DEF LogLock, LogUnlock

(* The top of the stack is popped; main may be woken by it.                *)
LEMMA ReturnPreserves == ASSUME IInv, HandlerReturn PROVE IInv'
  <1>0. /\ StackType(stack) /\ tz \in 0..Depth /\ Depth \in Nat /\ Depth = Len(stack)
        /\ DOMAIN stack = 1..Depth
        /\ Top = stack[Depth] /\ Main = stack[1] /\ Main \in Activation /\ reap \in {0, 1}
        /\ worker \in [Workers -> [at : WorkerLabels, role : {"MASTER", "WORKER"},
                               blocked : BOOLEAN, pending : SUBSET Signals,
                               as : SUBSET {"MASTER", "WORKER"}]]
    BY TypeParts DEF IInv, RestType, StackType, Depth, Top, Main
  <1>1. /\ Top.at = "done" /\ Top.log = "no" /\ tz' = tz /\ alive' = alive /\ pending' = pending
        /\ worker' = worker
    BY DEF HandlerReturn, At
  <1>2. Depth > 1
    BY <1>0, <1>1 DEF StackType, IInv, StackInv, MainLabels
  <1>3. tz # Depth
    BY <1>0, <1>1, <1>2 DEF IInv, LockInv
  <1>4. /\ StackType(stack') /\ Depth' = Depth - 1
        /\ \A i \in 2..(Depth - 1) : stack'[i] = stack[i]
        /\ stack'[1].log = stack[1].log
        /\ \/ stack'[1].at = stack[1].at
           \/ stack[1].at = "asleep" /\ stack'[1].at = "awake"
    <2>1. CASE Depth = 2 /\ Main.at = "asleep"
      <3> DEFINE m == [Main EXCEPT !.at = "awake"]
      <3>1. m \in Activation /\ m.sig = Main.sig /\ m.log = Main.log /\ m.at = "awake"
        BY <1>0 DEF Activation, MainLabels
      <3>2. stack' = <<m>>
        BY <2>1 DEF HandlerReturn
      <3> HIDE DEF m
      <3>3. stack' \in Seq(Activation) /\ Len(stack') = 1 /\ stack'[1] = m
        BY <3>1, <3>2
      <3> QED BY <1>0, <2>1, <3>1, <3>3 DEF StackType, Depth
    <2>2. CASE ~(Depth = 2 /\ Main.at = "asleep")
      <3>1. stack' = SubSeq(stack, 1, Depth - 1)
        BY <2>2 DEF HandlerReturn
      <3>2. /\ stack' \in Seq(Activation) /\ Len(stack') = Depth - 1
            /\ \A i \in 1..(Depth - 1) : stack'[i] = stack[i]
        BY <1>0, <1>2, <3>1 DEF StackType
      <3>3. stack'[1] = stack[1] /\ \A i \in 2..(Depth - 1) : stack'[i] = stack[i]
        BY <1>0, <1>2, <3>2
      <3>4. Depth' = Depth - 1
        BY <3>2 DEF Depth
      <3>5. StackType(stack')
        BY <1>0, <1>2, <3>2, <3>3 DEF StackType
      <3> QED BY <3>3, <3>4, <3>5
    <2> QED BY <2>1, <2>2
  <1>5. StackInv'
    BY <1>0, <1>2, <1>4 DEF IInv, StackInv, Main, MainLabels
  <1>6. LockInv' /\ tz' \in 0..Depth'
    <2>1. \A i \in 1..(Depth - 1) : stack'[i].log = stack[i].log
      BY <1>0, <1>4
    <2> QED BY <1>0, <1>1, <1>2, <1>3, <1>4, <2>1 DEF IInv, LockInv
  <1>7. NoChildForgotten'
    <2>1. Zombies' = Zombies
      BY <1>1 DEF Zombies
    <2>2. ASSUME NEW i \in 2..Depth, stack[i].sig = "CHLD", stack[i].at \in {"enter", "wait"}
          PROVE  i \in 2..Depth' /\ stack'[i] = stack[i]
      BY <1>0, <1>1, <1>4, <2>2
    <2> QED BY <1>1, <2>1, <2>2 DEF IInv, NoChildForgotten
  <1>8. Main'.at = Main.at \/ (Main.at = "asleep" /\ Main'.at = "awake")
    BY <1>4 DEF Main
  <1> QED BY <1>0, <1>1, <1>4, <1>5, <1>6, <1>7, <1>8, StackMoves DEF HandlerReturn

(* A signal is delivered: a handler is pushed, the process ends, or        *)
(* nothing happens.                                                        *)
LEMMA DeliverPreserves == ASSUME IInv, NEW s \in Signals, Deliver(s) PROVE IInv'
  <1>0. /\ StackType(stack) /\ tz \in 0..Depth /\ Depth \in Nat /\ Depth >= 1 /\ Depth = Len(stack)
        /\ RestType
    BY TypeParts DEF IInv, StackType, Depth
  <1>1. /\ UNCHANGED <<startVars, tz, reap, sent>> /\ pending' = pending \ {s}
    BY DEF Deliver
  <1>2. CASE s \in Handled /\ installed
    <2> DEFINE h == Activate(s, "enter")
    <2>1. stack' = Append(stack, h) /\ UNCHANGED <<alive, status, worker>>
      BY <1>2 DEF Deliver
    <2>2. h \in Activation /\ h.sig = s /\ h.at = "enter" /\ h.log = "no"
      BY DEF Activate, Activation
    <2> HIDE DEF h
    <2>3. /\ stack' \in Seq(Activation) /\ Depth' = Depth + 1 /\ stack'[Depth + 1] = h
          /\ \A i \in 1..Depth : stack'[i] = stack[i]
      BY <1>0, <2>1, <2>2 DEF StackType, Depth
    <2>4. StackType(stack') /\ Main' = Main
      BY <1>0, <1>2, <2>2, <2>3 DEF StackType, Depth, Main
    <2>5. TypeOK'
      BY <1>0, <1>1, <2>1, <2>3, <2>4 DEF RestType, TypeOK, StackType, Depth, Main
    <2>6. StackInv'
      BY <1>0, <2>2, <2>3, <2>4 DEF IInv, StackInv
    <2>7. LockInv'
      BY <1>0, <1>1, <2>2, <2>3 DEF IInv, LockInv
    <2>8. StartInv'
      <3>1. Main.at \notin {"title", "spawn"}
        BY DEF Deliver, Deliverable, IInv, StartInv
      <3> QED BY <1>1, <1>2, <2>1, <2>4, <3>1 DEF IInv, StartInv
    <2>9. RoleInv'
      BY <2>1 DEF IInv, RoleInv
    <2>10. NoChildForgotten'
      <3>1. Zombies' = Zombies
        BY <2>1 DEF Zombies
      <3>2. CASE s = "CHLD"
        BY <1>0, <2>2, <2>3, <3>2 DEF NoChildForgotten
      <3>3. CASE s # "CHLD"
        BY <1>0, <1>1, <2>1, <2>3, <3>1, <3>3 DEF IInv, NoChildForgotten
      <3> QED BY <3>2, <3>3
    <2> QED BY <2>5, <2>6, <2>7, <2>8, <2>9, <2>10 DEF IInv
  <1>3. CASE ~(s \in Handled /\ installed) /\ s # "CHLD"
    <2>1. End(Killed) /\ stack' = stack
      BY <1>3 DEF Deliver
    <2> QED BY <1>1, <2>1, EndPreserves DEF Killed, NotYet
  <1>4. CASE s = "CHLD" /\ ~installed
    <2>1. UNCHANGED <<stack, alive, status, worker>>
      BY <1>4 DEF Deliver
    <2>2. Zombies' = {}
      BY <1>4, <2>1 DEF IInv, StartInv, Zombies, WithSignals, WithWorkers
    <2>3. TypeOK'
      BY <1>0, <1>1, <2>1 DEF RestType, TypeOK, StackType, Depth, Main
    <2>4. StackInv' /\ LockInv' /\ StartInv' /\ RoleInv'
      BY <1>1, <2>1 DEF IInv, StackInv, LockInv, StartInv, RoleInv, Depth, Main
    <2> QED BY <2>2, <2>3, <2>4 DEF IInv, NoChildForgotten
  <1> QED BY <1>2, <1>3, <1>4 DEF Handled

-----------------------------------------------------------------------------
(* The theorems.                                                           *)

LEMMA InitEstablishes == ASSUME Init PROVE IInv
  <1>1. /\ stack = <<Activate("main", "load")>> /\ Activate("main", "load") \in Activation
        /\ Activate("main", "load").log = "no" /\ Activate("main", "load").at = "load"
        /\ Activate("main", "load").sig = "main"
    BY DEF Init, Activate, Activation, MainLabels
  <1>2. Depth = 1 /\ StackType(stack) /\ Main.at = "load" /\ Main.log = "no" /\ stack[1] = Main
    BY <1>1 DEF Depth, StackType, Main
  <1>3. RestType /\ tz = 0
    <2>1. worker \in [Workers -> [at : WorkerLabels, role : {"MASTER", "WORKER"},
                               blocked : BOOLEAN, pending : SUBSET Signals,
                               as : SUBSET {"MASTER", "WORKER"}]]
      BY DEF Init, WorkerLabels
    <2>2. 0 \in 0..ListenPortCount /\ 0 \in 0..WorkerProcesses
      BY MasterAssumption DEF MasterAssumption
    <2>3. sent \in [master : 0..MaxToMaster, worker : 0..MaxToWorkers]
      BY MasterAssumption DEF MasterAssumption, Init
    <2>4. NotYet \in NotYet..Killed /\ 0 \in 0..2
      BY DEF NotYet, Killed
    <2>5. alive \in BOOLEAN /\ installed \in BOOLEAN /\ blocked \in BOOLEAN
      BY DEF Init
    <2>6. pending \subseteq Signals /\ reap \in {0, 1}
      BY DEF Init
    <2>7. ports = 0 /\ inum = 0 /\ exitcode = 0 /\ status = NotYet /\ tz = 0
      BY DEF Init
    <2> QED BY <2>1, <2>2, <2>3, <2>4, <2>5, <2>6, <2>7 DEF RestType
  <1>4. TypeOK
    BY <1>2, <1>3, TypeParts
  <1>5. StackInv /\ LockInv
    BY <1>2, <1>3 DEF StackInv, LockInv, MainLabels
  <1>6. StartInv /\ RoleInv /\ NoChildForgotten
    BY <1>2 DEF Init, StartInv, RoleInv, NoChildForgotten, Zombies, WithSignals, WithWorkers
  <1> QED BY <1>4, <1>5, <1>6 DEF IInv

LEMMA NextPreserves == IInv /\ [Next]_vars => IInv'
  <1> SUFFICES ASSUME IInv, [Next]_vars PROVE IInv'
    OBVIOUS
  <1>1. CASE MasterStep
    BY <1>1, StartPreserves, SpawnPreserves, ExitPreserves, LogPreserves, HandlerPreserves,
       ReturnPreserves DEF MasterStep
  <1>2. ASSUME NEW s \in Signals, Deliver(s) \/ SendMaster(s) PROVE IInv'
    BY <1>2, DeliverPreserves, SendPreserves
  <1>3. ASSUME NEW w \in Workers,
               \/ WorkerStep(w)
               \/ Crash(w) /\ UNCHANGED <<startVars, stack, alive, tz, reap, status, sent>>
               \/ \E s \in Signals : SendWorker(w, s)
        PROVE  IInv'
    BY <1>3, WorkerPreserves, SendPreserves
  <1>4. CASE UNCHANGED vars
    BY <1>4 DEF vars, IInv, TypeOK, StackInv, LockInv, StartInv, RoleInv, NoChildForgotten,
                Zombies, Depth, Main
  <1> QED BY <1>1, <1>2, <1>3, <1>4 DEF Next

(* The shape of the stack, the holder of the lock, the order of the start, *)
(* the roles of workers: the invariant of master and workers.              *)
THEOREM MasterInvariance == Spec => []IInv
  BY InitEstablishes, NextPreserves, PTL DEF Spec

(* Type correctness: ports, workers and stack stay within their bounds.    *)
THEOREM MasterTypeCorrect == Spec => []TypeOK
  <1>1. IInv => TypeOK
    BY DEF IInv
  <1> QED BY <1>1, MasterInvariance, PTL

(* However SIGCHLDs merge, and whatever handlers interrupt one another, a  *)
(* worker that has ended is still to be found by a waitpid.                *)
THEOREM NoChildForgottenHolds == Spec => []NoChildForgotten
  <1>1. IInv => NoChildForgotten
    BY DEF IInv
  <1> QED BY <1>1, MasterInvariance, PTL

(* No handler runs between the mask and the last fork, and none runs in a  *)
(* worker that takes itself for the master.                                *)
THEOREM ForkUndisturbedHolds == Spec => []ForkUndisturbed
  <1>1. IInv => ForkUndisturbed
    BY DEF IInv, StartInv, RoleInv, ForkUndisturbed
  <1> QED BY <1>1, MasterInvariance, PTL
=============================================================================
