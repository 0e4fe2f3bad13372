----------------------------- MODULE WorkQueue -----------------------------
(***************************************************************************)
(* What the epoll thread expects of the thread pool: a message handed over *)
(* is started once, in the order of handing over, and finished; messages   *)
(* are thrown away only when the pool closes, and none is running then.    *)
(***************************************************************************)
EXTENDS Sequences

CONSTANT Messages

VARIABLES pending, started, finished, open

Init == pending = <<>> /\ started = {} /\ finished = {} /\ open = TRUE

Submit(m) ==
    /\ open /\ m \notin {pending[i] : i \in DOMAIN pending} \cup started
    /\ pending' = Append(pending, m)
    /\ UNCHANGED <<started, finished, open>>

Start ==
    /\ open /\ pending # <<>>
    /\ started' = started \cup {Head(pending)}
    /\ pending' = Tail(pending)
    /\ UNCHANGED <<finished, open>>

Finish(m) ==
    /\ open /\ m \in started \ finished
    /\ finished' = finished \cup {m}
    /\ UNCHANGED <<pending, started, open>>

Close ==
    /\ open /\ started = finished
    /\ pending' = <<>> /\ open' = FALSE
    /\ UNCHANGED <<started, finished>>

Next == (\E m \in Messages : Submit(m) \/ Finish(m)) \/ Start \/ Close

Spec == Init /\ [][Next]_<<pending, started, finished, open>>

=============================================================================
