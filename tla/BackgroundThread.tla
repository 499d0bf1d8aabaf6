-------------------------- MODULE BackgroundThread --------------------------
(***************************************************************************)
(* leveldb util/env_posix.cc, Schedule and BGThread: the queue of the one  *)
(* background thread, which Schedule starts.  Callers signal the condition *)
(* variable only when they find the queue empty.  An item that runs may    *)
(* schedule again, as a compaction does.                                   *)
(***************************************************************************)
EXTENDS Integers, Sequences

CONSTANTS
    Items,          \* work items
    Schedulers      \* bound: threads that may be in Schedule at once

VARIABLES
    queue, started,
    mutex,          \* who has mu_: a caller, "bg" or "free"
    entering,       \* callers in Schedule: the item of each, or "none"
    bg,             \* the thread: "unborn", "lock", "check", "waiting", "woken", "running"
    running,        \* the item it runs
    ran,            \* ghost: what it has taken, in order
    scheduled       \* ghost: what was queued, in order

vars == <<queue, started, mutex, entering, bg, running, ran, scheduled>>

None == "none"

Init ==
    /\ queue = <<>> /\ started = FALSE /\ mutex = "free" /\ entering = [s \in Schedulers |-> None]
    /\ bg = "unborn" /\ running = None /\ ran = <<>> /\ scheduled = <<>>

Taken == {scheduled[i] : i \in 1 .. Len(scheduled)} \cup {entering[s] : s \in Schedulers}

\* A caller has the mutex; the rest of Schedule is Enqueue.
Schedule(s, i) ==
    /\ entering[s] = None /\ mutex = "free" /\ i \notin Taken
    /\ mutex' = s /\ entering' = [entering EXCEPT ![s] = i]
    /\ UNCHANGED <<queue, started, bg, running, ran, scheduled>>

\* Mutant: the signal is sent when there was work already.
EnqueueSignalsLate(s) ==
    /\ mutex = s /\ mutex' = "free"
    /\ started' = TRUE
    /\ bg' = IF ~started THEN "lock" ELSE IF queue # <<>> /\ bg = "waiting" THEN "woken" ELSE bg
    /\ queue' = Append(queue, entering[s]) /\ scheduled' = Append(scheduled, entering[s])
    /\ entering' = [entering EXCEPT ![s] = None] /\ UNCHANGED <<running, ran>>

\* Start the thread if there is none; signal it if the queue was empty; queue.
Enqueue(s) ==
    /\ mutex = s /\ mutex' = "free"
    /\ started' = TRUE
    /\ bg' = IF ~started THEN "lock" ELSE IF queue = <<>> /\ bg = "waiting" THEN "woken" ELSE bg
    /\ queue' = Append(queue, entering[s]) /\ scheduled' = Append(scheduled, entering[s])
    /\ entering' = [entering EXCEPT ![s] = None] /\ UNCHANGED <<running, ran>>

\* The thread's steps: lock, look at the queue, wait or take the first item.
Lock ==
    /\ bg \in {"lock", "woken"} /\ mutex = "free" /\ mutex' = "bg" /\ bg' = "check"
    /\ UNCHANGED <<queue, started, entering, running, ran, scheduled>>
Wait ==
    /\ bg = "check" /\ queue = <<>> /\ bg' = "waiting" /\ mutex' = "free"
    /\ UNCHANGED <<queue, started, entering, running, ran, scheduled>>

Take ==
    /\ bg = "check" /\ queue # <<>> /\ bg' = "running" /\ mutex' = "free"
    /\ running' = Head(queue) /\ ran' = Append(ran, running')
    /\ queue' = Tail(queue) /\ UNCHANGED <<started, entering, scheduled>>
Return ==
    /\ bg = "running" /\ bg' = "lock" /\ running' = None
    /\ UNCHANGED <<queue, started, mutex, entering, ran, scheduled>>

\* A wakeup without a signal.
SpuriousWakeup ==
    /\ bg = "waiting" /\ bg' = "woken"
    /\ UNCHANGED <<queue, started, mutex, entering, running, ran, scheduled>>

Thread == Lock \/ Wait \/ Take \/ Return
Next ==
    \/ \E s \in Schedulers, i \in Items : Schedule(s, i)
    \/ \E s \in Schedulers : Enqueue(s)
    \/ Thread \/ SpuriousWakeup

\* The thread and the callers go on, mutexes are handed out fairly, and work ends.
\* Spurious wakeups need not come.
Spec ==
    /\ Init /\ [][Next]_vars
    /\ SF_vars(Lock) /\ WF_vars(Wait) /\ WF_vars(Take) /\ WF_vars(Return)
    /\ \A s \in Schedulers : WF_vars(Enqueue(s))
-----------------------------------------------------------------------------
\* Everything that is scheduled is run: no signal is lost, however calls and the
\* thread's looks at the queue interleave.
AllRun == \A i \in Items : (\E k \in 1 .. Len(queue) : queue[k] = i) ~> (running = i)

\* In the order of the calls, and once.
InOrder == scheduled = ran \o queue
=============================================================================
