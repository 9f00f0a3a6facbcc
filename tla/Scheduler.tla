------------------------------ MODULE Scheduler ------------------------------
(***************************************************************************)
(* The task scheduler, core/scheduler.py.                                  *)
(*                                                                         *)
(* run_pending is called by the background worker in its loop and by any   *)
(* other thread (main.py calls it while the worker runs): it reads the     *)
(* clock, takes the due tasks under the lock and runs them after that.     *)
(* Controllers start and stop the worker; stop reads the worker under the  *)
(* lock, and signals and joins it outside.                                 *)
(*                                                                         *)
(* A task is named by its sequence number.  How long the worker waits      *)
(* between two rounds (poll interval, next due time, wake event) is        *)
(* abstracted: a wait may end at any time.                                 *)
(*                                                                         *)
(* A definition X_y is a mutant of X that no action uses: it is there to   *)
(* show that a property notices the mistake.                               *)
(***************************************************************************)
EXTENDS Integers, Sequences, FiniteSets, Functions

CONSTANTS
    Caller,         \* threads that call run_pending
    Controller,     \* threads that call start and stop
    Delay,          \* the delays of one-time tasks
    Interval,       \* the intervals of recurring tasks
    MaxTasks,       \* bound: tasks ever scheduled
    MaxWorkers,     \* bound: worker threads ever created
    MaxTime         \* bound: the clock stops here

ASSUME SchedulerAssumption ==
    /\ Delay \subseteq Nat
    /\ Interval \subseteq Nat \ {0}
    /\ MaxTasks \in Nat /\ MaxWorkers \in Nat /\ MaxTime \in Nat
    /\ (Caller \union Controller) \intersect (1..MaxWorkers) = {}

VARIABLES
    clock,      \* the monotonic clock
    tasks,      \* the scheduled tasks (_tasks)
    sequence,   \* _sequence
    thread,     \* the worker in _thread, or 0
    created,    \* worker threads created so far
    stopEvent,  \* _stop_event
    pc,         \* where each thread is
    now,        \* the time each thread read in run_pending
    batch,      \* the tasks each thread has taken and not yet run (executions)
    target,     \* the worker each controller is stopping
    trail       \* for each task: the times that its takers read, how often it
                \* was started, its interval, whether it was cancelled or cleared

runVars == <<now, batch>>
vars == <<clock, tasks, sequence, thread, created, stopEvent, pc, now, batch,
          target, trail>>

Worker == 1..MaxWorkers
Actor == Caller \union Worker
Task == 1..MaxTasks
Once == 0           \* the interval of a one-time task (None in the code)

Alive == {w \in Worker : pc[w] \notin {"new", "dead"}}
Idle(c) == pc[c] = "idle"
NoTrail == [read |-> <<>>, starts |-> 0, every |-> Once, dropped |-> FALSE]

-----------------------------------------------------------------------------
Due(i, t) == tasks[i].due <= t

(* The due tasks in the order (due_at, sequence): the k-th of them has     *)
(* k - 1 before it.                                                        *)
Before(i, j) == tasks[i].due < tasks[j].due \/ (tasks[i].due = tasks[j].due /\ i < j)
DueInOrder(t) ==
    LET due == {i \in DOMAIN tasks : Due(i, t)}
    IN  [k \in 1..Cardinality(due) |->
            CHOOSE i \in due : Cardinality({j \in due : Before(j, i)}) = k - 1]

(* What taking them leaves: the recurring ones, due again one interval     *)
(* after the time the run began.                                           *)
Remaining_Kept(t) ==
    [i \in DOMAIN tasks |->
        IF Due(i, t) THEN [tasks[i] EXCEPT !.due = t + tasks[i].every] ELSE tasks[i]]
Remaining_FixedRate(t) ==
    [i \in {j \in DOMAIN tasks : Due(j, t) => tasks[j].every # Once} |->
        IF Due(i, t) THEN [tasks[i] EXCEPT !.due = @ + tasks[i].every] ELSE tasks[i]]
Remaining(t) ==
    [i \in {j \in DOMAIN tasks : Due(j, t) => tasks[j].every # Once} |->
        IF Due(i, t) THEN [tasks[i] EXCEPT !.due = t + tasks[i].every] ELSE tasks[i]]

Dropping(S) == [i \in Task |->
    IF i \in S THEN [trail[i] EXCEPT !.dropped = TRUE] ELSE trail[i]]

-----------------------------------------------------------------------------
Init ==
    /\ clock = 0
    /\ tasks = [i \in {} |-> 0]
    /\ sequence = 0
    /\ thread = 0
    /\ created = 0
    /\ stopEvent = FALSE
    /\ pc = [a \in Actor \union Controller |-> IF a \in Worker THEN "new" ELSE "idle"]
    /\ now = [a \in Actor |-> 0]
    /\ batch = [a \in Actor |-> <<>>]
    /\ target = [c \in Controller |-> 0]
    /\ trail = [i \in Task |-> NoTrail]

Tick ==
    /\ clock < MaxTime
    /\ clock' = clock + 1
    /\ UNCHANGED <<tasks, sequence, thread, created, stopEvent, pc, runVars,
                   target, trail>>

(* schedule_once and schedule_every read the clock before they take the    *)
(* lock, so a due time may be reckoned from a time that is past.  They,    *)
(* cancel and clear are called by any thread, callbacks included.          *)
Add(due, every) ==
    /\ sequence < MaxTasks
    /\ sequence' = sequence + 1
    /\ tasks' = [i \in DOMAIN tasks \union {sequence + 1} |->
                    IF i = sequence + 1 THEN [due |-> due, every |-> every] ELSE tasks[i]]
    /\ trail' = [trail EXCEPT ![sequence + 1].every = every]
    /\ UNCHANGED <<clock, thread, created, stopEvent, pc, runVars, target>>

ScheduleOnce == \E t \in 0..clock, d \in Delay : Add(t + d, Once)

ScheduleEvery ==
    \E t \in 0..clock, every \in Interval :
        \E initial \in {0, every} : Add(t + initial, every)

Cancel(i) ==
    /\ i \in DOMAIN tasks
    /\ tasks' = [j \in DOMAIN tasks \ {i} |-> tasks[j]]
    /\ trail' = Dropping({i})
    /\ UNCHANGED <<clock, sequence, thread, created, stopEvent, pc, runVars, target>>

Clear ==
    /\ tasks' = [i \in {} |-> 0]
    /\ trail' = Dropping(DOMAIN tasks)
    /\ UNCHANGED <<clock, sequence, thread, created, stopEvent, pc, runVars, target>>

-----------------------------------------------------------------------------
(* run_pending *)

ReadClock(a) ==
    /\ \/ a \in Caller /\ Idle(a)
       \/ a \in Worker /\ pc[a] = "loop" /\ ~stopEvent
    /\ now' = [now EXCEPT ![a] = clock]
    /\ pc' = [pc EXCEPT ![a] = "take"]
    /\ UNCHANGED <<clock, tasks, sequence, thread, created, stopEvent, batch,
                   target, trail>>

TakeDue(a) ==
    /\ pc[a] = "take"
    /\ batch' = [batch EXCEPT ![a] = DueInOrder(now[a])]
    /\ tasks' = Remaining(now[a])
    /\ trail' = [i \in Task |->
                    IF i \in DOMAIN tasks /\ Due(i, now[a])
                    THEN [trail[i] EXCEPT !.read = Append(@, now[a])]
                    ELSE trail[i]]
    /\ pc' = [pc EXCEPT ![a] = "run"]
    /\ UNCHANGED <<clock, sequence, thread, created, stopEvent, now, target>>

StartTask(a) ==
    /\ pc[a] = "run" /\ batch[a] # <<>>
    /\ trail' = [trail EXCEPT ![Head(batch[a])].starts =
                    IF @ < 2 THEN @ + 1 ELSE @]     \* counted up to two
    /\ pc' = [pc EXCEPT ![a] = "calling"]
    /\ UNCHANGED <<clock, tasks, sequence, thread, created, stopEvent, runVars, target>>

(* The callback returns, or raises: what is due after it runs all the same.*)
TaskEnds_Fatal(a) ==
    /\ pc[a] = "calling"
    /\ \/ /\ batch' = [batch EXCEPT ![a] = Tail(@)]
          /\ pc' = [pc EXCEPT ![a] = "run"]
       \/ /\ pc' = [pc EXCEPT ![a] = IF a \in Worker THEN "dead" ELSE "idle"]
          /\ UNCHANGED batch
    /\ UNCHANGED <<clock, tasks, sequence, thread, created, stopEvent, now, target, trail>>
TaskEnds(a) ==
    /\ pc[a] = "calling"
    /\ batch' = [batch EXCEPT ![a] = Tail(@)]
    /\ pc' = [pc EXCEPT ![a] = "run"]
    /\ UNCHANGED <<clock, tasks, sequence, thread, created, stopEvent, now, target, trail>>

EndRun(a) ==
    /\ pc[a] = "run" /\ batch[a] = <<>>
    /\ pc' = [pc EXCEPT ![a] = IF a \in Worker THEN "wait" ELSE "idle"]
    /\ UNCHANGED <<clock, tasks, sequence, thread, created, stopEvent, runVars,
                   target, trail>>

-----------------------------------------------------------------------------
(* _worker_loop *)

EndWait(w) ==
    /\ pc[w] = "wait"
    /\ pc' = [pc EXCEPT ![w] = "loop"]
    /\ UNCHANGED <<clock, tasks, sequence, thread, created, stopEvent, runVars,
                   target, trail>>

WorkerExits(w) ==
    /\ pc[w] = "loop" /\ stopEvent
    /\ pc' = [pc EXCEPT ![w] = "dead"]
    /\ UNCHANGED <<clock, tasks, sequence, thread, created, stopEvent, runVars,
                   target, trail>>

-----------------------------------------------------------------------------
(* start and stop *)

Startable_Any == TRUE
Startable == thread \notin Alive

Start(c) ==
    /\ Idle(c)
    /\ Startable
    /\ created < MaxWorkers
    /\ created' = created + 1
    /\ thread' = created + 1
    /\ stopEvent' = FALSE
    /\ pc' = [pc EXCEPT ![created + 1] = "loop"]
    /\ UNCHANGED <<clock, tasks, sequence, runVars, target, trail>>

BeginStop(c) ==
    /\ Idle(c)
    /\ thread \in Alive
    /\ target' = [target EXCEPT ![c] = thread]
    /\ pc' = [pc EXCEPT ![c] = "signal"]
    /\ UNCHANGED <<clock, tasks, sequence, thread, created, stopEvent, runVars, trail>>

SignalStop(c) ==
    /\ pc[c] = "signal"
    /\ stopEvent' = TRUE
    /\ pc' = [pc EXCEPT ![c] = "join"]
    /\ UNCHANGED <<clock, tasks, sequence, thread, created, runVars, target, trail>>

JoinTimesOut(c) ==
    /\ pc[c] = "join" /\ target[c] \in Alive
    /\ pc' = [pc EXCEPT ![c] = "idle"]
    /\ UNCHANGED <<clock, tasks, sequence, thread, created, stopEvent, runVars,
                   target, trail>>

Joined(c) == target[c] \notin Alive

EndStop(c) ==
    /\ pc[c] = "join" /\ Joined(c)
    /\ thread' = 0
    /\ pc' = [pc EXCEPT ![c] = "idle"]
    /\ UNCHANGED <<clock, tasks, sequence, created, stopEvent, runVars, target, trail>>

-----------------------------------------------------------------------------
Running(a) == TakeDue(a) \/ StartTask(a) \/ TaskEnds(a) \/ EndRun(a)
Working(w) == Running(w) \/ ReadClock(w) \/ EndWait(w) \/ WorkerExits(w)

Next ==
    \/ Tick
    \/ ScheduleOnce \/ ScheduleEvery
    \/ \E i \in Task : Cancel(i)
    \/ Clear
    \/ \E a \in Caller : ReadClock(a) \/ Running(a)
    \/ \E w \in Worker : Working(w)
    \/ \E c \in Controller :
          Start(c) \/ BeginStop(c) \/ SignalStop(c) \/ JoinTimesOut(c) \/ EndStop(c)

Spec == Init /\ [][Next]_vars

(* The worker thread is scheduled: its waits have a timeout, and the       *)
(* callbacks it runs return or raise.                                      *)
FairSpec == Spec /\ \A w \in Worker : WF_vars(Working(w))

-----------------------------------------------------------------------------
TypeOK ==
    /\ clock \in 0..MaxTime
    /\ DOMAIN tasks \subseteq 1..sequence
    /\ \A i \in DOMAIN tasks : tasks[i].due \in Nat /\ tasks[i].every \in Interval \union {Once}
    /\ sequence \in 0..MaxTasks
    /\ thread \in 0..created /\ created \in 0..MaxWorkers
    /\ stopEvent \in BOOLEAN
    /\ \A a \in DOMAIN pc : pc[a] \in
          {"idle", "take", "run", "calling", "wait", "loop", "new", "dead", "signal", "join"}
    /\ now \in [Actor -> 0..MaxTime]
    /\ \A a \in Actor :
          /\ batch[a] \in Seq(1..sequence)
          /\ pc[a] = "calling" => batch[a] # <<>>
          /\ batch[a] # <<>> => pc[a] \in {"run", "calling"}
    /\ target \in [Controller -> 0..created]

(* However many threads run the scheduler, a one-time task is in one place *)
(* only: still scheduled, in one thread's hands, started once, or dropped. *)
(* So it runs once at most, none is lost to a callback that raises, and    *)
(* none that cancel or clear has dropped ever starts (scheduler.py:183).   *)
Places(i) ==
    (IF i \in DOMAIN tasks THEN 1 ELSE 0)
    + Cardinality({a \in Actor : i \in Range(
          IF pc[a] = "calling" THEN Tail(batch[a]) ELSE batch[a])})
    + trail[i].starts
    + (IF trail[i].dropped THEN 1 ELSE 0)
OneTimeConserved ==
    \A i \in 1..sequence : trail[i].every = Once => Places(i) = 1

(* Each thread reads the time before it waits for the lock, so several may *)
(* take a recurring task within one interval, even at one instant.  But    *)
(* what they gain does not add up, and the intervals in which nobody ran   *)
(* it are not made up for: since any of its takers read the clock, it was  *)
(* taken again once per interval at most (scheduler.py:191).               *)
PaceKept == \A i \in Task : \A k \in DOMAIN trail[i].read :
    trail[i].read[k] + (Len(trail[i].read) - k) * trail[i].every <= clock

(* The worker that is alive is the one _thread names: there is one at most *)
(* and is_running tells (scheduler.py:360).                                *)
WorkerKnown == \A w \in Alive : w = thread

(* What a worker is stopped for happens: it ends.                          *)
StopEnds ==
    \A c \in Controller, w \in Worker :
        (pc[c] = "join" /\ target[c] = w) ~> (w \notin Alive)

(* A due task is taken or dropped as long as nobody stops the worker,      *)
(* whatever its callbacks raise (scheduler.py:405).                        *)
DueTaken ==
    \A i \in Task, d \in 0..MaxTime :
        (thread \in Alive /\ i \in DOMAIN tasks /\ tasks[i].due = d /\ d <= clock)
        ~> (stopEvent \/ i \notin DOMAIN tasks \/ tasks[i].due # d)
=============================================================================
