-------------------------- MODULE TaskOrchestrator --------------------------
(***************************************************************************)
(* The dependency-aware task orchestrator, agents/orchestrator.py.         *)
(*                                                                         *)
(* One thread at a time runs execute_pending (the execution lock is taken  *)
(* without waiting); the task lock is released between any two tasks and   *)
(* while a task is dispatched, so other threads submit, cancel, start and  *)
(* stop in between, and so may the agent handlers and event listeners the  *)
(* run itself calls.  A task is named by its place in submission order.    *)
(*                                                                         *)
(* A definition X_y is a mutant of X that no action uses: it is there to   *)
(* show that a property notices the mistake.                               *)
(***************************************************************************)
EXTENDS Integers, Sequences, FiniteSets

CONSTANTS
    MaxTasks,       \* max_tasks
    MaxAttempts,    \* bound: the largest max_attempts a task is given
    HistoryLimit,   \* history_limit, of run summaries
    MaxRuns         \* bound: runs ever begun

ASSUME OrchestratorAssumption ==
    /\ MaxTasks \in Nat
    /\ MaxAttempts \in Nat \ {0}
    /\ HistoryLimit \in Nat \ {0}
    /\ MaxRuns \in Nat

VARIABLES
    state,      \* "stopped", "running" or "executing"
    tasks,      \* the records, in submission order
    runner,     \* the thread inside execute_pending: where it is ...
    ids,        \* ... task_ids, the tasks pending when the run began
    unresolved, \* ... those the run has not dealt with
    at,         \* ... the task its pass over task_ids is at
    progress,   \* ... whether this pass has dealt with one
    runs,       \* _run_history: the status of each retained run
    runCount,   \* _run_count, and the runs cut short by an exception
    lastError,  \* _last_error
    cut         \* whether an exception ever cut a run short

runVars == <<runner, ids, unresolved, at, progress>>
vars == <<state, tasks, runner, ids, unresolved, at, progress, runs, runCount,
          lastError, cut>>

Finished == {"completed", "failed", "blocked", "cancelled"}
Blocking == {"failed", "blocked", "cancelled"}
TaskState == {"pending", "running"} \union Finished

Number == DOMAIN tasks
Task == [deps : SUBSET (1..MaxTasks), max : 1..MaxAttempts,
         state : TaskState, attempts : 0..MaxAttempts]

InState(S) == {i \in Number : tasks[i].state \in S}
Set(i, s) == [tasks EXCEPT ![i].state = s]

-----------------------------------------------------------------------------
(* _validate_acyclic, as what it decides: the depth-first search succeeds  *)
(* exactly when the tasks can be ranked above their dependencies.          *)
Acyclic(deps) ==
    \E rank \in [DOMAIN deps -> DOMAIN deps] :
        \A i \in DOMAIN deps : \A d \in deps[i] : rank[d] < rank[i]

(* A pending task that is ready to run, and one that never will be.        *)
Blocked_Early(i) == \E d \in tasks[i].deps : tasks[d].state # "completed"
Blocked(i) == \E d \in tasks[i].deps : tasks[d].state \in Blocking
Ready_Unblocked(i) == \A d \in tasks[i].deps : tasks[d].state # "pending"
Ready(i) == \A d \in tasks[i].deps : tasks[d].state = "completed"

(* What cancel accepts. *)
Cancellable_NotRunning(i) == tasks[i].state # "running"
Cancellable(i) == tasks[i].state = "pending"

(* The pending tasks that depend on i, directly or through one another,    *)
(* and i: the fixed point cancel reaches when asked to cascade.            *)
Dependents(i) ==
    LET reach[k \in 0..Len(tasks)] ==
            IF k = 0 THEN {i}
            ELSE reach[k - 1] \union
                 {j \in InState({"pending"}) :
                     tasks[j].deps \intersect reach[k - 1] # {}}
    IN  {j \in InState({"pending"}) : j \in reach[Len(tasks)]}

(* _run_status, from the states of the tasks of the run.                   *)
RunStatus ==
    CASE ids \subseteq InState({"completed"}) -> "completed"
      [] \E i \in ids : tasks[i].state = "completed" -> "partial"
      [] OTHER -> "failed"

-----------------------------------------------------------------------------
Init ==
    /\ state = "stopped"
    /\ tasks = <<>>
    /\ runner = "idle"
    /\ ids = {} /\ unresolved = {}
    /\ at = 0
    /\ progress = FALSE
    /\ runs = <<>>
    /\ runCount = 0
    /\ lastError = "none"
    /\ cut = FALSE

Start ==
    /\ state = "stopped"
    /\ state' = "running"
    /\ lastError' = "none"
    /\ UNCHANGED <<tasks, runVars, runs, runCount, cut>>

Stop ==
    /\ state = "running"
    /\ state' = "stopped"
    /\ UNCHANGED <<tasks, runVars, runs, runCount, lastError, cut>>

(* submit_plan: m more tasks, whose dependencies are among the old and the *)
(* new ones in any direction, so long as no cycle arises.                  *)
SubmitPlan ==
    \E m \in 1..(MaxTasks - Len(tasks)), max \in 1..MaxAttempts :
        LET old == Len(tasks)
        IN  \E deps \in [(old + 1)..(old + m) -> SUBSET (1..(old + m))] :
                /\ \A i \in DOMAIN deps : i \notin deps[i]
                /\ Acyclic([i \in 1..(old + m) |->
                        IF i <= old THEN tasks[i].deps ELSE deps[i]])
                /\ tasks' = tasks \o [k \in 1..m |->
                        [deps |-> deps[old + k], max |-> max,
                         state |-> "pending", attempts |-> 0]]
                /\ UNCHANGED <<state, runVars, runs, runCount, lastError, cut>>

Cancel(i) ==
    /\ Cancellable(i)
    /\ \E targets \in {{i}, Dependents(i)} :
          tasks' = [j \in Number |->
                       IF j \in targets
                       THEN [tasks[j] EXCEPT !.state = "cancelled"]
                       ELSE tasks[j]]
    /\ UNCHANGED <<state, runVars, runs, runCount, lastError, cut>>

-----------------------------------------------------------------------------
(* execute_pending, one step for each time it holds the task lock. *)

Begin ==
    /\ runner = "idle"
    /\ runCount < MaxRuns
    /\ state = "running"
    /\ state' = "executing"
    /\ lastError' = "none"
    /\ runner' = "scan"
    /\ ids' = InState({"pending"})
    /\ unresolved' = InState({"pending"})
    /\ at' = 0
    /\ progress' = FALSE
    /\ UNCHANGED <<tasks, runs, runCount, cut>>

(* "orchestrator must be running" is raised inside the try.                *)
BeginRefused ==
    /\ runner = "idle"
    /\ state = "stopped"
    /\ lastError' = "refused"
    /\ UNCHANGED <<state, tasks, runVars, runs, runCount, cut>>

(* The pass reaches the next task of the run it has not dealt with.        *)
Reaches(i) ==
    /\ runner = "scan"
    /\ i \in unresolved /\ i > at
    /\ \A j \in unresolved : j > at => j >= i

Resolve_All(i) ==
    /\ unresolved' = {}
    /\ progress' = TRUE
    /\ at' = i
Resolve(i) ==
    /\ unresolved' = unresolved \ {i}
    /\ progress' = TRUE
    /\ at' = i

SkipTask(i) ==
    /\ Reaches(i)
    /\ tasks[i].state # "pending"
    /\ Resolve(i)
    /\ UNCHANGED <<state, tasks, runner, ids, runs, runCount, lastError, cut>>

BlockTask(i) ==
    /\ Reaches(i)
    /\ tasks[i].state = "pending" /\ Blocked(i)
    /\ tasks' = Set(i, "blocked")
    /\ Resolve(i)
    /\ UNCHANGED <<state, runner, ids, runs, runCount, lastError, cut>>

StartTask(i) ==
    /\ Reaches(i)
    /\ tasks[i].state = "pending" /\ ~Blocked(i) /\ Ready(i)
    /\ tasks' = Set(i, "running")
    /\ runner' = "attempt"
    /\ at' = i
    /\ UNCHANGED <<state, ids, unresolved, progress, runs, runCount, lastError, cut>>

PostponeTask(i) ==
    /\ Reaches(i)
    /\ tasks[i].state = "pending" /\ ~Blocked(i) /\ ~Ready(i)
    /\ at' = i
    /\ UNCHANGED <<state, tasks, runner, ids, unresolved, progress, runs,
                   runCount, lastError, cut>>

(* A pass is over: go round again, or stop because nothing moves.          *)
EndPass ==
    /\ runner = "scan"
    /\ unresolved # {}
    /\ \A j \in unresolved : j <= at
    /\ runner' = IF progress THEN "scan" ELSE "stalled"
    /\ at' = 0
    /\ progress' = FALSE
    /\ UNCHANGED <<state, tasks, ids, unresolved, runs, runCount, lastError, cut>>

(* "dependencies did not resolve": every task left is blocked, whatever it *)
(* has become since the pass looked at it.                                 *)
BlockRest ==
    /\ runner = "stalled"
    /\ tasks' = [i \in Number |->
                    IF i \in unresolved
                    THEN [tasks[i] EXCEPT !.state = "blocked"]
                    ELSE tasks[i]]
    /\ unresolved' = {}
    /\ runner' = "scan"
    /\ UNCHANGED <<state, ids, at, progress, runs, runCount, lastError, cut>>

(* _execute_record: count the attempt, dispatch it, act on what comes back.*)
Attempt ==
    /\ runner = "attempt"
    /\ tasks' = [tasks EXCEPT ![at].attempts = @ + 1]
    /\ runner' = "dispatched"
    /\ UNCHANGED <<state, ids, unresolved, at, progress, runs, runCount, lastError, cut>>

Succeed ==
    /\ runner = "dispatched"
    /\ tasks' = Set(at, "completed")
    /\ runner' = "scan"
    /\ Resolve(at)
    /\ UNCHANGED <<state, ids, runs, runCount, lastError, cut>>

MayRetry_OffByOne(i) == tasks[i].attempts <= tasks[i].max
MayRetry(i) == tasks[i].attempts < tasks[i].max

Retry ==
    /\ runner = "dispatched"
    /\ MayRetry(at)
    /\ runner' = "attempt"
    /\ UNCHANGED <<state, tasks, ids, unresolved, at, progress, runs, runCount,
                   lastError, cut>>

Fail ==
    /\ runner = "dispatched"
    /\ ~MayRetry(at)
    /\ tasks' = Set(at, "failed")
    /\ runner' = "scan"
    /\ Resolve(at)
    /\ UNCHANGED <<state, ids, runs, runCount, lastError, cut>>

(* Any other exception, one of the approval gate or of the copying of an   *)
(* output, leaves _execute_record and the whole run.                       *)
Escape ==
    /\ runner = "dispatched"
    /\ runner' = "idle"
    /\ state' = IF state = "executing" THEN "running" ELSE state
    /\ lastError' = "escaped"
    /\ runCount' = runCount + 1
    /\ cut' = TRUE
    /\ UNCHANGED <<tasks, ids, unresolved, at, progress, runs>>

Finish ==
    /\ runner = "scan"
    /\ unresolved = {}
    /\ runner' = "idle"
    /\ runs' = LET all == Append(runs, RunStatus)
               IN  IF Len(all) > HistoryLimit THEN Tail(all) ELSE all
    /\ runCount' = runCount + 1
    /\ state' = "running"
    /\ lastError' = IF RunStatus = "completed" THEN lastError ELSE "incomplete"
    /\ UNCHANGED <<tasks, ids, unresolved, at, progress, cut>>

-----------------------------------------------------------------------------
RunStep ==
    \/ \E i \in Number :
          SkipTask(i) \/ BlockTask(i) \/ StartTask(i) \/ PostponeTask(i)
    \/ EndPass \/ BlockRest
    \/ Attempt \/ Succeed \/ Retry \/ Fail \/ Escape
    \/ Finish

Next ==
    \/ Start \/ Stop
    \/ SubmitPlan
    \/ \E i \in Number : Cancel(i)
    \/ Begin \/ BeginRefused
    \/ RunStep

Spec == Init /\ [][Next]_vars

(* The thread that runs the plan keeps going; in particular every agent    *)
(* handler returns or raises.                                              *)
FairSpec == Spec /\ WF_vars(RunStep)

-----------------------------------------------------------------------------
TypeOK ==
    /\ state \in {"stopped", "running", "executing"}
    /\ tasks \in Seq(Task) /\ Len(tasks) <= MaxTasks
    /\ runner \in {"idle", "scan", "stalled", "attempt", "dispatched"}
    /\ ids \subseteq Number /\ unresolved \subseteq ids
    /\ at \in 0..Len(tasks)
    /\ progress \in BOOLEAN
    /\ runs \in Seq({"completed", "partial", "failed"}) /\ Len(runs) <= HistoryLimit
    /\ runCount \in 0..MaxRuns
    /\ lastError \in {"none", "refused", "incomplete", "escaped"}
    /\ cut \in BOOLEAN

(* A task runs, and has completed, only after everything it depends on has *)
(* completed, whatever is cancelled or submitted meanwhile                 *)
(* (orchestrator.py:628).                                                  *)
DependenciesFirst ==
    \A i \in Number : tasks[i].state \in {"running", "completed"} =>
        \A d \in tasks[i].deps : tasks[d].state = "completed"

(* A blocked task has a cause: a dependency that failed, was blocked or    *)
(* was cancelled (orchestrator.py:610), unless an exception has cut a run  *)
(* short and left a task running for good.                                 *)
BlockedForCause ==
    \A i \in InState({"blocked"}) :
        cut \/ \E d \in tasks[i].deps : tasks[d].state \in Blocking

(* Attempts agree with the outcome: only a task that ran has any, a failed *)
(* one has used them all, none has more than its max_attempts.             *)
AttemptsMatchOutcome ==
    \A i \in Number :
        /\ tasks[i].attempts <= tasks[i].max
        /\ tasks[i].state \in {"pending", "blocked", "cancelled"} => tasks[i].attempts = 0
        /\ tasks[i].state = "failed" => tasks[i].attempts = tasks[i].max
        /\ tasks[i].state = "completed" => tasks[i].attempts > 0

(* Claimed at orchestrator.py:254: failures block their dependents and     *)
(* independent work goes on, so a run that is over has dealt with every    *)
(* task it took on.                                                        *)
RunResolvesAll ==
    runner = "idle" => \A i \in ids : tasks[i].state \in Finished

(* A finished task never changes state: what was cancelled is not blocked  *)
(* or run later (_TERMINAL_STATES, orchestrator.py:259), until an exception*)
(* has cut a run short.                                                    *)
FinishedStays ==
    [][cut \/ \A i \in Number : tasks[i].state \in Finished => tasks'[i] = tasks[i]]_vars

(* Dependencies are acyclic over all plans together, so every task that a  *)
(* run took on gets an outcome in the end, if no exception cuts it short   *)
(* (orchestrator.py:590).                                                  *)
PendingResolved ==
    \A i \in 1..MaxTasks : (runner = "scan" /\ i \in unresolved) ~>
        (cut \/ (i \in Number /\ tasks[i].state \in Finished))
=============================================================================
