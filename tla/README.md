# GhostFire OS: a verification project

TLA+ models of the services of GhostFire OS (a local, owner-supervised agent
runtime in Python), the TLC configurations that check them on small instances,
and proofs, checked by TLAPS, that hold for every instance. Every definition is
translated from the source under `src/`; `PROJECT.json` maps each one to the
lines it stands for.

Contents: [the system](#1-the-system) · [the plan](#2-the-plan) ·
[the modules](#3-the-modules) · [the runs](#4-the-runs-and-what-they-show) ·
[the proofs](#5-what-is-proved) · [disagreements](#6-where-code-and-docs-disagree) ·
[limits](#7-what-is-not-modelled)

## 1. The system

One process runs everything but the operator's tools. Threads come from the
scheduler's worker, the REST and WebSocket listeners (one thread for each
connection), the main loop and whoever calls the services. Each service guards
its state with a re-entrant lock of its own; none holds a lock of two services
at once, except that the tool registry and the service manager call out under
their locks.

| Component | Source | State | Operations | Talks to |
|---|---|---|---|---|
| Approval gate | `agents/approval.py` | records, fingerprint index, counters, bounded history | start, stop, authorize_or_request, approve, deny, cancel, readers that expire | asked by the policy; decided through the command interface; publishes events |
| Execution policy | `agents/policy.py` | rules, bounded decisions, counters, last decision | register/unregister rule, start, stop, evaluate, authorize | calls the gate between two takings of its lock |
| Agents, registry | `agents/framework.py`, `agents/registry.py` | state and active count of each agent; agents in order | register, unregister, start, stop, execute, dispatch | dispatch asks the policy, then executes; handlers call tools |
| Tool registry | `agents/tools.py` | tools with active counts, running or not | register, unregister, start, stop, invoke | asks the policy with its lock held |
| Task orchestrator | `agents/orchestrator.py` | tasks with states, attempts, dependencies; run history | start, stop, submit_plan, cancel, execute_pending | dispatches tasks to the agent registry |
| Service manager | `core/service_manager.py` | services, their state and dependencies | register, unregister, start(_all), stop(_all), restart, check_health, status | calls the services' callbacks under its lock |
| REST API | `api/rest.py` | server, its socket and thread; requests under way | start, stop, a thread for each request | started and stopped by the service manager, which its requests ask for the state of all services |
| Logging | `core/logging.py` | its subscription, closed or not | attach to and detach from the bus, shutdown, record an event | a wildcard listener of the event bus |
| Event bus | `core/eventbus.py` | listeners in order | subscribe, unsubscribe, clear, emit | calls listeners outside the lock |
| Scheduler | `core/scheduler.py` | tasks by due time, worker thread, stop event | schedule, cancel, clear, run_pending, start, stop | callbacks run outside the lock |
| WebSocket channel | `api/websocket.py` | listener, open connections, counters | start, stop, a thread for each connection | command handler, approval commands |
| Approval commands | `agents/approval_commands.py` | running or not, counters, audit history | start, stop, execute | authenticates, then calls the gate |
| Token store | `agents/approval_tokens.py` | one file | provision, rotate, load, metadata, verify | several processes, no lock |
| Operator console, owner workflow | `agents/approval_operator_console.py`, `agents/approval_owner.py` | a list, a selection, a session history | refresh, select, decide | one WebSocket exchange for each request |
| Composition root | `main.py` | none | builds the components, registers their callbacks, starts all | service manager |
| Dashboard, configuration, ledger client, stubs, scripts | `cli/`, `config/`, ... | none that lasts | | |

What is hard to get right, and what the properties are about:

* **Time and locks.** The gate and the scheduler read the clock before they
  take their lock, so what they do is stamped with a time that may be past.
* **Acting on what was true.** The policy judges, releases its lock, asks the
  gate and then corrects what it recorded; dispatch selects an agent, asks, and
  executes later; the console looks over one connection and decides over
  another; the token store looks and then replaces.
* **Bounded memories.** Histories and archives drop their oldest members while
  other code still means to update them.
* **Failure half way.** Callbacks, handlers, writes and replies raise; rollback,
  retry and `finally` clauses must leave exactly the right state.
* **Stopping.** Stops race with starts, handshakes, callbacks and executions.
* **Processes that die**, replies that are lost and power that fails (the token
  file, the operator console).

For each component, what makes it correct:

* gate: nothing is used without a grant, more than once, or after its expiry;
  the index and the records agree, the oldest finished records go first, and no
  more of them than needed; what is announced is true;
* policy and execution: nothing runs without a decision that allows it, and each
  decision is counted and remembered once, as what came of it; what runs is
  counted and cannot be stopped or removed;
* orchestrator: dependencies first; a run gives every task an outcome with a
  cause; attempts agree with outcomes; finished tasks stay as they are; runs end;
  what an approval does for a task that is retried;
* service manager: up only above running dependencies; rollback is exact, a
  restart restores, stopping all leaves nothing up; no operation waits for what
  waits for it;
* REST API: its port is bound exactly as long as it is up;
* event bus: once-listeners once, everybody hears, in order; the logger never
  loses hold of its subscription;
* scheduler: a one-time task runs once or is dropped; what stale times gain on a
  recurring task does not add up; one worker; a stopped worker ends, a due task is
  taken;
* token store: always a whole envelope or none; no litter; answers are current;
* WebSocket channel: what stop finds is shut and stays so; counters agree;
* owner's decisions: one verdict for a request, and none after its withdrawal; the
  console's memory is true.

The hazards in `PROJECT.json` give the lines where each of these could go wrong.

## 2. The plan

Done, in this order: the approval gate with its abstraction and proofs; the
orchestrator with its proofs; the service manager with the two graph searches;
the event bus; the scheduler; the policy composed with the abstract gate,
agents, registry and tools; the token store; the WebSocket channel; the
owner's consoles with the command interface. Then the compositions: the REST
API as one of the manager's services (`Lifecycle`), the orchestrator over the
gate (`OrchestratedApproval`), the logger on the bus (`EventLog`); and proofs for
these and for the scheduler, the WebSocket channel and the owner's decisions.

Open, in the order of what it would add:

1. *Abstract specifications.* An atomic register for the token store, a bag of
   due tasks for the scheduler, an atomic `authorize` for the policy, and proofs
   that the components implement them.
2. *Composition.* `OwnerConsole`'s decisions on `WebSocket`'s connections, and
   over `OneTimeGrant`.
3. *More of the system.* The agents' memory; callbacks that call the service
   manager back.

## 3. The modules

Each component's module has its state as VARIABLES, an action for each
operation or critical section, and its properties at the end. `MC...` modules
add what only TLC needs (symmetry, small sets). A definition named `X_Variant`
right before `X` is a plausible mistake in the code `X` stands for; no action
uses it. `PROJECT.json` lists which property catches it, so that a property no
mistake can break is not kept.

**ApprovalGate** (`agents/approval.py`) — a call is two steps, because the code
samples the clock before the lock: `BeginAuthorize` and `BeginDecision`
record operation and time in `call`, and the body (`Consume`, `Replay`,
`Request`, `Decide`, `Cancel`, `Abandon` for calls that raise) sweeps expired
records with that time, acts, and prunes. `outbox` holds the events that are
published after the lock. **OneTimeGrant** is its abstraction: a standing for
each protected request, grants and uses; no identifiers, clocks or threads.
**ApprovalGateProofs** holds its theorems.

**TaskOrchestrator** (`agents/orchestrator.py`) — `runner` is the control point
of `execute_pending`: the scan over unresolved tasks, attempts with their retries,
the dispatch (the outcome is chosen: returns, fails, or escapes as an exception
that is not caught), the stall and the end. Submissions and cancellations come
between any two steps at which the lock is free. **TaskOrchestratorProofs** holds its
theorems. **DependencySearch** has both depth-first searches
(`_resolve_order_locked`, `_validate_acyclic`): the call stack of `visit`, with
where the loop of each call is, and `Step`, one turn of the innermost loop. `Search`
takes as many steps as there can be, which is a bound the proofs justify. `Lifecycle`
states what the searches must decide, `LifecycleProofs` proves it.

**OrchestratedApproval** composes it with the gate, seen as `OneTimeGrant` sees it:
the dispatch of a protected task asks (`Ask`) before its handler may return, and a
request is a task and the number of the attempt, because that number is in the
metadata the gate fingerprints. **TaskOrchestratorProofs** also shows that it
implements `TaskOrchestrator`, and more.

**ServiceManager** (`core/service_manager.py`) — `op` is the operation under
way: its order still to do, what it started, whether it is starting, stopping
or rolling back. Callbacks return or raise. The lock is held throughout, so one
operation runs at a time and what others can see is what callbacks see.
**Lifecycle** (`api/rest.py`, `main.py`) extends it: one of the services is the REST
API, whose `start` and `stop` are steps inside the manager's callbacks (`Bind`,
`Shutdown`, `ServerClose`), and whose requests are threads that take the
manager's lock once for each thing they ask. `Bind` is the binding and the start of
the server's thread in one (`rest.py:205`-`225`); a thread that the system refuses to
start is not modelled. **LifecycleProofs** holds its theorems.

**EventBus** (`core/eventbus.py`) — `emit` copies the listeners under the lock and
calls them without; `listeners` is a set, and `Audience` the one listing of it in
the order in which they are called; `stack` holds each thread's nested emits. **EventLog**
(`core/logging.py`) puts the logger on it: `remembered` is its `_event_subscription`,
`leaving` and `closing` are subscriptions that a detach or a shutdown has forgotten
and not yet withdrawn.

**Scheduler** (`core/scheduler.py`) — `pc`, `now` and `batch` of each thread that runs
pending tasks; `thread`, `stopEvent` and `target` for start and stop with its
join. Waiting times are abstracted to "may go on at any time". In the history variable
`trail`, `starts` and `dropped` tell the end of a one-time task, and `read` the times
that the takers of a recurring one had read.
**CoreProofs** holds its theorems and those about the bus and the logger.

**ExecutionPolicy** (`agents/policy.py`) — `authorize` as `Evaluate`, `AskGate`
or `GateRaises`, and `Replace`, the gate being an instance of `OneTimeGrant`; `ledger` is a
history variable with each evaluation's first and final effect.
**ExecutionPath** extends it with `agents/framework.py`, `agents/registry.py` and
`agents/tools.py`: `run` is the dispatch each thread is in, `toolLock` the lock
that `invoke` holds while it asks. An agent is an object that outlives its
registration: whoever has it (a dispatch, a `start_all` that listed it) may still
use it, and a later registration of the name is another agent.
**ExecutionPathProofs** holds the theorems about both.

**TokenStore** (`agents/approval_tokens.py`) — `_write_envelope` step by step for
each process (`CheckAgain` ... `RestrictMode`), `metadata` with its two reads,
failures (`Fail`), deaths (`Killed`) and power losses: `disk` is what the
directory on the disk names, and content that was not synchronised is lost.
`held` and `since` are history variables.

**WebSocket** (`api/websocket.py`) — `pc` of each connection's thread from the
handshake to the end, frames as kinds; `stop` in four steps with the snapshot
it works on. `late`, `seen` and `forgotten` are history variables.
**WebSocketProofs** holds its theorems.

**OwnerConsole** (`agents/approval_operator_console.py`, `approval_owner.py`,
`approval_commands.py`) — consoles as processes with what they show, select,
send, wait for and remember; `mail` holds the decisions under way, each executed by
a thread of the runtime whether its console still waits or not. Reading
exchanges are one step; any failure of an exchange ends the console.
`effective`, the decisions that changed a request in the order in which they did, is
a history variable.
**OwnerConsoleProofs** holds its theorems.

External code is modelled from its use: threads and their join, socket
acceptance, the file system's writing back, the gate's abstraction in the policy.

## 4. The runs and what they show

| Run | Instance | Shows |
|---|---|---|
| `Gate` | 2 threads, 3 requests, capacity 2, archive 1, expiry after 1 tick, symmetry | `IndexExact` one open approval for each request, reachable by its replay; `DecidedInTime` although times are stale; `OldestPrunedFirst`, and no more than needed; `TransitionsAnnounced`; `TerminalFinal`; `ImplementsOneTimeGrant`: one use for each grant |
| `OrchRuns` | every plan of up to 3 tasks, the first protected, 2 attempts, 2 runs | `DependenciesFirst`, `BlockedForCause`, `AttemptsMatchOutcome`, `FinishedStays`; `ApprovalComesTooLate`; liveness `PendingResolved` |
| `OrchEscape` | 2 tasks, 1 run | *violated*: `RunResolvesAll` |
| `Lifecycle` | the REST API and 2 other services, every dependency graph, 1 request at a time, symmetry | `UpOnlyWithDependencies`, `RollbackExact`, `RestartRestores`, `StopAllEmpties`; `NeverStuck`, `PortReleased`; `OrderExact` and `AcyclicIsRanked`: both searches against their references |
| `BusSafety` | 2 threads, 2 listeners, 3 emits, nesting 2, the logger, symmetry | `OnceAtMostOnce`, `EveryoneHears`, `NoForgottenEar` |
| `SchedRuns` | main thread and worker, 2 tasks, 2 workers, 1 tick | `OneTimeConserved`, `WorkerKnown`; `PaceKept`, though two threads may take a task at one instant; liveness `StopEnds`, `DueTaken` |
| `ExecutionPath` | 2 threads, 1 agent, 1 tool, 2 rules, 3 evaluations, history 2, 2 grants, symmetry | `FailClosed`, `BooksAgree`, `BusyWhileActive`, `ToolHeld` |
| `TokenStore` | 2 processes, 3 tokens, 1 power loss, symmetry | `AlwaysWhole`, `Tidy`, `AnswersCurrent` |
| `TokenRace` | 2 processes, no power loss | *violated*: `NeverOverwritten` |
| `WebSocket` | 2 connections, 2 controllers, 2 listeners, 2 frames each | `ActiveExact`, `OneAfterShut`, `StopShutsWhatItSaw` |
| `WebSocketStop` | 1 connection | *violated*: `StopCloses` |
| `OwnerConsole` | 2 consoles, 2 requests, 2 decisions, history 1, symmetry | `HistoryTrue`, `OneVerdict` and none after a withdrawal |

`TypeOK` documents the variables of each module; what a proof needs of it is part
of the proof's inductive invariant. The runs check what says more.

**Bounds.** Two threads (processes, consoles, connections) are where the races
are: every race among the hazards is between two actors, and the gate's third request is
there to fill the capacity of two. Limits are as small as they can be reached
and passed: one archived record with two finished ones, a history of two with
three decisions, one remembered decision with two made. Tokens are three so
that a rotation falls between the two reads of `metadata` and another after
them. One tick is enough for the scheduler: a task that is taken with the time 0
read is due again at 1, where the main thread and the worker may both take it, and a
third take there would break `PaceKept`. Three services or tasks give every shape of a chain, a fork and a join,
and cycles. Counters that only grow are capped by a named bound in a guard
(`MaxRequests`, `MaxTime`, `MaxRuns`, `MaxEvents`, `MaxWorkers`,
`MaxDecisions`, `MaxGrants`, `MaxTokens`, `MaxPowerLosses`, `MaxListeners`,
`MaxConnections`, `MaxFrames`, `MaxSends`, and the sets of threads). One request at
a time is enough for the REST API, whose requests change nothing another could see.

**Deadlock.** Five passing runs say `CHECK_DEADLOCK FALSE`. In `ExecutionPath`,
`TokenStore`, `WebSocket` and `OwnerConsole` a behaviour ends where its bounds
are used up. In `Lifecycle` it ends in a graph of dependencies with a cycle that
takes in every service: each operation raises and changes nothing. That no
operation waits for ever is there the invariant `NeverStuck`: whenever one is under
way, its next step is enabled, and so is what the code needs for it (`CanGoOn`). The
other runs check deadlock.

**Symmetry** is used only over model values the specification never orders,
and only in runs without liveness properties.

**Fairness.** `OrchestratedApproval!OFairSpec` is weak fairness of the run's own
steps: `execute_pending` is a loop in the thread that called it, which nothing
blocks. `Scheduler!FairSpec` is weak fairness of each worker's steps for the same
reason; its wait has a timeout, so it always goes on. Callbacks and dispatches
are assumed to return: the code has no time limit for them. No fairness is
assumed of clients, owners, operators or the clock: nobody owes a decision.
Safety runs use no fairness.

**One controller.** `Scheduler`'s start and stop are called by the service manager
with its lock held, so one thread at a time is in them; the run has one, and the
theorem assumes one. Two would break `WorkerKnown` (section 6).

## 5. What is proved

The theorems hold for every value of the constants that the modules' ASSUME
statements allow (finite sets, positive limits; TLC evaluates them in the runs).

* `ApprovalGateProofs!IndexAlwaysExact` and `AlwaysDecidedInTime`. Neither
  invariant is inductive alone: expiry walks the *index*, so a record that is
  open but not indexed would never expire, and a sweep with a stale time says
  nothing of records that a later call made. The inductive invariant `IInv` adds
  that identifiers are at most the sequence number, that every record is well
  formed (decided before its expiry, consumed before its expiry) and that clock
  and calls are typed; `TableOK` states the first two, with the agreement of table
  and index, of any table, index and number, so that the lemmas `PruneKeepsTable`,
  `SweepKeepsTable` and `UpdateKeepsTable` can be used on the intermediate
  tables inside a step. `StepPreserves` has one case for each action.
* `ApprovalGateProofs!AlwaysImplementsOneTimeGrant`: every step of the gate maps to
  a step of `OneTimeGrant` or to a stutter, where the standing of a request is the
  status of the record its fingerprint leads to. It rests on `IInv`, for without
  the agreement of table and index the mapping would read somebody else's record.
  A sweep at a sampled time is the abstraction's lapse of a set of subjects
  (`SweepLapses`), pruning loses nothing the index leads to (`PruneStands`), and
  what the body then does is one `Ask`, `Grant`, `Refuse`, `Use` or `Withdraw` on
  top of it, a lemma for each.
* `ApprovalGateProofs!AlwaysTerminalFinal`, from the same invariant: each step
  sweeps and then changes at most one record, which was open (`ChangeIsFinal`).
* `ApprovalGateProofs!OldestAlwaysPrunedFirst` counts instead of walking the list of
  finished records: a finished record is dropped when `HistoryLimit` or more finished
  ones are newer (`Newer`), one that is kept has fewer, so what is dropped is older.
  Once anything is dropped, exactly `HistoryLimit` are left (`PruneExact`).
  A call prunes twice, after its sweep and after its own change.
* `ApprovalGateProofs!TypeAlwaysCorrect` and `TransitionsAlwaysAnnounced`. `Rest` has the
  types that the table does not settle, among them that requests under way have
  identifiers left to draw. That every change is announced needs one fact more, that
  a thread comes into the lock with an empty outbox (`Silent`); then each body is
  looked at with what it writes to the outbox and to the table, the sweep included.
* `ApprovalGateProofs!EveryGrantUsedOnce` uses the refinement: the approvals that stand
  and those that were consumed are together no more than the owner has given. It
  is proved of the steps of `OneTimeGrant` and so holds of the gate, with its clocks,
  sweeps and threads.
* `TaskOrchestratorProofs!DependenciesAlwaysFirst`. The invariant adds where the
  runner is: while it scans, no task it still has to resolve has been touched;
  while it attempts one, that task is running and the other unresolved ones are
  untouched; dependencies and the unresolved set name tasks that exist. So a
  completed task is never touched again, and a task starts only where the scan
  found its dependencies completed (`ChangeKeepsDependencies`). `AttemptsAlwaysMatch`
  has an invariant of its own, `AInv`: every task is `Sound`, with a count of
  attempts that fits its state; one whose attempt begins has attempts left, and one
  that is dispatched has been counted.
* `TaskOrchestratorProofs!AlwaysBlockedForCause`, `NeverStalls` and
  `FinishedAlwaysStays`. `Calm` says what holds until an exception cuts a run short:
  what the unresolved tasks depend on is finished or unresolved itself, and a pass
  that has dealt with nothing has found each task it looked at waiting. The
  dependencies of all plans together are acyclic, and in tasks that can be ranked
  not all of a set wait for another of it (`NoCircle`, by the least rank; that a
  plan accepted on top of others leaves the union acyclic is what `Submit`'s
  guard gives). So no run gives up, nothing is blocked without a dependency that
  failed, and nothing finished is blocked over: the stall
  (`orchestrator.py:658`) is reached only after such an exception.
* `TaskOrchestratorProofs!Implements`: every step of the composition is one of
  the orchestrator's or a stutter, so what is proved of the orchestrator holds of
  the composition and is used there. `ApprovalsAlwaysTooLate` adds `GInv`: nothing
  stands at the gate for an attempt that has not asked yet (`Ahead`). So each
  attempt is refused when it asks, and since attempts only grow, an approval
  that comes later is for an attempt that is over.
* `TokenStoreProofs!FileAlwaysWhole` and `TemporaryAlwaysTidy`. That the file is
  whole is what the order of the steps of `_write_envelope` gives, so the
  invariant carries what a process has established where it is: a drawn envelope
  once it is built, a temporary file that holds one once it is written, and that
  file synchronised before it replaces the token file. Every named file is
  therefore durable, and a power loss (`SurvivorDurable`) finds nothing to tear.
* `TokenStoreProofs!AnswersAlwaysCurrent` speaks of the past, so `HInv` relates where a
  process is to what the file has held: the newest content is the file, a process
  that has replaced the file finds its envelope among the contents, and one
  between its two reads finds there what it has read, not before its operation
  began and not before its own envelope.
* `OwnerConsoleProofs!HistoryAlwaysTrue` and `AlwaysOneVerdict`. What took effect
  stays visible in the status of its request (`Settled`): after a verdict only a
  withdrawal is accepted, and after a withdrawal nothing. What a reply reports was done (`MailTrue`), and a console that waits
  still has the action and selection its message carries (`AwaitsOwn`), so what
  it remembers when the reply comes is true.
* `WebSocketProofs!ActiveAlwaysExact`, `AtMostOneAfterShut` and `StopAlwaysShuts`.
  The last needs a witness: for every connection that a stop saw and that is open,
  there is a stop still closing it (`Closing`). The second needs to know where a
  handler is that has begun something on a connection already shut: past the
  reading, from where the only way is out.
* `CoreProofs!WorkerAlwaysKnown`, for one controller: what is being stopped is
  what `_thread` names, and nothing starts a worker in between.
* `CoreProofs!OneTimeAlwaysConserved` and `PaceAlwaysKept`, for any number of threads
  that take, run, cancel and clear. A one-time task is at each time in exactly one
  place, the table, one thread's batch, or its end (`InOnePlace`); to move it from
  the table to one batch, and once, needs that the listing of the due tasks holds each
  of them once. It is defined by the rank of each in the order of the sort, and the
  lemmas show that ranks are a bijection. A recurring task is due an
  interval for each time it was taken after what any of its takers read (`Spaced`),
  and who takes it finds that past by the clock he has read, which is behind
  the real one (`CoreProofs!RInv`).
* `CoreProofs!AlwaysOnceAtMostOnce`, `EveryoneAlwaysHears` and `NeverForgottenEar`, for any
  threads, listeners, events and depth of nesting. What was copied under the lock
  decides: a once-listener is in one event's audience at most and off the bus from
  then on (`Copied`), and each emit under way has called a first part of its
  audience and holds the rest (`Dispatched`), though callbacks subscribe,
  unsubscribe and emit meanwhile. The logger's invariant adds that a shutdown
  withdraws a subscription only while it is at it (`EarInv`).
* `LifecycleProofs!PortAlwaysReleased`: the three parts of the server (`server`, `bound`,
  `accepting`) follow the manager's status of the service; they differ from
  each other only while the service is stopping, and it is starting or stopping
  only while `op` is at it. `RollbackAlwaysExact` and `StopAllAlwaysEmpties` use
  another invariant, `OInv`, about the operation and not about the server: what
  runs besides what ran before is what the operation has started (`Brought`) or
  still has to undo (`Undoing`), and what is up is what `stop_all` still has to
  stop (`Emptying`).
* `LifecycleProofs!AlwaysUpOnlyWithDependencies` and `RestartAlwaysRestores` are about the
  order. Of what is still to do, a start comes to nothing before what it depends on
  (`StartsInOrder`), a stop or a rollback to nothing before what is up above
  it (`StopsInOrder`), and what has been started is listed below what it needs
  (`StartedInOrder`), so that its reverse undoes it in order. What a stop takes out
  of the reverse of an order keeps to it because dependents are closed
  (`PickedInReverse`), and what a restart starts again stands on itself and on
  what it left alone (`Restorable`), unless the service was down (`bare`). The
  proofs rest on `Orders`, what the depth-first search may return, and the next
  theorem justifies that.
* `LifecycleProofs!OrderAlwaysExact` and `AcyclicAlwaysRanked`: for every finite graph,
  however it is written down and whatever is asked for, the manager's search returns an
  order of exactly what is needed, or raises when there is none, and the
  orchestrator's accepts exactly what can be ranked. `SearchInv` is inductive over the
  steps of the search. `Under` says what the stack is: each loop but the innermost is
  at the node the next one belongs to, and all before that is done. `Listing` says that
  what is done is listed below what depends on it. `Wanted` says of every set that is
  closed under dependencies that the search has stayed in it, and of every
  ranking that the stack goes down in it: so a node met again on the stack refutes
  all rankings, and one that is not registered is in all closed sets. `Needed` is
  the least of these (`NeededIsLeast`), so what is done at the end is `Needed`
  (`EndedIsClosed`, `OrderIsFound`). The search ends because each step that is not the
  last spends a tick of its own, a pair of a node and a place in its loop
  (`GoingOnSpends`, `ReturnSpends`), of which there are finitely many
  (`SpentIsBounded`). That the steps make up a function at all (`RunExists`)
  follows from the least number for which they would not.
* `LifecycleProofs!OperationGoesOn` is the half of `NeverStuck` that does not use
  ENABLED: what the next step needs (`CanGoOn`) is there. `Kinds` adds to `IInv` and `DInv`
  that only what starts has a service starting and only what stops has one stopping,
  and that a restart keeps an order to restore from; out of an order any part can be
  picked (`OnlyExists`).
* `ExecutionPathProofs!AlwaysFailClosed`, `BooksAlwaysAgree`,
  `BusyAlwaysWhileActive` and `ToolAlwaysHeld`. All rest on `AInv`: a decision
  whose thread is at the gate, or comes from it, is still recorded as `approval`
  and belongs to no other thread (`CallOK`), so to replace it cannot take back what
  runs already; what a dispatch runs on is a decision that allows (`RunOK`); and
  uses are the approvals spent and those about to be, never more than the grants
  that are left allow (`Tallies`). Next to it, `EInv` counts who executes; `TInv`
  knows that whoever waits for a decision about a tool holds the registry's
  lock, so that nobody unregisters the tool meanwhile; and `BInv` keeps history,
  counts and `last` in step with what came of each evaluation, for any limit of
  the history (`AppendTells`).

* The safety halves of the liveness properties: each step of the one who is
  scheduled lowers something well-founded, and no step of anybody else raises it.
  `TaskOrchestratorProofs!RunsAdvance` for a run and `OrchestratedRunsAdvance` with the gate in
  between: `Variant` counts, in order of weight, the tasks left to deal with, whether
  another pass follows, the tasks left of this pass and the tries left of the task at hand
  (`VariantAlwaysNumbers`; `Below` is the order of the dictionary). `RunGoesOn` says that
  wherever the run is, the guard of one of its steps holds, and `RunsResolveAll` that a run
  that is over left nothing open unless an exception cut it short (`RInv`: what the
  run took on and no longer holds is finished). `CoreProofs!StopsAdvance` and `DueAlwaysAdvances` for
  the scheduler's worker and one controller: `WorkLeft` bounds the steps before it looks at the
  stop event again, `TakeLeft` those before it takes what is due, and nobody clears the
  event, ends the worker or makes another meanwhile. These steps never lack a guard: a
  worker alive is always at a place its loop has a step for (`WInv`).

Only model-checked, because they are out of the prover's reach: that fairness turns these
into liveness (`PendingResolved`, `StopEnds`, `DueTaken`), and of `NeverStuck` the half that
says ENABLED. Every other property of the passing runs is stated by a theorem. `DInv`, `HInv` and
`EachGrantOnce` were checked on the runs' instances before they were proved.

## 6. Where code and docs disagree

Shown by a run:

* `OrchEscape`: an exception other than `AgentFrameworkError` and
  `ExecutionPolicyError` leaves `execute_pending`; its task stays RUNNING for
  ever and independent tasks are not run (`orchestrator.py:801` against `:254`).
  Approval-gate errors and a failing copy of an output are such exceptions.
* `TokenRace`: the later of two concurrent provisionings replaces the token of
  the earlier one (`approval_tokens.py:626` against `:285`).
* `WebSocketStop`: a handshake in progress survives `stop` and is served
  (`websocket.py:351` against `:337`).

Met while modelling, without a run of their own:

* `ServiceManager.restart` of a stopped service starts it without its
  dependencies (`service_manager.py:339`; `bare` excuses that case in
  `UpOnlyWithDependencies`).
* `stop_all` raises, and stops nothing, when a registered service has a
  dependency nobody registered (`service_manager.py:297` against `:294`).
* `Agent.start` does not ask whether the agent is still registered: a `start_all`
  that listed an agent before it was unregistered brings it online, and a dispatch
  that had selected it executes (`registry.py:188`, `framework.py:293`).
* The gate's capacity counts approved and denied requests too
  (`approval.py:313`; its error and the docstring at `:56` speak of pending
  ones).
* Listeners of a name are called before those of the wildcard, not in overall
  subscription order (`eventbus.py:140` against `:65`).
* A recurring task is scheduled from the time its taker read, before it waited for
  the lock (`scheduler.py:165`-`167`, `:191`), and not from the end of its callback, as
  the "fixed-delay recurrence" of `:116` says. So two threads may take it at one
  instant, which the instance of `SchedRuns` reaches; `PaceKept` is what holds of it.
* With two threads that stop and start, `Scheduler.stop` forgets a worker it did
  not stop (`scheduler.py:296`), and `WebSocketCommandServer.stop` a listener
  that another thread started meanwhile (`websocket.py:373`).
* After a run was cut short, a stall can overwrite a cancellation
  (`orchestrator.py:662`). Without such an exception the stall is not reached at all:
  its branch is there for graphs that `submit` has refused (`NeverStalls`).
* `Agent.execute` copies the handler's output outside its `try`: when the copy
  raises, the agent stays BUSY for ever and cannot be stopped
  (`framework.py:448`; `leaks` in `ExecutionPath`).
* `metadata` reads the file twice, so it may pair the dates of one envelope with
  the fingerprint of the next (`approval_tokens.py:399`; `AnswersCurrent` states
  what does hold).
* Each attempt of an orchestrated task changes its metadata, so an approval
  granted for one attempt fits no other, and a task whose rule requires approval
  never completes (`orchestrator.py:797`; `ApprovalComesTooLate` states it, and a
  theorem).
* The operator console does not catch the workflow's errors: a lost reply ends
  it, and a decision that took effect may be in nobody's session history
  (`approval_operator_console.py:569`).

## 7. What is not modelled

* The wording, formatting, hashing, encryption and validation of inputs: data
  the properties do not tell apart. Symbolic-link checks and file modes.
* Callbacks that call the manager back, and its published events. Of `check_health`
  and the status of a service only the sections of the lock are there.
* The agents' memory, a bounded map under the agent's own lock that nothing else
  reads; result histories, counts of invocations and the last errors.
* Of logging: lines, levels, files and their rotation.
* Authentication is a choice: a handshake or a decision may be refused.
* The dashboard, configuration, ledger client, stubs and scripts: input and
  output, sequential code or code without state. Of the composition root only its
  services and their callbacks (`PROJECT.json` gives the reason for each).
